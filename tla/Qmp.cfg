CONSTANTS
    MaxCalls = 5
    MaxEvents = 2
SPECIFICATION FairSpec
INVARIANTS
    TypeOK
    AnswersLagByInterrupts
PROPERTY CallsReturn
CHECK_DEADLOCK FALSE
