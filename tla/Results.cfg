CONSTANTS
    VmNum = 2
    XNum = 2
    Retries = 2
    GraphNum = 2
    Qemus = {}
    Takings <- MCTakings
    MaxSessions = 3
SPECIFICATION Spec
CHECK_DEADLOCK FALSE
INVARIANTS
    OneSessionPerTest
    InfoMatchesResults
PROPERTIES
    OldResultsKept
