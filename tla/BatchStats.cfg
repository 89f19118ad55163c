SPECIFICATION Spec
CONSTANTS
    Alphabets <- MCAlphabets
    MaxTrace = 6
INVARIANTS
    TypeOK
    KeepsPairs
    KeepsGaps
    KeepsSeries
    KeepsNested
    EventsAddUp
    CsvFromCleanBatches
CHECK_DEADLOCK FALSE
