CONSTANTS
    kvmExits = kvmExits
    batchCount = batchCount
    Netperf = Netperf
    VmNum = 2
    XNum = 2
    Retries = 2
    Sensors <- MCSensors
    Quiet = {batchCount}
    Ratios <- MCRatios
    MaxFaults = 2
    MaxRounds = 2
SPECIFICATION Spec
INVARIANTS
    TypeOK
    DeltaSpansItsTest
    RatioPairsAligned
    RatioWeighsPairsEqually
    NoSilentGap
    CutLeavesAPrefix
CHECK_DEADLOCK FALSE
