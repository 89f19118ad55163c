CONSTANTS
    throughput = throughput
    log = log
    packets = packets
    ratio = ratio
    VmNum = 3
    XNum = 1
    Graphs <- MCGraphs
    Ratio <- MCRatio
    SameData <- MCSameData
    Pairs <- MCPairs
    MaxSessions = 2
    MaxLost = 2
    MaxFaults = 1
SPECIFICATION Spec
CHECK_DEADLOCK FALSE
INVARIANTS
    FoldersHoldTheirPair
    PublishedIfMeasured
PROPERTY CompleteResultsKept
