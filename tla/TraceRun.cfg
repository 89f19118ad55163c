CONSTANTS
    m = m
    v = v
    p1 = p1
    p2 = p2
    NoPid = NoPid
    NoCore = NoCore
    Pid <- MCPid
    Core <- MCCore
    VM <- MCVM
    NetserverCore <- MCNetserverCore
    MaxTap = 1
    SysctlPresent = TRUE
    CsumOffVM = {m}
    NoPollVM = {}
    ConfigVM = {}
    PinnedVM = {m}
    MaxRecords = 2
    MaxFaults = 2
SPECIFICATION FairSpec
INVARIANTS
    RunsAsAnnounced
    MergesOwnTest
    HostAfterRun
    NoFaultNoAbort
PROPERTIES
    LeaseSpec
    RunEnds
