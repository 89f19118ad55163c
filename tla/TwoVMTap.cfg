CONSTANTS
    a = a
    b = b
    NoPid = NoPid
    NoCore = NoCore
    Pid = {p1, p2}
    Core = {3}
    VM <- MCVM
    NetserverCore <- MCNetserverCore
    VmPairs <- MCVmPairs
    MaxTap = 2
    SysctlPresent = FALSE
    CsumOffVM = {}
    NoPollVM = {}
    ConfigVM = {}
    PinnedVM = {}
SPECIFICATION FaultFreeSpec
INVARIANT TapAssertionHolds
CHECK_DEADLOCK FALSE
