CONSTANTS
    m = m
    q = q
    d = d
    p1 = p1
    p2 = p2
    NoPid = NoPid
    NoCore = NoCore
    Pid <- MCPid
    Core <- MCCore
    VM <- MCVM
    NetserverCore <- MCNetserverCore
    VmList <- MCVmList
    MaxTap = 2
    SysctlPresent = TRUE
    CsumOffVM = {m}
    NoPollVM = {q}
    ConfigVM = {m}
    PinnedVM = {m}
    Enabled = {m, q}
SPECIFICATION FairSpec
INVARIANTS
    TypeOK
    MeasuresOwnQemu
    PidIsOwn
    MeasuresOwnConfiguration
    TapGuardsHost
    CleanFinish
PROPERTIES
    LeaseSpec
    SessionEnds
