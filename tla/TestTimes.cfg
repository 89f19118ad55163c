CONSTANTS
    idle = idle
    vcpu = vcpu
    iothread = iothread
    other = other
    kick = kick
    eoi = eoi
    Task = {idle, vcpu, iothread, other}
    Idle = idle
    Qemu = {vcpu, iothread}
    Vcpu = vcpu
    NetperfPid = other
    Reason = {kick, eoi}
    Ending = {kick}
    MaxTrace = 5
    Time <- MCTime
SPECIFICATION Spec
CHECK_DEADLOCK FALSE
INVARIANTS
    FailsOnlyForStrayed
    TimesPerTransaction
