CONSTANTS
    HalfRange = 32
    GuestStart = {0, 9}
    HalfSecond = 1
    Pause = {3, 4}
    MaxBoots = 2
    MaxEvents = 9
SPECIFICATION TracesSpec
CHECK_DEADLOCK FALSE
INVARIANTS
    WindowAsCommented
