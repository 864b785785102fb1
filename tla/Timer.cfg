SPECIFICATION Spec
CONSTANTS
    a = a  b = b  c = c
    Timer = {a, b, c}
    RT_TICK_MAX = 9
    InitTicks <- MCInitTicks
    Modes <- MCModes
    MaxCalls = 1
    MaxLate = 1
INVARIANTS
    TypeOK Sorted LinkedCanBeStopped
PROPERTIES
    OnTime CheckEnds
