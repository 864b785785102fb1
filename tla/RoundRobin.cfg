SPECIFICATION FairSpec
CONSTANTS
    idle = idle  a = a  b = b
    NoThread = NoThread
    Thread <- MCThread
    Idle = idle
    Main = a
    Static = {idle, a, b}
    Cleanup = {}
    PriorityMax = 2
    InitPriority <- MCEqualPriority
    InitTick = 1
    MaxLock = 1
    MaxIrq = 1
PROPERTIES
    RoundRobin
