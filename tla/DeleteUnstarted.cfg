SPECIFICATION UnstartedSpec
CONSTANTS
    idle = idle  a = a  b = b
    NoThread = NoThread
    Thread <- MCThread
    Idle = idle
    Main = a
    Static = {}
    Cleanup = {}
    PriorityMax = 3
    InitPriority <- MCPriority
    InitTick = 1
    MaxLock = 1
    MaxIrq = 1
INVARIANT
    RunningIsHighest
