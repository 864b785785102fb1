SPECIFICATION Spec
CONSTANTS
    idle = idle  a = a  b = b
    NoThread = NoThread
    Thread <- MCThread
    Idle = idle
    Main = a
    Static = {b}
    Cleanup = {b}
    PriorityMax = 3
    InitPriority <- MCPriority
    InitTick = 1
    MaxLock = 1
    MaxIrq = 2
INVARIANTS
    TypeOK ReadyQueues GroupExact SwitchSound RunningIsHighest
    TimerOnlySuspended FreedUnreferenced DeletedStaysOut
PROPERTIES
    LockKeepsProcessor
