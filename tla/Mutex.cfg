SPECIFICATION Spec
CONSTANTS
    high = high  middle = middle  low = low
    Thread = {high, middle, low}
    Priority <- MCPriority
    Flag = "PRIO"
    Mutex = {m1, m2}
    NoMutex = NoMutex
    NoThread = NoThread
    NoPriority = 3
    MaxHold = 2
SYMMETRY Symmetry
CHECK_DEADLOCK FALSE
INVARIANTS
    TypeOK Ownership PriorityRestored Inherited
