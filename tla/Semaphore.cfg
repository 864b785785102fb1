SPECIFICATION FairSpec
CONSTANTS
    Thread = {a, b, c}
    Priority <- MCPriority
    Flag = "FIFO"
    MaxValue = 2
INVARIANTS
    TypeOK TokensConserved NoIdleToken WaitersQueued ResumesThreads
PROPERTIES
    WaiterServed
