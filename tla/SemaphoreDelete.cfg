SPECIFICATION DeleteSpec
CONSTANTS
    Thread = {a, b}
    Priority <- MCPriority
    Flag = "FIFO"
    MaxValue = 1
INVARIANT
    ResumesThreads
