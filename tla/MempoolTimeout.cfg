SPECIFICATION Spec
CONSTANTS
    Thread = {a, b, c}
    Priority <- MCPriority
    Flag = "FIFO"
    Block = {x, y}
    NoThread = NoThread
    MaxCount = 4
INVARIANT
    CountsPended
