SPECIFICATION Spec
CONSTANTS
    a = a  b = b
    Thread = {a, b}
    Priority <- MCPriority
    Flag = "FIFO"
    Isr = {irq}
    Message = {x, y}
    NoMessage = NoMessage
    NoSlot = NoSlot
    Size = 2
    Bit = {b1, b2}
SYMMETRY Symmetry
INVARIANTS
    TypeOK SlotsConserved NoLostWakeup NoneWaitsInVain
PROPERTIES
    RefinesUrgentFifo Delivered
