SPECIFICATION Spec
CONSTANTS
    a = a  b = b  c = c
    Thread = {a, b, c}
    Priority <- MCPriority
    Flag = "PRIO"
    Mail = {m1, m2}
    NoMail = NoMail
    NoThread = NoThread
    Size = 2
SYMMETRY Symmetry
INVARIANTS
    TypeOK WaitersQueued NoLostWakeup
PROPERTIES
    NoOvertaking RefinesFifo
