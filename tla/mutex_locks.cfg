SPECIFICATION Spec
CONSTANTS
    Callers = {a1, a2, b1}
    Pid <- MCPid
    NoOne = NoOne
    MaxRounds = 2
    Timely = FALSE
    A = A
    B = B
    C = C
    a1 = a1
    a2 = a2
    b1 = b1
    c1 = c1
INVARIANTS
    TypeOK
    BoundedOverlap
PROPERTIES
    NeverWedged
    ImplementsLeasedLock
CHECK_DEADLOCK FALSE
