SPECIFICATION Spec
CONSTANTS
    Callers = {a1, b1, c1}
    Pid <- MCPid
    NoOne = NoOne
    MaxRounds = 1
    Timely = TRUE
    A = A
    B = B
    C = C
    a1 = a1
    a2 = a2
    b1 = b1
    c1 = c1
INVARIANTS
    MutualExclusion
CHECK_DEADLOCK FALSE
