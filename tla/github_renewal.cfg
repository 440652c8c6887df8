SPECIFICATION Spec
CONSTANTS
    Instances = {i1, i2}
    MaxTokens = 3
    MaxStolen = 1
    Prompt = TRUE
    Faults = TRUE
INVARIANTS
    TypeOK
    RefusedForAReason
    NotDroppedForARace
CHECK_DEADLOCK FALSE
