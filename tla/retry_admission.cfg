SPECIFICATION Spec
CONSTANTS
    Sessions = {s1}
    MaxResumes = 1
    MaxWaits = 3
    Moves = {"crash", "prompt"}
    MaxTicks = 1
INVARIANTS
    TypeOK
    ReservedWhilePending
    StoppedStays
