SPECIFICATION Spec

CONSTANTS
    MaxSlot = 2
    MaxCatchUp = 1
    MaxPasses = 2
    MaxFaults = 1

INVARIANTS
    TypeOK
    RunOnceButForAReason
PROPERTIES
    SkippedStaysOut
    DueIsServed

CHECK_DEADLOCK FALSE
