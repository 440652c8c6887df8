SPECIFICATION Spec

CONSTANTS
    MaxSlot = 2
    MaxCatchUp = 1
    MaxPasses = 1
    MaxFaults = 0

PROPERTIES
    FiredOnce

CHECK_DEADLOCK FALSE
