SPECIFICATION Spec

CONSTANTS
  a = a
  b = b
  c = c
  Coordinator = coordinator
  NoThread = noThread
  Tasks = {a, c}
  Workers = {w1, w2}
  Owner <- MCOwner
  DependsOn <- MCDependsOn
  Slots = {s1, s2}
  OpIds = {i1, i2, i3}
  MaxVersion = 1
  MaxCycle = 1
  Outside = {}
  SteersStopped = TRUE
  MayFail = TRUE
  TornSaves = FALSE

INVARIANTS
  NoStaleRead
PROPERTIES
  ImplementsEngine

SYMMETRY CallSymmetry

CHECK_DEADLOCK FALSE
