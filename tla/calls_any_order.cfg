SPECIFICATION Spec

CONSTANTS
  a = a
  b = b
  c = c
  Coordinator = coordinator
  NoThread = noThread
  Tasks = {a}
  Workers = {w1}
  Owner <- MCOwner
  DependsOn <- MCDependsOn
  Slots = {s1, s2}
  OpIds = {i1, i2}
  MaxVersion = 2
  MaxCycle = 1
  Outside = {"draft", "activate", "assign", "report", "steer", "auditor", "audit"}
  SteersStopped = FALSE
  MayFail = TRUE
  TornSaves = TRUE

INVARIANTS
  TypeOK
  StoredSound
  OnceOnly

SYMMETRY CallSymmetry

CHECK_DEADLOCK FALSE
