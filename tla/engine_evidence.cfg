SPECIFICATION Spec

CONSTANTS
  a = a
  b = b
  c = c
  d = d
  Coordinator = coordinator
  NoThread = noThread
  Tasks = {a, c}
  Workers = {w1, w2}
  Owner <- MCOwner
  DependsOn <- MCDependsOn
  Evidence = {"baseline", "check"}
  MaxVersion = 1
  MaxCycle = 0
  SteersStopped = FALSE
  WorksOnDraft = FALSE
  ScopeMayFail = FALSE
  Toggled = {w1}

INVARIANTS
  OwnEvidence

SYMMETRY WorkerSymmetry

CHECK_DEADLOCK FALSE
