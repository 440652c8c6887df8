SPECIFICATION Spec

CONSTANTS
  a = a
  b = b
  c = c
  d = d
  Coordinator = coordinator
  NoThread = noThread
  Tasks = {a}
  Workers = {w1, w2}
  Owner <- MCOwner
  DependsOn <- MCDependsOn
  Evidence = {}
  MaxVersion = 2
  MaxCycle = 1
  SteersStopped = TRUE
  WorksOnDraft = TRUE
  ScopeMayFail = TRUE
  Toggled = {w1}

INVARIANTS
  TypeOK
  AuditOfferSound
  StoppedSound
  ReviewAgrees
  StopRemembers

SYMMETRY WorkerSymmetry

CHECK_DEADLOCK FALSE
