SPECIFICATION Spec

CONSTANTS
  a = a
  b = b
  c = c
  d = d
  Coordinator = coordinator
  NoThread = noThread
  Tasks = {a, b}
  Workers = {w1, w2, w3}
  Owner <- MCOwner
  DependsOn <- MCDependsOn
  Evidence = {}
  MaxVersion = 2
  MaxCycle = 2
  SteersStopped = FALSE
  WorksOnDraft = FALSE
  ScopeMayFail = FALSE
  Toggled = {}

INVARIANTS
  CompletedSound
  DraftAtRest
  
  
  OneTaskPerWorker
  
  
PROPERTIES
  WorkKept

SYMMETRY WorkerSymmetry

CHECK_DEADLOCK FALSE
