------------------------- MODULE MCAssignmentEngine -------------------------
(***************************************************************************)
(* Instances of AssignmentEngine for TLC.                                  *)
(***************************************************************************)
EXTENDS AssignmentEngine, TLC

CONSTANTS a, b, c, d

\* b depends on a; c and d, where an instance has them, are the Sr. Engineer's own.
MCOwner      == [t \in Tasks |-> IF t \in {c, d} THEN "senior" ELSE "worker"]
MCDependsOn  == [t \in Tasks |-> IF t = b THEN {a} ELSE {}]

WorkerSymmetry == Permutations(Workers \ Toggled)
=============================================================================
