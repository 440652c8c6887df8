-------------------------- MODULE MCAssignmentCalls --------------------------
(***************************************************************************)
(* Instances of AssignmentCalls for TLC.                                   *)
(***************************************************************************)
EXTENDS AssignmentCalls, TLC

CONSTANTS a, b, c

\* b depends on a; c, where an instance has it, is the Sr. Engineer's own.
MCOwner     == [t \in Tasks |-> IF t = c THEN "senior" ELSE "worker"]
MCDependsOn == [t \in Tasks |-> IF t = b THEN {a} ELSE {}]

CallSymmetry == Permutations(Workers) \cup Permutations(Slots) \cup Permutations(OpIds)
=============================================================================
