------------------------- MODULE MCCrossProcessMutex -------------------------
(* Two callers of instance A (as of a project's checkpoint lock), one of B and
   one of C. *)
EXTENDS CrossProcessMutex

CONSTANTS A, B, C, a1, a2, b1, c1

MCPid == [c \in Callers |-> IF c = c1 THEN C ELSE IF c = b1 THEN B ELSE A]
=============================================================================
