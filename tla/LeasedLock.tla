----------------------------- MODULE LeasedLock -----------------------------
(***************************************************************************)
(* What a lock that waiters may break promises: it excludes, except that   *)
(* each theft of a lock whose holder is still inside admits one more.      *)
(* CrossProcessMutex is shown to implement it.                             *)
(***************************************************************************)
EXTENDS Naturals, FiniteSets

CONSTANT Callers

VARIABLES
    inside,     \* the callers in their critical section
    stolen      \* how many times the lock of a caller inside was taken away

lockVars == <<inside, stolen>>

LockInit == inside = {} /\ stolen = 0

\* A caller gets in while the section holds no more callers than were robbed.
Enter(c) ==
    /\ c \in Callers \ inside
    /\ Cardinality(inside) <= stolen
    /\ inside' = inside \cup {c}
    /\ UNCHANGED stolen

\* Some callers leave: one releases, or a process dies with all of its own.
Leave ==
    /\ inside' \subseteq inside
    /\ UNCHANGED stolen

\* A waiter takes the lock away from a caller that is still inside.
Steal ==
    /\ inside # {}
    /\ stolen' = stolen + 1
    /\ UNCHANGED inside

LockNext == (\E c \in Callers : Enter(c)) \/ Leave \/ Steal

LockSpec == LockInit /\ [][LockNext]_lockVars
=============================================================================
