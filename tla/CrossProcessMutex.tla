--------------------------- MODULE CrossProcessMutex ---------------------------
(***************************************************************************)
(* The lock directory shared by every instance on one config root: one     *)
(* action per file-system statement of acquire() and release(), because    *)
(* the statements of two processes interleave.                             *)
(*                                                                         *)
(* A caller is one acquire() ... release() site of one process; two        *)
(* callers of a process share its pid and its event loop: the statements   *)
(* from a wake-up to the next await are never interleaved with those of    *)
(* the other.  Removing the directory is one step, and so is judging it.   *)
(* Time is the two things it decides: a lock's stamp grows old             *)
(* (STALE_AFTER_MS) and a waiter's deadline passes (timeoutMs).  A caller  *)
(* acquires MaxRounds times.                                               *)
(***************************************************************************)
EXTENDS Naturals, FiniteSets

CONSTANTS
    Callers,
    Pid,        \* the process each caller belongs to
    NoOne,      \* the owner of a directory that is not stamped
    MaxRounds,  \* how often a caller acquires
    Timely      \* no section outlasts STALE_AFTER_MS or a waiter's timeout

Pids == {Pid[c] : c \in Callers}

ASSUME CallersFinite == IsFiniteSet(Callers)
ASSUME PidOfEach == Pid = [c \in Callers |-> Pid[c]] /\ NoOne \notin Pids
ASSUME RoundsBounded == MaxRounds \in Nat

VARIABLES
    pc,         \* where each caller is in acquire() and release()
    late,       \* the waiters whose deadline has passed
    rounds,     \* acquisitions begun
    dead,       \* the processes that crashed
    lock,       \* the lock directory: who made it, its stamp, and the stamp's age
    stolen      \* how often the directory of a caller still inside was removed

vars == <<pc, late, rounds, dead, lock, stolen>>

NoLock == [by |-> {}, owner |-> NoOne, aged |-> FALSE]

Exists == lock.by # {}
Inside == {c \in Callers : pc[c] \in {"stamp", "in"}}
Waiting == {c \in Callers : pc[c] \in {"try", "check", "break", "overtake", "asleep"}}

\* No caller of c's process is between two statements of its turn.
LoopFree(c) ==
    \A d \in Callers :
        Pid[d] = Pid[c] => pc[d] \notin {"try", "check", "break", "overtake", "stamp"}

Init ==
    /\ pc = [c \in Callers |-> "idle"]
    /\ late = {}
    /\ rounds = [c \in Callers |-> 0]
    /\ dead = {}
    /\ lock = NoLock
    /\ stolen = 0

Goto(c, from, to) == pc[c] = from /\ pc' = [pc EXCEPT ![c] = to]

\* A caller asks for the lock; its deadline starts now.
Acquire(c) ==
    /\ rounds[c] < MaxRounds /\ LoopFree(c)
    /\ Goto(c, "idle", "try")
    /\ rounds' = [rounds EXCEPT ![c] = @ + 1]
    /\ UNCHANGED <<late, dead, lock, stolen>>

\* Mutant: mkdir that does not mind a directory that is there.
MakeDirAnyway(c) ==
    /\ Goto(c, "try", "stamp")
    /\ lock' = [NoLock EXCEPT !.by = {c}]
    /\ late' = late \ {c}
    /\ UNCHANGED <<rounds, dead, stolen>>

\* mkdir succeeds: the caller holds the lock, not yet stamped.
MakeDir(c) ==
    /\ ~Exists
    /\ Goto(c, "try", "stamp")
    /\ lock' = [NoLock EXCEPT !.by = {c}]
    /\ late' = late \ {c}
    /\ UNCHANGED <<rounds, dead, stolen>>

\* Mutant: a directory that is there lets the caller in.
EnterThoughHeld(c) ==
    /\ Exists
    /\ Goto(c, "try", "stamp")
    /\ UNCHANGED <<late, rounds, dead, lock, stolen>>

\* mkdir fails with EEXIST.
FindHeld(c) ==
    /\ Exists
    /\ Goto(c, "try", "check")
    /\ UNCHANGED <<late, rounds, dead, lock, stolen>>

\* Mutant: the caller itself is stamped, not its process.
WriteCaller(c) ==
    /\ Goto(c, "stamp", "in")
    /\ lock' = IF Exists THEN [lock EXCEPT !.owner = c, !.aged = FALSE] ELSE lock
    /\ UNCHANGED <<late, rounds, dead, stolen>>

\* owner.json is written into whatever directory is there now; without one the
\* write fails, which acquire() ignores.
WriteOwner(c) ==
    /\ Goto(c, "stamp", "in")
    /\ lock' = IF Exists THEN [lock EXCEPT !.owner = Pid[c], !.aged = FALSE] ELSE lock
    /\ UNCHANGED <<late, rounds, dead, stolen>>

\* An unstamped directory is never stale, however long its maker is gone.
IsStale == Exists /\ lock.owner # NoOne /\ (lock.owner \in dead \/ lock.aged)

\* Mutant: nobody overtakes, only stale locks are broken.
JudgeStaleOnly(c) ==
    /\ Goto(c, "check", IF IsStale THEN "break" ELSE "asleep")
    /\ UNCHANGED <<late, rounds, dead, lock, stolen>>

\* The waiter judges the lock: stale first, its own deadline second.
Judge(c) ==
    /\ Goto(c, "check", IF IsStale THEN "break" ELSE IF c \in late THEN "overtake" ELSE "asleep")
    /\ UNCHANGED <<late, rounds, dead, lock, stolen>>

\* rmSync, whoever's directory it is by now: a theft when its maker is inside.
RemoveLock(c) ==
    /\ lock' = NoLock
    /\ stolen' = IF lock.by \cap (Inside \ {c}) # {} THEN stolen + 1 ELSE stolen

BreakStale(c) ==
    /\ Goto(c, "break", "try")
    /\ RemoveLock(c)
    /\ UNCHANGED <<late, rounds, dead>>

Overtake(c) ==
    /\ Goto(c, "overtake", "try")
    /\ RemoveLock(c)
    /\ UNCHANGED <<late, rounds, dead>>

\* The poll interval is over.
Wake(c) ==
    /\ LoopFree(c)
    /\ Goto(c, "asleep", "try")
    /\ UNCHANGED <<late, rounds, dead, lock, stolen>>

\* release() does not look whose directory it removes.  The releaser leaves, so
\* a lock it takes from another caller is no theft: the section grows by none.
Release(c) ==
    /\ LoopFree(c)
    /\ Goto(c, "in", "idle")
    /\ lock' = NoLock
    /\ UNCHANGED <<late, rounds, dead, stolen>>

\* A process dies with every caller it has; its directory stays.
Crash(d) ==
    /\ d \in Pids \ dead
    /\ dead' = dead \cup {d}
    /\ pc' = [c \in Callers |-> IF Pid[c] = d THEN "dead" ELSE pc[c]]
    /\ late' = {c \in late : Pid[c] # d}
    /\ UNCHANGED <<rounds, lock, stolen>>

\* The stamp is STALE_AFTER_MS old.
StampAges ==
    /\ ~Timely
    /\ lock.owner # NoOne /\ ~lock.aged
    /\ lock' = [lock EXCEPT !.aged = TRUE]
    /\ UNCHANGED <<pc, late, rounds, dead, stolen>>

\* A waiter's deadline passes.
DeadlinePasses(c) ==
    /\ ~Timely
    /\ c \in Waiting \ late
    /\ late' = late \cup {c}
    /\ UNCHANGED <<pc, rounds, dead, lock, stolen>>

\* The statements of a turn, each following the one before.
Turn(c) ==
    MakeDir(c) \/ FindHeld(c) \/ WriteOwner(c) \/ Judge(c) \/ BreakStale(c) \/ Overtake(c)

Next ==
    \/ \E c \in Callers : Acquire(c) \/ Turn(c) \/ Wake(c) \/ Release(c) \/ DeadlinePasses(c)
    \/ \E d \in Pids : Crash(d)
    \/ StampAges

\* A turn that started goes on, a waiter's deadline passes in the end, and its
\* timer is served however often the other callers of its process run in
\* between.  No fairness for Release: a holder may hang for ever.
Fairness ==
    \A c \in Callers : WF_vars(Turn(c)) /\ SF_vars(Wake(c)) /\ WF_vars(DeadlinePasses(c))

Spec == Init /\ [][Next]_vars /\ Fairness

-----------------------------------------------------------------------------
TypeOK ==
    /\ pc \in [Callers -> {"idle", "try", "stamp", "in", "check", "break", "overtake",
                           "asleep", "dead"}]
    /\ late \subseteq Callers
    /\ rounds \in [Callers -> 0..MaxRounds]
    /\ dead \subseteq Pids
    /\ lock \in [by : SUBSET Callers, owner : Pids \cup {NoOne}, aged : BOOLEAN]
    /\ stolen \in Nat

\* The directory belongs to a caller that is inside.
Owned == lock.by \cap Inside # {}

\* Every theft admits at most one caller more, and a release that removes the
\* lock of another admits none: whatever breaks, overtakes, late stamps and
\* crashes happen, the section never holds more than 1 + stolen callers.
BoundedOverlap == Cardinality(Inside) <= stolen + (IF Owned THEN 1 ELSE 0)

\* cross-process-mutex.ts:34 "Only one process can own the directory at a time".
MutualExclusion == Cardinality(Inside) <= 1

\* cross-process-mutex.ts:44: neither a dead holder nor one that never releases
\* keeps a waiter out for ever.
NeverWedged == \A c \in Callers : c \in Waiting ~> c \notin Waiting

Abstract == INSTANCE LeasedLock WITH inside <- Inside
\* Acquiring, breaking and overtaking step for step do what LeasedLock allows.
ImplementsLeasedLock == Abstract!LockSpec
=============================================================================
