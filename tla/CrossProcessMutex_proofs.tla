----------------------- MODULE CrossProcessMutex_proofs -----------------------
(***************************************************************************)
(* For any number of callers and processes: a section never holds more     *)
(* callers than 1 + stolen, and acquire() and release() implement          *)
(* LeasedLock.                                                             *)
(*                                                                         *)
(* The bound alone is not inductive: it must count the caller whose        *)
(* directory is still there, because only mkdir without a directory lets   *)
(* a caller in.  BoundedOverlap is that strengthening.                     *)
(***************************************************************************)
EXTENDS CrossProcessMutex, FiniteSetTheorems, TLAPS

LEMMA InsideFinite == IsFiniteSet(Inside) /\ Cardinality(Inside) \in Nat
<1>1. Inside \in SUBSET Callers
  BY DEF Inside
<1> QED
  BY <1>1, CallersFinite, FS_Subset, FS_CardinalityType

LEMMA InsideFiniteNext == IsFiniteSet(Inside') /\ Cardinality(Inside') \in Nat
<1>1. Inside' \in SUBSET Callers
  BY DEF Inside
<1> QED
  BY <1>1, CallersFinite, FS_Subset, FS_CardinalityType

\* One caller of a set less, or some.
LEMMA FewerInside ==
  ASSUME Inside' \subseteq Inside
  PROVE  /\ Cardinality(Inside') <= Cardinality(Inside)
         /\ Inside' # Inside => Cardinality(Inside') < Cardinality(Inside)
<1>1. /\ Cardinality(Inside') <= Cardinality(Inside)
      /\ Cardinality(Inside) = Cardinality(Inside') => Inside = Inside'
  BY InsideFinite, FS_Subset
<1> QED
  BY <1>1, InsideFinite, InsideFiniteNext

-----------------------------------------------------------------------------
\* Steps that let nobody in or out and leave the directory where it is.
Aside ==
    /\ Inside' = Inside
    /\ lock'.by = lock.by
    /\ stolen' = stolen

LEMMA GotoAside ==
  ASSUME TypeOK, NEW c \in Callers, NEW from, NEW to, Goto(c, from, to),
         from \notin {"stamp", "in"} <=> to \notin {"stamp", "in"}
  PROVE  Inside' = Inside
BY DEF TypeOK, Goto, Inside

LEMMA InitTypeOK == Init => TypeOK
BY RoundsBounded DEF Init, TypeOK, NoLock

LEMMA NextTypeOK ==
  ASSUME TypeOK, [Next]_vars
  PROVE  TypeOK'
<1> USE DEF TypeOK
<1>1. ASSUME NEW c \in Callers
      PROVE  Pid[c] \in Pids
  BY DEF Pids
<1>2. NoLock \in [by : SUBSET Callers, owner : Pids \cup {NoOne}, aged : BOOLEAN]
  BY DEF NoLock
<1>3. CASE \E c \in Callers : Acquire(c)
  BY <1>3, RoundsBounded DEF Acquire, Goto
<1>4. ASSUME NEW c \in Callers, MakeDir(c)
      PROVE  TypeOK'
  <2>1. pc' \in [Callers -> {"idle", "try", "stamp", "in", "check", "break", "overtake",
                             "asleep", "dead"}]
    BY <1>4 DEF MakeDir, Goto
  <2>2. lock' \in [by : SUBSET Callers, owner : Pids \cup {NoOne}, aged : BOOLEAN]
    BY <1>4 DEF MakeDir, NoLock
  <2> QED
    BY <1>4, <2>1, <2>2 DEF MakeDir
<1>5. CASE \E c \in Callers : FindHeld(c)
  BY <1>5 DEF FindHeld, Goto
<1>6. ASSUME NEW c \in Callers, WriteOwner(c)
      PROVE  TypeOK'
  <2>1. pc' \in [Callers -> {"idle", "try", "stamp", "in", "check", "break", "overtake",
                             "asleep", "dead"}]
    BY <1>6 DEF WriteOwner, Goto
  <2>2. lock' \in [by : SUBSET Callers, owner : Pids \cup {NoOne}, aged : BOOLEAN]
    BY <1>6, <1>1 DEF WriteOwner
  <2> QED
    BY <1>6, <2>1, <2>2 DEF WriteOwner
<1>7. CASE \E c \in Callers : Judge(c)
  BY <1>7 DEF Judge, Goto
<1>8. CASE \E c \in Callers : BreakStale(c) \/ Overtake(c)
  BY <1>8, <1>2 DEF BreakStale, Overtake, RemoveLock, Goto
<1>9. CASE \E c \in Callers : Wake(c)
  BY <1>9 DEF Wake, Goto
<1>10. CASE \E c \in Callers : Release(c)
  BY <1>10, <1>2 DEF Release, Goto
<1>11. CASE \E c \in Callers : DeadlinePasses(c)
  BY <1>11 DEF DeadlinePasses
<1>12. CASE \E d \in Pids : Crash(d)
  BY <1>12 DEF Crash
<1>13. CASE StampAges
  BY <1>13 DEF StampAges
<1>14. CASE UNCHANGED vars
  BY <1>14 DEF vars
<1> QED
  BY <1>3, <1>4, <1>5, <1>6, <1>7, <1>8, <1>9, <1>10, <1>11, <1>12, <1>13, <1>14
  DEF Next, Turn

-----------------------------------------------------------------------------
\* What each kind of step does to the section and to the directory.
LEMMA AsideSteps ==
  ASSUME TypeOK, NEW c \in Callers,
         \/ Acquire(c) \/ FindHeld(c) \/ WriteOwner(c) \/ Judge(c) \/ Wake(c)
         \/ DeadlinePasses(c) \/ StampAges \/ UNCHANGED vars
  PROVE  Aside
<1>1. CASE Acquire(c)
  BY <1>1, GotoAside DEF Acquire, Aside
<1>2. CASE FindHeld(c)
  BY <1>2, GotoAside DEF FindHeld, Aside
<1>3. CASE WriteOwner(c)
  <2>1. Inside' = Inside
    BY <1>3, GotoAside DEF WriteOwner
  <2>2. lock'.by = lock.by
    BY <1>3 DEF WriteOwner, TypeOK
  <2> QED
    BY <1>3, <2>1, <2>2 DEF WriteOwner, Aside
<1>4. CASE Judge(c)
  BY <1>4, GotoAside DEF Judge, Aside
<1>5. CASE Wake(c)
  BY <1>5, GotoAside DEF Wake, Aside
<1>6. CASE DeadlinePasses(c)
  BY <1>6 DEF DeadlinePasses, Aside, Inside
<1>7. CASE StampAges
  BY <1>7 DEF StampAges, Aside, Inside, TypeOK
<1>8. CASE UNCHANGED vars
  BY <1>8 DEF vars, Aside, Inside
<1> QED
  BY <1>1, <1>2, <1>3, <1>4, <1>5, <1>6, <1>7, <1>8

LEMMA MakeDirStep ==
  ASSUME TypeOK, NEW c \in Callers, MakeDir(c)
  PROVE  /\ c \notin Inside /\ Inside' = Inside \cup {c}
         /\ ~Owned /\ Owned'
         /\ stolen' = stolen
<1>1. c \notin Inside /\ Inside' = Inside \cup {c}
  BY DEF MakeDir, Goto, Inside, TypeOK
<1>2. lock.by = {} /\ lock'.by = {c}
  BY DEF MakeDir, Exists, NoLock
<1> QED
  BY <1>1, <1>2 DEF Owned, MakeDir

LEMMA RemovalStep ==
  ASSUME TypeOK, NEW c \in Callers, BreakStale(c) \/ Overtake(c)
  PROVE  /\ Inside' = Inside
         /\ ~Owned'
         /\ stolen' = IF Owned THEN stolen + 1 ELSE stolen
<1>1. c \notin Inside
  BY DEF BreakStale, Overtake, Goto, Inside
<1>2. Inside' = Inside
  BY GotoAside DEF BreakStale, Overtake
<1>3. lock'.by = {}
  BY DEF BreakStale, Overtake, RemoveLock, NoLock
<1>4. Inside \ {c} = Inside
  BY <1>1
<1> QED
  BY <1>2, <1>3, <1>4 DEF Owned, BreakStale, Overtake, RemoveLock

LEMMA ReleaseStep ==
  ASSUME TypeOK, NEW c \in Callers, Release(c)
  PROVE  /\ Inside' \subseteq Inside /\ Inside' # Inside
         /\ ~Owned'
         /\ stolen' = stolen
<1>1. c \in Inside /\ c \notin Inside' /\ Inside' \subseteq Inside
  BY DEF Release, Goto, Inside, TypeOK
<1>2. lock'.by = {}
  BY DEF Release, NoLock
<1> QED
  BY <1>1, <1>2 DEF Owned, Release

LEMMA CrashStep ==
  ASSUME TypeOK, NEW d \in Pids, Crash(d)
  PROVE  /\ Inside' \subseteq Inside
         /\ Owned' => Owned
         /\ Owned /\ ~Owned' => Inside' # Inside
         /\ stolen' = stolen
<1>1. Inside' \subseteq Inside
  BY DEF Crash, Inside, TypeOK
<1>2. lock' = lock /\ stolen' = stolen
  BY DEF Crash
<1> QED
  BY <1>1, <1>2 DEF Owned

-----------------------------------------------------------------------------
LEMMA InitBound == Init => BoundedOverlap
<1> SUFFICES ASSUME Init PROVE BoundedOverlap
  OBVIOUS
<1>1. Inside = {}
  BY DEF Init, Inside
<1>2. Cardinality(Inside) = 0 /\ stolen = 0
  BY <1>1, FS_EmptySet DEF Init
<1> QED
  BY <1>2 DEF BoundedOverlap

LEMMA NextBound ==
  ASSUME TypeOK, BoundedOverlap, [Next]_vars
  PROVE  BoundedOverlap'
<1> DEFINE n == Cardinality(Inside)
<1> DEFINE m == Cardinality(Inside')
<1>1. n \in Nat /\ m \in Nat /\ stolen \in Nat
  BY InsideFinite, InsideFiniteNext DEF TypeOK
<1>2. n <= stolen + (IF Owned THEN 1 ELSE 0)
  BY DEF BoundedOverlap
<1>3. SUFFICES m <= stolen' + (IF Owned' THEN 1 ELSE 0)
  BY DEF BoundedOverlap
<1>4. CASE Aside
  <2>1. Owned' <=> Owned
    BY <1>4 DEF Aside, Owned
  <2> QED
    BY <1>1, <1>2, <1>4, <2>1 DEF Aside
<1>5. ASSUME NEW c \in Callers, MakeDir(c)
      PROVE  m <= stolen' + (IF Owned' THEN 1 ELSE 0)
  <2>1. m = n + 1
    BY <1>5, MakeDirStep, InsideFinite, FS_AddElement
  <2> QED
    BY <1>1, <1>2, <1>5, <2>1, MakeDirStep
<1>6. ASSUME NEW c \in Callers, BreakStale(c) \/ Overtake(c)
      PROVE  m <= stolen' + (IF Owned' THEN 1 ELSE 0)
  BY <1>1, <1>2, <1>6, RemovalStep
<1>7. ASSUME NEW c \in Callers, Release(c)
      PROVE  m <= stolen' + (IF Owned' THEN 1 ELSE 0)
  <2>1. m < n
    BY <1>7, ReleaseStep, FewerInside
  <2> QED
    BY <1>1, <1>2, <1>7, <2>1, ReleaseStep
<1>8. ASSUME NEW d \in Pids, Crash(d)
      PROVE  m <= stolen' + (IF Owned' THEN 1 ELSE 0)
  <2>1. m <= n /\ (Inside' # Inside => m < n)
    BY <1>8, CrashStep, FewerInside
  <2> QED
    BY <1>1, <1>2, <1>8, <2>1, CrashStep
<1>9. CASE StampAges \/ UNCHANGED vars
  <2>1. Aside
    BY <1>9 DEF StampAges, vars, Aside, Inside, TypeOK
  <2> QED
    BY <2>1, <1>4
<1>10. CASE \E c \in Callers :
              Acquire(c) \/ FindHeld(c) \/ WriteOwner(c) \/ Judge(c) \/ Wake(c) \/ DeadlinePasses(c)
  BY <1>10, <1>4, AsideSteps
<1> QED
  BY <1>5, <1>6, <1>7, <1>8, <1>9, <1>10 DEF Next, Turn

(***************************************************************************)
(* The section never holds more callers than 1 + stolen, whatever crashes, *)
(* times out, breaks, overtakes or releases the lock of another.           *)
(***************************************************************************)
THEOREM OverlapIsBounded == Spec => [](TypeOK /\ BoundedOverlap)
<1>1. Init => TypeOK /\ BoundedOverlap
  BY InitTypeOK, InitBound
<1>2. TypeOK /\ BoundedOverlap /\ [Next]_vars => (TypeOK /\ BoundedOverlap)'
  BY NextTypeOK, NextBound
<1> QED
  BY <1>1, <1>2, PTL DEF Spec

\* cross-process-mutex.ts: with any callers and processes, crashes and thefts every variable
\* keeps its type, the stamp of the directory included: it names a caller or nobody.
THEOREM MutexTypes == Spec => []TypeOK
<1> QED
  BY OverlapIsBounded, PTL

\* While no lock was taken from a caller inside, the lock excludes.
THEOREM OnlyTheftBreaksExclusion == Spec => [](stolen = 0 => MutualExclusion)
<1>1. TypeOK /\ BoundedOverlap => (stolen = 0 => MutualExclusion)
  BY InsideFinite DEF BoundedOverlap, MutualExclusion
<1> QED
  BY <1>1, OverlapIsBounded, PTL

-----------------------------------------------------------------------------
LEMMA InitMaps == Init => Abstract!LockInit
BY DEF Init, Inside, Abstract!LockInit

\* The Cardinality of the instance is the one of this module.
LEMMA SameCardinality == Cardinality(Inside) = Abstract!Cardinality(Inside)
BY DEF Cardinality, Abstract!Cardinality

LEMMA NextMaps ==
  ASSUME TypeOK, BoundedOverlap, [Next]_vars
  PROVE  [Abstract!LockNext]_(Abstract!lockVars)
<1> USE DEF Abstract!lockVars
<1>1. CASE Aside
  BY <1>1 DEF Aside
<1>2. ASSUME NEW c \in Callers, MakeDir(c)
      PROVE  Abstract!LockNext
  <2>1. Cardinality(Inside) <= stolen
    BY <1>2, MakeDirStep, InsideFinite DEF BoundedOverlap, TypeOK
  <2>2. Abstract!Enter(c)
    BY <1>2, <2>1, SameCardinality, MakeDirStep DEF Abstract!Enter
  <2> QED
    BY <2>2 DEF Abstract!LockNext
<1>3. ASSUME NEW c \in Callers, BreakStale(c) \/ Overtake(c)
      PROVE  [Abstract!LockNext]_(Abstract!lockVars)
  <2>1. CASE Owned
    BY <1>3, <2>1, RemovalStep DEF Owned, Abstract!Steal, Abstract!LockNext
  <2>2. CASE ~Owned
    BY <1>3, <2>2, RemovalStep
  <2> QED
    BY <2>1, <2>2
<1>4. ASSUME NEW c \in Callers, Release(c)
      PROVE  Abstract!LockNext
  BY <1>4, ReleaseStep DEF Abstract!Leave, Abstract!LockNext
<1>5. ASSUME NEW d \in Pids, Crash(d)
      PROVE  Abstract!LockNext
  BY <1>5, CrashStep DEF Abstract!Leave, Abstract!LockNext
<1>6. CASE StampAges \/ UNCHANGED vars
  <2>1. Aside
    BY <1>6 DEF StampAges, vars, Aside, Inside, TypeOK
  <2> QED
    BY <2>1, <1>1
<1>7. CASE \E c \in Callers :
             Acquire(c) \/ FindHeld(c) \/ WriteOwner(c) \/ Judge(c) \/ Wake(c) \/ DeadlinePasses(c)
  BY <1>7, <1>1, AsideSteps
<1> QED
  BY <1>2, <1>3, <1>4, <1>5, <1>6, <1>7 DEF Next, Turn

(***************************************************************************)
(* Acquire and release implement LeasedLock: a caller enters only an empty *)
(* section, or one that holds no more callers than were robbed.            *)
(***************************************************************************)
THEOREM Refinement == Spec => ImplementsLeasedLock
<1>1. Spec => [](TypeOK /\ BoundedOverlap)
  BY OverlapIsBounded
<1>2. Init => Abstract!LockInit
  BY InitMaps
<1>3. TypeOK /\ BoundedOverlap /\ [Next]_vars => [Abstract!LockNext]_(Abstract!lockVars)
  BY NextMaps
<1> QED
  BY <1>1, <1>2, <1>3, PTL DEF Spec, ImplementsLeasedLock, Abstract!LockSpec
=============================================================================
