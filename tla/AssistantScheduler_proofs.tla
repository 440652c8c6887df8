---------------------- MODULE AssistantScheduler_proofs ----------------------
(***************************************************************************)
(* Proofs about the clock of an assistant task: types, runs that are not   *)
(* repeated without a reason, and skips that are kept.  A step changes few *)
(* of the parts of the state (the clock, the records of missed slots, the  *)
(* skips, the dispatch chain, the calls that run missed slots, what was    *)
(* sent), so the typing is proved part by part; the two properties of the  *)
(* schedule are then proved one slot at a time.                            *)
(***************************************************************************)
EXTENDS AssistantScheduler, FiniteSetTheorems, WellFoundedInduction, TLAPS

LEMMA LeastElement ==
  ASSUME NEW S \in SUBSET Nat, S # {}
  PROVE  Min(S) \in S
<1>1. PICK least \in S : \A k \in S : ~(<<k, least>> \in OpToRel(<, Nat))
  BY WFMin, NatLessThanWellFounded
<1>2. ASSUME NEW k \in S, ~(least <= k)
      PROVE  FALSE
  <2>1. k \in Nat /\ least \in Nat
    OBVIOUS
  <2>2. k < least
    BY <1>2, <2>1
  <2> QED
    BY <1>1, <2>1, <2>2 DEF OpToRel
<1> QED
  BY <1>2 DEF Min

LEMMA TailOf ==
  ASSUME NEW T, NEW q \in Seq(T), q # <<>>
  PROVE  /\ Head(q) \in T /\ Head(q) = q[1] /\ 1 \in DOMAIN q
         /\ Tail(q) \in Seq(T)
         /\ \A i \in DOMAIN Tail(q) :
              /\ i \in Nat /\ i + 1 \in DOMAIN q /\ 1 < i + 1
              /\ Tail(q)[i] = q[i + 1]
OBVIOUS

LEMMA AppendOf ==
  ASSUME NEW T, NEW q \in Seq(T), NEW x \in T
  PROVE  /\ Append(q, x) \in Seq(T) /\ Append(q, x) # <<>>
         /\ DOMAIN Append(q, x) = DOMAIN q \cup {Len(q) + 1}
         /\ Append(q, x)[Len(q) + 1] = x
         /\ \A i \in DOMAIN q : Append(q, x)[i] = q[i] /\ i \in Nat /\ i < Len(q) + 1
         /\ Len(Append(q, x)) = Len(q) + 1 /\ Last(Append(q, x)) = x
BY DEF Last

-----------------------------------------------------------------------------
(* Types.                                                                  *)

Records == [Slots -> {"none", "pending", "dismissed", "run"}]
Batches == [set : SUBSET Slots, by : SUBSET Slots]
Calls(n) == [todo : SUBSET (1..n), at : {"idle", "create", "dispatch"},
             of : 0..n, left : 0..MaxCatchUp]

ClockTyped ==
  /\ slot \in 0..MaxSlot /\ late \in BOOLEAN /\ up \in BOOLEAN
  /\ started \in 0..slot /\ lastRun \in 0..slot /\ faults \in 0..MaxFaults

\* Only a slot that came due has a record.
Due(n) == {m \in Records : \A s \in Slots : s > n => m[s] = "none"}

MissedTyped == missed \in Due(slot) /\ missedFile \in Due(slot) /\ missedOut \in Seq(Due(slot))

SkipTyped ==
  /\ skipped \subseteq Slots /\ skipFile \subseteq Slots /\ acked \subseteq Slots
  /\ skipOut \in Seq(Batches)

ChainTyped ==
  /\ chain \in Seq(1..slot) /\ head \in {"create", "dispatch"}
  /\ chain = <<>> => head = "create"

PassTyped ==
  /\ pass \in [Passes -> Calls(slot)]
  /\ \A p \in Passes : pass[p].at # "idle" => pass[p].of # 0 /\ pass[p].left # 0

\* The runs of a slot under way: those of calls, and 0 for that of the chain.
Sending(s) ==
  {p \in Passes : pass[p].at = "dispatch" /\ pass[p].of = s}
    \cup {p \in {0} : head = "dispatch" /\ Head(chain) = s}

RunsTyped ==
  /\ runs \in [Slots -> Nat]
  /\ \A s \in Slots : Cardinality(Sending(s)) <= runs[s]

HistoryTyped == reopened \subseteq Slots /\ crossed \subseteq Slots

Closed ==
  ~up => /\ chain = <<>> /\ missedOut = <<>> /\ skipOut = <<>>
         /\ pass = [p \in Passes |-> NoPass]
         /\ missed = missedFile /\ skipped = skipFile

Typed ==
  /\ ClockTyped /\ MissedTyped /\ SkipTyped /\ ChainTyped /\ PassTyped
  /\ RunsTyped /\ HistoryTyped /\ Closed

LEMMA TypedIsTypeOK == Typed => TypeOK
<1> SUFFICES ASSUME Typed PROVE TypeOK
  OBVIOUS
<1>1. ToSet(missedOut) \subseteq Due(slot) /\ ToSet(skipOut) \subseteq Batches
  BY DEF ToSet, Typed, MissedTyped, SkipTyped
<1> QED
  BY <1>1
  DEF TypeOK, Typed, ClockTyped, MissedTyped, SkipTyped, ChainTyped, PassTyped, RunsTyped,
      HistoryTyped, Closed, Due, Records, Batches, Calls

LEMMA ConstantTypes ==
  /\ MaxSlot \in Nat /\ MaxSlot # 0 /\ MaxCatchUp \in Nat /\ MaxCatchUp # 0 /\ MaxPasses \in Nat
  /\ MaxFaults \in Nat
  /\ Slots \subseteq Nat /\ 0 \notin Slots /\ 0 \notin Passes
BY Bounds DEF Slots, Passes

\* Finite sets: the calls, and any set of them.
LEMMA SendingFinite == \A s : IsFiniteSet(Sending(s)) /\ Cardinality(Sending(s)) \in Nat
<1> SUFFICES ASSUME NEW s PROVE IsFiniteSet(Sending(s)) /\ Cardinality(Sending(s)) \in Nat
  OBVIOUS
<1>1. IsFiniteSet(0..MaxPasses)
  BY ConstantTypes, FS_Interval
<1>2. Sending(s) \subseteq 0..MaxPasses
  BY ConstantTypes DEF Sending, Passes
<1> QED
  BY <1>1, <1>2, FS_Subset, FS_CardinalityType

-----------------------------------------------------------------------------
LEMMA InitTyped == Init => Typed
<1> SUFFICES ASSUME Init PROVE Typed
  OBVIOUS
<1>1. ClockTyped
  <2>1. late \in BOOLEAN /\ up \in BOOLEAN
    BY Zenon DEF Init
  <2> QED
    BY <2>1, ConstantTypes DEF Init, ClockTyped
<1>6. SkipTyped /\ HistoryTyped
  BY DEF Init, SkipTyped, HistoryTyped
<1>7. ChainTyped
  BY DEF Init, ChainTyped
<1>8. Closed
  BY DEF Init, Closed
<1>2. MissedTyped
  BY DEF Init, MissedTyped, NoRecords, Records, Due
<1>3. PassTyped
  BY ConstantTypes DEF Init, PassTyped, NoPass, Calls
<1>4. \A s \in Slots : Sending(s) = {}
  BY DEF Init, Sending, NoPass
<1>5. RunsTyped
  BY <1>4, FS_EmptySet DEF Init, RunsTyped
<1> QED
  BY <1>1, <1>2, <1>3, <1>5, <1>6, <1>7, <1>8 DEF Typed

\* The clock never goes back, and claims only what is due.
ClockMoves ==
  /\ slot' \in {slot, slot + 1} /\ slot' <= MaxSlot
  /\ started' \in {started, slot}
  /\ lastRun' \in 0..slot
  /\ faults' \in 0..MaxFaults
  /\ late' \in BOOLEAN /\ up' \in BOOLEAN

LEMMA ClockKept ==
  ASSUME Typed, [Next]_vars
  PROVE  ClockTyped' /\ slot <= slot'
<1>1. /\ slot \in 0..MaxSlot /\ started \in 0..slot /\ lastRun \in 0..slot
      /\ faults \in 0..MaxFaults /\ late \in BOOLEAN /\ up \in BOOLEAN
  BY DEF Typed, ClockTyped
<1>2. ClockMoves
  <2>1. CASE SlotComesDue
    <3>1. late' \in BOOLEAN
      BY <2>1, Zenon DEF SlotComesDue
    <3> QED
      BY <1>1, <2>1, <3>1, ConstantTypes DEF ClockMoves, SlotComesDue
  <2>2. CASE GraceEnds
    BY <1>1, <2>2, ConstantTypes DEF ClockMoves, GraceEnds
  <2>3. CASE WriteMissed
    BY <1>1, <2>3, ConstantTypes DEF ClockMoves, WriteMissed, clock
  <2>4. CASE WriteSkipped
    BY <1>1, <2>4, ConstantTypes DEF ClockMoves, WriteSkipped, clock
  <2>5. CASE Crash
    <3>1. up' \in BOOLEAN
      BY <2>5, Zenon DEF Crash
    <3> QED
      BY <1>1, <2>5, <3>1, ConstantTypes DEF ClockMoves, Crash, clock
  <2>6. CASE Tick
    BY <1>1, <2>6, ConstantTypes DEF ClockMoves, Tick, RecordMiss, Fire, clock
  <2>7. CASE Start
    BY <1>1, <2>7, ConstantTypes DEF ClockMoves, Start
  <2>8. CASE RunTaskNow
    BY <1>1, <2>8, ConstantTypes DEF ClockMoves, RunTaskNow, ClaimDue, clock
  <2>9. ASSUME NEW p \in Passes, StartPass(p) \/ PassGoesOn(p)
        PROVE  ClockMoves
    <3>1. pass[p].of \in 0..slot
      BY DEF Typed, PassTyped, Calls
    <3> QED
      BY <1>1, <2>9, <3>1, ConstantTypes
      DEF ClockMoves, StartPass, PassGoesOn, PassCreates, PassSends, PassFails, clock
  <2>10. CASE ChainGoesOn
    BY <1>1, <2>10, ConstantTypes DEF ClockMoves, ChainGoesOn, ChainCreates, ChainSends, ChainFails, clock
  <2>11. ASSUME NEW s \in Slots, Dismiss(s) \/ Skip(s)
         PROVE  ClockMoves
    BY <1>1, <2>11, ConstantTypes DEF ClockMoves, Dismiss, Skip, clock
  <2>12. CASE UNCHANGED vars
    BY <1>1, <2>12, ConstantTypes DEF ClockMoves, vars
  <2> QED
    BY <2>1, <2>2, <2>3, <2>4, <2>5, <2>6, <2>7, <2>8, <2>9, <2>10, <2>11, <2>12 DEF Next
<1>3. slot <= slot' /\ slot' \in 0..MaxSlot
  BY <1>1, <1>2, ConstantTypes DEF ClockMoves
<1>4. started' \in 0..slot' /\ lastRun' \in 0..slot'
  BY <1>1, <1>2, <1>3, ConstantTypes DEF ClockMoves
<1> QED
  BY <1>2, <1>3, <1>4 DEF ClockMoves, ClockTyped


\* The records of missed slots.
LEMMA DueLater ==
  ASSUME ClockTyped, ClockTyped', slot <= slot'
  PROVE  Due(slot) \subseteq Due(slot')
BY ConstantTypes DEF ClockTyped, Due

LEMMA MissedWritten ==
  ASSUME ClockTyped, ClockTyped', slot <= slot',
         missed' \in Due(slot), missedFile' \in Due(slot), missedOut' \in Seq(Due(slot))
  PROVE  MissedTyped'
BY DueLater DEF MissedTyped

LEMMA OneRecord ==
  ASSUME NEW n \in Nat, NEW m \in Due(n), NEW s \in Slots, s <= n,
         NEW status \in {"pending", "dismissed", "run"}
  PROVE  [m EXCEPT ![s] = status] \in Due(n)
BY ConstantTypes DEF Due, Records

LEMMA MarkRunDue ==
  ASSUME NEW n \in Nat, NEW m \in Due(n), NEW s \in Slots
  PROVE  MarkRun(m, s) \in Due(n)
<1>1. m[s] # "none" => s <= n
  BY ConstantTypes DEF Due
<1> QED
  BY <1>1, OneRecord DEF MarkRun

LEMMA SaveMissedTyped ==
  ASSUME ClockTyped, ClockTyped', slot <= slot', MissedTyped, NEW m \in Due(slot), SaveMissed(m)
  PROVE  MissedTyped'
<1>1. missedOut' \in Seq(Due(slot))
  BY AppendOf DEF MissedTyped, SaveMissed
<1> QED
  BY <1>1, MissedWritten DEF MissedTyped, SaveMissed

LEMMA MissedKept ==
  ASSUME Typed, [Next]_vars, ClockTyped', slot <= slot'
  PROVE  MissedTyped'
<1>1. /\ missed \in Due(slot) /\ missedFile \in Due(slot) /\ missedOut \in Seq(Due(slot))
      /\ MissedTyped /\ ClockTyped /\ slot \in Nat /\ slot <= MaxSlot
  BY ConstantTypes DEF Typed, MissedTyped, ClockTyped
<1>2. CASE UNCHANGED missedVars
  BY <1>1, <1>2, MissedWritten DEF missedVars
<1>3. CASE WriteMissed
  BY <1>1, <1>3, MissedWritten, TailOf DEF WriteMissed
<1>4. CASE Tick
  <2>1. ASSUME slot > lastRun
        PROVE  [missed EXCEPT ![slot] = "pending"] \in Due(slot)
    <3>1. slot \in Slots
      BY <1>1, <2>1, ConstantTypes DEF Typed, ClockTyped, Slots
    <3>2. slot <= slot
      BY <1>1
    <3> QED
      BY <1>1, <3>1, <3>2, OneRecord
  <2> QED
    BY <1>1, <1>2, <1>4, <2>1, SaveMissedTyped DEF Tick, RecordMiss, Fire, missedVars
<1>5. CASE Start
  <2> DEFINE m0 == [s \in Slots |-> IF missedFile[s] = "pending" THEN "pending" ELSE "none"]
             recorded == slot > lastRun /\ slot \notin PrunedSkips(skipFile, slot) /\ m0[slot] = "none"
             m == IF recorded THEN [m0 EXCEPT ![slot] = "pending"] ELSE m0
  <2>1. m0 \in Due(slot)
    BY <1>1 DEF Due, Records
  <2>2. m \in Due(slot)
    <3>1. slot > lastRun => slot \in Slots
      BY <1>1, ConstantTypes DEF Typed, ClockTyped, Slots
    <3>2. slot <= slot
      BY <1>1
    <3> HIDE DEF m0
    <3>3. recorded => [m0 EXCEPT ![slot] = "pending"] \in Due(slot)
      BY <1>1, <2>1, <3>1, <3>2, OneRecord
    <3> QED
      BY <2>1, <3>3
  <2>3. /\ missed' = m /\ missedFile' = missedFile
        /\ missedOut' = (IF m0 = missedFile THEN <<>> ELSE <<m0>>)
                          \o (IF m = m0 THEN <<>> ELSE <<m>>)
    BY <1>5 DEF Start
  <2> HIDE DEF m0, m
  <2>4. missedOut' \in Seq(Due(slot))
    BY <2>1, <2>2, <2>3
  <2> QED
    BY <1>1, <2>2, <2>3, <2>4, MissedWritten
<1>6. CASE Crash
  BY <1>1, <1>6, MissedWritten DEF Crash
<1>7. ASSUME NEW p \in Passes, PassSends(p)
      PROVE  MissedTyped'
  <2>1. pass[p].of \in Slots
    BY <1>1, <1>7, ConstantTypes DEF Typed, PassTyped, Calls, PassSends, Slots
  <2> QED
    BY <1>1, <1>7, <2>1, MarkRunDue, SaveMissedTyped DEF PassSends
<1>8. ASSUME NEW s \in Slots, Dismiss(s)
      PROVE  MissedTyped'
  <2>1. s <= slot
    BY <1>1, <1>8, ConstantTypes DEF Dismiss, Due
  <2> QED
    BY <1>1, <1>8, <2>1, OneRecord, SaveMissedTyped DEF Dismiss
<1>9. CASE SlotComesDue \/ GraceEnds \/ WriteSkipped \/ RunTaskNow \/ ChainGoesOn
  BY <1>2, <1>9
  DEF SlotComesDue, GraceEnds, WriteSkipped, RunTaskNow, ChainGoesOn, ChainCreates, ChainSends,
      ChainFails
<1>10. ASSUME NEW p \in Passes, StartPass(p) \/ PassCreates(p) \/ PassFails(p)
       PROVE  MissedTyped'
  BY <1>2, <1>10 DEF StartPass, PassCreates, PassFails
<1>11. ASSUME NEW s \in Slots, Skip(s)
       PROVE  MissedTyped'
  BY <1>2, <1>11 DEF Skip
<1>12. CASE UNCHANGED vars
  BY <1>2, <1>12 DEF vars, missedVars
<1> QED
  BY <1>3, <1>4, <1>5, <1>6, <1>7, <1>8, <1>9, <1>10, <1>11, <1>12 DEF Next, PassGoesOn


\* The skips.
LEMMA SaveSkippedTyped ==
  ASSUME SkipTyped, NEW set \in SUBSET Slots, NEW by \in SUBSET Slots, SaveSkipped(set, by)
  PROVE  SkipTyped'
<1>1. [set |-> set, by |-> by] \in Batches
  BY DEF Batches
<1>2. skipOut' \in Seq(Batches)
  BY <1>1, AppendOf DEF SkipTyped, SaveSkipped
<1> QED
  BY <1>2 DEF SkipTyped, SaveSkipped

LEMMA SkipsTypedKept ==
  ASSUME Typed, [Next]_vars
  PROVE  SkipTyped'
<1>1. /\ SkipTyped /\ skipped \subseteq Slots /\ skipFile \subseteq Slots /\ acked \subseteq Slots
      /\ skipOut \in Seq(Batches)
  BY DEF Typed, SkipTyped
<1>2. CASE UNCHANGED skipVars
  BY <1>1, <1>2 DEF skipVars, SkipTyped
<1>3. CASE WriteSkipped
  <2> DEFINE h == Head(skipOut)
             kept == skipped \ h.by
  <2>1. h \in Batches /\ Tail(skipOut) \in Seq(Batches)
    BY <1>1, <1>3, TailOf DEF WriteSkipped
  <2>2. CASE /\ skipFile' = h.set /\ acked' = acked \cup h.by
             /\ skipOut' = Tail(skipOut) /\ UNCHANGED skipped
    BY <1>1, <2>1, <2>2 DEF SkipTyped, Batches
  <2>3. CASE /\ skipped' = kept /\ UNCHANGED <<skipFile, acked>>
             /\ skipOut' = Tail(skipOut)
                   \o (IF h.by = {} THEN <<>> ELSE <<[set |-> kept, by |-> {}]>>)
    <3>1. [set |-> kept, by |-> {}] \in Batches /\ kept \subseteq Slots
      BY <1>1 DEF Batches
    <3> HIDE DEF h, kept
    <3>2. skipOut' \in Seq(Batches)
      BY <2>1, <2>3, <3>1
    <3> QED
      BY <1>1, <2>3, <3>1, <3>2 DEF SkipTyped
  <2> QED
    BY <1>3, <2>2, <2>3 DEF WriteSkipped
<1>4. CASE Tick
  <2>1. PrunedSkips(skipped, slot) \in SUBSET Slots
    BY <1>1 DEF PrunedSkips
  <2> QED
    BY <1>1, <1>4, <2>1, SaveSkippedTyped DEF Tick
<1>5. CASE Start
  <2> DEFINE skips == PrunedSkips(skipFile, slot)
  <2>1. skips \subseteq Slots /\ [set |-> skips, by |-> {}] \in Batches
    BY <1>1 DEF PrunedSkips, Batches
  <2>2. /\ skipped' = skips /\ UNCHANGED <<skipFile, acked>>
        /\ skipOut' = IF skips = skipFile THEN <<>> ELSE <<[set |-> skips, by |-> {}]>>
    BY <1>5 DEF Start
  <2> HIDE DEF skips
  <2>3. skipOut' \in Seq(Batches)
    BY <2>1, <2>2
  <2> QED
    BY <1>1, <2>1, <2>2, <2>3 DEF SkipTyped
<1>6. CASE Crash
  BY <1>1, <1>6 DEF Crash, SkipTyped
<1>7. ASSUME NEW s \in Slots, Skip(s)
      PROVE  SkipTyped'
  <2>1. {n \in Skippable : n <= s} \in SUBSET Slots
    BY DEF Skippable
  <2> QED
    BY <1>1, <1>7, <2>1, SaveSkippedTyped DEF Skip
<1>8. CASE SlotComesDue \/ GraceEnds \/ WriteMissed \/ RunTaskNow \/ ChainGoesOn
  BY <1>2, <1>8
  DEF SlotComesDue, GraceEnds, WriteMissed, RunTaskNow, ChainGoesOn, ChainCreates, ChainSends,
      ChainFails
<1>9. ASSUME NEW p \in Passes, StartPass(p) \/ PassGoesOn(p)
      PROVE  SkipTyped'
  BY <1>2, <1>9 DEF StartPass, PassGoesOn, PassCreates, PassSends, PassFails
<1>10. ASSUME NEW s \in Slots, Dismiss(s)
       PROVE  SkipTyped'
  BY <1>2, <1>10 DEF Dismiss
<1>11. CASE UNCHANGED vars
  BY <1>2, <1>11 DEF vars, skipVars
<1> QED
  BY <1>3, <1>4, <1>5, <1>6, <1>7, <1>8, <1>9, <1>10, <1>11 DEF Next

\* The dispatch chain.
LEMMA ChainKept ==
  ASSUME Typed, [Next]_vars, ClockTyped', slot <= slot'
  PROVE  ChainTyped'
<1>1. /\ ChainTyped /\ chain \in Seq(1..slot) /\ slot \in Nat /\ slot' \in Nat /\ lastRun \in Nat
  BY ConstantTypes DEF Typed, ChainTyped, ClockTyped
<1>2. Seq(1..slot) \subseteq Seq(1..slot')
  BY <1>1
<1>3. CASE UNCHANGED <<chain, head>>
  BY <1>1, <1>2, <1>3 DEF ChainTyped
<1>4. CASE Tick
  <2>1. ASSUME slot > lastRun, Fire(slot), UNCHANGED head
        PROVE  ChainTyped'
    <3>1. slot \in 1..slot
      BY <1>1, <2>1
    <3>2. Append(chain, slot) \in Seq(1..slot) /\ Append(chain, slot) # <<>>
      BY <1>1, <3>1, AppendOf
    <3> QED
      BY <1>1, <1>2, <2>1, <3>2 DEF Fire, ChainTyped
  <2> QED
    BY <1>3, <1>4, <2>1 DEF Tick
<1>5. CASE ChainGoesOn
  <2>1. chain # <<>> => Tail(chain) \in Seq(1..slot)
    BY <1>1, TailOf
  <2> QED
    BY <1>1, <1>2, <1>5, <2>1 DEF ChainGoesOn, ChainCreates, ChainSends, ChainFails, ChainTyped
<1>6. CASE Crash
  BY <1>6 DEF Crash, ChainTyped
<1>7. CASE SlotComesDue \/ GraceEnds \/ WriteMissed \/ WriteSkipped \/ Start \/ RunTaskNow
  BY <1>3, <1>7 DEF SlotComesDue, GraceEnds, WriteMissed, WriteSkipped, Start, RunTaskNow
<1>8. ASSUME NEW p \in Passes, StartPass(p) \/ PassGoesOn(p)
      PROVE  ChainTyped'
  BY <1>3, <1>8 DEF StartPass, PassGoesOn, PassCreates, PassSends, PassFails
<1>9. ASSUME NEW s \in Slots, Dismiss(s) \/ Skip(s)
      PROVE  ChainTyped'
  BY <1>3, <1>9 DEF Dismiss, Skip
<1>10. CASE UNCHANGED vars
  BY <1>3, <1>10 DEF vars
<1> QED
  BY <1>4, <1>5, <1>6, <1>7, <1>8, <1>9, <1>10 DEF Next


\* The calls that run missed slots.
LEMMA AdvancedTyped ==
  ASSUME NEW n \in Nat, NEW todo \in SUBSET (1..n), NEW left \in 0..MaxCatchUp, NEW m
  PROVE  LET next == Advanced(todo, left, m)
         IN  /\ next \in Calls(n)
             /\ next.at \in {"idle", "create"}
             /\ next.at # "idle" => /\ next.of # 0 /\ next.left # 0
                                    /\ next.of \in todo /\ m[next.of] # "none"
<1> DEFINE there == {s \in todo : m[s] # "none"}
           next  == Advanced(todo, left, m)
<1>1. CASE there = {} \/ left = 0
  BY <1>1, ConstantTypes DEF Advanced, NoPass, Calls
<1>2. CASE there # {} /\ left # 0
  <2> DEFINE least == Min(there)
             rest  == todo \ (1..least)
  <2>1. least \in there
    BY <1>2, LeastElement
  <2>2. next = [todo |-> rest, at |-> "create", of |-> least, left |-> left]
    BY <1>2 DEF Advanced
  <2>3. rest \in SUBSET (1..n) /\ least \in 1..n
    BY <2>1
  <2>4. least \in todo /\ m[least] # "none" /\ least # 0
    BY <2>1
  <2> HIDE DEF next, least, rest, there
  <2>5. next \in Calls(n) /\ next.at = "create" /\ next.of = least /\ next.left = left
    BY <2>2, <2>3 DEF Calls
  <2>6. /\ next.at \in {"idle", "create"} /\ next.of # 0 /\ next.left # 0
        /\ next.of \in todo /\ m[next.of] # "none"
    BY <1>2, <2>4, <2>5
  <2> QED
    BY <2>5, <2>6 DEF next
<1> QED
  BY <1>1, <1>2

LEMMA PassTaken ==
  ASSUME PassTyped, ClockTyped, ClockTyped', slot <= slot', NEW p \in Passes,
         NEW todo \in SUBSET (1..slot), NEW left \in 0..MaxCatchUp, NEW m,
         pass' = [pass EXCEPT ![p] = Advanced(todo, left, m)]
  PROVE  PassTyped'
<1> DEFINE next == Advanced(todo, left, m)
<1>1. slot \in Nat /\ slot' \in Nat
  BY DEF ClockTyped
<1>2. Calls(slot) \subseteq Calls(slot')
  BY <1>1 DEF Calls
<1>3. /\ next \in Calls(slot)
      /\ next.at # "idle" => next.of # 0 /\ next.left # 0
  BY <1>1, AdvancedTyped
<1>4. pass' = [pass EXCEPT ![p] = next]
  OBVIOUS
<1> HIDE DEF next
<1> QED
  BY <1>2, <1>3, <1>4 DEF PassTyped

LEMMA PendingDue ==
  ASSUME NEW n \in Nat, NEW m \in Due(n)
  PROVE  Pending(m) \subseteq 1..n
BY ConstantTypes DEF Due, Records, Pending, Slots

LEMMA PassKept ==
  ASSUME Typed, [Next]_vars, ClockTyped', slot <= slot'
  PROVE  PassTyped'
<1>1. /\ PassTyped /\ ClockTyped /\ slot \in Nat /\ slot' \in Nat /\ missed \in Due(slot)
      /\ \A p \in Passes : /\ pass[p] \in Calls(slot)
                           /\ pass[p].at # "idle" => pass[p].of # 0 /\ pass[p].left # 0
  BY DEF Typed, PassTyped, ClockTyped, MissedTyped
<1>2. Calls(slot) \subseteq Calls(slot')
  BY <1>1 DEF Calls
<1>3. CASE UNCHANGED pass
  BY <1>1, <1>2, <1>3 DEF PassTyped
<1>4. CASE Crash
  BY <1>1, <1>4, ConstantTypes DEF Crash, PassTyped, NoPass, Calls
<1>5. ASSUME NEW p \in Passes, StartPass(p)
      PROVE  PassTyped'
  <2>1. PICK todo \in {Pending(missed)} \cup {{s} : s \in Pending(missed)} :
          pass' = [pass EXCEPT ![p] = Advanced(todo, MaxCatchUp, missed)]
    BY <1>5 DEF StartPass, Take
  <2>2. todo \in SUBSET (1..slot) /\ MaxCatchUp \in 0..MaxCatchUp
    BY <1>1, PendingDue, ConstantTypes
  <2> QED
    BY <1>1, <2>1, <2>2, PassTaken
<1>6. ASSUME NEW p \in Passes, PassCreates(p)
      PROVE  PassTyped'
  <2> DEFINE next == [pass[p] EXCEPT !.at = "dispatch"]
  <2>1. next \in Calls(slot) /\ next.of # 0 /\ next.left # 0
    BY <1>1, <1>6 DEF PassCreates, Calls
  <2>2. pass' = [pass EXCEPT ![p] = next]
    BY <1>6 DEF PassCreates
  <2> HIDE DEF next
  <2> QED
    BY <1>1, <1>2, <2>1, <2>2 DEF PassTyped
<1>7. ASSUME NEW p \in Passes, PassSends(p) \/ PassFails(p)
      PROVE  PassTyped'
  <2>1. PICK left, m : /\ left \in {pass[p].left - 1, pass[p].left}
                      /\ pass' = [pass EXCEPT ![p] = Advanced(pass[p].todo, left, m)]
    BY <1>7 DEF PassSends, PassFails, Take
  <2>2. pass[p].todo \in SUBSET (1..slot) /\ left \in 0..MaxCatchUp
    <3>1. pass[p].at # "idle"
      BY <1>7 DEF PassSends, PassFails
    <3>2. /\ pass[p].todo \in SUBSET (1..slot)
          /\ pass[p].left \in 0..MaxCatchUp /\ pass[p].left # 0
      BY <1>1, <3>1 DEF Calls
    <3> QED
      BY <2>1, <3>2, ConstantTypes
  <2> QED
    BY <1>1, <2>1, <2>2, PassTaken
<1>8. CASE \/ SlotComesDue \/ GraceEnds \/ WriteMissed \/ WriteSkipped \/ Tick \/ Start
           \/ RunTaskNow \/ ChainGoesOn
  BY <1>3, <1>8
  DEF SlotComesDue, GraceEnds, WriteMissed, WriteSkipped, Tick, Start, RunTaskNow, ChainGoesOn,
      ChainCreates, ChainSends, ChainFails
<1>9. ASSUME NEW s \in Slots, Dismiss(s) \/ Skip(s)
      PROVE  PassTyped'
  BY <1>3, <1>9 DEF Dismiss, Skip
<1>10. CASE UNCHANGED vars
  BY <1>3, <1>10 DEF vars
<1> QED
  BY <1>4, <1>5, <1>6, <1>7, <1>8, <1>9, <1>10 DEF Next, PassGoesOn


\* What was sent, and what of it is under way.
LEMMA FewerSending ==
  ASSUME RunsTyped, runs' = runs, \A s \in Slots : Sending(s)' \subseteq Sending(s)
  PROVE  RunsTyped'
<1>1. ASSUME NEW s \in Slots
      PROVE  Cardinality(Sending(s)') <= runs[s]
  <2>1. /\ IsFiniteSet(Sending(s)) /\ Cardinality(Sending(s)) \in Nat /\ runs[s] \in Nat
        /\ Cardinality(Sending(s)) <= runs[s]
    BY SendingFinite DEF RunsTyped
  <2>2. /\ Cardinality(Sending(s)') <= Cardinality(Sending(s))
        /\ IsFiniteSet(Sending(s)')
    BY <2>1, FS_Subset
  <2>3. Cardinality(Sending(s)') \in Nat
    BY <2>2, FS_CardinalityType
  <2> QED
    BY <2>1, <2>2, <2>3
<1> QED
  BY <1>1 DEF RunsTyped

LEMMA OneSent ==
  ASSUME RunsTyped, NEW t \in Slots, Sent(t), NEW x,
         \A s \in Slots : Sending(s)' \subseteq IF s = t THEN Sending(s) \cup {x} ELSE Sending(s)
  PROVE  RunsTyped'
<1>1. ASSUME NEW s \in Slots
      PROVE  Cardinality(Sending(s)') <= runs'[s]
  <2> DEFINE more == IF s = t THEN Sending(s) \cup {x} ELSE Sending(s)
             now  == Sending(s)'
  <2>1. /\ IsFiniteSet(Sending(s)) /\ Cardinality(Sending(s)) \in Nat /\ runs[s] \in Nat
        /\ Cardinality(Sending(s)) <= runs[s]
    BY SendingFinite DEF RunsTyped
  <2>2. /\ IsFiniteSet(more)
        /\ Cardinality(more) <= IF s = t THEN Cardinality(Sending(s)) + 1
                                ELSE Cardinality(Sending(s))
    BY <2>1, FS_AddElement
  <2>3. now \in SUBSET more
    OBVIOUS
  <2> HIDE DEF more, now
  <2>4. Cardinality(now) <= Cardinality(more) /\ IsFiniteSet(now)
    BY <2>2, <2>3, FS_Subset
  <2>5. Cardinality(now) \in Nat /\ Cardinality(more) \in Nat
    BY <2>2, <2>4, FS_CardinalityType
  <2>6. runs'[s] = IF s = t THEN runs[s] + 1 ELSE runs[s]
    BY DEF Sent, RunsTyped
  <2>7. Cardinality(now) <= runs'[s]
    BY <2>1, <2>2, <2>4, <2>5, <2>6
  <2> QED
    BY <2>7 DEF now
<1>2. runs' \in [Slots -> Nat]
  BY DEF Sent, RunsTyped
<1> QED
  BY <1>1, <1>2 DEF RunsTyped

LEMMA OneNotSent ==
  ASSUME RunsTyped, NEW t \in Slots, NotSent(t), NEW x \in Sending(t),
         \A s \in Slots : Sending(s)' \subseteq IF s = t THEN Sending(s) \ {x} ELSE Sending(s)
  PROVE  RunsTyped'
<1>1. ASSUME NEW s \in Slots
      PROVE  Cardinality(Sending(s)') <= runs'[s] /\ runs'[s] \in Nat
  <2> DEFINE less == IF s = t THEN Sending(s) \ {x} ELSE Sending(s)
             now  == Sending(s)'
  <2>1. /\ IsFiniteSet(Sending(s)) /\ Cardinality(Sending(s)) \in Nat /\ runs[s] \in Nat
        /\ Cardinality(Sending(s)) <= runs[s]
    BY SendingFinite DEF RunsTyped
  <2>2. /\ IsFiniteSet(less)
        /\ Cardinality(less) = IF s = t THEN Cardinality(Sending(s)) - 1
                               ELSE Cardinality(Sending(s))
    BY <2>1, FS_RemoveElement
  <2>3. now \in SUBSET less
    OBVIOUS
  <2> HIDE DEF less, now
  <2>4. Cardinality(now) <= Cardinality(less) /\ IsFiniteSet(now)
    BY <2>2, <2>3, FS_Subset
  <2>5. Cardinality(now) \in Nat /\ Cardinality(less) \in Nat
    BY <2>2, <2>4, FS_CardinalityType
  <2>6. runs'[s] = IF s = t THEN runs[s] - 1 ELSE runs[s]
    BY DEF NotSent, RunsTyped
  <2>7. Cardinality(now) <= runs'[s] /\ runs'[s] \in Nat
    BY <2>1, <2>2, <2>4, <2>5, <2>6
  <2> QED
    BY <2>7 DEF now
<1>2. DOMAIN runs' = Slots /\ runs' = [s \in Slots |-> runs'[s]]
  BY DEF NotSent, RunsTyped
<1> QED
  BY <1>1, <1>2 DEF RunsTyped

\* The slots of the chain and of the calls.
LEMMA InSlots ==
  ASSUME Typed
  PROVE  /\ chain # <<>> => Head(chain) \in Slots /\ Head(chain) <= slot
         /\ \A p \in Passes : pass[p].at # "idle" => pass[p].of \in Slots /\ pass[p].of <= slot
<1>1. slot \in Nat /\ slot <= MaxSlot
  BY ConstantTypes DEF Typed, ClockTyped
<1>2. chain # <<>> => Head(chain) \in 1..slot
  BY TailOf DEF Typed, ChainTyped
<1>3. \A p \in Passes : pass[p].at # "idle" => pass[p].of \in 1..slot
  BY <1>1 DEF Typed, PassTyped, Calls
<1> QED
  BY <1>1, <1>2, <1>3, ConstantTypes DEF Slots


\* A call that takes up its next slot, or ends.
LEMMA CallAdvances ==
  ASSUME Typed, NEW p \in Passes, StartPass(p) \/ PassSends(p) \/ PassFails(p)
  PROVE  \E next :
           /\ pass' = [pass EXCEPT ![p] = next]
           /\ next.at \in {"idle", "create"}
           /\ next.at # "idle" =>
                /\ next.of \in Slots /\ missed'[next.of] # "none"
                /\ StartPass(p) => missed[next.of] = "pending"
           /\ crossed' = crossed \cup Crosses(p, next, missed')
<1>1. /\ slot \in Nat /\ slot <= MaxSlot /\ missed \in Due(slot)
      /\ \A q \in Passes : pass[q] \in Calls(slot)
      /\ \A q \in Passes : pass[q].at # "idle" => pass[q].left # 0
  BY ConstantTypes DEF Typed, PassTyped, ClockTyped, MissedTyped
<1>2. ASSUME NEW todo \in SUBSET (1..slot), NEW left \in 0..MaxCatchUp,
             Take(p, Advanced(todo, left, missed'), missed'),
             StartPass(p) => \A s \in todo : missed[s] = "pending"
      PROVE  \E next :
               /\ pass' = [pass EXCEPT ![p] = next]
               /\ next.at \in {"idle", "create"}
               /\ next.at # "idle" =>
                    /\ next.of \in Slots /\ missed'[next.of] # "none"
                    /\ StartPass(p) => missed[next.of] = "pending"
               /\ crossed' = crossed \cup Crosses(p, next, missed')
  <2> DEFINE next == Advanced(todo, left, missed')
  <2>1. /\ next.at \in {"idle", "create"}
        /\ next.at # "idle" => next.of \in todo /\ missed'[next.of] # "none"
    BY <1>1, AdvancedTyped
  <2>2. pass' = [pass EXCEPT ![p] = next] /\ crossed' = crossed \cup Crosses(p, next, missed')
    BY <1>2 DEF Take
  <2> HIDE DEF next
  <2>3. todo \subseteq Slots
    BY <1>1, ConstantTypes DEF Slots
  <2> QED
    BY <1>2, <2>1, <2>2, <2>3
<1>3. CASE StartPass(p)
  <2>1. PICK todo \in {Pending(missed)} \cup {{s} : s \in Pending(missed)} :
          Take(p, Advanced(todo, MaxCatchUp, missed), missed)
    BY <1>3 DEF StartPass
  <2>2. /\ todo \in SUBSET (1..slot) /\ MaxCatchUp \in 0..MaxCatchUp
        /\ \A s \in todo : missed[s] = "pending"
    BY <1>1, PendingDue, ConstantTypes DEF Pending
  <2>3. missed' = missed
    BY <1>3 DEF StartPass, missedVars
  <2> QED
    BY <1>2, <2>1, <2>2, <2>3
<1>4. CASE PassSends(p) \/ PassFails(p)
  <2>1. PICK left : /\ left \in {pass[p].left - 1, pass[p].left}
                    /\ Take(p, Advanced(pass[p].todo, left, missed'), missed')
    BY <1>4 DEF PassSends, PassFails, SaveMissed, missedVars
  <2>2. pass[p].at # "idle" /\ ~StartPass(p)
    BY <1>4 DEF PassSends, PassFails, StartPass
  <2>3. /\ pass[p].todo \in SUBSET (1..slot)
        /\ pass[p].left \in 0..MaxCatchUp /\ pass[p].left # 0
    BY <1>1, <2>2 DEF Calls
  <2>4. left \in 0..MaxCatchUp
    BY <2>1, <2>3, ConstantTypes
  <2> QED
    BY <1>2, <2>1, <2>2, <2>3, <2>4
<1> QED
  BY <1>3, <1>4

LEMMA RunsKept ==
  ASSUME Typed, [Next]_vars
  PROVE  RunsTyped'
<1>1. /\ RunsTyped /\ ChainTyped /\ PassTyped /\ slot \in Nat
      /\ \A p \in Passes : pass[p] \in Calls(slot)
      /\ chain \in Seq(1..slot)
  BY DEF Typed, PassTyped, ChainTyped, ClockTyped
<1>2. ASSUME UNCHANGED <<runs, pass>>,
             head' = "dispatch" => head = "dispatch" /\ Head(chain') = Head(chain)
      PROVE  RunsTyped'
  <2>1. \A s \in Slots : Sending(s)' \subseteq Sending(s)
    BY <1>2 DEF Sending
  <2> QED
    BY <1>1, <1>2, <2>1, FewerSending
<1>3. CASE ChainCreates
  <2>1. \A s \in Slots : Sending(s)' \subseteq
          IF s = Head(chain) THEN Sending(s) \cup {0} ELSE Sending(s)
    BY <1>3 DEF ChainCreates, Sending
  <2> QED
    BY <1>1, <1>3, <2>1, InSlots, OneSent DEF ChainCreates
<1>4. CASE ChainSends
  BY <1>2, <1>4 DEF ChainSends, history
<1>5. CASE ChainFails
  <2>1. CASE head = "dispatch"
    <3>1. 0 \in Sending(Head(chain)) /\ Head(chain) \in Slots /\ NotSent(Head(chain))
      BY <1>5, <2>1, InSlots DEF Sending, ChainFails
    <3>2. \A s \in Slots : Sending(s)' \subseteq
            IF s = Head(chain) THEN Sending(s) \ {0} ELSE Sending(s)
      BY <1>5, ConstantTypes DEF ChainFails, Sending
    <3> QED
      BY <1>1, <3>1, <3>2, OneNotSent
  <2>2. CASE head # "dispatch"
    BY <1>2, <1>5, <2>2 DEF ChainFails
  <2> QED
    BY <2>1, <2>2
<1>6. CASE Tick
  <2>1. CASE UNCHANGED chain
    BY <1>2, <1>6, <2>1 DEF Tick, history
  <2>2. CASE Fire(slot) /\ head = "dispatch"
    <3>1. chain # <<>>
      BY <1>1, <2>2 DEF ChainTyped
    <3>2. Head(chain') = Head(chain)
      BY <1>1, <2>2, <3>1 DEF Fire
    <3> QED
      BY <1>2, <1>6, <2>2, <3>2 DEF Tick, history
  <2>3. CASE head # "dispatch"
    BY <1>2, <1>6, <2>3 DEF Tick, history
  <2> QED
    BY <1>6, <2>1, <2>2, <2>3 DEF Tick
<1>7. CASE Crash
  <2>1. \A s \in Slots : Sending(s)' \subseteq Sending(s)
    BY <1>7 DEF Crash, Sending, NoPass
  <2> QED
    BY <1>1, <1>7, <2>1, FewerSending DEF Crash
<1>8. ASSUME NEW p \in Passes, StartPass(p) \/ PassSends(p) \/ PassFails(p)
      PROVE  /\ \E next : /\ pass' = [pass EXCEPT ![p] = next]
                          /\ next.at # "dispatch"
             /\ UNCHANGED <<chain, head>>
  <2>1. UNCHANGED <<chain, head>>
    BY <1>8 DEF StartPass, PassSends, PassFails
  <2> QED
    BY <1>8, <2>1, CallAdvances
<1>9. ASSUME NEW p \in Passes, StartPass(p) \/ PassSends(p) \/ PassFails(p)
      PROVE  \A s \in Slots : Sending(s)' \subseteq Sending(s) \ {p}
  <2>1. PICK next : pass' = [pass EXCEPT ![p] = next] /\ next.at # "dispatch"
    BY <1>8, <1>9
  <2>2. /\ pass'[p] = next /\ \A q \in Passes \ {p} : pass'[q] = pass[q]
        /\ UNCHANGED <<chain, head>>
    BY <1>1, <1>8, <1>9, <2>1 DEF PassTyped
  <2> QED
    BY <2>1, <2>2, ConstantTypes DEF Sending
<1>10. ASSUME NEW p \in Passes, StartPass(p) \/ PassSends(p)
       PROVE  RunsTyped'
  BY <1>1, <1>9, <1>10, FewerSending DEF StartPass, PassSends
<1>11. ASSUME NEW p \in Passes, PassCreates(p)
       PROVE  RunsTyped'
  <2> DEFINE next == [pass[p] EXCEPT !.at = "dispatch"]
  <2>1. next.of = pass[p].of /\ pass' = [pass EXCEPT ![p] = next] /\ UNCHANGED <<chain, head>>
    BY <1>1, <1>11 DEF PassCreates, Calls
  <2>2. pass'[p] = next /\ \A q \in Passes \ {p} : pass'[q] = pass[q]
    BY <1>1, <2>1 DEF PassTyped
  <2> HIDE DEF next
  <2>3. \A s \in Slots : Sending(s)' \subseteq
          IF s = pass[p].of THEN Sending(s) \cup {p} ELSE Sending(s)
    BY <2>1, <2>2 DEF Sending
  <2> QED
    BY <1>1, <1>11, <2>3, InSlots, OneSent DEF PassCreates
<1>12. ASSUME NEW p \in Passes, PassFails(p)
       PROVE  RunsTyped'
  <2>1. CASE pass[p].at = "dispatch"
    <3>1. p \in Sending(pass[p].of) /\ pass[p].of \in Slots /\ NotSent(pass[p].of)
      BY <1>12, <2>1, InSlots DEF Sending, PassFails
    <3>2. \A s \in Slots : Sending(s)' \subseteq
            IF s = pass[p].of THEN Sending(s) \ {p} ELSE Sending(s)
      BY <1>9, <1>12
    <3> QED
      BY <1>1, <3>1, <3>2, OneNotSent
  <2>2. CASE pass[p].at # "dispatch"
    BY <1>1, <1>9, <1>12, <2>2, FewerSending DEF PassFails
  <2> QED
    BY <2>1, <2>2
<1>13. CASE SlotComesDue \/ GraceEnds \/ WriteMissed \/ WriteSkipped \/ Start \/ RunTaskNow
  BY <1>2, <1>13
  DEF SlotComesDue, GraceEnds, WriteMissed, WriteSkipped, Start, RunTaskNow, history
<1>14. ASSUME NEW s \in Slots, Dismiss(s) \/ Skip(s)
       PROVE  RunsTyped'
  BY <1>2, <1>14 DEF Dismiss, Skip, history
<1>15. CASE UNCHANGED vars
  BY <1>2, <1>15 DEF vars
<1> QED
  BY <1>3, <1>4, <1>5, <1>6, <1>7, <1>10, <1>11, <1>12, <1>13, <1>14, <1>15
  DEF Next, ChainGoesOn, PassGoesOn


LEMMA HistoryKept ==
  ASSUME Typed, [Next]_vars
  PROVE  HistoryTyped'
<1>1. HistoryTyped /\ lastRun \in Nat /\ lastRun <= MaxSlot
  BY ConstantTypes DEF Typed, ClockTyped
<1>2. CASE UNCHANGED <<reopened, crossed>>
  BY <1>1, <1>2 DEF HistoryTyped
<1>3. CASE Crash
  <2>1. {pass[p].of : p \in {q \in Passes : pass[q].at = "dispatch"}} \subseteq Slots
    BY InSlots
  <2> QED
    BY <1>1, <1>3, <2>1 DEF Crash, HistoryTyped
<1>4. ASSUME NEW p \in Passes, StartPass(p) \/ PassSends(p) \/ PassFails(p)
      PROVE  HistoryTyped'
  <2>1. PICK next :
          /\ next.at # "idle" => next.of \in Slots
          /\ crossed' = crossed \cup Crosses(p, next, missed')
    BY <1>4, CallAdvances
  <2>2. crossed' \subseteq Slots
    BY <1>1, <2>1 DEF Crosses, HistoryTyped
  <2>3. pass[p].at # "idle" => (pass[p].of + 1)..lastRun \subseteq Slots
    BY <1>1, InSlots, ConstantTypes DEF Slots
  <2>4. reopened' \subseteq Slots
    BY <1>1, <1>4, <2>3 DEF StartPass, PassSends, PassFails, HistoryTyped
  <2> QED
    BY <2>2, <2>4 DEF HistoryTyped
<1>5. CASE \/ SlotComesDue \/ GraceEnds \/ WriteMissed \/ WriteSkipped \/ Tick \/ Start
           \/ RunTaskNow \/ ChainGoesOn
  BY <1>2, <1>5
  DEF SlotComesDue, GraceEnds, WriteMissed, WriteSkipped, Tick, Start, RunTaskNow, ChainGoesOn,
      ChainCreates, ChainSends, ChainFails, history
<1>6. ASSUME NEW p \in Passes, PassCreates(p)
      PROVE  HistoryTyped'
  BY <1>2, <1>6 DEF PassCreates
<1>7. ASSUME NEW s \in Slots, Dismiss(s) \/ Skip(s)
      PROVE  HistoryTyped'
  BY <1>2, <1>7 DEF Dismiss, Skip, history
<1>8. CASE UNCHANGED vars
  BY <1>2, <1>8 DEF vars
<1> QED
  BY <1>3, <1>4, <1>5, <1>6, <1>7, <1>8 DEF Next, PassGoesOn

\* While the app is closed nothing is under way.
LEMMA ClosedKept ==
  ASSUME Typed, [Next]_vars
  PROVE  Closed'
<1>1. Closed
  BY DEF Typed
<1>2. CASE ~up
  <2>1. CASE Start
    BY <2>1 DEF Start, Closed
  <2>2. \A p \in Passes : pass[p].at = "idle"
    BY <1>1, <1>2 DEF Closed, NoPass
  <2>3. ~ChainGoesOn /\ \A p \in Passes : ~PassGoesOn(p)
    BY <1>1, <1>2, <2>2
    DEF Closed, ChainGoesOn, ChainCreates, ChainSends, ChainFails, PassGoesOn, PassCreates,
        PassSends, PassFails
  <2>4. CASE SlotComesDue \/ GraceEnds \/ UNCHANGED vars
    BY <1>1, <2>4 DEF SlotComesDue, GraceEnds, vars, missedVars, skipVars, Closed
  <2> QED
    BY <1>2, <2>1, <2>3, <2>4
    DEF Next, WriteMissed, WriteSkipped, Tick, Crash, RunTaskNow, ClaimDue, StartPass, Dismiss,
        Skip
<1>3. CASE up /\ up'
  BY <1>3 DEF Closed
<1>4. CASE Crash
  BY <1>4 DEF Crash, Closed
<1>5. CASE up /\ ~Crash
  <2>1. up' = up
    BY <1>5
    DEF Next, SlotComesDue, GraceEnds, WriteMissed, WriteSkipped, Tick, Start, RunTaskNow,
        ChainGoesOn, ChainCreates, ChainSends, ChainFails, StartPass, PassGoesOn, PassCreates,
        PassSends, PassFails, Dismiss, Skip, clock, vars
  <2> QED
    BY <1>3, <1>5, <2>1
<1> QED
  BY <1>2, <1>4, <1>5

LEMMA NextTyped == Typed /\ [Next]_vars => Typed'
<1> SUFFICES ASSUME Typed, [Next]_vars PROVE Typed'
  OBVIOUS
<1>1. ClockTyped' /\ slot <= slot'
  BY ClockKept
<1>2. MissedTyped' /\ SkipTyped' /\ ChainTyped' /\ PassTyped'
  BY <1>1, MissedKept, SkipsTypedKept, ChainKept, PassKept
<1>3. RunsTyped' /\ HistoryTyped' /\ Closed'
  BY RunsKept, HistoryKept, ClosedKept
<1> QED
  BY <1>1, <1>2, <1>3 DEF Typed

LEMMA TypedInvariant == Spec => []Typed
BY InitTyped, NextTyped, PTL DEF Spec

(***************************************************************************)
(* Types, for any number of slots, calls, faults and any bound on a        *)
(* catch-up pass: a run under way was counted, a call runs slots that came *)
(* due, and nothing is under way while the app is closed.                  *)
(***************************************************************************)
THEOREM ScheduleTypes == Spec => []TypeOK
BY TypedInvariant, TypedIsTypeOK, PTL


-----------------------------------------------------------------------------
(* Skips.                                                                  *)

\* A slot stays claimed until a step gives its claim back.
LEMMA ClaimsKept ==
  ASSUME Typed, [Next]_vars
  PROVE  /\ reopened \subseteq reopened'
         /\ \A s \in Slots \ reopened' : s <= lastRun => s <= lastRun'
<1>1. slot \in Nat /\ lastRun \in Nat /\ lastRun <= slot
  BY DEF Typed, ClockTyped
<1>2. CASE UNCHANGED <<reopened, lastRun>>
  BY <1>2
<1>3. CASE Tick
  BY <1>1, <1>3, ConstantTypes DEF Tick, RecordMiss, Fire, history
<1>4. CASE Start
  BY <1>1, <1>4, ConstantTypes DEF Start, history
<1>5. CASE RunTaskNow
  BY <1>1, <1>5, ConstantTypes DEF RunTaskNow, ClaimDue, history
<1>6. ASSUME NEW p \in Passes, PassSends(p)
      PROVE  /\ reopened \subseteq reopened'
             /\ \A s \in Slots \ reopened' : s <= lastRun => s <= lastRun'
  <2>1. pass[p].of \in Nat
    BY <1>6, InSlots, ConstantTypes DEF PassSends
  <2>2. lastRun' = pass[p].of /\ reopened' = reopened \cup ((pass[p].of + 1)..lastRun)
    BY <1>6 DEF PassSends
  <2> QED
    BY <1>1, <2>1, <2>2, ConstantTypes
<1>7. CASE SlotComesDue \/ GraceEnds \/ WriteMissed \/ WriteSkipped \/ Crash \/ ChainGoesOn
  BY <1>2, <1>7
  DEF SlotComesDue, GraceEnds, WriteMissed, WriteSkipped, Crash, ChainGoesOn, ChainCreates,
      ChainSends, ChainFails, history
<1>8. ASSUME NEW p \in Passes, StartPass(p) \/ PassCreates(p) \/ PassFails(p)
      PROVE  UNCHANGED <<reopened, lastRun>>
  BY <1>8 DEF StartPass, PassCreates, PassFails
<1>9. ASSUME NEW s \in Slots, Dismiss(s) \/ Skip(s)
      PROVE  UNCHANGED <<reopened, lastRun>>
  BY <1>9 DEF Dismiss, Skip, history
<1>10. CASE UNCHANGED vars
  BY <1>2, <1>10 DEF vars
<1> QED
  BY <1>2, <1>3, <1>4, <1>5, <1>6, <1>7, <1>8, <1>9, <1>10 DEF Next, PassGoesOn

\* A slot that may still be fired or recorded: not claimed, and no later one is due.
Live(s) == s \notin reopened /\ s > lastRun /\ s >= slot

\* A skip the user was told of is in every snapshot, and no failing write takes it back;
\* one that waits for its write is in the later ones, which take back others.
SkipKept(s) ==
  /\ s \in acked =>
       /\ s \in skipped /\ s \in skipFile
       /\ \A i \in DOMAIN skipOut : s \in skipOut[i].set \ skipOut[i].by
  /\ \A i \in DOMAIN skipOut : s \in skipOut[i].by =>
       /\ s \in skipOut[i].set /\ s \in skipped
       /\ \A j \in DOMAIN skipOut : i < j => s \in skipOut[j].set \ skipOut[j].by

SkipsKept == \A s \in Slots : Live(s) => SkipKept(s)

LEMMA SaveSkippedKept ==
  ASSUME SkipTyped, NEW s \in Slots, SkipKept(s), NEW set \in SUBSET Slots, NEW by \in SUBSET set,
         SaveSkipped(set, by), s \in skipped => s \in set \ by
  PROVE  SkipKept(s)'
<1> DEFINE batch == [set |-> set, by |-> by]
<1>1. batch \in Batches /\ skipOut \in Seq(Batches)
  BY DEF Batches, SkipTyped
<1>2. batch.set = set /\ batch.by = by
  OBVIOUS
<1>3. CASE set = skipped
  BY <1>3 DEF SaveSkipped, SkipKept
<1>4. CASE set # skipped
  <2>1. /\ skipOut' = Append(skipOut, batch) /\ skipped' = set
        /\ UNCHANGED <<skipFile, acked>>
    BY <1>4 DEF SaveSkipped
  <2> HIDE DEF batch
  <2> DEFINE n == Len(skipOut) + 1
  <2>2. /\ DOMAIN skipOut' = DOMAIN skipOut \cup {n} /\ skipOut'[n] = batch
        /\ \A i \in DOMAIN skipOut : skipOut'[i] = skipOut[i] /\ i < n /\ i \in Nat
        /\ n \in Nat
    BY <1>1, <2>1, AppendOf
  <2> HIDE DEF n
  <2>3. s \in acked' =>
          /\ s \in skipped' /\ s \in skipFile'
          /\ \A i \in DOMAIN skipOut' : s \in skipOut'[i].set \ skipOut'[i].by
    BY <1>2, <2>1, <2>2 DEF SkipKept
  <2>4. ASSUME NEW i \in DOMAIN skipOut', s \in skipOut'[i].by
        PROVE  /\ s \in skipOut'[i].set /\ s \in skipped'
               /\ \A j \in DOMAIN skipOut' : i < j => s \in skipOut'[j].set \ skipOut'[j].by
    <3>1. CASE i = n
      BY <1>2, <2>1, <2>2, <2>4, <3>1
    <3>2. CASE i \in DOMAIN skipOut
      BY <1>2, <2>1, <2>2, <2>4, <3>2 DEF SkipKept
    <3> QED
      BY <2>2, <3>1, <3>2
  <2> QED
    BY <2>3, <2>4 DEF SkipKept
<1> QED
  BY <1>3, <1>4

LEMMA WriteSkippedKept ==
  ASSUME SkipTyped, NEW s \in Slots, SkipKept(s), WriteSkipped
  PROVE  SkipKept(s)'
<1> DEFINE h == Head(skipOut)
           rest == Tail(skipOut)
           kept == skipped \ h.by
           last == [set |-> kept, by |-> {}]
<1>1. /\ h \in Batches /\ h = skipOut[1] /\ 1 \in DOMAIN skipOut
      /\ rest \in Seq(Batches)
      /\ \A i \in DOMAIN rest : /\ i \in Nat /\ i + 1 \in DOMAIN skipOut /\ 1 < i + 1
                                /\ rest[i] = skipOut[i + 1]
  BY TailOf DEF WriteSkipped, SkipTyped
<1>2. \A i \in DOMAIN rest :
        /\ s \in acked \cup h.by => s \in rest[i].set \ rest[i].by
        /\ s \in rest[i].by =>
             /\ s \in rest[i].set /\ s \in skipped /\ s \notin h.by
             /\ \A j \in DOMAIN rest : i < j => s \in rest[j].set \ rest[j].by
  <2> SUFFICES ASSUME NEW i \in DOMAIN rest
               PROVE  /\ s \in acked \cup h.by => s \in rest[i].set \ rest[i].by
                      /\ s \in rest[i].by =>
                           /\ s \in rest[i].set /\ s \in skipped /\ s \notin h.by
                           /\ \A j \in DOMAIN rest : i < j => s \in rest[j].set \ rest[j].by
    OBVIOUS
  <2>1. \A j \in DOMAIN rest : i < j => i + 1 < j + 1
    BY <1>1
  <2> HIDE DEF h, rest
  <2> QED
    BY <1>1, <2>1 DEF SkipKept
<1>3. s \in acked => s \in h.set \ h.by /\ s \in skipped /\ s \in skipFile
  BY <1>1 DEF SkipKept
<1>4. s \in h.by => s \in h.set /\ s \in skipped
  BY <1>1 DEF SkipKept
<1>5. CASE /\ skipFile' = h.set /\ acked' = acked \cup h.by
           /\ skipOut' = rest /\ UNCHANGED skipped
  <2> HIDE DEF h, rest
  <2> QED
    BY <1>2, <1>3, <1>4, <1>5 DEF SkipKept
<1>6. CASE /\ skipped' = kept /\ UNCHANGED <<skipFile, acked>>
           /\ skipOut' = rest \o (IF h.by = {} THEN <<>> ELSE <<last>>)
  <2>1. last.set = kept /\ last.by = {}
    OBVIOUS
  <2>2. \A i \in DOMAIN skipOut' :
          \/ i \in DOMAIN rest /\ skipOut'[i] = rest[i]
          \/ /\ skipOut'[i] = last
             /\ \A j \in DOMAIN skipOut' : ~(i < j)
    <3> HIDE DEF h, rest, last
    <3>1. CASE h.by = {}
      BY <1>1, <1>6, <3>1
    <3>2. CASE h.by # {}
      <4>1. skipOut' = Append(rest, last)
        BY <1>1, <1>6, <3>2
      <4> QED
        BY <1>1, <4>1
    <3> QED
      BY <3>1, <3>2
  <2>3. s \in kept <=> s \in skipped /\ s \notin h.by
    OBVIOUS
  <2> HIDE DEF h, rest, last, kept
  <2>4. s \in acked' =>
          /\ s \in skipped' /\ s \in skipFile'
          /\ \A i \in DOMAIN skipOut' : s \in skipOut'[i].set \ skipOut'[i].by
    BY <1>2, <1>3, <1>6, <2>1, <2>2, <2>3
  <2>5. ASSUME NEW i \in DOMAIN skipOut', s \in skipOut'[i].by
        PROVE  /\ s \in skipOut'[i].set /\ s \in skipped'
               /\ \A j \in DOMAIN skipOut' : i < j => s \in skipOut'[j].set \ skipOut'[j].by
    BY <1>2, <1>6, <2>1, <2>2, <2>3, <2>5
  <2> QED
    BY <2>4, <2>5 DEF SkipKept
<1> QED
  BY <1>5, <1>6 DEF WriteSkipped

LEMMA NextSkipsKept ==
  ASSUME Typed, SkipsKept, [Next]_vars
  PROVE  SkipsKept'
<1> SUFFICES ASSUME NEW s \in Slots, Live(s)'
             PROVE  SkipKept(s)'
  BY DEF SkipsKept
<1>1. /\ SkipTyped /\ skipped \subseteq Slots /\ skipFile \subseteq Slots
      /\ slot \in Nat /\ slot' \in Nat /\ slot <= slot' /\ lastRun \in Nat /\ lastRun' \in Nat
      /\ s \in Nat
  BY ClockKept, ConstantTypes DEF Typed, SkipTyped, ClockTyped
<1>2. Live(s) /\ SkipKept(s)
  <2>1. s \notin reopened /\ s > lastRun
    BY <1>1, ClaimsKept DEF Live
  <2> QED
    BY <1>1, <2>1 DEF Live, SkipsKept
<1>3. CASE UNCHANGED skipVars
  BY <1>2, <1>3 DEF skipVars, SkipKept
<1>4. CASE WriteSkipped
  BY <1>1, <1>2, <1>4, WriteSkippedKept
<1>5. CASE Tick
  <2>1. /\ PrunedSkips(skipped, slot) \subseteq Slots
        /\ s \in skipped => s \in PrunedSkips(skipped, slot)
    BY <1>1, <1>2 DEF PrunedSkips, Live
  <2> QED
    BY <1>1, <1>2, <1>5, <2>1, SaveSkippedKept DEF Tick
<1>6. CASE Start
  <2> DEFINE skips == PrunedSkips(skipFile, slot)
  <2>1. s \in skipFile => s \in skips
    BY <1>1, <1>2 DEF PrunedSkips, Live
  <2>2. /\ skipped' = skips /\ UNCHANGED <<skipFile, acked>>
        /\ skipOut' = IF skips = skipFile THEN <<>> ELSE <<[set |-> skips, by |-> {}]>>
    BY <1>6 DEF Start
  <2> HIDE DEF skips
  <2>3. \A i \in DOMAIN skipOut' : skipOut'[i].set = skips /\ skipOut'[i].by = {}
    BY <2>2
  <2> QED
    BY <1>2, <2>1, <2>2, <2>3 DEF SkipKept
<1>7. CASE Crash
  BY <1>2, <1>7 DEF Crash, SkipKept
<1>8. ASSUME NEW t \in Slots, Skip(t)
      PROVE  SkipKept(s)'
  <2> DEFINE batch == {n \in Skippable : n <= t}
  <2>1. /\ batch \subseteq Slots \ skipped /\ SaveSkipped(skipped \cup batch, batch)
    BY <1>8 DEF Skip, Skippable
  <2> HIDE DEF batch
  <2> QED
    BY <1>1, <1>2, <2>1, SaveSkippedKept
<1>9. CASE SlotComesDue \/ GraceEnds \/ WriteMissed \/ RunTaskNow \/ ChainGoesOn
  BY <1>3, <1>9
  DEF SlotComesDue, GraceEnds, WriteMissed, RunTaskNow, ChainGoesOn, ChainCreates, ChainSends,
      ChainFails
<1>10. ASSUME NEW p \in Passes, StartPass(p) \/ PassGoesOn(p)
       PROVE  SkipKept(s)'
  BY <1>3, <1>10 DEF StartPass, PassGoesOn, PassCreates, PassSends, PassFails
<1>11. ASSUME NEW t \in Slots, Dismiss(t)
       PROVE  SkipKept(s)'
  BY <1>3, <1>11 DEF Dismiss
<1>12. CASE UNCHANGED vars
  BY <1>3, <1>12 DEF vars, skipVars
<1> QED
  BY <1>4, <1>5, <1>6, <1>7, <1>8, <1>9, <1>10, <1>11, <1>12 DEF Next

LEMMA InitSkipsKept == Init => SkipsKept
BY DEF Init, SkipsKept, SkipKept

\* The due slot is still skipped, in memory and on disk, when the user was told so.
LEMMA DueIsSkipped ==
  ASSUME Typed, SkipsKept, slot > lastRun, slot \in acked \ reopened
  PROVE  slot \in PrunedSkips(skipped, slot) /\ slot \in PrunedSkips(skipFile, slot)
<1>1. slot \in Slots /\ slot \in Nat /\ lastRun \in Nat
  BY ConstantTypes DEF Typed, SkipTyped, ClockTyped
<1>2. Live(slot)
  BY <1>1 DEF Live
<1>3. slot \in skipped /\ slot \in skipFile
  BY <1>1, <1>2 DEF SkipsKept, SkipKept
<1> QED
  BY <1>1, <1>3 DEF PrunedSkips

\* What a step may not do to a skipped slot.
StaysOutStep ==
  \A s \in acked \ reopened :
     /\ Len(chain') > Len(chain) => Last(chain') # s
     /\ missed'[s] = "pending" => "pending" \in {missed[s], missedFile[s]}

LEMMA NextStaysOut == Typed /\ SkipsKept /\ [Next]_vars => [StaysOutStep]_vars
<1> SUFFICES ASSUME Typed, SkipsKept, Next
             PROVE  StaysOutStep
  OBVIOUS
<1>1. /\ chain \in Seq(1..slot) /\ slot \in Nat /\ lastRun \in Nat /\ Len(chain) \in Nat
      /\ missed \in Due(slot) /\ missedFile \in Due(slot) /\ acked \subseteq Slots
  BY DEF Typed, ChainTyped, ClockTyped, MissedTyped, SkipTyped
<1>2. ASSUME UNCHANGED <<chain, missed>>
      PROVE  StaysOutStep
  BY <1>1, <1>2 DEF StaysOutStep
<1>3. CASE WriteMissed \/ WriteSkipped \/ SlotComesDue \/ GraceEnds \/ RunTaskNow
  BY <1>2, <1>3 DEF WriteMissed, WriteSkipped, SlotComesDue, GraceEnds, RunTaskNow, missedVars
<1>4. CASE ChainGoesOn
  <2>1. chain # <<>> => Len(Tail(chain)) < Len(chain) /\ Len(Tail(chain)) \in Nat
    BY <1>1
  <2>2. Len(chain') <= Len(chain) /\ Len(chain') \in Nat /\ UNCHANGED missed
    BY <1>1, <1>4, <2>1 DEF ChainGoesOn, ChainCreates, ChainSends, ChainFails, missedVars
  <2> QED
    BY <1>1, <2>2 DEF StaysOutStep
<1>5. CASE Tick
  <2>1. ASSUME slot > lastRun, slot \notin PrunedSkips(skipped, slot), NEW s \in acked \ reopened
        PROVE  s # slot
    BY <2>1, DueIsSkipped
  <2>2. CASE /\ slot > lastRun /\ slot \notin PrunedSkips(skipped, slot)
             /\ RecordMiss(missed, slot) /\ UNCHANGED chain
    BY <1>1, <2>1, <2>2 DEF RecordMiss, SaveMissed, StaysOutStep, Due, Records
  <2>3. CASE /\ slot > lastRun /\ slot \notin PrunedSkips(skipped, slot) /\ Fire(slot)
    <3>1. slot \in 1..slot
      BY <1>1, <2>3
    <3>2. Last(chain') = slot /\ UNCHANGED missed
      BY <1>1, <2>3, <3>1, AppendOf DEF Fire, missedVars
    <3> QED
      BY <2>1, <2>3, <3>2 DEF StaysOutStep
  <2>4. CASE UNCHANGED <<chain, missed>>
    BY <1>2, <2>4
  <2> QED
    BY <1>5, <2>2, <2>3, <2>4 DEF Tick, missedVars
<1>6. CASE Start
  <2> DEFINE m0 == [s \in Slots |-> IF missedFile[s] = "pending" THEN "pending" ELSE "none"]
             recorded == slot > lastRun /\ slot \notin PrunedSkips(skipFile, slot) /\ m0[slot] = "none"
             m == IF recorded THEN [m0 EXCEPT ![slot] = "pending"] ELSE m0
  <2>1. missed' = m /\ UNCHANGED chain
    BY <1>6 DEF Start
  <2>2. ASSUME NEW s \in acked \ reopened, m[s] = "pending"
        PROVE  missedFile[s] = "pending"
    <3>1. s \in Slots /\ (m0[s] = "pending" => missedFile[s] = "pending") /\ DOMAIN m0 = Slots
      BY <1>1
    <3>2. recorded => s # slot
      BY <2>2, DueIsSkipped
    <3> HIDE DEF m0
    <3> QED
      BY <2>2, <3>1, <3>2
  <2> HIDE DEF m0, m
  <2> QED
    BY <1>1, <2>1, <2>2 DEF StaysOutStep
<1>7. CASE Crash
  BY <1>1, <1>7 DEF Crash, StaysOutStep
<1>8. ASSUME NEW p \in Passes, StartPass(p) \/ PassGoesOn(p)
      PROVE  StaysOutStep
  <2>1. CASE PassSends(p)
    BY <1>1, <2>1 DEF PassSends, SaveMissed, MarkRun, StaysOutStep, Due, Records
  <2>2. CASE StartPass(p) \/ PassCreates(p) \/ PassFails(p)
    BY <1>2, <2>2 DEF StartPass, PassCreates, PassFails, missedVars
  <2> QED
    BY <1>8, <2>1, <2>2 DEF PassGoesOn
<1>9. ASSUME NEW t \in Slots, Dismiss(t) \/ Skip(t)
      PROVE  StaysOutStep
  <2>1. CASE Dismiss(t)
    BY <1>1, <2>1 DEF Dismiss, SaveMissed, StaysOutStep, Due, Records
  <2>2. CASE Skip(t)
    BY <1>2, <2>2 DEF Skip, missedVars
  <2> QED
    BY <1>9, <2>1, <2>2
<1> QED
  BY <1>3, <1>4, <1>5, <1>6, <1>7, <1>8, <1>9 DEF Next

(***************************************************************************)
(* assistant-scheduler-service.ts:549, for any number of slots, restarts   *)
(* and failing writes: a slot whose skip was confirmed is not fired and    *)
(* not recorded as missed, unless its claim was given back.                *)
(***************************************************************************)
THEOREM SkipsAreKept == Spec => SkippedStaysOut
<1>1. Init => SkipsKept
  BY InitSkipsKept
<1>2. Typed /\ SkipsKept /\ [Next]_vars => SkipsKept'
  BY NextSkipsKept
<1>3. Typed /\ SkipsKept /\ [Next]_vars => [StaysOutStep]_vars
  BY NextStaysOut
<1> QED
  BY <1>1, <1>2, <1>3, TypedInvariant, PTL DEF Spec, SkippedStaysOut, StaysOutStep


-----------------------------------------------------------------------------
(* Runs that are not repeated.                                             *)

InChain(s) == \E i \in DOMAIN chain : chain[i] = s
Running(p, s) == pass[p].at # "idle" /\ pass[p].of = s
Idle(s) == \A p \in Passes : ~Running(p, s)
NoRecord(s) ==
  /\ missed[s] = "none" /\ missedFile[s] = "none"
  /\ \A i \in DOMAIN missedOut : missedOut[i][s] = "none"

\* A slot that is not claimed has left no trace.
Untouched(s) == s > lastRun => ~InChain(s) /\ Idle(s) /\ NoRecord(s) /\ runs[s] = 0

\* A slot is in the chain once, and then neither recorded as missed nor run by a call.
FiredAlone(s) ==
  InChain(s) =>
    /\ Idle(s) /\ NoRecord(s)
    /\ \A i, j \in DOMAIN chain : chain[i] = s /\ chain[j] = s => i = j
    /\ runs[s] = IF head = "dispatch" /\ Head(chain) = s THEN 1 ELSE 0

\* One call at a time runs a missed slot, which was not run before.
RunAlone(s) ==
  /\ \A p, q \in Passes : Running(p, s) /\ Running(q, s) => p = q
  /\ \A p \in Passes : Running(p, s) => runs[s] = IF pass[p].at = "dispatch" THEN 1 ELSE 0

\* A slot that was run is no longer pending.
RunSettles(s) ==
  /\ runs[s] <= 1
  /\ ~InChain(s) /\ Idle(s) /\ runs[s] = 1 =>
       missed[s] \in {"none", "run"} \cup (IF up THEN {} ELSE {"dismissed"})

\* What is pending on disk, or will be, is on record.
OnRecord(s) ==
  /\ missedFile[s] = "pending" => missed[s] # "none"
  /\ \A i \in DOMAIN missedOut : missedOut[i][s] = "pending" => missed[s] # "none"

Once(s) == Untouched(s) /\ FiredAlone(s) /\ RunAlone(s) /\ RunSettles(s) /\ OnRecord(s)

ClaimedOnce == \A s \in Slots \ (reopened \cup crossed) : Once(s)

LEMMA InitClaimedOnce == Init => ClaimedOnce
BY DEF Init, ClaimedOnce, Once, Untouched, FiredAlone, RunAlone, RunSettles, OnRecord, InChain,
       Running, Idle, NoRecord, NoRecords, NoPass

LEMMA SavedOut ==
  ASSUME MissedTyped, NEW m \in Due(slot), SaveMissed(m)
  PROVE  /\ missed' = m /\ missedFile' = missedFile
         /\ \A i \in DOMAIN missedOut' :
              missedOut'[i] = m \/ \E j \in DOMAIN missedOut : missedOut'[i] = missedOut[j]
BY AppendOf DEF SaveMissed, MissedTyped

\* Steps that change at most the records, and leave alone those of a slot without one.
LEMMA RecordsChange ==
  ASSUME NEW s \in Slots, Once(s), s > lastRun' => s > lastRun,
         UNCHANGED <<up, chain, head, pass, runs>>,
         NoRecord(s) => NoRecord(s)', OnRecord(s)',
         missed'[s] = missed[s] \/ missed'[s] = "run" \/ (runs[s] = 1 => ~Idle(s))
  PROVE  Once(s)'
<1>1. InChain(s)' = InChain(s) /\ Idle(s)' = Idle(s)
  BY DEF InChain, Idle, Running
<1>2. Untouched(s)' /\ FiredAlone(s)'
  BY <1>1 DEF Once, Untouched, FiredAlone
<1>3. RunAlone(s)'
  BY DEF Once, RunAlone, Running
<1>4. RunSettles(s)'
  BY <1>1 DEF Once, RunSettles
<1> QED
  BY <1>2, <1>3, <1>4 DEF Once

\* The record of another slot is changed.
LEMMA OtherRecord ==
  ASSUME MissedTyped, NEW m \in Due(slot), SaveMissed(m), NEW s \in Slots, m[s] = missed[s],
         OnRecord(s)
  PROVE  OnRecord(s)' /\ (NoRecord(s) => NoRecord(s)') /\ missed'[s] = missed[s]
BY SavedOut DEF OnRecord, NoRecord

LEMMA TickOnce ==
  ASSUME Typed, NEW s \in Slots, Once(s), Tick, s > lastRun' => s > lastRun
  PROVE  Once(s)'
<1>1. /\ MissedTyped /\ missed \in Due(slot) /\ slot \in Nat /\ lastRun \in Nat /\ slot <= MaxSlot
      /\ chain \in Seq(1..slot) /\ (chain = <<>> => head = "create") /\ s \in Nat
      /\ slot <= slot
  BY ConstantTypes DEF Typed, MissedTyped, ClockTyped, ChainTyped
<1>2. UNCHANGED <<up, head, pass, runs>>
  BY DEF Tick, history
<1>3. CASE slot > lastRun /\ RecordMiss(missed, slot) /\ UNCHANGED chain
  <2> DEFINE m == IF missed[slot] = "none" THEN [missed EXCEPT ![slot] = "pending"] ELSE missed
  <2>1. m \in Due(slot)
    <3>1. slot \in Slots
      BY <1>1, <1>3, ConstantTypes DEF Slots
    <3> QED
      BY <1>1, <3>1, OneRecord
  <2>2. m[s] = IF s = slot /\ missed[s] = "none" THEN "pending" ELSE missed[s]
    BY <1>1 DEF Due, Records
  <2>3. SaveMissed(m) /\ lastRun' = slot
    BY <1>3 DEF RecordMiss
  <2> HIDE DEF m
  <2>4. CASE s # slot
    BY <1>1, <1>2, <1>3, <2>1, <2>2, <2>3, <2>4, OtherRecord, RecordsChange DEF Once
  <2>5. CASE s = slot
    <3>1. ~InChain(s) /\ Idle(s) /\ NoRecord(s) /\ runs[s] = 0
      BY <1>3, <2>5 DEF Once, Untouched
    <3>2. ~InChain(s)' /\ Idle(s)' /\ runs'[s] = 0 /\ ~(s > lastRun')
      BY <1>1, <1>2, <1>3, <2>3, <2>5, <3>1 DEF InChain, Idle, Running
    <3>3. missed'[s] = "pending"
      BY <2>1, <2>2, <2>3, <2>5, <3>1, SavedOut, <1>1 DEF NoRecord
    <3> QED
      BY <3>2, <3>3
      DEF Once, Untouched, FiredAlone, RunAlone, RunSettles, OnRecord, Idle
  <2> QED
    BY <2>4, <2>5
<1>4. CASE slot > lastRun /\ Fire(slot)
  <2>1. slot \in 1..slot
    BY <1>1, <1>4
  <2>2. /\ DOMAIN chain' = DOMAIN chain \cup {Len(chain) + 1} /\ chain'[Len(chain) + 1] = slot
        /\ \A i \in DOMAIN chain : chain'[i] = chain[i]
        /\ Len(chain) + 1 \notin DOMAIN chain
    BY <1>1, <1>4, <2>1, AppendOf DEF Fire
  <2>3. head = "dispatch" => Head(chain') = Head(chain) /\ InChain(Head(chain))
    BY <1>1, <1>4, <2>1, TailOf DEF Fire, InChain
  <2>4. /\ Idle(s)' = Idle(s) /\ NoRecord(s)' = NoRecord(s) /\ OnRecord(s)' = OnRecord(s)
        /\ RunAlone(s)' = RunAlone(s) /\ UNCHANGED <<missed, runs, up, head>> /\ lastRun' = slot
    BY <1>2, <1>4 DEF Fire, missedVars, Idle, Running, NoRecord, OnRecord, RunAlone
  <2> DEFINE n == Len(chain) + 1
  <2> HIDE DEF n
  <2>5. CASE s = slot
    <3>1. ~InChain(s) /\ Idle(s) /\ NoRecord(s) /\ runs[s] = 0
      BY <1>4, <2>5 DEF Once, Untouched
    <3>2. InChain(s)' /\ \A i, j \in DOMAIN chain' : chain'[i] = s /\ chain'[j] = s => i = j
      BY <2>2, <2>5, <3>1 DEF InChain
    <3>3. ~(head' = "dispatch" /\ Head(chain') = s)
      BY <2>3, <2>4, <3>1
    <3>4. ~(s > lastRun')
      BY <1>1, <2>4, <2>5
    <3> QED
      BY <2>4, <3>1, <3>2, <3>3, <3>4 DEF Once, Untouched, FiredAlone, RunSettles
  <2>6. CASE s # slot
    <3>1. InChain(s)' = InChain(s)
      BY <2>2, <2>6 DEF InChain
    <3>2. /\ (\A i, j \in DOMAIN chain : chain[i] = s /\ chain[j] = s => i = j)
            => \A i, j \in DOMAIN chain' : chain'[i] = s /\ chain'[j] = s => i = j
      BY <2>2, <2>6
    <3>3. head' = "dispatch" => Head(chain') = Head(chain)
      BY <2>3, <2>4
    <3> QED
      BY <2>4, <3>1, <3>2, <3>3 DEF Once, Untouched, FiredAlone, RunSettles
  <2> QED
    BY <2>5, <2>6
<1>5. CASE UNCHANGED <<lastRun, chain, missedVars>>
  BY <1>2, <1>5
  DEF missedVars, Once, Untouched, FiredAlone, RunAlone, RunSettles, OnRecord, NoRecord, InChain,
      Idle, Running
<1> QED
  BY <1>3, <1>4, <1>5 DEF Tick

LEMMA WriteMissedOnce ==
  ASSUME Typed, NEW s \in Slots, Once(s), WriteMissed
  PROVE  Once(s)'
<1>1. missedOut \in Seq(Due(slot)) /\ missedOut # <<>>
  BY DEF Typed, MissedTyped, WriteMissed
<1>2. /\ 1 \in DOMAIN missedOut
      /\ missedFile' \in {missedFile, missedOut[1]}
      /\ \A i \in DOMAIN missedOut' : \E j \in DOMAIN missedOut : missedOut'[i] = missedOut[j]
      /\ missed' = missed
  <2>1. \A i \in DOMAIN Tail(missedOut) : i + 1 \in DOMAIN missedOut /\ Tail(missedOut)[i] = missedOut[i + 1]
    BY <1>1, TailOf
  <2> QED
    BY <1>1, <2>1, TailOf DEF WriteMissed
<1>3. OnRecord(s)' /\ (NoRecord(s) => NoRecord(s)')
  BY <1>2 DEF Once, OnRecord, NoRecord
<1> QED
  BY <1>2, <1>3, RecordsChange DEF WriteMissed, history

LEMMA StartOnce ==
  ASSUME Typed, NEW s \in Slots, Once(s), Start, s > lastRun' => s > lastRun
  PROVE  Once(s)'
<1> DEFINE m0 == [n \in Slots |-> IF missedFile[n] = "pending" THEN "pending" ELSE "none"]
           recorded == slot > lastRun /\ slot \notin PrunedSkips(skipFile, slot) /\ m0[slot] = "none"
           m == IF recorded THEN [m0 EXCEPT ![slot] = "pending"] ELSE m0
<1>1. /\ missed' = m /\ missedFile' = missedFile
      /\ missedOut' = (IF m0 = missedFile THEN <<>> ELSE <<m0>>) \o (IF m = m0 THEN <<>> ELSE <<m>>)
      /\ recorded => lastRun' = slot /\ lastRun < slot
      /\ up' /\ UNCHANGED <<chain, head, pass, runs>>
  BY DEF Start, history
<1>2. /\ missed = missedFile /\ missedFile \in Due(slot) /\ ~InChain(s) /\ Idle(s)
      /\ ~InChain(s)' /\ Idle(s)'
  BY DEF Start, Typed, MissedTyped, Closed, NoPass, InChain, Idle, Running, history
<1>3. /\ s > lastRun \/ runs[s] = 1 => missedFile[s] # "pending"
      /\ runs[s] <= 1 /\ (s > lastRun => runs[s] = 0)
      /\ s > lastRun => missedFile[s] = "none"
  BY <1>2 DEF Once, Untouched, RunSettles, NoRecord
<1>4. slot \in Nat /\ s \in Nat /\ lastRun \in Nat
  BY ConstantTypes DEF Typed, ClockTyped
<1>5. /\ m0[s] = IF missedFile[s] = "pending" THEN "pending" ELSE "none"
      /\ m[s] = IF recorded /\ s = slot THEN "pending" ELSE m0[s]
  OBVIOUS
<1> HIDE DEF m0, m, recorded
<1>6. \A i \in DOMAIN missedOut' : missedOut'[i] \in {m0, m}
  BY <1>1
<1>7. OnRecord(s)'
  BY <1>1, <1>5, <1>6 DEF OnRecord
<1>8. Untouched(s)'
  <2>1. ASSUME s > lastRun'
        PROVE  m0[s] = "none" /\ m[s] = "none" /\ missedFile[s] = "none" /\ runs[s] = 0
    BY <1>1, <1>3, <1>4, <1>5, <2>1
  <2> QED
    BY <1>1, <1>2, <1>6, <2>1 DEF Untouched, NoRecord
<1>9. RunSettles(s)'
  <2>1. ASSUME runs[s] = 1
        PROVE  m[s] = "none"
    <3>1. ~(recorded /\ s = slot)
      BY <1>1, <1>3, <2>1
    <3> QED
      BY <1>3, <1>5, <2>1, <3>1
  <2> QED
    BY <1>1, <1>3, <2>1 DEF RunSettles
<1> QED
  BY <1>2, <1>7, <1>8, <1>9 DEF Once, FiredAlone, RunAlone, Idle

LEMMA CrashOnce ==
  ASSUME Typed, NEW s \in Slots, Once(s), Crash, s \notin crossed'
  PROVE  Once(s)'
<1>1. /\ missed' = missedFile /\ missedFile' = missedFile /\ missedOut' = <<>> /\ ~up' /\ up
      /\ chain' = <<>> /\ lastRun' = lastRun /\ runs' = runs
      /\ missed \in Due(slot) /\ missedFile \in Due(slot)
  BY DEF Crash, Typed, MissedTyped
<1>2. ~InChain(s)' /\ Idle(s)'
  BY DEF Crash, InChain, Idle, Running, NoPass
<1>3. /\ ~(missed[s] = "run" /\ missedFile[s] = "pending")
      /\ \A p \in Passes : ~(pass[p].at = "dispatch" /\ pass[p].of = s)
  BY DEF Crash
<1>4. Untouched(s)'
  BY <1>1, <1>2 DEF Once, Untouched, NoRecord
<1>5. RunSettles(s)'
  <2>1. ASSUME runs[s] = 1
        PROVE  missedFile[s] # "pending"
    <3>1. CASE InChain(s)
      BY <3>1 DEF Once, FiredAlone, NoRecord
    <3>2. CASE ~Idle(s)
      BY <1>3, <2>1, <3>2 DEF Once, RunAlone, Idle, Running
    <3>3. CASE ~InChain(s) /\ Idle(s)
      BY <1>1, <1>3, <2>1, <3>3 DEF Once, RunSettles, OnRecord
    <3> QED
      BY <3>1, <3>2, <3>3
  <2>2. missedFile[s] \in {"none", "pending", "dismissed", "run"}
    BY <1>1 DEF Due, Records
  <2> QED
    BY <1>1, <2>1, <2>2 DEF Once, RunSettles
<1> QED
  BY <1>1, <1>2, <1>4, <1>5 DEF Once, FiredAlone, RunAlone, Idle, OnRecord

LEMMA ChainOnce ==
  ASSUME Typed, NEW s \in Slots, Once(s), ChainGoesOn
  PROVE  Once(s)'
<1>1. /\ chain \in Seq(1..slot) /\ chain # <<>> /\ slot \in Nat
      /\ runs \in [Slots -> Nat] /\ head \in {"create", "dispatch"}
      /\ UNCHANGED <<lastRun, missed, missedFile, missedOut, pass, up>>
  BY DEF Typed, ChainTyped, ClockTyped, RunsTyped, ChainGoesOn, ChainCreates, ChainSends,
         ChainFails, missedVars
<1>2. /\ Idle(s)' = Idle(s) /\ NoRecord(s)' = NoRecord(s) /\ OnRecord(s)' = OnRecord(s)
      /\ \A p \in Passes : Running(p, s)' = Running(p, s)
  BY <1>1 DEF Idle, Running, NoRecord, OnRecord
<1> DEFINE h == Head(chain)
<1>3. h = chain[1] /\ 1 \in DOMAIN chain /\ h \in Slots
  BY <1>1, TailOf, InSlots
<1>4. CASE ChainCreates
  <2>1. /\ runs'[s] = IF s = h THEN runs[s] + 1 ELSE runs[s]
        /\ chain' = chain /\ head' = "dispatch" /\ head = "create"
    BY <1>1, <1>4 DEF ChainCreates, Sent
  <2> HIDE DEF h
  <2>2. InChain(s)' = InChain(s) /\ (s = h => InChain(s)) /\ Head(chain') = h
    BY <1>3, <2>1 DEF InChain, h
  <2>3. InChain(s) => runs[s] = 0 /\ Idle(s) /\ NoRecord(s)
    BY <2>1 DEF Once, FiredAlone
  <2>4. FiredAlone(s)'
    <3>1. InChain(s) => runs'[s] = IF s = h THEN 1 ELSE 0
      BY <2>1, <2>3
    <3> QED
      BY <1>2, <2>1, <2>2, <2>3, <3>1 DEF Once, FiredAlone
  <2>5. Untouched(s)'
    BY <1>1, <1>2, <2>1, <2>2 DEF Once, Untouched
  <2>6. RunAlone(s)'
    BY <1>1, <1>2, <2>1, <2>2, <2>3 DEF Once, RunAlone, Idle
  <2>7. RunSettles(s)'
    <3>1. runs'[s] <= 1
      BY <2>1, <2>2, <2>3 DEF Once, RunSettles
    <3> QED
      BY <1>1, <1>2, <2>1, <2>2, <3>1 DEF Once, RunSettles
  <2> QED
    BY <1>2, <2>4, <2>5, <2>6, <2>7 DEF Once
<1>5. CASE ChainSends \/ ChainFails
  <2>1. /\ Tail(chain) \in Seq(1..slot)
        /\ \A i \in DOMAIN Tail(chain) :
             i \in Nat /\ i + 1 \in DOMAIN chain /\ 1 < i + 1 /\ Tail(chain)[i] = chain[i + 1]
    BY <1>1, TailOf
  <2>2. /\ chain' = Tail(chain) /\ head' = "create"
        /\ runs'[s] = IF s = h /\ head = "dispatch" /\ ChainFails THEN runs[s] - 1 ELSE runs[s]
        /\ ~ChainFails => head = "dispatch"
    BY <1>1, <1>5 DEF ChainSends, ChainFails, NotSent, history
  <2> HIDE DEF h
  <2>3. /\ InChain(s)' => InChain(s)
        /\ InChain(s) /\ s # h => InChain(s)'
        /\ s = h => InChain(s)
    <3>1. ASSUME NEW i \in DOMAIN chain, chain[i] = s, s # h
          PROVE  \E j \in DOMAIN Tail(chain) : Tail(chain)[j] = s
      <4>1. i # 1 /\ i \in 1..Len(chain) /\ Len(chain) \in Nat
        BY <1>1, <1>3, <3>1
      <4>2. i - 1 \in DOMAIN Tail(chain) /\ (i - 1) + 1 = i
        BY <1>1, <4>1
      <4> QED
        BY <2>1, <3>1, <4>2
    <3> QED
      BY <1>3, <2>1, <2>2, <3>1 DEF InChain
  <2>4. s = h => ~InChain(s)'
    <3>1. ASSUME NEW i \in DOMAIN Tail(chain), Tail(chain)[i] = s, s = h
          PROVE  FALSE
      <4>1. chain[i + 1] = chain[1] /\ i + 1 \in DOMAIN chain /\ 1 < i + 1 /\ i \in Nat
        BY <1>3, <2>1, <3>1
      <4>2. i + 1 = 1
        BY <1>3, <2>3, <3>1, <4>1 DEF Once, FiredAlone
      <4> QED
        BY <4>1, <4>2
    <3> QED
      BY <2>2, <3>1 DEF InChain
  <2>5. ASSUME NEW i \in DOMAIN chain', NEW j \in DOMAIN chain', chain'[i] = s, chain'[j] = s
        PROVE  i = j
    <3>1. /\ i + 1 \in DOMAIN chain /\ j + 1 \in DOMAIN chain /\ i \in Nat /\ j \in Nat
          /\ chain[i + 1] = s /\ chain[j + 1] = s
      BY <2>1, <2>2, <2>5
    <3>2. i + 1 = j + 1
      BY <3>1 DEF Once, FiredAlone, InChain
    <3> QED
      BY <3>1, <3>2
  <2>6. FiredAlone(s)'
    <3>1. InChain(s)' => InChain(s) /\ s # h
      BY <2>3, <2>4
    <3>2. InChain(s) /\ s # h => runs'[s] = 0
      BY <2>2 DEF Once, FiredAlone, h
    <3> QED
      BY <1>2, <2>2, <2>5, <3>1, <3>2 DEF Once, FiredAlone
  <2>7. Untouched(s)'
    BY <1>1, <1>2, <2>2, <2>3 DEF Once, Untouched
  <2>8. RunAlone(s)'
    BY <1>1, <1>2, <2>2, <2>3 DEF Once, RunAlone, FiredAlone, Idle
  <2>9. RunSettles(s)'
    <3>1. CASE s = h
      <4>1. runs[s] = (IF head = "dispatch" THEN 1 ELSE 0) /\ missed[s] = "none"
        BY <2>3, <3>1 DEF Once, FiredAlone, NoRecord, h
      <4>2. runs'[s] <= 1 /\ missed'[s] = "none"
        BY <1>1, <2>2, <3>1, <4>1
      <4> QED
        BY <4>2 DEF RunSettles
    <3>2. CASE s # h
      BY <1>1, <1>2, <2>2, <2>3, <3>2 DEF Once, RunSettles
    <3> QED
      BY <3>1, <3>2
  <2> QED
    BY <1>2, <2>6, <2>7, <2>8, <2>9 DEF Once
<1> QED
  BY <1>4, <1>5 DEF ChainGoesOn

LEMMA DismissOnce ==
  ASSUME Typed, NEW s \in Slots, Once(s), NEW t \in Slots, Dismiss(t)
  PROVE  Once(s)'
<1> DEFINE m == [missed EXCEPT ![t] = "dismissed"]
<1>1. /\ MissedTyped /\ missed \in Due(slot) /\ slot \in Nat /\ missed[t] = "pending"
      /\ up /\ SaveMissed(m) /\ UNCHANGED <<up, lastRun, chain, head, pass, runs>>
  BY DEF Typed, MissedTyped, ClockTyped, Dismiss, history
<1>2. m \in Due(slot) /\ m[s] = IF s = t THEN "dismissed" ELSE missed[s]
  <2>1. t <= slot
    BY <1>1, ConstantTypes DEF Due
  <2> QED
    BY <1>1, <2>1, OneRecord DEF Due, Records
<1> HIDE DEF m
<1>3. CASE s # t
  BY <1>1, <1>2, <1>3, OtherRecord, RecordsChange DEF Once
<1>4. CASE s = t
  <2>1. ~NoRecord(s) /\ (runs[s] = 1 => ~Idle(s))
    BY <1>1, <1>4 DEF Once, FiredAlone, RunSettles, NoRecord
  <2>2. OnRecord(s)'
    BY <1>1, <1>2, <1>4, SavedOut DEF Once, OnRecord
  <2> QED
    BY <1>1, <2>1, <2>2, RecordsChange
<1> QED
  BY <1>3, <1>4

LEMMA PassCreatesOnce ==
  ASSUME Typed, NEW s \in Slots, Once(s), NEW p \in Passes, PassCreates(p)
  PROVE  Once(s)'
<1>1. /\ pass \in [Passes -> Calls(slot)] /\ runs \in [Slots -> Nat]
      /\ UNCHANGED <<up, lastRun, missed, missedFile, missedOut, chain, head>>
      /\ pass[p].at = "create" /\ pass' = [pass EXCEPT ![p].at = "dispatch"]
      /\ runs' = [runs EXCEPT ![pass[p].of] = @ + 1]
  BY DEF Typed, PassTyped, RunsTyped, PassCreates, missedVars, Sent
<1>2. \A q \in Passes : /\ pass'[q].of = pass[q].of
                        /\ pass'[q].at = IF q = p THEN "dispatch" ELSE pass[q].at
  <2>1. \A q \in Passes : pass[q] \in Calls(slot)
    BY <1>1
  <2> QED
    BY <1>1, <2>1 DEF Calls
<1>3. \A q \in Passes : Running(q, s)' = Running(q, s)
  BY <1>1, <1>2 DEF Running
<1>4. /\ InChain(s)' = InChain(s) /\ Idle(s)' = Idle(s) /\ NoRecord(s)' = NoRecord(s)
      /\ OnRecord(s)' = OnRecord(s)
  BY <1>1, <1>3 DEF InChain, Idle, NoRecord, OnRecord
<1>5. CASE pass[p].of # s
  <2>1. runs'[s] = runs[s]
    BY <1>1, <1>5
  <2>2. \A q \in Passes : Running(q, s) => q # p
    BY <1>5 DEF Running
  <2> QED
    BY <1>1, <1>2, <1>3, <1>4, <2>1, <2>2
    DEF Once, Untouched, FiredAlone, RunAlone, RunSettles
<1>6. CASE pass[p].of = s
  <2>1. Running(p, s) /\ ~Idle(s) /\ runs[s] = 0
    BY <1>1, <1>6 DEF Once, RunAlone, Running, Idle
  <2>2. runs'[s] = 1
    BY <1>1, <1>6, <2>1
  <2>3. \A q \in Passes : Running(q, s) => q = p
    BY <2>1 DEF Once, RunAlone
  <2>4. ~InChain(s) /\ ~(s > lastRun)
    BY <2>1 DEF Once, FiredAlone, Untouched
  <2> QED
    BY <1>1, <1>2, <1>3, <1>4, <2>1, <2>2, <2>3, <2>4
    DEF Once, Untouched, FiredAlone, RunAlone, RunSettles
<1> QED
  BY <1>5, <1>6

\* A call that takes up a slot which no other call runs and that is still pending.
LEMMA CallOnce ==
  ASSUME Typed, NEW s \in Slots, Once(s), NEW p \in Passes,
         StartPass(p) \/ PassSends(p) \/ PassFails(p),
         s \notin crossed', s \notin reopened', s > lastRun' => s > lastRun
  PROVE  Once(s)'
<1>1. PICK next :
        /\ pass' = [pass EXCEPT ![p] = next]
        /\ next.at \in {"idle", "create"}
        /\ next.at # "idle" =>
             /\ next.of \in Slots /\ missed'[next.of] # "none"
             /\ StartPass(p) => missed[next.of] = "pending"
        /\ crossed' = crossed \cup Crosses(p, next, missed')
  BY CallAdvances
<1>2. /\ pass \in [Passes -> Calls(slot)] /\ runs \in [Slots -> Nat] /\ MissedTyped
      /\ missed \in Due(slot) /\ slot \in Nat /\ lastRun \in Nat /\ s \in Nat
      /\ UNCHANGED <<up, chain, head>>
      /\ pass[p].at # "idle" => pass[p].of \in Slots
  BY InSlots, ConstantTypes
  DEF Typed, PassTyped, RunsTyped, MissedTyped, ClockTyped, StartPass, PassSends, PassFails
<1>3. pass'[p] = next /\ \A q \in Passes \ {p} : pass'[q] = pass[q]
  BY <1>1, <1>2
<1>4. up
  <2>1. pass[p].at # "idle" => up
    BY DEF Typed, Closed, NoPass
  <2> QED
    BY <2>1 DEF StartPass, PassSends, PassFails
<1>5. /\ InChain(s)' = InChain(s)
      /\ \A q \in Passes \ {p} : Running(q, s)' = Running(q, s)
      /\ Running(p, s)' <=> (next.at # "idle" /\ next.of = s)
  BY <1>2, <1>3 DEF InChain, Running
<1>6. Running(p, s)' => missed'[s] = "pending" /\ \A q \in Passes \ {p} : ~Running(q, s)'
  BY <1>1, <1>3, <1>5 DEF Crosses, Running
\* The record of the slot the call was at.
<1> DEFINE sends == PassSends(p) /\ pass[p].of = s
<1>7. /\ OnRecord(s)'
      /\ missed'[s] = IF sends THEN MarkRun(missed, s)[s] ELSE missed[s]
      /\ ~sends => (NoRecord(s) => NoRecord(s)')
  <2>1. CASE PassSends(p)
    <3> DEFINE m == MarkRun(missed, pass[p].of)
    <3>1. m \in Due(slot) /\ SaveMissed(m)
      BY <1>2, <2>1, MarkRunDue DEF PassSends
    <3>2. CASE pass[p].of # s
      <4>1. m[s] = missed[s]
        BY <1>2, <3>2 DEF MarkRun, Due, Records
      <4> HIDE DEF m
      <4> QED
        BY <1>2, <3>1, <3>2, <4>1, OtherRecord DEF Once
    <3>3. CASE pass[p].of = s
      <4>1. m = MarkRun(missed, s) /\ (m[s] = IF missed[s] = "none" THEN "none" ELSE "run")
        BY <1>2, <3>3 DEF MarkRun, Due, Records
      <4> HIDE DEF m
      <4>2. OnRecord(s)' /\ missed' = m
        BY <1>2, <3>1, <4>1, SavedOut DEF Once, OnRecord
      <4> QED
        BY <2>1, <3>3, <4>1, <4>2
    <3> QED
      BY <3>2, <3>3
  <2>2. CASE (StartPass(p) \/ PassFails(p)) /\ ~PassSends(p)
    <3>1. UNCHANGED <<missed, missedFile, missedOut>>
      BY <2>2 DEF StartPass, PassFails, missedVars
    <3> QED
      BY <2>2, <3>1 DEF Once, OnRecord, NoRecord
  <2> QED
    BY <2>1, <2>2
\* What was sent of the slot the call was at.
<1>8. CASE Running(p, s)
  <2>1. /\ ~StartPass(p) /\ ~InChain(s) /\ ~(s > lastRun)
        /\ \A q \in Passes \ {p} : ~Running(q, s)
        /\ runs[s] = IF pass[p].at = "dispatch" THEN 1 ELSE 0
    BY <1>8 DEF Once, StartPass, Running, FiredAlone, Untouched, RunAlone, Idle
  <2>2. runs'[s] = IF sends THEN 1 ELSE 0
    <3>1. CASE sends
      BY <2>1, <3>1 DEF PassSends
    <3>2. CASE PassFails(p) /\ ~sends
      BY <1>2, <1>8, <2>1, <3>2 DEF PassFails, NotSent, Running
    <3>3. PassSends(p) \/ PassFails(p)
      BY <2>1
    <3>4. PassSends(p) => sends
      BY <1>8 DEF Running
    <3> QED
      BY <3>1, <3>2, <3>3, <3>4
  <2>3. sends => missed'[s] \in {"none", "run"}
    BY <1>2, <1>7 DEF MarkRun, Due, Records
  <2>4. Running(p, s)' => runs'[s] = 0
    BY <1>6, <2>2, <2>3
  <2>5. Untouched(s)' /\ FiredAlone(s)'
    BY <1>5, <2>1 DEF Untouched, FiredAlone
  <2>6. RunAlone(s)'
    BY <1>1, <1>3, <1>5, <2>1, <2>4 DEF RunAlone
  <2>7. RunSettles(s)'
    BY <2>2, <2>3 DEF RunSettles
  <2> QED
    BY <1>7, <2>5, <2>6, <2>7 DEF Once
<1>9. CASE ~Running(p, s)
  <2>1. ~sends
    BY <1>9 DEF PassSends, Running
  <2>2. runs'[s] = runs[s]
    BY <1>2, <1>9 DEF StartPass, PassSends, PassFails, NotSent, Running
  <2>3. missed'[s] = missed[s] /\ (NoRecord(s) => NoRecord(s)')
    BY <1>7, <2>1
  <2>4. CASE Running(p, s)'
    <3>1. missed[s] = "pending" /\ ~NoRecord(s) /\ Idle(s)
      BY <1>5, <1>6, <1>9, <2>3, <2>4 DEF Idle, NoRecord
    <3>2. ~InChain(s) /\ ~(s > lastRun)
      BY <3>1 DEF Once, FiredAlone, Untouched
    <3>3. runs'[s] = 0
      <4>1. runs[s] \in Nat /\ runs[s] <= 1 /\ runs[s] # 1
        BY <1>2, <1>4, <3>1, <3>2 DEF Once, RunSettles
      <4> QED
        BY <2>2, <4>1
    <3>4. Untouched(s)' /\ FiredAlone(s)'
      BY <1>5, <3>2 DEF Untouched, FiredAlone
    <3>5. RunAlone(s)'
      BY <1>1, <1>3, <1>6, <2>4, <3>3 DEF RunAlone
    <3>6. RunSettles(s)'
      BY <3>3 DEF RunSettles
    <3> QED
      BY <1>7, <3>4, <3>5, <3>6 DEF Once
  <2>5. CASE ~Running(p, s)'
    <3>1. /\ Idle(s)' = Idle(s)
          /\ \A q \in Passes : Running(q, s)' => Running(q, s) /\ pass'[q] = pass[q]
      BY <1>3, <1>5, <1>9, <2>5 DEF Idle
    <3>2. Untouched(s)' /\ FiredAlone(s)'
      BY <1>2, <1>5, <2>2, <2>3, <3>1 DEF Once, Untouched, FiredAlone
    <3>3. RunAlone(s)'
      BY <2>2, <3>1 DEF Once, RunAlone
    <3>4. RunSettles(s)'
      BY <1>2, <1>5, <2>2, <2>3, <3>1 DEF Once, RunSettles
    <3> QED
      BY <1>7, <3>2, <3>3, <3>4 DEF Once
  <2> QED
    BY <2>4, <2>5
<1> QED
  BY <1>8, <1>9

LEMMA NextClaimedOnce == Typed /\ ClaimedOnce /\ [Next]_vars => ClaimedOnce'
<1> SUFFICES ASSUME Typed, ClaimedOnce, [Next]_vars, NEW s \in Slots \ (reopened' \cup crossed')
             PROVE  Once(s)'
  BY DEF ClaimedOnce
<1>1. s > lastRun' => s > lastRun
  <2>1. lastRun \in Nat /\ lastRun' \in Nat /\ s \in Nat
    BY ClockKept, ConstantTypes DEF Typed, ClockTyped
  <2> QED
    BY <2>1, ClaimsKept
<1>2. crossed \subseteq crossed'
  <2>1. ASSUME NEW p \in Passes, StartPass(p) \/ PassSends(p) \/ PassFails(p)
        PROVE  crossed \subseteq crossed'
    BY <2>1, CallAdvances
  <2>2. CASE Crash
    BY <2>2 DEF Crash
  <2>3. CASE UNCHANGED crossed
    BY <2>3
  <2>4. CASE \/ SlotComesDue \/ GraceEnds \/ WriteMissed \/ WriteSkipped \/ Tick \/ Start
             \/ RunTaskNow \/ ChainGoesOn \/ UNCHANGED vars
    BY <2>3, <2>4
    DEF SlotComesDue, GraceEnds, WriteMissed, WriteSkipped, Tick, Start, RunTaskNow, ChainGoesOn,
        ChainCreates, ChainSends, ChainFails, history, vars
  <2>5. ASSUME NEW p \in Passes, PassCreates(p)
        PROVE  crossed \subseteq crossed'
    BY <2>3, <2>5 DEF PassCreates
  <2>6. ASSUME NEW t \in Slots, Dismiss(t) \/ Skip(t)
        PROVE  crossed \subseteq crossed'
    BY <2>3, <2>6 DEF Dismiss, Skip, history
  <2> QED
    BY <2>1, <2>2, <2>4, <2>5, <2>6 DEF Next, PassGoesOn
<1>3. Once(s)
  BY <1>2, ClaimsKept DEF ClaimedOnce
<1>4. ASSUME UNCHANGED <<up, chain, head, pass, runs>>, UNCHANGED missedVars
      PROVE  Once(s)'
  <2>1. OnRecord(s)' /\ (NoRecord(s) => NoRecord(s)') /\ missed' = missed
    BY <1>3, <1>4 DEF Once, OnRecord, NoRecord, missedVars
  <2> QED
    BY <1>1, <1>3, <1>4, <2>1, RecordsChange
<1>5. CASE SlotComesDue \/ GraceEnds \/ WriteSkipped \/ RunTaskNow \/ UNCHANGED vars
  BY <1>4, <1>5 DEF SlotComesDue, GraceEnds, WriteSkipped, RunTaskNow, history, vars, missedVars
<1>6. ASSUME NEW t \in Slots, Skip(t)
      PROVE  Once(s)'
  BY <1>4, <1>6 DEF Skip, history
<1>7. CASE WriteMissed
  BY <1>3, <1>7, WriteMissedOnce
<1>8. CASE Tick
  BY <1>1, <1>3, <1>8, TickOnce
<1>9. CASE Start
  BY <1>1, <1>3, <1>9, StartOnce
<1>10. CASE Crash
  BY <1>3, <1>10, CrashOnce
<1>11. CASE ChainGoesOn
  BY <1>3, <1>11, ChainOnce
<1>12. ASSUME NEW p \in Passes, StartPass(p) \/ PassSends(p) \/ PassFails(p)
       PROVE  Once(s)'
  BY <1>1, <1>3, <1>12, CallOnce
<1>13. ASSUME NEW p \in Passes, PassCreates(p)
       PROVE  Once(s)'
  BY <1>3, <1>13, PassCreatesOnce
<1>14. ASSUME NEW t \in Slots, Dismiss(t)
       PROVE  Once(s)'
  BY <1>3, <1>14, DismissOnce
<1> QED
  BY <1>5, <1>6, <1>7, <1>8, <1>9, <1>10, <1>11, <1>12, <1>13, <1>14 DEF Next, PassGoesOn

(***************************************************************************)
(* assistant-scheduler-service.ts:574 and :447, for any number of slots,   *)
(* calls, restarts and failing writes: a slot is run once, unless its      *)
(* claim was given back, its record was taken from a stale list, or the    *)
(* mark of its run never reached the disk.                                 *)
(***************************************************************************)
THEOREM SlotsRunOnce == Spec => []RunOnceButForAReason
<1>1. Init => ClaimedOnce
  BY InitClaimedOnce
<1>2. Typed /\ ClaimedOnce /\ [Next]_vars => ClaimedOnce'
  BY NextClaimedOnce
<1>3. Typed /\ ClaimedOnce => RunOnceButForAReason
  <2> SUFFICES ASSUME Typed, ClaimedOnce, NEW s \in Slots, runs[s] > 1
               PROVE  s \in reopened \cup crossed
    BY DEF RunOnceButForAReason
  <2>1. runs[s] \in Nat
    BY DEF Typed, RunsTyped
  <2> QED
    BY <2>1 DEF ClaimedOnce, Once, RunSettles
<1> QED
  BY <1>1, <1>2, <1>3, TypedInvariant, PTL DEF Spec
=============================================================================
