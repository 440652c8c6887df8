--------------------------- MODULE AssistantScheduler ---------------------------
(***************************************************************************)
(* The clock of one assistant task: the slots of its schedule come due,    *)
(* and each is fired, recorded as missed or skipped by the user; missed    *)
(* slots are run later by a catch-up pass or by the user.  The app may go  *)
(* away at any step.                                                       *)
(*                                                                         *)
(* Slots are numbered in the order they come due, and the clock is the     *)
(* number of the latest one: previousDueAt looks at no other.  The task's  *)
(* lastRunAt is in the database and written at once, the missed and the    *)
(* skipped slots are in two files, written one snapshot after the other.   *)
(* Pausing, changing the schedule, deleting the task and a second instance *)
(* are left out.                                                           *)
(***************************************************************************)
EXTENDS Naturals, Sequences, SequencesExt, FiniteSets, FiniteSetsExt

CONSTANTS
    MaxSlot,        \* bound on the slots that come due
    MaxCatchUp,     \* MAX_CATCH_UP_PER_PASS
    MaxPasses,      \* bound on the calls that run missed slots at a time
    MaxFaults       \* bound on writes that fail and on restarts

ASSUME Bounds ==
    MaxSlot \in Nat \ {0} /\ MaxCatchUp \in Nat \ {0} /\ MaxPasses \in Nat /\ MaxFaults \in Nat

VARIABLES
    slot, late,     \* the latest slot that is due; whether it is past the grace period
    up, started,    \* the app is open; the latest slot that was due when it opened
    lastRun,        \* the task's lastRunAt
    missed,         \* MissedRunStore: the status of each slot's record
    missedFile, missedOut,      \* its file, and the snapshots still to be written
    skipped,        \* AssistantSkipStore
    skipFile, skipOut,          \* its file, and the snapshots still to be written
    chain, head,    \* dispatchChain: the slots fired; how far its first run is
    pass,           \* the calls that run missed slots: catch-up passes and the user's
    faults,
    runs,           \* history: the runs sent for each slot
    acked,          \* history: the skips the user was told of
    reopened,       \* history: the slots claimed and then given back
    crossed         \* history: missed slots run again from a stale list or after a lost mark

vars == <<slot, late, up, started, lastRun, missed, missedFile, missedOut, skipped, skipFile,
          skipOut, chain, head, pass, faults, runs, acked, reopened, crossed>>

clock == <<slot, late, started>>
missedVars == <<missed, missedFile, missedOut>>
skipVars == <<skipped, skipFile, skipOut, acked>>
history == <<runs, reopened, crossed>>

Slots == 1..MaxSlot
Passes == 1..MaxPasses
NoRecords == [s \in Slots |-> "none"]
NoPass == [todo |-> {}, at |-> "idle", of |-> 0, left |-> 0]
Pending(m) == {s \in Slots : m[s] = "pending"}

Init ==
    /\ slot = 0 /\ late = FALSE /\ up = TRUE /\ started = 0
    /\ lastRun = 0
    /\ missed = NoRecords /\ missedFile = NoRecords /\ missedOut = <<>>
    /\ skipped = {} /\ skipFile = {} /\ skipOut = <<>>
    /\ chain = <<>> /\ head = "create"
    /\ pass = [p \in Passes |-> NoPass]
    /\ faults = 0
    /\ runs = [s \in Slots |-> 0] /\ acked = {} /\ reopened = {} /\ crossed = {}

-----------------------------------------------------------------------------
(* The clock and the two files.                                            *)

SlotComesDue ==
    /\ slot < MaxSlot
    /\ slot' = slot + 1 /\ late' = FALSE
    /\ UNCHANGED <<up, started, lastRun, chain, head, pass, faults>>
    /\ UNCHANGED <<missedVars, skipVars, history>>

GraceEnds ==
    /\ slot > 0 /\ ~late
    /\ late' = TRUE
    /\ UNCHANGED <<slot, up, started, lastRun, chain, head, pass, faults>>
    /\ UNCHANGED <<missedVars, skipVars, history>>

\* MissedRunStore.persist: the new map, and its snapshot behind those under way.
SaveMissed(m) ==
    /\ missed' = m
    /\ missedOut' = IF m = missed THEN missedOut ELSE Append(missedOut, m)
    /\ UNCHANGED missedFile

\* A write that fails is logged and dropped.
WriteMissed ==
    /\ up /\ missedOut # <<>>
    /\ missedOut' = Tail(missedOut)
    /\ \/ missedFile' = Head(missedOut) /\ UNCHANGED faults
       \/ faults < MaxFaults /\ faults' = faults + 1 /\ UNCHANGED missedFile
    /\ UNCHANGED <<clock, up, lastRun, missed, chain, head, pass>>
    /\ UNCHANGED <<skipVars, history>>

\* AssistantSkipStore.persist; `by` is what recordMany inserted and waits to confirm.
SaveSkipped(set, by) ==
    /\ skipped' = set
    /\ skipOut' = IF set = skipped THEN skipOut ELSE Append(skipOut, [set |-> set, by |-> by])
    /\ UNCHANGED <<skipFile, acked>>

\* recordMany takes back what it inserted when its write fails, and tells the user.
WriteSkipped ==
    /\ up /\ skipOut # <<>>
    /\ \/ /\ skipFile' = Head(skipOut).set
          /\ acked' = acked \cup Head(skipOut).by
          /\ skipOut' = Tail(skipOut)
          /\ UNCHANGED <<skipped, faults>>
       \/ LET kept == skipped \ Head(skipOut).by
          IN  /\ faults < MaxFaults /\ faults' = faults + 1
              /\ skipped' = kept
              /\ skipOut' = Tail(skipOut)
                   \o (IF Head(skipOut).by = {} THEN <<>> ELSE <<[set |-> kept, by |-> {}]>>)
              /\ UNCHANGED <<skipFile, acked>>
    /\ UNCHANGED <<clock, up, lastRun, chain, head, pass>>
    /\ UNCHANGED <<missedVars, history>>

-----------------------------------------------------------------------------
(* The ticker.                                                             *)

\* Mutant: a skip is dropped as soon as its slot comes due.
PrunedAsDue(set, at) == {s \in set : lastRun < s /\ at < s}
\* pruneStaleSkips: a claimed slot and one that a later slot followed need no skip.
PrunedSkips(set, at) == {s \in set : lastRun < s /\ at <= s}

\* Mutant: a missed slot is recorded without claiming it.
RecordUnclaimed(m, s) ==
    SaveMissed(IF m[s] = "none" THEN [m EXCEPT ![s] = "pending"] ELSE m) /\ UNCHANGED lastRun
\* MissedRunStore.record leaves a settled record alone; the slot is claimed either way.
RecordMiss(m, s) ==
    /\ SaveMissed(IF m[s] = "none" THEN [m EXCEPT ![s] = "pending"] ELSE m)
    /\ lastRun' = s

\* Mutant: the slot is claimed only when its run was sent.
FireUnclaimed(s) == chain' = Append(chain, s) /\ UNCHANGED <<lastRun, missedVars>>
\* fire: claims the slot and queues its run.
Fire(s) == chain' = Append(chain, s) /\ lastRun' = s /\ UNCHANGED missedVars

\* evaluateTask on the latest due slot; a slot that was due before the app opened or is
\* past its grace period is missed.
Tick ==
    LET skips == PrunedSkips(skipped, slot)
    IN  /\ up
        /\ SaveSkipped(skips, {})
        /\ \/ /\ slot > lastRun /\ slot \notin skips
              /\ \/ (slot <= started \/ late) /\ RecordMiss(missed, slot) /\ UNCHANGED chain
                 \/ slot > started /\ ~late /\ Fire(slot)
           \/ /\ slot <= lastRun \/ slot \in skips
              /\ skips # skipped
              /\ UNCHANGED <<lastRun, chain, missedVars>>
        /\ UNCHANGED <<clock, up, head, pass, faults, history>>

\* start: loads both files, drops settled records, evaluates once without dispatching.
Start ==
    LET m0 == [s \in Slots |-> IF missedFile[s] = "pending" THEN "pending" ELSE "none"]
        m == IF slot > lastRun /\ slot \notin PrunedSkips(skipFile, slot) /\ m0[slot] = "none"
             THEN [m0 EXCEPT ![slot] = "pending"] ELSE m0
        skips == PrunedSkips(skipFile, slot)
    IN  /\ ~up
        /\ up' = TRUE /\ started' = slot
        /\ missed' = m
        /\ missedOut' = (IF m0 = missedFile THEN <<>> ELSE <<m0>>)
                          \o (IF m = m0 THEN <<>> ELSE <<m>>)
        /\ skipped' = skips
        /\ skipOut' = IF skips = skipFile THEN <<>> ELSE <<[set |-> skips, by |-> {}]>>
        /\ lastRun' = IF slot \in skips THEN lastRun ELSE slot
        /\ UNCHANGED <<slot, late, missedFile, skipFile, chain, head, pass, faults>>
        /\ UNCHANGED <<acked, history>>

\* The app goes away: a crash, or a quit, which waits for none of this.  A missed slot
\* whose run was sent and whose record on disk does not say so will be run again.
Crash ==
    /\ up /\ faults < MaxFaults
    /\ faults' = faults + 1
    /\ up' = FALSE
    /\ missed' = missedFile /\ missedOut' = <<>>
    /\ skipped' = skipFile /\ skipOut' = <<>>
    /\ chain' = <<>> /\ head' = "create"
    /\ pass' = [p \in Passes |-> NoPass]
    /\ crossed' = crossed
         \cup {s \in Slots : missed[s] = "run" /\ missedFile[s] = "pending"}
         \cup {pass[p].of : p \in {q \in Passes : pass[q].at = "dispatch"}}
    /\ UNCHANGED <<clock, lastRun, missedFile, skipFile, runs, acked, reopened>>

-----------------------------------------------------------------------------
(* The dispatch chain: one run after the other, failures only logged.      *)

Sent(s) == runs' = [runs EXCEPT ![s] = @ + 1]
NotSent(s) == runs' = [runs EXCEPT ![s] = @ - 1]

\* startRun: createRunThread, then the dispatcher.
ChainCreates ==
    /\ chain # <<>> /\ head = "create"
    /\ head' = "dispatch" /\ Sent(Head(chain))
    /\ UNCHANGED <<clock, up, lastRun, chain, pass, faults, reopened, crossed>>
    /\ UNCHANGED <<missedVars, skipVars>>

ChainSends ==
    /\ chain # <<>> /\ head = "dispatch"
    /\ chain' = Tail(chain) /\ head' = "create"
    /\ UNCHANGED <<clock, up, lastRun, pass, faults, missedVars, skipVars, history>>

\* createRunThread or the dispatcher rejects: nothing is kept of the slot.
ChainFails ==
    /\ chain # <<>>
    /\ IF head = "dispatch" THEN NotSent(Head(chain)) ELSE UNCHANGED runs
    /\ chain' = Tail(chain) /\ head' = "create"
    /\ UNCHANGED <<clock, up, lastRun, pass, faults, reopened, crossed>>
    /\ UNCHANGED <<missedVars, skipVars>>

-----------------------------------------------------------------------------
(* Running missed slots.                                                   *)

\* The next slot of a list in due order; one whose record is gone is passed over.
Advanced(todo, left, m) ==
    LET there == {s \in todo : m[s] # "none"}
    IN  IF there = {} \/ left = 0 THEN NoPass
        ELSE [todo |-> todo \ (1..Min(there)), at |-> "create", of |-> Min(there), left |-> left]

\* A slot taken up although its record is settled or another call is running it.
Crosses(p, next, m) ==
    IF /\ next.at = "create"
       /\ \/ m[next.of] # "pending"
          \/ \E q \in Passes \ {p} : pass[q].at # "idle" /\ pass[q].of = next.of
    THEN {next.of} ELSE {}

Take(p, next, m) == pass' = [pass EXCEPT ![p] = next] /\ crossed' = crossed \cup Crosses(p, next, m)

\* runPendingMisses (all that is pending) or runMissedRunNow (one of them).
StartPass(p) ==
    /\ up /\ pass[p].at = "idle" /\ \A q \in 1..(p - 1) : pass[q].at # "idle"
    /\ \E todo \in {Pending(missed)} \cup {{s} : s \in Pending(missed)} :
          todo # {} /\ Take(p, Advanced(todo, MaxCatchUp, missed), missed)
    /\ UNCHANGED <<clock, up, lastRun, chain, head, faults, runs, reopened>>
    /\ UNCHANGED <<missedVars, skipVars>>

PassCreates(p) ==
    /\ pass[p].at = "create"
    /\ pass' = [pass EXCEPT ![p].at = "dispatch"] /\ Sent(pass[p].of)
    /\ UNCHANGED <<clock, up, lastRun, chain, head, faults, reopened, crossed>>
    /\ UNCHANGED <<missedVars, skipVars>>

\* Mutant: a missed slot that was run stays pending.
MarkNothing(m, s) == m
\* markRun, which changes nothing when the record is gone.
MarkRun(m, s) == IF m[s] = "none" THEN m ELSE [m EXCEPT ![s] = "run"]

\* runMissed after its await: lastRunAt becomes the missed slot's time, even when later
\* slots were claimed meanwhile.
PassSends(p) ==
    LET s == pass[p].of
        m == MarkRun(missed, s)
    IN  /\ pass[p].at = "dispatch"
        /\ lastRun' = s
        /\ reopened' = reopened \cup ((s + 1)..lastRun)
        /\ SaveMissed(m)
        /\ Take(p, Advanced(pass[p].todo, pass[p].left - 1, m), m)
        /\ UNCHANGED <<clock, up, chain, head, faults, runs>>
        /\ UNCHANGED skipVars

\* startRun rejects: the record stays pending and the pass goes on.
PassFails(p) ==
    /\ pass[p].at # "idle"
    /\ IF pass[p].at = "dispatch" THEN NotSent(pass[p].of) ELSE UNCHANGED runs
    /\ Take(p, Advanced(pass[p].todo, pass[p].left, missed), missed)
    /\ UNCHANGED <<clock, up, lastRun, chain, head, faults, reopened>>
    /\ UNCHANGED <<missedVars, skipVars>>

-----------------------------------------------------------------------------
(* The user.                                                               *)

\* Mutant: the user's own run claims the slot to come.
ClaimAhead == up /\ lastRun < slot /\ lastRun' = slot + 1
\* recordLastRun(now), once the run was sent.
ClaimDue == up /\ lastRun < slot /\ lastRun' = slot

\* runTaskNow claims what is due once its run was sent; nothing before that is kept.
RunTaskNow ==
    /\ ClaimDue
    /\ UNCHANGED <<clock, up, chain, head, pass, faults, missedVars, skipVars, history>>

Dismiss(s) ==
    /\ up /\ missed[s] = "pending"
    /\ SaveMissed([missed EXCEPT ![s] = "dismissed"])
    /\ UNCHANGED <<clock, up, lastRun, chain, head, pass, faults, skipVars, history>>

\* The due slot while its grace period lasts, and the slots to come.
Skippable == {s \in Slots \ skipped : s > lastRun /\ (s > slot \/ (s = slot /\ ~late))}

\* skipNextRun takes the closest one, skipRunsToday those up to the end of the day.
Skip(s) ==
    /\ up /\ s \in Skippable
    /\ LET batch == {n \in Skippable : n <= s} IN SaveSkipped(skipped \cup batch, batch)
    /\ UNCHANGED <<clock, up, lastRun, chain, head, pass, faults, missedVars, history>>

-----------------------------------------------------------------------------
ChainGoesOn == ChainCreates \/ ChainSends \/ ChainFails
PassGoesOn(p) == PassCreates(p) \/ PassSends(p) \/ PassFails(p)

Next ==
    \/ SlotComesDue \/ GraceEnds \/ WriteMissed \/ WriteSkipped
    \/ Tick \/ Start \/ Crash \/ ChainGoesOn \/ RunTaskNow
    \/ \E p \in Passes : StartPass(p) \/ PassGoesOn(p)
    \/ \E s \in Slots : Dismiss(s) \/ Skip(s)

\* The interval fires again and again, and a run that was queued is sent or fails.
Fairness == WF_vars(Tick) /\ WF_vars(ChainGoesOn)

Spec == Init /\ [][Next]_vars /\ Fairness

-----------------------------------------------------------------------------
TypeOK ==
    /\ slot \in 0..MaxSlot /\ {late, up} \subseteq BOOLEAN /\ started \in 0..slot
    /\ lastRun \in 0..slot
    /\ {missed, missedFile} \cup ToSet(missedOut)
         \subseteq [Slots -> {"none", "pending", "dismissed", "run"}]
    /\ {skipped, skipFile, acked} \subseteq SUBSET Slots
    /\ ToSet(skipOut) \subseteq [set : SUBSET Slots, by : SUBSET Slots]
    /\ chain \in Seq(1..slot) /\ head \in {"create", "dispatch"}
    /\ pass \in [Passes -> [todo : SUBSET (1..slot), at : {"idle", "create", "dispatch"},
                            of : 0..slot, left : 0..MaxCatchUp]]
    /\ faults \in 0..MaxFaults
    /\ runs \in [Slots -> Nat] /\ {reopened, crossed} \subseteq SUBSET Slots
    /\ ~up => chain = <<>> /\ missedOut = <<>> /\ skipOut = <<>> /\ pass = [p \in Passes |-> NoPass]

\* assistant-scheduler-service.ts:574 and :447: across ticks, catch-up passes, the user's
\* own runs and restarts a slot is run once, unless its claim was given back, its record
\* was taken from a stale list, or the mark of its run never reached the disk.
RunOnceButForAReason == \A s \in Slots : runs[s] > 1 => s \in reopened \cup crossed

\* assistant-scheduler-service.ts:549: a slot whose skip the user was told of is not fired
\* and not recorded as missed, restarts included, unless its claim was given back.
SkippedStaysOut ==
    [][\A s \in acked \ reopened :
         /\ Len(chain') > Len(chain) => Last(chain') # s
         /\ missed'[s] = "pending" => "pending" \in {missed[s], missedFile[s]}]_vars

\* assistant-scheduler-service.ts:575: a slot is claimed before its run, so that no later
\* tick fires it again.  Not kept: running an older missed slot gives the claim back.
FiredOnce == [][Len(chain') > Len(chain) => runs[Last(chain')] = 0]_vars

\* assistant-scheduler-service.ts:546 and :579: while the app is open, a due slot is in the
\* end claimed or skipped, and what was fired is handed over whatever became of the runs
\* before it.
DueIsServed ==
    (up /\ (lastRun < slot \/ chain # <<>>))
        ~> (~up \/ (chain = <<>> /\ (lastRun = slot \/ slot \in skipped)))
=============================================================================
