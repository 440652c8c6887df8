------------------------- MODULE AssignmentCalls_proofs -------------------------
(***************************************************************************)
(* For any tasks, workers, slots, operation ids and bounds.  However the   *)
(* calls interleave, fail and lose the app: every stored plan and every    *)
(* plan a call holds is sound, and an operation id takes effect at most    *)
(* once.  While every call takes the queue: no call works on a plan that   *)
(* changed since it was read, and the calls with their awaits are the      *)
(* one-step operations of AssignmentEngine.                                *)
(***************************************************************************)
EXTENDS AssignmentCalls, AssignmentPlan_proofs, WellFoundedInduction

-----------------------------------------------------------------------------
(* What the operations do to the version and to the audit cycle.           *)

Fields == {"version", "status", "prior", "tasks", "cycle"}

\* No operation of the engine puts a cycle into planning_rework.
QuietCycle(c) == c.status # "planning_rework" /\ c.prior # "planning_rework"
Quiet(p) == QuietCycle(p.cycle)

\* q is p rewritten under the same version.
Rewrites(p, q) == q.version = p.version /\ (Quiet(p) => Quiet(q))

LEMMA FieldsOfPlan ==
  ASSUME NEW p, PlanSound(p)
  PROVE  DOMAIN p = Fields /\ p.version \in Nat /\ p.cycle \in Cycle
BY DEF PlanSound, IsPlan, PlanOver, Fields

LEMMA NoCycleQuiet == QuietCycle(NoCycle)
BY DEF QuietCycle, NoCycle

LEMMA SettleRewrites ==
  ASSUME NEW p, DOMAIN p = Fields
  PROVE  Rewrites(p, Settle(p))
<1>1. Settle(p).version = p.version /\ Settle(p).cycle \in {p.cycle, NoCycle}
  BY DEF Settle, Fields
<1> QED
  BY <1>1, NoCycleQuiet DEF Rewrites, Quiet

\* The common shape of the rewrites: version kept, cycle quiet, settled.
LEMMA SettledRewrites ==
  ASSUME NEW p, NEW q, DOMAIN q = Fields, q.version = p.version, Quiet(p) => Quiet(q)
  PROVE  Rewrites(p, Settle(q))
BY SettleRewrites DEF Rewrites

LEMMA ReplaceTaskRewrites ==
  ASSUME NEW p, DOMAIN p = Fields, NEW t, NEW task, NEW status
  PROVE  Rewrites(p, ReplaceTask(p, t, task, status))
<1> DEFINE q == [p EXCEPT !.status = status, !.tasks[t] = task]
<1>1. DOMAIN q = Fields /\ q.version = p.version /\ q.cycle = p.cycle
  BY DEF Fields
<1>2. ReplaceTask(p, t, task, status) = Settle(q)
  BY DEF ReplaceTask
<1> HIDE DEF q
<1> QED
  BY <1>1, <1>2, SettledRewrites DEF Quiet

LEMMA DraftVersions ==
  ASSUME NEW p, DOMAIN p = Fields, NEW S
  PROVE  /\ EditedDraft(p).version = p.version + 1
         /\ Quiet(p) => Quiet(EditedDraft(p))
         /\ RegeneratedDraft(p, S).version = p.version + 1
         /\ Quiet(p) => Quiet(RegeneratedDraft(p, S))
<1> DEFINE tasks == [t \in S |-> NewTask]
           q == [p EXCEPT !.version = @ + 1]
           r == [p EXCEPT !.version = @ + 1, !.tasks = tasks]
<1> HIDE DEF tasks
<1>1. DOMAIN q = Fields /\ q.version = p.version + 1 /\ q.cycle = p.cycle
  BY DEF Fields
<1>2. DOMAIN r = Fields /\ r.version = p.version + 1 /\ r.cycle = p.cycle
  BY DEF Fields
<1>3. EditedDraft(p) = Settle(q) /\ RegeneratedDraft(p, S) = Settle(r)
  BY DEF EditedDraft, RegeneratedDraft, tasks
<1> HIDE DEF q, r
<1> QED
  BY <1>1, <1>2, <1>3, SettleRewrites DEF Rewrites, Quiet

LEMMA ActivatedRewrites ==
  ASSUME NEW p, DOMAIN p = Fields, p.cycle \in Cycle
  PROVE  Rewrites(p, Activated(p))
<1> DEFINE status == IF p.cycle.status = "awaiting_rework_approval" THEN "reworking"
                     ELSE p.cycle.status
           cycle  == [p.cycle EXCEPT !.status = status]
<1>1. Activated(p).version = p.version /\ Activated(p).cycle = cycle
  BY DEF Activated, Fields
<1>2. status # "planning_rework" <=> p.cycle.status # "planning_rework"
  OBVIOUS
<1> HIDE DEF status
<1>3. cycle.status = status /\ cycle.prior = p.cycle.prior
  BY DEF Cycle
<1> HIDE DEF cycle
<1> QED
  BY <1>1, <1>2, <1>3 DEF Rewrites, Quiet, QuietCycle

LEMMA StoppedRewrites ==
  ASSUME NEW p, DOMAIN p = Fields, p.cycle \in Cycle
  PROVE  Rewrites(p, Stopped(p))
<1> DEFINE tasks == [t \in DOMAIN p.tasks |-> StoppedTask(p.tasks[t])]
           cycle == StoppedCycle(p.cycle)
<1>1. QuietCycle(p.cycle) => QuietCycle(cycle)
  BY DEF StoppedCycle, QuietCycle, Cycle
<1>2. Stopped(p) = [p EXCEPT !.status = "stopped", !.prior = p.status,
                             !.tasks = tasks, !.cycle = cycle]
  BY DEF Stopped
<1> HIDE DEF tasks, cycle
<1>3. Stopped(p).version = p.version /\ Stopped(p).cycle = cycle
  BY <1>2 DEF Fields
<1> QED
  BY <1>1, <1>3 DEF Rewrites, Quiet

LEMMA ResumedRewrites ==
  ASSUME NEW p, DOMAIN p = Fields, p.cycle \in Cycle
  PROVE  Rewrites(p, Resumed(p))
<1> DEFINE tasks  == [t \in DOMAIN p.tasks |-> ResumedTask(p.tasks[t])]
           cycle  == ResumedCycle(p.cycle)
           status == ResumedStatus(p, tasks)
           q      == [p EXCEPT !.status = status, !.prior = "none", !.tasks = tasks,
                               !.cycle = cycle]
<1>1. QuietCycle(p.cycle) => QuietCycle(cycle)
  BY DEF ResumedCycle, QuietCycle, Cycle
<1>2. Resumed(p) = Settle(q)
  BY DEF Resumed
<1> HIDE DEF tasks, cycle, status
<1>3. DOMAIN q = Fields /\ q.version = p.version /\ q.cycle = cycle
  BY DEF Fields
<1> HIDE DEF q
<1> QED
  BY <1>1, <1>2, <1>3, SettledRewrites DEF Quiet

LEMMA ReportedRewrites ==
  ASSUME NEW p, DOMAIN p = Fields, NEW t, NEW report
  PROVE  Rewrites(p, ReportedPlan(p, t, report))
BY ReplaceTaskRewrites DEF ReportedPlan

LEMMA ReviewedRewrites ==
  ASSUME NEW p, DOMAIN p = Fields, p.cycle \in Cycle, NEW t, NEW decision
  PROVE  Rewrites(p, Reviewed(p, t, decision))
<1> DEFINE tasks  == Unblocked([p.tasks EXCEPT ![t] = ReviewedTask(@, decision)])
           all    == AllCompleted(tasks)
           status == IF all THEN "completed"
                     ELSE IF AnyWith(tasks, {"failed"}) THEN "attention" ELSE "running"
           cycle  == IF all THEN OfferedCycle(p.cycle) ELSE p.cycle
           q      == [p EXCEPT !.status = status, !.tasks = tasks, !.cycle = cycle]
<1>1. QuietCycle(p.cycle) => QuietCycle(OfferedCycle(p.cycle))
  <2> DEFINE n == IF p.cycle.status = "reworking" /\ p.cycle.rework = 0 THEN 1
                  ELSE p.cycle.rework
  <2>1. OfferedCycle(p.cycle) = [p.cycle EXCEPT !.status = "available", !.rework = n]
    BY DEF OfferedCycle
  <2> HIDE DEF n
  <2> QED
    BY <2>1 DEF QuietCycle, Cycle
<1>2. Reviewed(p, t, decision) = Settle(q)
  BY DEF Reviewed
<1>3. cycle \in {p.cycle, OfferedCycle(p.cycle)}
  OBVIOUS
<1> HIDE DEF tasks, all, status, cycle
<1>4. DOMAIN q = Fields /\ q.version = p.version /\ q.cycle = cycle
  BY DEF Fields
<1> HIDE DEF q
<1> QED
  BY <1>1, <1>2, <1>3, <1>4, SettledRewrites DEF Quiet

LEMMA SteeredRewrites ==
  ASSUME NEW p, DOMAIN p = Fields, NEW t
  PROVE  Rewrites(p, SteeredPlan(p, t))
<1> DEFINE tasks  == SteeredTasks(p, t)
           status == IF AnyWith(tasks, {"attention", "failed", "stopped"})
                     THEN "attention" ELSE "running"
           q      == [p EXCEPT !.status = status, !.tasks = tasks]
<1>1. SteeredPlan(p, t) = Settle(q)
  BY DEF SteeredPlan
<1> HIDE DEF tasks, status
<1>2. DOMAIN q = Fields /\ q.version = p.version /\ q.cycle = p.cycle
  BY DEF Fields
<1> HIDE DEF q
<1> QED
  BY <1>1, <1>2, SettledRewrites DEF Quiet

LEMMA InReworkRewrites ==
  ASSUME NEW p, DOMAIN p = Fields, p.cycle \in Cycle
  PROVE  Rewrites(p, InRework(p))
<1>1. CASE p.cycle.status = "reworking"
  BY <1>1 DEF InRework, Rewrites
<1>2. CASE p.cycle.status # "reworking"
  <2> DEFINE n     == OrFirst(p.cycle.rework)
             cycle == [p.cycle EXCEPT !.status = "reworking", !.rework = n]
             q     == [p EXCEPT !.cycle = cycle]
  <2>1. InRework(p) = Settle(q)
    BY <1>2 DEF InRework, Fields, Cycle
  <2> HIDE DEF n
  <2>2. QuietCycle(p.cycle) => QuietCycle(cycle)
    BY DEF QuietCycle, Cycle
  <2> HIDE DEF cycle
  <2>3. DOMAIN q = Fields /\ q.version = p.version /\ q.cycle = cycle
    BY DEF Fields
  <2> HIDE DEF q
  <2> QED
    BY <2>1, <2>2, <2>3, SettledRewrites DEF Quiet
<1> QED
  BY <1>1, <1>2

LEMMA FollowUpRewrites ==
  ASSUME NEW p, DOMAIN p = Fields, NEW t
  PROVE  Rewrites(p, FollowUpPlan(p, t))
<1> DEFINE added == [NewTask EXCEPT !.status = DependencyStatus(t, Completed(p.tasks))]
           tasks == [u \in DOMAIN p.tasks \cup {t} |-> IF u = t THEN added ELSE p.tasks[u]]
           q     == [p EXCEPT !.status = "running", !.tasks = tasks]
<1>1. FollowUpPlan(p, t) = Settle(q)
  BY DEF FollowUpPlan
<1> HIDE DEF added, tasks
<1>2. DOMAIN q = Fields /\ q.version = p.version /\ q.cycle = p.cycle
  BY DEF Fields
<1> HIDE DEF q
<1> QED
  BY <1>1, <1>2, SettledRewrites DEF Quiet

LEMMA CycleSavedRewrites ==
  ASSUME NEW p, DOMAIN p = Fields, NEW cycle, Quiet(p) => QuietCycle(cycle)
  PROVE  Rewrites(p, CycleSaved(p, cycle))
<1> DEFINE q == [p EXCEPT !.cycle = cycle]
<1>1. DOMAIN q = Fields /\ q.version = p.version /\ q.cycle = cycle
  BY DEF Fields
<1>2. CycleSaved(p, cycle) = Settle(q)
  BY DEF CycleSaved
<1> HIDE DEF q
<1> QED
  BY <1>1, <1>2, SettledRewrites DEF Quiet

LEMMA ReworkDraftVersion ==
  ASSUME NEW p, DOMAIN p = Fields, p.cycle \in Cycle, NEW S
  PROVE  /\ ReworkDraft(p, S).version = p.version + 1
         /\ Quiet(p) => Quiet(ReworkDraft(p, S))
<1> DEFINE tasks == ProposedTasks(p, S)
           cycle == ProposedCycle(p)
           q     == [p EXCEPT !.version = @ + 1, !.status = "draft", !.tasks = tasks,
                              !.cycle = cycle]
<1>1. Quiet(p) => QuietCycle(cycle)
  <2> DEFINE n == IF AuditRework(p) THEN OrFirst(p.cycle.rework) ELSE p.cycle.rework + 1
             b == ScopeRepair(p)
  <2>1. cycle = [p.cycle EXCEPT !.status = "awaiting_rework_approval",
                                !.scopeRepair = b, !.rework = n]
    BY DEF ProposedCycle
  <2> HIDE DEF n, b, cycle
  <2> QED
    BY <2>1 DEF Quiet, QuietCycle, Cycle
<1>2. ReworkDraft(p, S) = Settle(q)
  BY DEF ReworkDraft
<1> HIDE DEF tasks, cycle
<1>3. DOMAIN q = Fields /\ q.version = p.version + 1 /\ q.cycle = cycle
  BY DEF Fields
<1> HIDE DEF q
<1> QED
  BY <1>1, <1>2, <1>3, SettleRewrites DEF Rewrites, Quiet

-----------------------------------------------------------------------------
(* The inductive invariant, however the calls interleave.                  *)

\* A plan of at most the last version, as every call saves it.
Storable(p) == PlanSound(p) /\ p.version <= MaxVersion /\ Quiet(p)

VersionsHeld ==
  /\ DOMAIN versions \subseteq Nat /\ active \in DOMAIN versions
  /\ \A v \in DOMAIN versions : versions[v].version = v /\ Storable(versions[v])

\* What a call knows of the plan it holds.
CallHeld(c) ==
  /\ \E S \in SUBSET Tasks : c \in CallOver(S)
  /\ Storable(c.plan)
  /\ c.op = "activate" => c.plan.status = "draft"
  /\ c.op \in {"assign", "report", "review"} => c.id \in OpIds
  /\ c.op \in {"assign", "report", "steer", "reopen"} => c.task \in DOMAIN c.plan.tasks
  /\ c.op = "followup" => c.task \in Tasks
  /\ c.op = "assign" => Assignable(c.plan.tasks[c.task])
  /\ c.op = "report" => c.plan.tasks[c.task].status = "running" /\ c.report \in Reports
  /\ c.phase \in {"claimed", "created"} => c.op = "assign"
  /\ c.phase = "created" => c.thread \in Workers
  /\ c.phase = "saved" => c.op \in {"assign", "report", "review"}

CallsHeld == DOMAIN calls \subseteq Slots /\ \A s \in DOMAIN calls : CallHeld(calls[s])

LedgerTyped ==
  /\ ledger \in [OpIds -> {"free", "claimed", "done"}]
  /\ applied \in [OpIds -> Nat]

LinksTyped == link \in [Workers -> Link]

\* A call that claimed its operation is the only one under that id, and the
\* operation took effect exactly if the call has saved.
ClaimsHeld ==
  /\ \A s \in DOMAIN calls : calls[s].phase # "read" =>
       /\ ledger[calls[s].id] = "claimed"
       /\ applied[calls[s].id] = IF calls[s].phase = "saved" THEN 1 ELSE 0
  /\ \A s, r \in DOMAIN calls :
       calls[s].phase # "read" /\ calls[r].phase # "read" /\ calls[s].id = calls[r].id => s = r

CallsInv ==
  VersionsHeld /\ CallsHeld /\ LinksTyped /\ LedgerTyped /\ ClaimsHeld /\ OnceOnly

LEMMA InvariantsOfCallsInv == CallsInv => TypeOK /\ StoredSound /\ OnceOnly
<1> SUFFICES ASSUME CallsInv PROVE TypeOK /\ StoredSound /\ OnceOnly
  OBVIOUS
<1>1. \A p : PlanSound(p) => IsPlan(p)
  BY DEF PlanSound
<1>2. StoredSound
  BY DEF CallsInv, VersionsHeld, CallsHeld, CallHeld, Storable, StoredSound
<1>3. \A v \in DOMAIN versions : IsPlan(versions[v]) /\ versions[v].version = v
  BY <1>1 DEF CallsInv, VersionsHeld, Storable
<1>4. \A s \in DOMAIN calls : \E S \in SUBSET Tasks : calls[s] \in CallOver(S)
  BY DEF CallsInv, CallsHeld, CallHeld
<1>5. TypeOK
  BY <1>3, <1>4 DEF CallsInv, VersionsHeld, CallsHeld, LinksTyped, LedgerTyped, TypeOK
<1> QED
  BY <1>2, <1>5 DEF CallsInv

\* The fields of a call that is held.
LEMMA CallFields ==
  ASSUME NEW c, CallHeld(c)
  PROVE  /\ DOMAIN c = {"op", "phase", "locked", "plan", "task", "thread", "report", "id",
                        "links"}
         /\ c.op \in Operations /\ c.phase \in {"read", "claimed", "created", "saved"}
         /\ c.locked \in BOOLEAN
         /\ c.task \in Tasks \cup {"none"} /\ c.links \in [Workers -> Link]
BY DEF CallHeld, CallOver

\* A call that moves on keeps what it holds.
LEMMA PhaseHeld ==
  ASSUME NEW c, CallHeld(c), NEW phase \in {"read", "claimed", "created", "saved"},
         phase \in {"claimed", "created"} => c.op = "assign",
         phase = "created" => c.thread \in Workers,
         phase = "saved" => c.op \in {"assign", "report", "review"}
  PROVE  CallHeld([c EXCEPT !.phase = phase])
<1> DEFINE d == [c EXCEPT !.phase = phase]
<1> SUFFICES CallHeld(d)
  OBVIOUS
<1>1. PICK S \in SUBSET Tasks : c \in CallOver(S)
  BY DEF CallHeld
<1>2. d \in CallOver(S)
  BY <1>1 DEF CallOver
<1>3. /\ d.op = c.op /\ d.plan = c.plan /\ d.id = c.id /\ d.task = c.task
      /\ d.thread = c.thread /\ d.report = c.report /\ d.phase = phase
  BY <1>1 DEF CallOver
<1> HIDE DEF d
<1> QED
  BY <1>2, <1>3 DEF CallHeld

LEMMA LinksHeld ==
  ASSUME NEW c, CallHeld(c), NEW links \in [Workers -> Link]
  PROVE  CallHeld([c EXCEPT !.links = links])
<1> DEFINE d == [c EXCEPT !.links = links]
<1> SUFFICES CallHeld(d)
  OBVIOUS
<1>1. PICK S \in SUBSET Tasks : c \in CallOver(S)
  BY DEF CallHeld
<1>2. d \in CallOver(S)
  BY <1>1 DEF CallOver
<1>3. /\ d.op = c.op /\ d.plan = c.plan /\ d.id = c.id /\ d.task = c.task
      /\ d.thread = c.thread /\ d.report = c.report /\ d.phase = c.phase
  BY <1>1 DEF CallOver
<1> HIDE DEF d
<1> QED
  BY <1>2, <1>3 DEF CallHeld

LEMMA ThreadHeld ==
  ASSUME NEW c, CallHeld(c), NEW w \in Workers
  PROVE  CallHeld([c EXCEPT !.thread = w])
<1> DEFINE d == [c EXCEPT !.thread = w]
<1> SUFFICES CallHeld(d)
  OBVIOUS
<1>1. PICK S \in SUBSET Tasks : c \in CallOver(S)
  BY DEF CallHeld
<1>2. d \in CallOver(S)
  BY <1>1 DEF CallOver, Threads
<1>3. /\ d.op = c.op /\ d.plan = c.plan /\ d.id = c.id /\ d.task = c.task
      /\ d.thread = w /\ d.report = c.report /\ d.phase = c.phase
  BY <1>1 DEF CallOver
<1> HIDE DEF d
<1> QED
  BY <1>2, <1>3 DEF CallHeld

-----------------------------------------------------------------------------
(* The newest version exists, because versions are bounded.                *)

LEMMA NewestExists ==
  ASSUME VersionsHeld
  PROVE  Newest \in DOMAIN versions /\ \A u \in DOMAIN versions : u <= Newest
<1>1. MaxVersion \in Nat
  BY CallsAssumption
<1>2. \A v \in DOMAIN versions : v \in Nat /\ v <= MaxVersion
  BY DEF VersionsHeld, Storable
<1> DEFINE room == {MaxVersion - v : v \in DOMAIN versions}
<1>3. room # {} /\ room \subseteq Nat
  BY <1>1, <1>2 DEF VersionsHeld
<1>4. PICK least \in room : \A k \in room : ~(<<k, least>> \in OpToRel(<, Nat))
  BY <1>3, WFMin, NatLessThanWellFounded
<1>5. PICK v \in DOMAIN versions : least = MaxVersion - v
  OBVIOUS
<1>6. \A u \in DOMAIN versions : u <= v
  <2> SUFFICES ASSUME NEW u \in DOMAIN versions, ~(u <= v)
               PROVE  FALSE
    OBVIOUS
  <2>1. MaxVersion - u \in room /\ MaxVersion - u \in Nat /\ least \in Nat
    BY <1>3
  <2>2. MaxVersion - u < least
    BY <1>1, <1>2, <1>5
  <2> QED
    BY <1>4, <2>1, <2>2 DEF OpToRel
<1>7. \E n \in DOMAIN versions : \A u \in DOMAIN versions : u <= n
  BY <1>6
<1> QED
  BY <1>7 DEF Newest

LEMMA CurrentPlans ==
  ASSUME VersionsHeld
  PROVE  /\ Storable(Active) /\ Active.version = active
         /\ Storable(Latest) /\ Latest.version = Newest
BY NewestExists DEF VersionsHeld, Active, Latest

\* What a storable plan is as a record.
LEMMA StorableFields ==
  ASSUME NEW p, Storable(p)
  PROVE  /\ DOMAIN p = Fields /\ p.version \in Nat /\ p.cycle \in Cycle
         /\ PlanSound(p) /\ Quiet(p) /\ p.version <= MaxVersion
         /\ DOMAIN p.tasks \subseteq Tasks
BY FieldsOfPlan DEF Storable, PlanSound, IsPlan, PlanOver

LEMMA RewrittenStorable ==
  ASSUME NEW p, NEW q, Storable(p), PlanSound(q), Rewrites(p, q)
  PROVE  Storable(q)
BY DEF Storable, Rewrites

-----------------------------------------------------------------------------
(* What a step does to the versions, to the calls and to the ledger.       *)

LEMMA SaveHeld ==
  ASSUME VersionsHeld, NEW p, Storable(p), Save(p)
  PROVE  /\ VersionsHeld'
         /\ Active' = p
<1>1. p.version \in Nat
  BY StorableFields
<1>2. /\ DOMAIN versions' = DOMAIN versions \cup {p.version}
      /\ \A v \in DOMAIN versions' : versions'[v] = IF v = p.version THEN p ELSE versions[v]
  BY DEF Save, Stored
<1>3. active' = p.version /\ active' \in DOMAIN versions'
  BY <1>2 DEF Save
<1> QED
  BY <1>1, <1>2, <1>3 DEF VersionsHeld, Storable, Active

LEMMA GivesWayHeld ==
  ASSUME CallsHeld, NEW s \in Slots, NEW c, CallHeld(c), GivesWay(s, c)
  PROVE  CallsHeld'
BY DEF CallsHeld, GivesWay

LEMMA ReturnsHeld ==
  ASSUME CallsHeld, NEW s, Returns(s)
  PROVE  CallsHeld'
BY DEF CallsHeld, Returns

LEMMA OnToHeld ==
  ASSUME CallsHeld, NEW s \in DOMAIN calls, OnTo(s, "saved"),
         calls[s].op \in {"assign", "report", "review"}
  PROVE  CallsHeld'
<1>1. CallHeld([calls[s] EXCEPT !.phase = "saved"])
  BY PhaseHeld DEF CallsHeld
<1> QED
  BY <1>1 DEF CallsHeld, OnTo

\* Nobody claims or completes: what is claimed stays as it is.
LEMMA LedgerKept ==
  ASSUME ClaimsHeld, OnceOnly, UNCHANGED <<ledger, applied>>,
         \A r \in DOMAIN calls' : calls'[r].phase # "read" =>
           /\ r \in DOMAIN calls /\ calls[r].phase # "read" /\ calls'[r].id = calls[r].id
           /\ calls'[r].phase = "saved" <=> calls[r].phase = "saved"
  PROVE  ClaimsHeld' /\ OnceOnly'
BY DEF ClaimsHeld, OnceOnly

LEMMA ClaimedIds ==
  ASSUME CallsHeld, NEW s \in DOMAIN calls, calls[s].phase # "read"
  PROVE  calls[s].id \in OpIds
BY CallFields DEF CallsHeld, CallHeld

\* An operation is claimed by the call in slot s, which saves at once or later.
LEMMA ClaimKeepsOnce ==
  ASSUME CallsHeld, ClaimsHeld, OnceOnly, LedgerTyped, NEW i \in OpIds, Claims(i),
         NEW s \in DOMAIN calls', calls'[s].id = i, calls'[s].phase # "read",
         \A r \in DOMAIN calls' \ {s} : r \in DOMAIN calls /\ calls'[r] = calls[r],
         IF calls'[s].phase = "saved" THEN Applies(i) ELSE UNCHANGED applied
  PROVE  ClaimsHeld' /\ OnceOnly' /\ LedgerTyped'
<1> DEFINE n == IF calls'[s].phase = "saved" THEN 1 ELSE 0
<1>1. ledger[i] = "free" /\ applied[i] = 0
  BY DEF Claims, OnceOnly, LedgerTyped
<1>2. /\ ledger' \in [OpIds -> {"free", "claimed", "done"}]
      /\ ledger'[i] = "claimed"
      /\ \A j \in OpIds \ {i} : ledger'[j] = ledger[j]
  BY DEF LedgerTyped, Claims
<1>3. /\ applied' \in [OpIds -> Nat]
      /\ applied'[i] = n
      /\ \A j \in OpIds \ {i} : applied'[j] = applied[j]
  BY <1>1 DEF LedgerTyped, Applies
<1>4. \A r \in DOMAIN calls : calls[r].phase # "read" =>
         /\ calls[r].id \in OpIds \ {i}
         /\ ledger[calls[r].id] = "claimed"
         /\ applied[calls[r].id] = IF calls[r].phase = "saved" THEN 1 ELSE 0
  BY <1>1, ClaimedIds DEF ClaimsHeld
<1>5. ClaimsHeld'
  BY <1>2, <1>3, <1>4 DEF ClaimsHeld
<1>6. OnceOnly'
  BY <1>1, <1>2, <1>3 DEF OnceOnly
<1> QED
  BY <1>2, <1>3, <1>5, <1>6 DEF LedgerTyped

\* A call that claimed its operation earlier saves.
LEMMA ApplyKeepsOnce ==
  ASSUME CallsHeld, ClaimsHeld, OnceOnly, LedgerTyped,
         NEW s \in DOMAIN calls, calls[s].phase \in {"claimed", "created"},
         Applies(calls[s].id), ledger' = ledger, OnTo(s, "saved")
  PROVE  ClaimsHeld' /\ OnceOnly' /\ LedgerTyped'
<1> DEFINE i == calls[s].id
<1>1. i \in OpIds /\ applied[i] = 0 /\ ledger[i] = "claimed"
  BY ClaimedIds DEF ClaimsHeld
<1>2. /\ applied' \in [OpIds -> Nat]
      /\ applied'[i] = 1
      /\ \A j \in OpIds \ {i} : applied'[j] = applied[j]
  BY <1>1 DEF LedgerTyped, Applies
<1>3. DOMAIN calls' = DOMAIN calls /\ \A r \in DOMAIN calls \ {s} : calls'[r] = calls[r]
  BY DEF OnTo
<1>4. calls'[s].phase = "saved" /\ calls'[s].id = i
  BY CallFields DEF OnTo, CallsHeld
<1>5. \A r \in DOMAIN calls \ {s} : calls[r].phase # "read" => calls[r].id \in OpIds \ {i}
  BY ClaimedIds DEF ClaimsHeld
<1> HIDE DEF i
<1>6. ClaimsHeld'
  BY <1>1, <1>2, <1>3, <1>4, <1>5 DEF ClaimsHeld
<1>7. OnceOnly'
  BY <1>1, <1>2 DEF OnceOnly
<1> QED
  BY <1>2, <1>6, <1>7 DEF LedgerTyped

\* A call that saved completes its operation.
LEMMA CompleteKeepsOnce ==
  ASSUME CallsHeld, ClaimsHeld, OnceOnly, LedgerTyped, NEW s, Complete(s)
  PROVE  ClaimsHeld' /\ OnceOnly' /\ LedgerTyped'
<1> DEFINE i == calls[s].id
<1>1. s \in DOMAIN calls /\ calls[s].phase = "saved"
  BY DEF Complete
<1>2. i \in OpIds /\ applied[i] = 1
  BY <1>1, ClaimedIds DEF ClaimsHeld
<1>3. /\ ledger' \in [OpIds -> {"free", "claimed", "done"}]
      /\ ledger'[i] = "done"
      /\ \A j \in OpIds \ {i} : ledger'[j] = ledger[j]
  BY <1>2 DEF LedgerTyped, Complete
<1>4. /\ DOMAIN calls' = DOMAIN calls \ {s}
      /\ \A r \in DOMAIN calls \ {s} : calls'[r] = calls[r]
      /\ applied' = applied
  BY DEF Complete, Returns
<1>5. \A r \in DOMAIN calls \ {s} : calls[r].phase # "read" => calls[r].id \in OpIds \ {i}
  BY <1>1, ClaimedIds DEF ClaimsHeld
<1> HIDE DEF i
<1>6. ClaimsHeld'
  BY <1>3, <1>4, <1>5 DEF ClaimsHeld
<1>7. OnceOnly'
  BY <1>2, <1>3, <1>4 DEF OnceOnly
<1> QED
  BY <1>3, <1>4, <1>6, <1>7 DEF LedgerTyped

-----------------------------------------------------------------------------
(* A call that takes its plan and gives way.                               *)

LEMMA OpensHeld ==
  ASSUME CallsInv, NEW op \in {"activate", "auditor", "assign", "report", "steer",
                               "reopen", "followup"},
         NEW p, Storable(p), NEW t \in Tasks \cup {"none"},
         NEW report \in Reports \cup {"none"}, NEW id \in OpIds \cup {"none"},
         op = "activate" => p.status = "draft",
         op \in {"assign", "report"} => id \in OpIds,
         op \in {"assign", "report", "steer", "reopen"} => t \in DOMAIN p.tasks,
         op = "followup" => t \in Tasks,
         op = "assign" => Assignable(p.tasks[t]),
         op = "report" => p.tasks[t].status = "running" /\ report \in Reports,
         VersionsHeld', Opens(op, p, t, report, id)
  PROVE  CallsInv'
<1>1. PICK s \in Slots \ DOMAIN calls, locked \in BOOLEAN :
        GivesWay(s, [op |-> op, phase |-> "read", locked |-> locked, plan |-> p,
                     task |-> t, thread |-> NoThread, report |-> report, id |-> id,
                     links |-> link])
  BY DEF Opens
<1> DEFINE c == [op |-> op, phase |-> "read", locked |-> locked, plan |-> p,
                 task |-> t, thread |-> NoThread, report |-> report, id |-> id,
                 links |-> link]
<1>2. PICK S \in SUBSET Tasks : p \in PlanOver(S)
  BY DEF Storable, PlanSound, IsPlan
<1>3. c \in CallOver(S)
  BY <1>2 DEF CallsInv, LinksTyped, CallOver, Operations
<1>4. /\ c.op = op /\ c.phase = "read" /\ c.plan = p /\ c.task = t /\ c.report = report
      /\ c.id = id
  OBVIOUS
<1>5. GivesWay(s, c)
  BY <1>1
<1> HIDE DEF c
<1>6. CallHeld(c)
  BY <1>3, <1>4 DEF CallHeld
<1>7. CallsHeld'
  BY <1>5, <1>6, GivesWayHeld DEF CallsInv
<1>8. UNCHANGED <<link, ledger, applied>>
  BY DEF Opens
<1>9. ClaimsHeld' /\ OnceOnly'
  BY <1>4, <1>5, <1>8, LedgerKept DEF CallsInv, GivesWay
<1> QED
  BY <1>7, <1>8, <1>9 DEF CallsInv, LinksTyped, LedgerTyped

LEMMA ReadHeld ==
  ASSUME CallsInv,
         \/ ReadActivate \/ ReadAuditor \/ ReadAssign \/ ReadReport \/ ReadSteer
  PROVE  CallsInv'
<1>1. Storable(Active) /\ Storable(Latest)
  BY CurrentPlans DEF CallsInv
<1>2. DOMAIN Latest.tasks \subseteq Tasks
  BY <1>1, StorableFields
<1>3. VersionsHeld'
  BY DEF CallsInv, VersionsHeld, ReadActivate, ReadAuditor, ReadAssign, ReadReport, ReadSteer,
     Read
<1>4. CASE ReadActivate
  BY <1>1, <1>3, <1>4, OpensHeld DEF ReadActivate, Read
<1>5. CASE ReadAuditor
  BY <1>1, <1>3, <1>5, OpensHeld DEF ReadAuditor, Read
<1>6. CASE ReadAssign
  BY <1>1, <1>2, <1>3, <1>6, OpensHeld DEF ReadAssign, Read
<1>7. CASE ReadReport
  BY <1>1, <1>2, <1>3, <1>7, OpensHeld DEF ReadReport, Read
<1>8. CASE ReadSteer
  BY <1>1, <1>2, <1>3, <1>8, OpensHeld DEF ReadSteer, Read
<1> QED
  BY <1>4, <1>5, <1>6, <1>7, <1>8

LEMMA ReadReworkHeld ==
  ASSUME CallsInv, ReadReopen \/ ReadFollowUp
  PROVE  CallsInv'
<1> DEFINE p == InRework(Active)
<1>1. Storable(Active) /\ PlanSound(Active) /\ ReworkAllowed(Active)
  BY CurrentPlans DEF CallsInv, Storable, ReadReopen, ReadFollowUp
<1>2. Storable(p) /\ p.tasks = Active.tasks
  BY <1>1, InReworkSound, InReworkRewrites, RewrittenStorable, StorableFields
<1>3. VersionsHeld'
  BY <1>2, SaveHeld DEF CallsInv, ReadReopen, ReadFollowUp
<1> HIDE DEF p
<1>4. DOMAIN p.tasks \subseteq Tasks
  BY <1>2, StorableFields
<1>5. CASE ReadReopen
  <2>1. PICK t \in Completed(Active.tasks) : Opens("reopen", p, t, "none", "none")
    BY <1>5 DEF ReadReopen, p
  <2>2. t \in DOMAIN p.tasks
    BY <1>2 DEF Completed
  <2> QED
    BY <1>2, <1>3, <1>4, <2>1, <2>2, OpensHeld
<1>6. CASE ReadFollowUp
  <2>1. PICK t \in Tasks \ DOMAIN Active.tasks : Opens("followup", p, t, "none", "none")
    BY <1>6 DEF ReadFollowUp, p
  <2> QED
    BY <1>2, <1>3, <2>1, OpensHeld
<1> QED
  BY <1>5, <1>6

-----------------------------------------------------------------------------
(* A call that returns, with or without having saved.                      *)

LEMMA ReturnHeld ==
  ASSUME CallsInv, NEW s, Returns(s), UNCHANGED <<link, ledger, applied>>, VersionsHeld'
  PROVE  CallsInv'
<1>1. CallsHeld'
  BY ReturnsHeld DEF CallsInv
<1>2. ClaimsHeld' /\ OnceOnly'
  BY LedgerKept DEF CallsInv, Returns
<1> QED
  BY <1>1, <1>2 DEF CallsInv, LinksTyped, LedgerTyped

\* What a call makes of the plan it holds is storable.
LEMMA HeldRewrites ==
  ASSUME NEW c, CallHeld(c)
  PROVE  /\ c.op = "activate" => Storable(Activated(c.plan))
         /\ c.op = "steer"    => Storable(SteeredPlan(c.plan, c.task))
         /\ c.op = "reopen"   => Storable(ReopenedPlan(c.plan, c.task))
         /\ c.op = "followup" => Storable(FollowUpPlan(c.plan, c.task))
         /\ c.op = "report"   => Storable(ReportedPlan(c.plan, c.task, c.report))
<1> DEFINE p == c.plan
<1>1. Storable(p)
  BY DEF CallHeld
<1>2. DOMAIN p = Fields /\ p.cycle \in Cycle /\ PlanSound(p)
  BY <1>1, StorableFields
<1>3. c.op = "activate" => p.status = "draft"
  BY DEF CallHeld
<1>4. c.op \in {"steer", "reopen", "report"} => c.task \in DOMAIN p.tasks
  BY DEF CallHeld
<1>5. c.op = "report" => p.tasks[c.task].status = "running" /\ c.report \in Reports
  BY DEF CallHeld
<1>6. c.op = "followup" => c.task \in Tasks
  BY DEF CallHeld
<1> HIDE DEF p
<1>7. ASSUME c.op = "activate" PROVE Storable(Activated(p))
  BY <1>1, <1>2, <1>3, <1>7, ActivatedSound, ActivatedRewrites, RewrittenStorable
<1>8. ASSUME c.op = "steer" PROVE Storable(SteeredPlan(p, c.task))
  BY <1>1, <1>2, <1>4, <1>8, SteeredPlanSound, SteeredRewrites, RewrittenStorable
<1>9. ASSUME c.op = "reopen" PROVE Storable(ReopenedPlan(p, c.task))
  <2>1. Rewrites(p, ReopenedPlan(p, c.task))
    BY <1>2, ReplaceTaskRewrites DEF ReopenedPlan
  <2> QED
    BY <1>1, <1>2, <1>4, <1>9, <2>1, ReopenedPlanSound, RewrittenStorable
<1>10. ASSUME c.op = "followup" PROVE Storable(FollowUpPlan(p, c.task))
  BY <1>1, <1>2, <1>6, <1>10, FollowUpPlanSound, FollowUpRewrites, RewrittenStorable
<1>11. ASSUME c.op = "report" PROVE Storable(ReportedPlan(p, c.task, c.report))
  BY <1>1, <1>2, <1>4, <1>5, <1>11, ReportedPlanSound, ReportedRewrites, RewrittenStorable
<1> QED
  BY <1>7, <1>8, <1>9, <1>10, <1>11 DEF p

LEMMA SaveAndReturnHeld ==
  ASSUME CallsInv, NEW s \in Slots,
         SaveActivated(s) \/ SaveAuditor(s) \/ SaveSteered(s) \/ SaveRework(s)
  PROVE  CallsInv'
<1>1. s \in DOMAIN calls /\ CallHeld(calls[s])
  BY DEF CallsInv, CallsHeld, SaveActivated, SaveAuditor, SaveSteered, SaveRework, At
<1>2. Storable(calls[s].plan)
  BY <1>1 DEF CallHeld
<1>3. \E p : Save(p) /\ Storable(p)
  BY <1>1, <1>2, HeldRewrites DEF SaveActivated, SaveAuditor, SaveSteered, SaveRework, At
<1>4. VersionsHeld'
  BY <1>3, SaveHeld DEF CallsInv
<1> QED
  BY <1>4, ReturnHeld DEF SaveActivated, SaveAuditor, SaveSteered, SaveRework

LEMMA GoneHeld ==
  ASSUME CallsInv, NEW s \in Slots, Rejected(s) \/ Fail(s)
  PROVE  CallsInv'
<1>1. VersionsHeld'
  BY DEF CallsInv, VersionsHeld, Rejected, Fail
<1> QED
  BY <1>1, ReturnHeld DEF Rejected, Fail

LEMMA CompleteHeld ==
  ASSUME CallsInv, NEW s \in Slots, Complete(s)
  PROVE  CallsInv'
<1>1. VersionsHeld' /\ LinksTyped'
  BY DEF CallsInv, VersionsHeld, LinksTyped, Complete
<1>2. CallsHeld'
  BY ReturnsHeld DEF CallsInv, Complete
<1> QED
  BY <1>1, <1>2, CompleteKeepsOnce DEF CallsInv

-----------------------------------------------------------------------------
(* Calls that claim an operation.                                          *)

LEMMA BaseThread ==
  ASSUME NEW c, CallHeld(c), c.op = "assign"
  PROVE  BaseOf(c).thread \in Threads \cup {NoThread}
<1>1. c.plan.tasks[c.task] \in Task
  BY TasksOfSoundPlan DEF CallHeld, Storable
<1> QED
  BY <1>1 DEF BaseOf, DispatchBase, Task

LEMMA DispatchStorable ==
  ASSUME NEW c, CallHeld(c), c.op = "assign", NEW thread \in Threads
  PROVE  Storable(Dispatch(c, thread))
<1> DEFINE task == Dispatched(c.plan.tasks[c.task], thread)
<1>1. /\ Storable(c.plan) /\ PlanSound(c.plan) /\ DOMAIN c.plan = Fields
      /\ c.task \in DOMAIN c.plan.tasks /\ Assignable(c.plan.tasks[c.task])
  BY StorableFields DEF CallHeld
<1>2. c.plan.tasks[c.task] \in Task /\ TaskSound(c.plan.tasks[c.task])
  BY <1>1, TasksOfSoundPlan
<1>3. task \in Task /\ TaskSound(task)
  BY <1>1, <1>2, DispatchedSound
<1> HIDE DEF task
<1>4. PlanSound(ReplaceTask(c.plan, c.task, task, "running"))
  BY <1>1, <1>3, ReplaceTaskSound
<1>5. Rewrites(c.plan, ReplaceTask(c.plan, c.task, task, "running"))
  BY <1>1, ReplaceTaskRewrites
<1> QED
  BY <1>1, <1>4, <1>5, RewrittenStorable DEF Dispatch, task

LEMMA SavesAsHeld ==
  ASSUME CallsInv, NEW s \in DOMAIN calls, calls[s].op \in {"assign", "report"},
         NEW p, Storable(p), SavesAs(s, p)
  PROVE  CallsInv'
<1>1. VersionsHeld'
  BY SaveHeld DEF CallsInv, SavesAs
<1>2. CallHeld(calls[s]) /\ calls[s].id \in OpIds
  BY DEF CallsInv, CallsHeld, CallHeld
<1>3. CallsHeld'
  BY OnToHeld DEF CallsInv, SavesAs
<1>4. /\ DOMAIN calls' = DOMAIN calls
      /\ \A r \in DOMAIN calls \ {s} : calls'[r] = calls[r]
      /\ calls'[s].phase = "saved" /\ calls'[s].id = calls[s].id
  BY <1>2, CallFields DEF SavesAs, OnTo
<1>5. ClaimsHeld' /\ OnceOnly' /\ LedgerTyped'
  BY <1>2, <1>4, ClaimKeepsOnce DEF CallsInv, SavesAs
<1> QED
  BY <1>1, <1>3, <1>5 DEF CallsInv, SavesAs, LinksTyped

LEMMA SavesHeld ==
  ASSUME CallsInv, NEW s \in Slots, AssignSenior(s) \/ SaveReported(s)
  PROVE  CallsInv'
<1>1. s \in DOMAIN calls /\ CallHeld(calls[s])
  BY DEF CallsInv, CallsHeld, AssignSenior, SaveReported, At
<1>2. CASE AssignSenior(s)
  <2>1. Storable(Dispatch(calls[s], Coordinator))
    BY <1>1, <1>2, DispatchStorable DEF AssignSenior, At, Threads
  <2> QED
    BY <1>1, <1>2, <2>1, SavesAsHeld DEF AssignSenior, At
<1>3. CASE SaveReported(s)
  BY <1>1, <1>3, HeldRewrites, SavesAsHeld DEF SaveReported, At
<1> QED
  BY <1>2, <1>3

LEMMA ClaimAssignHeld ==
  ASSUME CallsInv, NEW s \in Slots, ClaimAssign(s)
  PROVE  CallsInv'
<1>1. /\ s \in DOMAIN calls /\ CallHeld(calls[s]) /\ calls[s].op = "assign"
      /\ calls[s].id \in OpIds
  BY DEF CallsInv, CallsHeld, ClaimAssign, At, CallHeld
<1> DEFINE c == [calls[s] EXCEPT !.phase = "claimed", !.links = link]
           d == [calls[s] EXCEPT !.phase = "claimed"]
<1>2. CallHeld(d)
  BY <1>1, PhaseHeld
<1>3. c = [d EXCEPT !.links = link]
  BY <1>1, CallFields
<1>4. c.phase = "claimed" /\ c.id = calls[s].id
  BY <1>1, CallFields
<1> HIDE DEF d
<1>5. CallHeld(c)
  BY <1>2, <1>3, LinksHeld DEF CallsInv, LinksTyped
<1>6. calls' = [calls EXCEPT ![s] = c]
  BY DEF ClaimAssign
<1> HIDE DEF c
<1>7. CallsHeld'
  BY <1>1, <1>5, <1>6 DEF CallsInv, CallsHeld
<1>8. /\ DOMAIN calls' = DOMAIN calls
      /\ \A r \in DOMAIN calls \ {s} : calls'[r] = calls[r]
      /\ calls'[s].phase = "claimed" /\ calls'[s].id = calls[s].id
  BY <1>1, <1>4, <1>6
<1>9. ClaimsHeld' /\ OnceOnly' /\ LedgerTyped'
  BY <1>1, <1>8, ClaimKeepsOnce DEF CallsInv, ClaimAssign
<1>10. LinksTyped'
  BY DEF CallsInv, LinksTyped, ClaimAssign, Link
<1>11. VersionsHeld'
  BY DEF CallsInv, VersionsHeld, ClaimAssign
<1> QED
  BY <1>7, <1>9, <1>10, <1>11 DEF CallsInv

LEMMA CreateWorkerHeld ==
  ASSUME CallsInv, NEW s \in Slots, CreateWorker(s)
  PROVE  CallsInv'
<1>1. /\ s \in DOMAIN calls /\ CallHeld(calls[s]) /\ calls[s].op = "assign"
      /\ calls[s].phase = "claimed" /\ calls[s].id \in OpIds /\ calls[s].task \in Tasks
  <2>1. s \in DOMAIN calls /\ CallHeld(calls[s]) /\ calls[s].op = "assign"
        /\ calls[s].phase = "claimed"
    BY DEF CallsInv, CallsHeld, CreateWorker, At
  <2>2. calls[s].task \in Tasks
    BY <2>1, StorableFields DEF CallHeld
  <2> QED
    BY <2>1, <2>2 DEF CallHeld
<1>2. PICK w \in Workers :
        /\ link[w] = "unused"
        /\ link' = [link EXCEPT ![w] = calls[s].task]
        /\ calls' = [calls EXCEPT ![s].phase = "created", ![s].thread = w]
  BY DEF CreateWorker
<1> DEFINE c == [calls[s] EXCEPT !.phase = "created", !.thread = w]
           d == [calls[s] EXCEPT !.thread = w]
<1>3. CallHeld(d) /\ d.op = "assign" /\ d.thread = w
  BY <1>1, ThreadHeld, CallFields
<1>4. c = [d EXCEPT !.phase = "created"]
  BY <1>1, CallFields
<1>5. c.phase = "created" /\ c.id = calls[s].id
  BY <1>1, CallFields
<1> HIDE DEF d
<1>6. CallHeld(c)
  BY <1>3, <1>4, PhaseHeld
<1>7. calls' = [calls EXCEPT ![s] = c]
  BY <1>2
<1> HIDE DEF c
<1>8. CallsHeld'
  BY <1>1, <1>6, <1>7 DEF CallsInv, CallsHeld
<1>9. UNCHANGED <<versions, active, ledger, applied>>
  BY DEF CreateWorker
<1>10. ClaimsHeld' /\ OnceOnly'
  BY <1>1, <1>5, <1>7, <1>9, LedgerKept DEF CallsInv
<1>11. LinksTyped'
  BY <1>1, <1>2 DEF CallsInv, LinksTyped, Link
<1> QED
  BY <1>8, <1>9, <1>10, <1>11 DEF CallsInv, VersionsHeld, LedgerTyped

LEMMA SaveAssignedHeld ==
  ASSUME CallsInv, NEW s \in Slots, SaveAssigned(s)
  PROVE  CallsInv'
<1> DEFINE thread == IF calls[s].phase = "created" THEN calls[s].thread
                     ELSE BaseOf(calls[s]).thread
<1>1. /\ s \in DOMAIN calls /\ CallHeld(calls[s]) /\ calls[s].op = "assign"
      /\ calls[s].phase \in {"claimed", "created"}
  BY DEF CallsInv, CallsHeld, SaveAssigned, At
<1>2. thread \in Threads
  BY <1>1, BaseThread DEF SaveAssigned, At, CallHeld, Threads
<1>3. Save(Dispatch(calls[s], thread))
  BY DEF SaveAssigned
<1> HIDE DEF thread
<1>4. VersionsHeld'
  BY <1>1, <1>2, <1>3, DispatchStorable, SaveHeld DEF CallsInv
<1>5. CallsHeld'
  BY <1>1, OnToHeld DEF CallsInv, SaveAssigned
<1>6. ClaimsHeld' /\ OnceOnly' /\ LedgerTyped'
  BY <1>1, ApplyKeepsOnce DEF CallsInv, SaveAssigned
<1> QED
  BY <1>4, <1>5, <1>6 DEF CallsInv, SaveAssigned, LinksTyped

LEMMA ReviewHeld ==
  ASSUME CallsInv, ReviewTask
  PROVE  CallsInv'
<1>1. Storable(Latest) /\ PlanSound(Latest) /\ DOMAIN Latest = Fields
      /\ Latest.cycle \in Cycle /\ DOMAIN Latest.tasks \subseteq Tasks
  BY CurrentPlans, StorableFields DEF CallsInv
<1>2. PICK t \in DOMAIN Latest.tasks, decision \in Decisions, i \in OpIds,
           s \in Slots \ DOMAIN calls, locked \in BOOLEAN :
        /\ Claims(i) /\ Applies(i) /\ Save(Reviewed(Latest, t, decision))
        /\ GivesWay(s, [op |-> "review", phase |-> "saved", locked |-> locked,
                        plan |-> Latest, task |-> t, thread |-> NoThread,
                        report |-> "none", id |-> i, links |-> link])
  BY DEF ReviewTask
<1> DEFINE c == [op |-> "review", phase |-> "saved", locked |-> locked,
                 plan |-> Latest, task |-> t, thread |-> NoThread,
                 report |-> "none", id |-> i, links |-> link]
<1>3. Storable(Reviewed(Latest, t, decision))
  BY <1>1, ReviewedSound, ReviewedRewrites, RewrittenStorable
<1>4. VersionsHeld'
  BY <1>2, <1>3, SaveHeld DEF CallsInv
<1>5. PICK S \in SUBSET Tasks : Latest \in PlanOver(S)
  BY <1>1 DEF PlanSound, IsPlan
<1>6. c \in CallOver(S)
  BY <1>1, <1>5 DEF CallsInv, LinksTyped, CallOver, Operations
<1>7. c.op = "review" /\ c.phase = "saved" /\ c.plan = Latest /\ c.id = i
  OBVIOUS
<1>8. GivesWay(s, c)
  BY <1>2
<1> HIDE DEF c
<1>9. CallHeld(c)
  BY <1>1, <1>6, <1>7 DEF CallHeld
<1>10. CallsHeld'
  BY <1>8, <1>9, GivesWayHeld DEF CallsInv
<1>11. /\ s \in DOMAIN calls' /\ calls'[s] = c
       /\ \A r \in DOMAIN calls' \ {s} : r \in DOMAIN calls /\ calls'[r] = calls[r]
  BY <1>8 DEF GivesWay
<1>12. ClaimsHeld' /\ OnceOnly' /\ LedgerTyped'
  BY <1>2, <1>7, <1>11, ClaimKeepsOnce DEF CallsInv
<1> QED
  BY <1>4, <1>10, <1>12 DEF CallsInv, ReviewTask, LinksTyped

-----------------------------------------------------------------------------
(* Operations that read and save without giving way.                       *)

LEMMA AtomicallyHeld ==
  ASSUME CallsInv, NEW op, NEW p, Storable(p), Atomically(op, p)
  PROVE  CallsInv'
<1>1. VersionsHeld'
  BY SaveHeld DEF CallsInv, Atomically
<1> QED
  BY <1>1 DEF CallsInv, Atomically, CallsHeld, LinksTyped, LedgerTyped, ClaimsHeld, OnceOnly

LEMMA SaveDraftHeld ==
  ASSUME CallsInv, SaveDraft \/ ProposeRework
  PROVE  CallsInv'
<1>1. /\ Storable(Active) /\ PlanSound(Active) /\ DOMAIN Active = Fields
      /\ Active.cycle \in Cycle /\ Active.version \in Nat /\ Quiet(Active)
  BY CurrentPlans, StorableFields DEF CallsInv
<1>2. MaxVersion \in Nat
  BY CallsAssumption
<1>3. CASE SaveDraft
  <2>1. Storable(EditedDraft(Active))
    BY <1>1, <1>2, <1>3, EditedDraftSound, DraftVersions DEF SaveDraft, Storable
  <2>2. ASSUME NEW S \in SUBSET Tasks
        PROVE  Storable(RegeneratedDraft(Active, S))
    BY <1>1, <1>2, <1>3, RegeneratedDraftSound, DraftVersions DEF SaveDraft, Storable
  <2> QED
    BY <1>3, <2>1, <2>2, AtomicallyHeld DEF SaveDraft
<1>4. CASE ProposeRework
  <2>1. PICK S \in SUBSET Tasks : Atomically("other", ReworkDraft(Active, S))
    BY <1>4 DEF ProposeRework, Proposals
  <2>2. Storable(ReworkDraft(Active, S))
    BY <1>1, <1>2, <1>4, ReworkDraftSound, ReworkDraftVersion DEF ProposeRework, Storable
  <2> QED
    BY <2>1, <2>2, AtomicallyHeld
<1> QED
  BY <1>3, <1>4

LEMMA StopResumeHeld ==
  ASSUME CallsInv, Stop \/ Resume \/ StopWorker
  PROVE  CallsInv'
<1>1. /\ Storable(Active) /\ PlanSound(Active) /\ DOMAIN Active = Fields
      /\ Active.cycle \in Cycle
      /\ Storable(Latest) /\ PlanSound(Latest) /\ DOMAIN Latest = Fields
  BY CurrentPlans, StorableFields DEF CallsInv
<1>2. CASE Stop
  <2>1. Storable(Stopped(Active))
    BY <1>1, <1>2, StoppedPlanSound, StoppedRewrites, RewrittenStorable DEF Stop
  <2> QED
    BY <1>2, <2>1, AtomicallyHeld DEF Stop
<1>3. CASE Resume
  <2>1. Storable(Resumed(Active))
    BY <1>1, <1>3, ResumedPlanSound, ResumedRewrites, RewrittenStorable DEF Resume
  <2> QED
    BY <1>3, <2>1, AtomicallyHeld DEF Resume
<1>4. CASE StopWorker
  <2>1. PICK t \in DOMAIN Latest.tasks :
          /\ Latest.tasks[t].status \in {"running", "reported", "auditing", "rework"}
          /\ Atomically("other", WorkerStopped(Latest, t))
    BY <1>4 DEF StopWorker
  <2>2. PlanSound(WorkerStopped(Latest, t))
    BY <1>1, <2>1, WorkerStoppedSound
  <2>3. Rewrites(Latest, WorkerStopped(Latest, t))
    BY <1>1, ReplaceTaskRewrites DEF WorkerStopped
  <2> QED
    BY <1>1, <2>1, <2>2, <2>3, RewrittenStorable, AtomicallyHeld
<1> QED
  BY <1>2, <1>3, <1>4

LEMMA AuditHeld ==
  ASSUME CallsInv, AuditCycle
  PROVE  CallsInv'
<1>1. /\ Storable(Active) /\ PlanSound(Active) /\ DOMAIN Active = Fields
      /\ Active.cycle \in Cycle /\ QuietCycle(Active.cycle)
  BY CurrentPlans, StorableFields DEF CallsInv, Quiet
<1>2. ASSUME NEW cycle \in Cycle, Active.status = "completed", QuietCycle(cycle),
             cycle.status \notin {"none", "awaiting_rework_approval", "stopped"},
             Atomically("audit", CycleSaved(Active, cycle))
      PROVE  CallsInv'
  <2>1. Storable(CycleSaved(Active, cycle))
    BY <1>1, <1>2, CycleSavedSound, CycleSavedRewrites, RewrittenStorable
  <2> QED
    BY <1>2, <2>1, AtomicallyHeld
<1>3. CASE BeginAllowed(Active) /\ Atomically("audit", Begun(Active))
  <2> DEFINE cycle == [NoCycle EXCEPT !.status = "running"]
  <2>1. cycle \in Cycle /\ cycle.status = "running" /\ QuietCycle(cycle)
    BY DEF NoCycle, Cycle, CycleStatus, QuietCycle
  <2> QED
    BY <1>2, <1>3, <2>1 DEF BeginAllowed, Begun
<1>4. CASE Active.status = "completed" /\ Atomically("audit", SetCycle("failed"))
  <2> DEFINE cycle == [Active.cycle EXCEPT !.status = "failed"]
  <2>1. cycle \in Cycle /\ cycle.status = "failed" /\ QuietCycle(cycle)
    BY <1>1 DEF Cycle, CycleStatus, QuietCycle
  <2> QED
    BY <1>2, <1>4, <2>1 DEF SetCycle
<1>5. CASE Active.status = "completed" /\ Atomically("audit", CycleSaved(Active,
             [Active.cycle EXCEPT !.status = "report_ready", !.reportId = TRUE]))
  <2> DEFINE cycle == [Active.cycle EXCEPT !.status = "report_ready", !.reportId = TRUE]
  <2>1. cycle \in Cycle /\ cycle.status = "report_ready" /\ QuietCycle(cycle)
    BY <1>1 DEF Cycle, CycleStatus, QuietCycle
  <2> QED
    BY <1>2, <1>5, <2>1
<1>6. CASE BeginReworkAllowed(Active) /\ Atomically("audit", BegunRework(Active))
  <2> DEFINE n == IF Active.cycle.status = "planning_rework" THEN OrFirst(Active.cycle.rework)
                  ELSE Active.cycle.rework + 1
             cycle == [Active.cycle EXCEPT !.status = "reworking", !.rework = n]
  <2>1. n \in Nat
    BY <1>1 DEF Cycle, OrFirst
  <2>2. Atomically("audit", CycleSaved(Active, cycle)) /\ Active.status = "completed"
    BY <1>6 DEF BegunRework, BeginReworkAllowed
  <2> HIDE DEF n
  <2>3. cycle \in Cycle /\ cycle.status = "reworking" /\ QuietCycle(cycle)
    BY <1>1, <2>1 DEF Cycle, CycleStatus, QuietCycle
  <2> QED
    BY <1>2, <2>2, <2>3
<1>7. CASE Active.status = "completed" /\ Atomically("audit", SetCycle("completed"))
  <2> DEFINE cycle == [Active.cycle EXCEPT !.status = "completed"]
  <2>1. cycle \in Cycle /\ cycle.status = "completed" /\ QuietCycle(cycle)
    BY <1>1 DEF Cycle, CycleStatus, QuietCycle
  <2> QED
    BY <1>2, <1>7, <2>1 DEF SetCycle
<1>8. CASE Active.status = "completed" /\ Atomically("audit", CycleSaved(Active,
             [Active.cycle EXCEPT !.status = "available", !.dismissed = FALSE]))
  <2> DEFINE cycle == [Active.cycle EXCEPT !.status = "available", !.dismissed = FALSE]
  <2>1. cycle \in Cycle /\ cycle.status = "available" /\ QuietCycle(cycle)
    BY <1>1 DEF Cycle, CycleStatus, QuietCycle
  <2> QED
    BY <1>2, <1>8, <2>1
<1> QED
  BY <1>3, <1>4, <1>5, <1>6, <1>7, <1>8 DEF AuditCycle

-----------------------------------------------------------------------------
(* The app goes away.                                                      *)

LEMMA NoCallsHeld ==
  ASSUME CallsInv, calls' = [s \in {} |-> {}], UNCHANGED <<link, ledger, applied>>,
         VersionsHeld'
  PROVE  CallsInv'
<1>1. DOMAIN calls' = {}
  OBVIOUS
<1>2. CallsHeld' /\ ClaimsHeld'
  BY <1>1 DEF CallsHeld, ClaimsHeld
<1> QED
  BY <1>2 DEF CallsInv, LinksTyped, LedgerTyped, OnceOnly

LEMMA CrashHeld ==
  ASSUME CallsInv, Crash \/ CrashInSave
  PROVE  CallsInv'
<1>1. CASE Crash
  <2>1. VersionsHeld'
    BY <1>1 DEF CallsInv, VersionsHeld, Crash
  <2> QED
    BY <1>1, <2>1, NoCallsHeld DEF Crash
<1>2. CASE CrashInSave
  <2> DEFINE p == EditedDraft(Active)
  <2>1. /\ Storable(Active) /\ PlanSound(Active) /\ DOMAIN Active = Fields
        /\ Active.version \in Nat /\ Active.version < MaxVersion /\ Active.status = "draft"
    BY <1>2, CurrentPlans, StorableFields DEF CallsInv, CrashInSave
  <2>2. Storable(p) /\ p.version \in Nat
    BY <2>1, CallsAssumption, EditedDraftSound, DraftVersions DEF Storable
  <2>3. versions' = Stored(p) /\ active' = active
    BY <1>2 DEF CrashInSave
  <2> HIDE DEF p
  <2>4. /\ DOMAIN versions' = DOMAIN versions \cup {p.version}
        /\ \A v \in DOMAIN versions' : versions'[v] = IF v = p.version THEN p ELSE versions[v]
    BY <2>3 DEF Stored
  <2>5. VersionsHeld'
    BY <2>2, <2>3, <2>4 DEF CallsInv, VersionsHeld, Storable
  <2> QED
    BY <1>2, <2>5, NoCallsHeld DEF CrashInSave
<1> QED
  BY <1>1, <1>2

-----------------------------------------------------------------------------
LEMMA InitCallsInv == Init => CallsInv
<1> SUFFICES ASSUME Init PROVE CallsInv
  OBVIOUS
<1>1. PICK S \in SUBSET Tasks : versions = [v \in {1} |-> DraftPlan(S)]
  BY DEF Init
<1>2. PlanSound(DraftPlan(S)) /\ DraftPlan(S).version = 1 /\ DraftPlan(S).cycle = NoCycle
  BY DraftPlanSound DEF DraftPlan
<1>3. Storable(DraftPlan(S))
  BY <1>2, CallsAssumption, NoCycleQuiet DEF Storable, Quiet
<1>4. VersionsHeld
  BY <1>1, <1>2, <1>3 DEF VersionsHeld, Init
<1>5. DOMAIN calls = {}
  BY DEF Init
<1>6. CallsHeld /\ ClaimsHeld
  BY <1>5 DEF CallsHeld, ClaimsHeld
<1>7. LinksTyped /\ LedgerTyped /\ OnceOnly
  BY DEF Init, LinksTyped, LedgerTyped, OnceOnly, Link
<1> QED
  BY <1>4, <1>6, <1>7 DEF CallsInv

LEMMA NextCallsInv == CallsInv /\ [Next]_vars => CallsInv'
<1> SUFFICES ASSUME CallsInv, [Next]_vars PROVE CallsInv'
  OBVIOUS
<1>1. ASSUME NEW s \in Slots, Step(s)
      PROVE  CallsInv'
  BY <1>1, SaveAndReturnHeld, SavesHeld, ClaimAssignHeld, CreateWorkerHeld, SaveAssignedHeld,
     CompleteHeld, GoneHeld
  DEF Step
<1>2. CASE UNCHANGED vars
  BY <1>2 DEF vars, CallsInv, VersionsHeld, CallsHeld, LinksTyped, LedgerTyped, ClaimsHeld,
     OnceOnly
<1> QED
  BY <1>1, <1>2, ReadHeld, ReadReworkHeld, ReviewHeld, SaveDraftHeld, StopResumeHeld, AuditHeld,
     CrashHeld
  DEF Next

LEMMA CallsInvariant == Spec => []CallsInv
BY InitCallsInv, NextCallsInv, PTL DEF Spec

\* Types, for any tasks, workers, slots, operation ids and bounds.
THEOREM CallTypes == Spec => []TypeOK
BY CallsInvariant, InvariantsOfCallsInv, PTL

(***************************************************************************)
(* assignment-engine.ts, requireActivePlan and save: whichever operations  *)
(* are called without the queue, a call that writes back a stale plan      *)
(* never stores one that no operation could produce.                       *)
(***************************************************************************)
THEOREM StoredPlansAreSound == Spec => []StoredSound
BY CallsInvariant, InvariantsOfCallsInv, PTL

(***************************************************************************)
(* assignment-repo.ts, claimOperation and completeOperation: an operation  *)
(* id takes effect at most once, however its callers repeat it, fail or    *)
(* lose the app, and only one that took effect keeps a result.             *)
(***************************************************************************)
THEOREM OperationsApplyOnce == Spec => []OnceOnly
BY CallsInvariant, InvariantsOfCallsInv, PTL

-----------------------------------------------------------------------------
(* While every call takes the queue.                                       *)

Queued == Outside = {} /\ ~TornSaves

OneCall ==
  /\ \A s, r \in DOMAIN calls : s = r
  /\ \A s \in DOMAIN calls : calls[s].locked

NewestActive == \A v \in DOMAIN versions : v <= active

\* A call that has not saved yet holds the plan that is stored.
HoldsCurrent == \A s \in DOMAIN calls : calls[s].phase # "saved" => calls[s].plan = Active

\* The links as ClaimAssign leaves them.
GivenUp(c) == [w \in Workers |-> IF w \in Stale(c) THEN "unlinked" ELSE c.links[w]]

\* A dispatch under way has changed the links, and nothing else, since it claimed.
LinksUnderWay ==
  \A s \in DOMAIN calls :
    LET c == calls[s]
    IN /\ c.phase \in {"claimed", "created"} => Owner[c.task] = "worker"
       /\ c.phase = "claimed" => link = GivenUp(c)
       /\ c.phase = "created" =>
            /\ BaseOf(c).thread = NoThread
            /\ GivenUp(c)[c.thread] = "unused"
            /\ link = [GivenUp(c) EXCEPT ![c.thread] = c.task]

QueueInv == CallsInv /\ OneCall /\ NewestActive /\ HoldsCurrent /\ LinksUnderWay

LEMMA LatestIsActive ==
  ASSUME QueueInv
  PROVE  Latest = Active /\ Newest = active
<1>1. Newest \in DOMAIN versions /\ \A u \in DOMAIN versions : u <= Newest
  BY NewestExists DEF QueueInv, CallsInv
<1>2. Newest <= active /\ active <= Newest /\ Newest \in Nat /\ active \in Nat
  BY <1>1 DEF QueueInv, NewestActive, CallsInv, VersionsHeld
<1>3. Newest = active
  BY <1>2
<1> QED
  BY <1>3 DEF Latest, Active

\* A call is admitted only when there is none.
LEMMA AdmittedAlone ==
  ASSUME Queued, OneCall, NEW op, NEW locked \in BOOLEAN, Enter(op, locked)
  PROVE  locked /\ DOMAIN calls = {}
BY DEF Queued, OneCall, Enter

LEMMA SaveNewest ==
  ASSUME VersionsHeld, NewestActive, NEW p, Storable(p), active <= p.version, Save(p)
  PROVE  NewestActive'
<1>1. DOMAIN versions' = DOMAIN versions \cup {p.version} /\ active' = p.version
  BY DEF Save, Stored
<1>2. p.version \in Nat /\ active \in Nat /\ \A v \in DOMAIN versions : v \in Nat
  BY StorableFields DEF VersionsHeld
<1> QED
  BY <1>1, <1>2 DEF NewestActive

\* A step after which no call, or only one that saved, is there.
LEMMA RestingQueue ==
  ASSUME CallsInv', NewestActive', OneCall',
         \A s \in DOMAIN calls' : calls'[s].phase = "saved"
  PROVE  QueueInv'
BY DEF QueueInv, HoldsCurrent, LinksUnderWay

LEMMA NoCallLeft ==
  ASSUME QueueInv, NEW s \in DOMAIN calls, Returns(s)
  PROVE  DOMAIN calls' = {}
BY DEF QueueInv, OneCall, Returns

\* What an operation stores has the version of the plan it read, or the next.
LEMMA HeldVersions ==
  ASSUME NEW c, CallHeld(c)
  PROVE  /\ Activated(c.plan).version = c.plan.version
         /\ SteeredPlan(c.plan, c.task).version = c.plan.version
         /\ ReopenedPlan(c.plan, c.task).version = c.plan.version
         /\ FollowUpPlan(c.plan, c.task).version = c.plan.version
         /\ ReportedPlan(c.plan, c.task, c.report).version = c.plan.version
         /\ \A thread : Dispatch(c, thread).version = c.plan.version
<1>1. DOMAIN c.plan = Fields /\ c.plan.cycle \in Cycle
  BY StorableFields DEF CallHeld
<1>2. ReopenedPlan(c.plan, c.task).version = c.plan.version
  BY <1>1, ReplaceTaskRewrites DEF ReopenedPlan, Rewrites
<1>3. \A thread : Dispatch(c, thread).version = c.plan.version
  BY <1>1, ReplaceTaskRewrites DEF Dispatch, Rewrites
<1> QED
  BY <1>1, <1>2, <1>3, ActivatedRewrites, SteeredRewrites, FollowUpRewrites, ReportedRewrites
  DEF Rewrites

-----------------------------------------------------------------------------
LEMMA QueueOpens ==
  ASSUME Queued, QueueInv, CallsInv', NewestActive', NEW op, NEW p, NEW t, NEW report, NEW id,
         Active' = p, Opens(op, p, t, report, id)
  PROVE  QueueInv' /\ DOMAIN calls = {} /\ \A s \in DOMAIN calls' : calls'[s].phase = "read"
<1>1. PICK s \in Slots \ DOMAIN calls, locked \in BOOLEAN :
        /\ Enter(op, locked)
        /\ GivesWay(s, [op |-> op, phase |-> "read", locked |-> locked, plan |-> p,
                        task |-> t, thread |-> NoThread, report |-> report, id |-> id,
                        links |-> link])
  BY DEF Opens
<1> DEFINE c == [op |-> op, phase |-> "read", locked |-> locked, plan |-> p,
                 task |-> t, thread |-> NoThread, report |-> report, id |-> id,
                 links |-> link]
<1>2. locked /\ DOMAIN calls = {}
  BY <1>1, AdmittedAlone DEF QueueInv
<1>3. DOMAIN calls' = {s} /\ calls'[s] = c
  BY <1>1, <1>2 DEF GivesWay
<1>4. c.locked /\ c.phase = "read" /\ c.plan = p
  BY <1>2
<1> HIDE DEF c
<1> QED
  BY <1>2, <1>3, <1>4 DEF QueueInv, OneCall, HoldsCurrent, LinksUnderWay

LEMMA QueueReads ==
  ASSUME Queued, QueueInv, CallsInv',
         \/ ReadActivate \/ ReadAuditor \/ ReadAssign \/ ReadReport \/ ReadSteer
  PROVE  /\ QueueInv' /\ DOMAIN calls = {}
         /\ \A s \in DOMAIN calls' : calls'[s].phase = "read"
         /\ Active' = Active /\ link' = link
<1>1. PICK op, t, report, id : Read(op, Active, t, report, id)
  BY LatestIsActive DEF ReadActivate, ReadAuditor, ReadAssign, ReadReport, ReadSteer
<1>2. Active' = Active /\ NewestActive' /\ link' = link
  BY <1>1 DEF Read, Opens, Active, QueueInv, NewestActive
<1> QED
  BY <1>1, <1>2, QueueOpens DEF Read

LEMMA QueueReadsRework ==
  ASSUME Queued, QueueInv, CallsInv', ReadReopen \/ ReadFollowUp
  PROVE  /\ QueueInv' /\ DOMAIN calls = {}
         /\ \A s \in DOMAIN calls' : calls'[s].phase = "read"
         /\ Active' = Active /\ link' = link
<1>1. /\ Storable(Active) /\ Quiet(Active) /\ ReworkAllowed(Active) /\ Active.version = active
      /\ Active.version \in Nat
  BY CurrentPlans, StorableFields DEF QueueInv, CallsInv, ReadReopen, ReadFollowUp
<1>2. InRework(Active) = Active
  BY <1>1 DEF ReworkAllowed, Quiet, QuietCycle, InRework
<1>3. Save(Active)
  BY <1>2 DEF ReadReopen, ReadFollowUp
<1>4. NewestActive' /\ Active' = Active
  BY <1>1, <1>3, SaveNewest, SaveHeld DEF QueueInv, CallsInv
<1>5. PICK op, t, report, id : Opens(op, Active, t, report, id)
  BY <1>2 DEF ReadReopen, ReadFollowUp
<1> QED
  BY <1>4, <1>5, QueueOpens DEF Opens

LEMMA QueueSavesAndReturns ==
  ASSUME QueueInv, CallsInv', NEW s \in Slots,
         SaveActivated(s) \/ SaveAuditor(s) \/ SaveSteered(s) \/ SaveRework(s)
  PROVE  QueueInv'
<1>1. s \in DOMAIN calls /\ CallHeld(calls[s]) /\ calls[s].phase = "read"
  BY DEF QueueInv, CallsInv, CallsHeld, SaveActivated, SaveAuditor, SaveSteered, SaveRework, At
<1>2. calls[s].plan = Active /\ Active.version = active /\ active \in Nat /\ Storable(Active)
  BY <1>1, CurrentPlans DEF QueueInv, HoldsCurrent, CallsInv, VersionsHeld
<1>3. PICK p : Save(p) /\ Storable(p) /\ p.version = active
  BY <1>1, <1>2, HeldRewrites, HeldVersions
  DEF SaveActivated, SaveAuditor, SaveSteered, SaveRework, At
<1>4. NewestActive'
  BY <1>2, <1>3, SaveNewest DEF QueueInv, CallsInv
<1>5. DOMAIN calls' = {}
  BY <1>1, NoCallLeft DEF SaveActivated, SaveAuditor, SaveSteered, SaveRework
<1> QED
  BY <1>4, <1>5, RestingQueue DEF OneCall

LEMMA QueueSaves ==
  ASSUME QueueInv, CallsInv', NEW s \in Slots,
         AssignSenior(s) \/ SaveReported(s) \/ SaveAssigned(s)
  PROVE  QueueInv'
<1>1. s \in DOMAIN calls /\ CallHeld(calls[s]) /\ calls[s].phase # "saved"
  BY DEF QueueInv, CallsInv, CallsHeld, AssignSenior, SaveReported, SaveAssigned, At
<1>2. calls[s].plan = Active /\ Active.version = active /\ active \in Nat
  BY <1>1, CurrentPlans DEF QueueInv, HoldsCurrent, CallsInv, VersionsHeld
<1>3. OnTo(s, "saved")
  BY DEF AssignSenior, SaveReported, SaveAssigned, SavesAs
<1>4. DOMAIN calls' = {s} /\ calls'[s].phase = "saved" /\ calls'[s].locked
  BY <1>1, <1>3, CallFields DEF OnTo, QueueInv, OneCall
<1>5. PICK p : Save(p) /\ p.version = active
  BY <1>1, <1>2, HeldVersions DEF AssignSenior, SaveReported, SaveAssigned, SavesAs
<1>6. Storable(p)
  <2>1. active' = p.version /\ versions'[active'] = p
    BY <1>5 DEF Save, Stored
  <2> QED
    BY <2>1 DEF CallsInv, VersionsHeld
<1>7. NewestActive'
  BY <1>2, <1>5, <1>6, SaveNewest DEF QueueInv, CallsInv
<1> QED
  BY <1>4, <1>7, RestingQueue DEF OneCall

LEMMA QueueClaims ==
  ASSUME QueueInv, CallsInv', NEW s \in Slots, ClaimAssign(s)
  PROVE  QueueInv' /\ ShownLink' = link /\ ShownLink = link
<1>1. /\ s \in DOMAIN calls /\ DOMAIN calls = {s} /\ CallHeld(calls[s])
      /\ calls[s].phase = "read" /\ calls[s].plan = Active /\ calls[s].locked
      /\ Owner[calls[s].task] = "worker"
  BY DEF QueueInv, OneCall, HoldsCurrent, CallsInv, CallsHeld, ClaimAssign, At
<1> DEFINE c == [calls[s] EXCEPT !.phase = "claimed", !.links = link]
<1>2. /\ c.phase = "claimed" /\ c.links = link /\ c.plan = calls[s].plan
      /\ c.task = calls[s].task /\ c.locked
  BY <1>1, CallFields
<1>3. DOMAIN calls' = {s} /\ calls'[s] = c
  BY <1>1 DEF ClaimAssign
<1> HIDE DEF c
<1>4. Stale(c) = Stale(calls[s])
  BY <1>2 DEF Stale
<1>5. link' = GivenUp(c)
  BY <1>2, <1>4 DEF GivenUp, ClaimAssign
<1>6. Active' = Active /\ NewestActive'
  BY DEF Active, NewestActive, ClaimAssign, QueueInv
<1>7. QueueInv'
  <2>1. \A r \in DOMAIN calls' : r = s /\ calls'[r] = c
    BY <1>3
  <2>2. c.plan = Active' /\ c.phase = "claimed" /\ c.locked /\ Owner[c.task] = "worker"
    BY <1>1, <1>2, <1>6
  <2>3. OneCall'
    BY <2>1, <2>2 DEF OneCall
  <2>4. HoldsCurrent'
    BY <2>1, <2>2 DEF HoldsCurrent
  <2>5. LinksUnderWay'
    BY <1>5, <2>1, <2>2 DEF LinksUnderWay, GivenUp, Stale
  <2> QED
    BY <1>6, <2>3, <2>4, <2>5 DEF QueueInv
<1>8. ShownLink' = link /\ ShownLink = link
  BY <1>1, <1>2, <1>3 DEF ShownLink
<1> QED
  BY <1>7, <1>8

LEMMA QueueCreates ==
  ASSUME QueueInv, CallsInv', NEW s \in Slots, CreateWorker(s)
  PROVE  QueueInv' /\ ShownLink' = ShownLink
<1>1. /\ s \in DOMAIN calls /\ DOMAIN calls = {s} /\ CallHeld(calls[s])
      /\ calls[s].phase = "claimed" /\ calls[s].plan = Active /\ calls[s].locked
      /\ Owner[calls[s].task] = "worker" /\ link = GivenUp(calls[s])
      /\ BaseOf(calls[s]).thread = NoThread
  BY DEF QueueInv, OneCall, HoldsCurrent, LinksUnderWay, CallsInv, CallsHeld, CreateWorker, At
<1>2. PICK w \in Workers :
        /\ link[w] = "unused"
        /\ link' = [link EXCEPT ![w] = calls[s].task]
        /\ calls' = [calls EXCEPT ![s].phase = "created", ![s].thread = w]
  BY DEF CreateWorker
<1> DEFINE c == [calls[s] EXCEPT !.phase = "created", !.thread = w]
<1>3. /\ c.phase = "created" /\ c.links = calls[s].links /\ c.plan = calls[s].plan
      /\ c.task = calls[s].task /\ c.locked /\ c.thread = w
  BY <1>1, CallFields
<1>4. DOMAIN calls' = {s} /\ calls'[s] = c
  BY <1>1, <1>2
<1> HIDE DEF c
<1>5. GivenUp(c) = GivenUp(calls[s]) /\ BaseOf(c) = BaseOf(calls[s])
  BY <1>3 DEF GivenUp, Stale, BaseOf
<1>6. Active' = Active /\ NewestActive'
  BY DEF Active, NewestActive, CreateWorker, QueueInv
<1>7. OneCall' /\ HoldsCurrent'
  BY <1>1, <1>3, <1>4, <1>6 DEF OneCall, HoldsCurrent
<1>8. LinksUnderWay'
  <2>1. /\ Owner[c.task] = "worker" /\ BaseOf(c).thread = NoThread
        /\ GivenUp(c)[c.thread] = "unused"
        /\ link' = [GivenUp(c) EXCEPT ![c.thread] = c.task]
    BY <1>1, <1>2, <1>3, <1>5
  <2>2. \A r \in DOMAIN calls' : calls'[r] = c
    BY <1>4
  <2>3. c.phase = "created"
    BY <1>3
  <2> QED
    BY <2>1, <2>2, <2>3 DEF LinksUnderWay, GivenUp, Stale, BaseOf
<1>9. ShownLink' = ShownLink
  BY <1>1, <1>3, <1>4 DEF ShownLink
<1> QED
  BY <1>6, <1>7, <1>8, <1>9 DEF QueueInv

LEMMA QueueGoes ==
  ASSUME QueueInv, CallsInv', NEW s \in Slots, Complete(s) \/ Rejected(s) \/ Fail(s)
  PROVE  QueueInv'
<1>1. s \in DOMAIN calls /\ Returns(s) /\ UNCHANGED <<versions, active>>
  BY DEF Complete, Rejected, Fail
<1>2. DOMAIN calls' = {} /\ NewestActive'
  BY <1>1, NoCallLeft DEF QueueInv, NewestActive
<1> QED
  BY <1>2, RestingQueue DEF OneCall

LEMMA QueueCrashes ==
  ASSUME Queued, QueueInv, CallsInv', Crash \/ CrashInSave
  PROVE  QueueInv' /\ Crash
<1>1. Crash
  BY DEF Queued, CrashInSave
<1>2. DOMAIN calls' = {} /\ NewestActive'
  BY <1>1 DEF Crash, QueueInv, NewestActive
<1> QED
  BY <1>1, <1>2, RestingQueue DEF OneCall

LEMMA QueueReviews ==
  ASSUME Queued, QueueInv, CallsInv', ReviewTask
  PROVE  /\ QueueInv' /\ DOMAIN calls = {}
         /\ \A s \in DOMAIN calls' : calls'[s].phase = "saved"
<1>1. /\ Storable(Latest) /\ PlanSound(Latest) /\ DOMAIN Latest = Fields
      /\ Latest.cycle \in Cycle /\ Latest.version = active /\ active \in Nat
  BY CurrentPlans, StorableFields, LatestIsActive DEF QueueInv, CallsInv, VersionsHeld
<1>2. PICK t \in DOMAIN Latest.tasks, decision \in Decisions, i \in OpIds,
           s \in Slots \ DOMAIN calls, locked \in BOOLEAN :
        /\ Enter("review", locked)
        /\ Save(Reviewed(Latest, t, decision))
        /\ GivesWay(s, [op |-> "review", phase |-> "saved", locked |-> locked,
                        plan |-> Latest, task |-> t, thread |-> NoThread,
                        report |-> "none", id |-> i, links |-> link])
  BY DEF ReviewTask
<1>3. locked /\ DOMAIN calls = {}
  BY <1>2, AdmittedAlone DEF QueueInv
<1>4. DOMAIN calls' = {s} /\ calls'[s].locked /\ calls'[s].phase = "saved"
  BY <1>2, <1>3 DEF GivesWay
<1>5. /\ Storable(Reviewed(Latest, t, decision))
      /\ Reviewed(Latest, t, decision).version = active
  BY <1>1, ReviewedSound, ReviewedRewrites, RewrittenStorable DEF Rewrites
<1>6. NewestActive'
  BY <1>1, <1>2, <1>5, SaveNewest DEF QueueInv, CallsInv
<1> QED
  BY <1>3, <1>4, <1>6, RestingQueue DEF OneCall

LEMMA QueueAtomics ==
  ASSUME Queued, QueueInv, CallsInv',
         SaveDraft \/ Stop \/ Resume \/ StopWorker \/ AuditCycle \/ ProposeRework
  PROVE  QueueInv' /\ DOMAIN calls = {} /\ DOMAIN calls' = {}
<1>1. /\ DOMAIN Active = Fields /\ Active.cycle \in Cycle /\ Active.version = active
      /\ active \in Nat /\ Latest = Active
  BY CurrentPlans, StorableFields, LatestIsActive DEF QueueInv, CallsInv, VersionsHeld
<1>2. \A cycle : CycleSaved(Active, cycle).version = active
  <2> SUFFICES ASSUME NEW cycle PROVE CycleSaved(Active, cycle).version = active
    OBVIOUS
  <2> DEFINE q == [Active EXCEPT !.cycle = cycle]
  <2>1. DOMAIN q = Fields /\ q.version = active
    BY <1>1 DEF Fields
  <2>2. CycleSaved(Active, cycle) = Settle(q)
    BY DEF CycleSaved
  <2> HIDE DEF q
  <2> QED
    BY <2>1, <2>2, SettleRewrites DEF Rewrites
<1>3. PICK op, p : Atomically(op, p) /\ p.version \in {active, active + 1}
  <2>1. CASE SaveDraft
    BY <1>1, <2>1, DraftVersions DEF SaveDraft
  <2>2. CASE Stop
    BY <1>1, <2>2, StoppedRewrites DEF Stop, Rewrites
  <2>3. CASE Resume
    BY <1>1, <2>3, ResumedRewrites DEF Resume, Rewrites
  <2>4. CASE StopWorker
    BY <1>1, <2>4, ReplaceTaskRewrites DEF StopWorker, WorkerStopped, Rewrites
  <2>5. CASE AuditCycle
    BY <1>2, <2>5 DEF AuditCycle, Begun, SetCycle, BegunRework
  <2>6. CASE ProposeRework
    BY <1>1, <2>6, ReworkDraftVersion DEF ProposeRework, Proposals
  <2> QED
    BY <2>1, <2>2, <2>3, <2>4, <2>5, <2>6
<1>4. DOMAIN calls = {} /\ calls' = calls /\ Save(p)
  BY <1>3, AdmittedAlone DEF Atomically, QueueInv
<1>5. Storable(p)
  <2>1. active' = p.version /\ versions'[active'] = p
    BY <1>4 DEF Save, Stored
  <2> QED
    BY <2>1 DEF CallsInv, VersionsHeld
<1>6. active <= p.version
  BY <1>1, <1>3
<1>7. NewestActive'
  BY <1>4, <1>5, <1>6, SaveNewest DEF QueueInv, CallsInv
<1> QED
  BY <1>4, <1>7, RestingQueue DEF OneCall

LEMMA InitQueueInv == Init => QueueInv
<1> SUFFICES ASSUME Init PROVE QueueInv
  OBVIOUS
<1>1. DOMAIN calls = {} /\ DOMAIN versions = {1} /\ active = 1
  BY DEF Init
<1> QED
  BY <1>1, InitCallsInv DEF QueueInv, OneCall, NewestActive, HoldsCurrent, LinksUnderWay

LEMMA NextQueueInv ==
  ASSUME Queued
  PROVE  QueueInv /\ [Next]_vars => QueueInv'
<1> SUFFICES ASSUME QueueInv, [Next]_vars PROVE QueueInv'
  OBVIOUS
<1>1. CallsInv'
  BY NextCallsInv DEF QueueInv
<1>2. ASSUME NEW s \in Slots, Step(s)
      PROVE  QueueInv'
  BY <1>1, <1>2, QueueSavesAndReturns, QueueSaves, QueueClaims, QueueCreates, QueueGoes DEF Step
<1>3. CASE UNCHANGED vars
  <2>1. calls' = calls /\ link' = link /\ Active' = Active /\ NewestActive'
    BY <1>3 DEF vars, Active, NewestActive, QueueInv
  <2> QED
    BY <1>1, <2>1
    DEF QueueInv, OneCall, HoldsCurrent, LinksUnderWay, GivenUp, Stale, BaseOf
<1> QED
  BY <1>1, <1>2, <1>3, QueueReads, QueueReadsRework, QueueReviews, QueueAtomics, QueueCrashes
  DEF Next

LEMMA QueueInvariant ==
  ASSUME Queued
  PROVE  Spec => []QueueInv
BY InitQueueInv, NextQueueInv, PTL DEF Spec

(***************************************************************************)
(* chat-engine-assignment-run.ts, withAssignmentApiLock: while every call  *)
(* of an operation takes the Assignment's queue and the app does not go    *)
(* away between the two statements of save, no call works on a plan that   *)
(* was changed after it read it, and the two lookups of the current plan   *)
(* agree.                                                                  *)
(***************************************************************************)
THEOREM QueuedCallsReadFresh ==
  ASSUME Outside = {}, ~TornSaves
  PROVE  Spec => []NoStaleRead
<1>1. QueueInv => NoStaleRead
  BY LatestIsActive DEF QueueInv, HoldsCurrent, NoStaleRead
<1>2. Queued
  BY DEF Queued
<1> QED
  BY <1>1, <1>2, QueueInvariant, PTL

-----------------------------------------------------------------------------
(* The engine's own copy of the plan operators is the same.                *)

LEMMA SameQueries ==
  /\ Engine!NewTask = NewTask /\ Engine!NoCycle = NoCycle
  /\ Engine!Reports = Reports /\ Engine!Decisions = Decisions
  /\ Engine!Withdrawable = Withdrawable
  /\ \A S : Engine!ValidGraph(S) = ValidGraph(S)
  /\ \A tasks : Engine!Completed(tasks) = Completed(tasks)
  /\ \A tasks : Engine!AllCompleted(tasks) = AllCompleted(tasks)
  /\ \A tasks, sts : Engine!AnyWith(tasks, sts) = AnyWith(tasks, sts)
  /\ \A t, done : Engine!DependencyStatus(t, done) = DependencyStatus(t, done)
  /\ \A p : Engine!Settle(p) = Settle(p)
<1>1. \A S : Engine!Cardinality(S) = Cardinality(S)
  BY DEF Engine!Cardinality, Cardinality
<1>2. \A S : Engine!ValidGraph(S) = ValidGraph(S)
  BY <1>1 DEF Engine!ValidGraph, ValidGraph
<1>3. \A p : Engine!Settle(p) = Settle(p)
  BY DEF Engine!Settle, Settle, Engine!OfferStale, OfferStale, Engine!AllCompleted, AllCompleted,
     Engine!NoCycle, NoCycle
<1>4. Engine!NewTask = NewTask /\ Engine!NoCycle = NoCycle
  BY DEF Engine!NewTask, NewTask, Engine!NoCycle, NoCycle
<1>5. /\ Engine!Reports = Reports /\ Engine!Decisions = Decisions
      /\ Engine!Withdrawable = Withdrawable
  BY DEF Engine!Reports, Reports, Engine!Decisions, Decisions, Engine!Withdrawable, Withdrawable
<1>6. /\ \A tasks : Engine!Completed(tasks) = Completed(tasks)
      /\ \A tasks : Engine!AllCompleted(tasks) = AllCompleted(tasks)
      /\ \A tasks, sts : Engine!AnyWith(tasks, sts) = AnyWith(tasks, sts)
      /\ \A t, done : Engine!DependencyStatus(t, done) = DependencyStatus(t, done)
  BY DEF Engine!Completed, Completed, Engine!AllCompleted, AllCompleted, Engine!AnyWith, AnyWith,
     Engine!DependencyStatus, DependencyStatus
<1> QED
  BY <1>2, <1>3, <1>4, <1>5, <1>6

LEMMA SameDrafts ==
  /\ \A S : Engine!DraftPlan(S) = DraftPlan(S)
  /\ \A p : Engine!EditedDraft(p) = EditedDraft(p)
  /\ \A p, S : Engine!RegeneratedDraft(p, S) = RegeneratedDraft(p, S)
  /\ \A p : Engine!Activated(p) = Activated(p)
<1>1. \A p : Engine!KeptByActivation(p) = KeptByActivation(p)
  BY SameQueries DEF Engine!KeptByActivation, KeptByActivation
<1>2. \A p : Engine!ActivatedTasks(p) = ActivatedTasks(p)
  BY <1>1, SameQueries DEF Engine!ActivatedTasks, ActivatedTasks
<1>3. \A p : Engine!Activated(p) = Activated(p)
  BY <1>2 DEF Engine!Activated, Activated
<1> QED
  BY <1>3, SameQueries
  DEF Engine!DraftPlan, DraftPlan, Engine!EditedDraft, EditedDraft,
      Engine!RegeneratedDraft, RegeneratedDraft

LEMMA SameStops ==
  /\ \A p : Engine!Stopped(p) = Stopped(p)
  /\ \A p : Engine!Resumed(p) = Resumed(p)
<1>1. \A p : Engine!Stopped(p) = Stopped(p)
  BY DEF Engine!Stopped, Stopped, Engine!StoppedTask, StoppedTask, Engine!StoppedCycle,
     StoppedCycle
<1>2. \A p, tasks : Engine!ResumedStatus(p, tasks) = ResumedStatus(p, tasks)
  BY SameQueries DEF Engine!ResumedStatus, ResumedStatus
<1>3. /\ \A task : Engine!ResumedTask(task) = ResumedTask(task)
      /\ \A c : Engine!ResumedCycle(c) = ResumedCycle(c)
  BY DEF Engine!ResumedTask, ResumedTask, Engine!ResumedCycle, ResumedCycle
<1>4. \A p : Engine!Resumed(p) = Resumed(p)
  BY <1>2, <1>3, SameQueries DEF Engine!Resumed, Resumed
<1> QED
  BY <1>1, <1>4

LEMMA SameWork ==
  /\ \A task : Engine!ReplacesWorker(task) = ReplacesWorker(task)
  /\ \A task : Engine!Assignable(task) = Assignable(task)
  /\ \A task : Engine!DispatchBase(task) = DispatchBase(task)
  /\ \A task, thread : Engine!Dispatched(task, thread) = Dispatched(task, thread)
  /\ \A p, t, task, status : Engine!ReplaceTask(p, t, task, status) = ReplaceTask(p, t, task, status)
  /\ \A p, t, report : Engine!ReportedPlan(p, t, report) = ReportedPlan(p, t, report)
  /\ \A p, t, decision : Engine!Reviewed(p, t, decision) = Reviewed(p, t, decision)
  /\ \A p, t : Engine!WorkerStopped(p, t) = WorkerStopped(p, t)
  /\ \A p, t : Engine!AlreadySteered(p, t) = AlreadySteered(p, t)
  /\ \A p, t : Engine!SteeredPlan(p, t) = SteeredPlan(p, t)
<1>1. /\ \A task : Engine!ReplacesWorker(task) = ReplacesWorker(task)
      /\ \A task : Engine!Assignable(task) = Assignable(task)
  BY DEF Engine!ReplacesWorker, ReplacesWorker, Engine!Assignable, Assignable,
     Engine!RetryingStopped, RetryingStopped
<1>2. \A task : Engine!DispatchBase(task) = DispatchBase(task)
  BY <1>1 DEF Engine!DispatchBase, DispatchBase
<1>3. \A task, thread : Engine!Dispatched(task, thread) = Dispatched(task, thread)
  BY <1>2 DEF Engine!Dispatched, Dispatched
<1>4. \A p, t, task, status :
        Engine!ReplaceTask(p, t, task, status) = ReplaceTask(p, t, task, status)
  BY SameQueries DEF Engine!ReplaceTask, ReplaceTask
<1>5. /\ \A p, t, report : Engine!ReportedPlan(p, t, report) = ReportedPlan(p, t, report)
      /\ \A p, t : Engine!WorkerStopped(p, t) = WorkerStopped(p, t)
  BY <1>4 DEF Engine!ReportedPlan, ReportedPlan, Engine!WorkerStopped, WorkerStopped,
     Engine!ReportedTask, ReportedTask
<1>6. /\ \A p, t : Engine!AlreadySteered(p, t) = AlreadySteered(p, t)
      /\ \A p, t : Engine!SteeredTasks(p, t) = SteeredTasks(p, t)
  BY DEF Engine!AlreadySteered, AlreadySteered, Engine!SteeredTasks, SteeredTasks
<1>7. \A p, t : Engine!SteeredPlan(p, t) = SteeredPlan(p, t)
  BY <1>6, SameQueries DEF Engine!SteeredPlan, SteeredPlan
<1>8. /\ \A task, decision : Engine!ReviewedTask(task, decision) = ReviewedTask(task, decision)
      /\ \A c : Engine!OfferedCycle(c) = OfferedCycle(c)
  BY DEF Engine!ReviewedTask, ReviewedTask, Engine!OfferedCycle, OfferedCycle
<1>9. \A tasks : Engine!Unblocked(tasks) = Unblocked(tasks)
  BY SameQueries DEF Engine!Unblocked, Unblocked
<1>10. ASSUME NEW p, NEW t, NEW decision
       PROVE  Engine!Reviewed(p, t, decision) = Reviewed(p, t, decision)
  <2> DEFINE changed == [p.tasks EXCEPT ![t] = ReviewedTask(@, decision)]
             tasks   == Unblocked(changed)
  <2>1. /\ Engine!Unblocked([p.tasks EXCEPT ![t] = Engine!ReviewedTask(@, decision)]) = tasks
        /\ Engine!OfferedCycle(p.cycle) = OfferedCycle(p.cycle)
    BY <1>8, <1>9
  <2>2. /\ Engine!AllCompleted(tasks) = AllCompleted(tasks)
        /\ Engine!AnyWith(tasks, {"failed"}) = AnyWith(tasks, {"failed"})
    BY SameQueries
  <2> QED
    BY <2>1, <2>2, SameQueries DEF Engine!Reviewed, Reviewed
<1> QED
  BY <1>1, <1>2, <1>3, <1>4, <1>5, <1>6, <1>7, <1>10

LEMMA SameRework ==
  /\ \A p : Engine!ReworkAllowed(p) = ReworkAllowed(p)
  /\ \A p : Engine!InRework(p) = InRework(p)
  /\ \A p, t : Engine!ReopenedPlan(p, t) = ReopenedPlan(p, t)
  /\ \A p, t : Engine!FollowUpPlan(p, t) = FollowUpPlan(p, t)
  /\ \A p : Engine!ScopeRepair(p) = ScopeRepair(p)
  /\ \A p : Engine!ProposalAllowed(p) = ProposalAllowed(p)
  /\ \A p, S : Engine!ReworkDraft(p, S) = ReworkDraft(p, S)
<1>1. \A n : Engine!OrFirst(n) = OrFirst(n)
  BY DEF Engine!OrFirst, OrFirst
<1>2. /\ \A p : Engine!ReworkAllowed(p) = ReworkAllowed(p)
      /\ \A p : Engine!InRework(p) = InRework(p)
  <2>1. \A p : Engine!ReworkAllowed(p) = ReworkAllowed(p)
    BY DEF Engine!ReworkAllowed, ReworkAllowed
  <2>2. ASSUME NEW p
        PROVE  Engine!InRework(p) = InRework(p)
    <3>1. Engine!OrFirst(p.cycle.rework) = OrFirst(p.cycle.rework)
      BY <1>1
    <3> QED
      BY <3>1, SameQueries DEF Engine!InRework, InRework
  <2> QED
    BY <2>1, <2>2
<1>3. /\ \A p, t : Engine!ReopenedPlan(p, t) = ReopenedPlan(p, t)
      /\ \A p, t : Engine!FollowUpPlan(p, t) = FollowUpPlan(p, t)
  BY SameWork, SameQueries
  DEF Engine!ReopenedPlan, ReopenedPlan, Engine!FollowUpPlan, FollowUpPlan
<1>4. /\ \A p : Engine!ScopeRepair(p) = ScopeRepair(p)
      /\ \A p : Engine!AuditRework(p) = AuditRework(p)
  BY SameQueries DEF Engine!ScopeRepair, ScopeRepair, Engine!AuditRework, AuditRework,
     Engine!SignedOff, SignedOff
<1>5. \A p : Engine!ProposalAllowed(p) = ProposalAllowed(p)
  BY <1>4, SameQueries DEF Engine!ProposalAllowed, ProposalAllowed
<1>6. \A p, S : Engine!ProposedTasks(p, S) = ProposedTasks(p, S)
  BY <1>4, SameQueries DEF Engine!ProposedTasks, ProposedTasks
<1>7. \A p : Engine!ProposedCycle(p) = ProposedCycle(p)
  BY <1>1, <1>4 DEF Engine!ProposedCycle, ProposedCycle
<1>8. \A p, S : Engine!ReworkDraft(p, S) = ReworkDraft(p, S)
  BY <1>6, <1>7, SameQueries DEF Engine!ReworkDraft, ReworkDraft
<1> QED
  BY <1>2, <1>3, <1>4, <1>5, <1>8

LEMMA SameAudit ==
  /\ \A p, statuses : Engine!InCycle(p, statuses) = InCycle(p, statuses)
  /\ \A p, cycle : Engine!CycleSaved(p, cycle) = CycleSaved(p, cycle)
  /\ \A p : Engine!BeginAllowed(p) = BeginAllowed(p)
  /\ \A p : Engine!Begun(p) = Begun(p)
  /\ \A p : Engine!BeginReworkAllowed(p) = BeginReworkAllowed(p)
  /\ \A p : Engine!BegunRework(p) = BegunRework(p)
<1>1. /\ \A p, statuses : Engine!InCycle(p, statuses) = InCycle(p, statuses)
      /\ \A p, cycle : Engine!CycleSaved(p, cycle) = CycleSaved(p, cycle)
      /\ \A n : Engine!OrFirst(n) = OrFirst(n)
  BY SameQueries DEF Engine!InCycle, InCycle, Engine!CycleSaved, CycleSaved, Engine!OrFirst,
     OrFirst
<1>2. /\ \A p : Engine!BeginAllowed(p) = BeginAllowed(p)
      /\ \A p : Engine!BeginReworkAllowed(p) = BeginReworkAllowed(p)
  BY <1>1 DEF Engine!BeginAllowed, BeginAllowed, Engine!BeginReworkAllowed, BeginReworkAllowed
<1>3. /\ \A p : Engine!Begun(p) = Begun(p)
      /\ \A p : Engine!BegunRework(p) = BegunRework(p)
  BY <1>1, SameQueries DEF Engine!Begun, Begun, Engine!BegunRework, BegunRework
<1> QED
  BY <1>1, <1>2, <1>3

-----------------------------------------------------------------------------
(* What a call checked before it gave way.                                 *)

Permitted(op, p, t) ==
  /\ op = "activate" => ValidGraph(DOMAIN p.tasks)
  /\ op = "steer" =>
       /\ Owner[t] = "worker" /\ p.tasks[t].thread \in Workers
       /\ ~AlreadySteered(p, t)
       /\ p.status = "stopped" => SteersStopped
  /\ op = "reopen" => ReworkAllowed(p) /\ t \in Completed(p.tasks)
  /\ op = "followup" =>
       /\ ReworkAllowed(p) /\ t \in Tasks \ DOMAIN p.tasks
       /\ ValidGraph(DOMAIN p.tasks \cup {t})

PermittedHeld == \A s \in DOMAIN calls :
  calls[s].phase = "read" => Permitted(calls[s].op, calls[s].plan, calls[s].task)

LEMMA OpensPermitted ==
  ASSUME DOMAIN calls = {}, NEW op, NEW p, NEW t, NEW report, NEW id, Permitted(op, p, t),
         Opens(op, p, t, report, id)
  PROVE  PermittedHeld'
<1>1. PICK s \in Slots, locked \in BOOLEAN :
        GivesWay(s, [op |-> op, phase |-> "read", locked |-> locked, plan |-> p,
                     task |-> t, thread |-> NoThread, report |-> report, id |-> id,
                     links |-> link])
  BY DEF Opens
<1>2. /\ DOMAIN calls' = {s}
      /\ calls'[s].op = op /\ calls'[s].plan = p /\ calls'[s].task = t
  BY <1>1 DEF GivesWay
<1> QED
  BY <1>2 DEF PermittedHeld, Permitted, ReworkAllowed, AlreadySteered, Completed

LEMMA ReadsPermitted ==
  ASSUME Queued, QueueInv, CallsInv',
         \/ ReadActivate \/ ReadAuditor \/ ReadAssign \/ ReadReport \/ ReadSteer
         \/ ReadReopen \/ ReadFollowUp
  PROVE  PermittedHeld'
<1>1. DOMAIN calls = {} /\ Latest = Active
  BY QueueReads, QueueReadsRework, LatestIsActive
<1>2. CASE ReadActivate
  BY <1>1, <1>2, OpensPermitted DEF ReadActivate, Read, Permitted
<1>3. CASE ReadAuditor \/ ReadAssign \/ ReadReport
  BY <1>1, <1>3, OpensPermitted DEF ReadAuditor, ReadAssign, ReadReport, Read, Permitted
<1>4. CASE ReadSteer
  BY <1>1, <1>4, OpensPermitted DEF ReadSteer, Read, Permitted
<1>5. CASE ReadReopen \/ ReadFollowUp
  <2>1. Quiet(Active) /\ ReworkAllowed(Active)
    BY <1>5, CurrentPlans, StorableFields DEF QueueInv, CallsInv, ReadReopen, ReadFollowUp
  <2>2. InRework(Active) = Active
    BY <2>1 DEF ReworkAllowed, Quiet, QuietCycle, InRework
  <2> QED
    BY <1>1, <1>5, <2>1, <2>2, OpensPermitted DEF ReadReopen, ReadFollowUp, Permitted
<1> QED
  BY <1>2, <1>3, <1>4, <1>5

\* After every other step no call is between its read and its first effect.
LEMMA OthersPermitted ==
  ASSUME Queued, QueueInv, CallsInv',
         \/ \E s \in Slots : Step(s)
         \/ ReviewTask \/ SaveDraft \/ Stop \/ Resume \/ StopWorker \/ AuditCycle
         \/ ProposeRework \/ Crash \/ CrashInSave
  PROVE  PermittedHeld'
<1>1. ASSUME NEW s \in Slots, Step(s)
      PROVE  PermittedHeld'
  <2>1. CASE Returns(s) /\ s \in DOMAIN calls
    BY <2>1, NoCallLeft DEF PermittedHeld
  <2>2. CASE s \in DOMAIN calls /\ \E phase \in {"claimed", "created", "saved"} :
               DOMAIN calls' = DOMAIN calls /\ calls'[s].phase = phase
    BY <2>2 DEF PermittedHeld, QueueInv, OneCall
  <2>3. s \in DOMAIN calls /\ CallHeld(calls[s])
    BY <1>1
    DEF Step, SaveActivated, SaveAuditor, AssignSenior, ClaimAssign, CreateWorker, SaveAssigned,
        SaveReported, Complete, SaveSteered, SaveRework, Rejected, Fail, At, QueueInv, CallsInv,
        CallsHeld
  <2>4. CASE AssignSenior(s) \/ SaveReported(s) \/ SaveAssigned(s)
    BY <2>2, <2>3, <2>4, CallFields
    DEF AssignSenior, SaveReported, SaveAssigned, SavesAs, OnTo
  <2>5. CASE ClaimAssign(s)
    BY <2>2, <2>3, <2>5, CallFields DEF ClaimAssign
  <2>6. CASE CreateWorker(s)
    BY <2>2, <2>3, <2>6, CallFields DEF CreateWorker
  <2> QED
    BY <1>1, <2>1, <2>3, <2>4, <2>5, <2>6
    DEF Step, SaveActivated, SaveAuditor, Complete, SaveSteered, SaveRework, Rejected, Fail
<1>2. CASE Crash \/ CrashInSave
  <2>1. DOMAIN calls' = {}
    BY <1>2 DEF Crash, CrashInSave
  <2> QED
    BY <2>1 DEF PermittedHeld
<1>3. CASE ReviewTask
  BY <1>3, QueueReviews DEF PermittedHeld
<1>4. CASE SaveDraft \/ Stop \/ Resume \/ StopWorker \/ AuditCycle \/ ProposeRework
  BY <1>4, QueueAtomics DEF PermittedHeld
<1> QED
  BY <1>1, <1>2, <1>3, <1>4

-----------------------------------------------------------------------------
(* Every step of the queued calls is a step of the engine, or none.        *)

LEMMA RestingLinks ==
  /\ (\A s \in DOMAIN calls : calls[s].phase \in {"read", "saved"}) => ShownLink = link
  /\ (\A s \in DOMAIN calls' : calls'[s].phase \in {"read", "saved"}) => ShownLink' = link'
BY DEF ShownLink

LEMMA ShowsNothing ==
  ASSUME Active' = Active, ShownLink' = ShownLink
  PROVE  UNCHANGED Engine!vars
BY DEF Engine!vars

LEMMA ShowsPlan ==
  ASSUME NEW p, Active' = p, ShownLink' = ShownLink
  PROVE  Engine!PlanChanges(p)
BY DEF Engine!PlanChanges

LEMMA ShowsStart ==
  ASSUME NEW t
  PROVE  Engine!Starts(t)
BY DEF Engine!Starts

LEMMA SaveShows ==
  ASSUME NEW p, Save(p)
  PROVE  Active' = p
BY DEF Save, Stored, Active

LEMMA ReadsStutter ==
  ASSUME Queued, QueueInv, CallsInv',
         \/ ReadActivate \/ ReadAuditor \/ ReadAssign \/ ReadReport \/ ReadSteer
         \/ ReadReopen \/ ReadFollowUp
  PROVE  UNCHANGED Engine!vars
BY QueueReads, QueueReadsRework, RestingLinks, ShowsNothing

LEMMA AtomicsRefine ==
  ASSUME Queued, QueueInv, CallsInv', SaveDraft \/ Stop \/ Resume \/ StopWorker
  PROVE  Engine!Next
<1>1. DOMAIN calls = {} /\ DOMAIN calls' = {} /\ Latest = Active
  BY QueueAtomics, LatestIsActive
<1>2. ASSUME NEW op, NEW p, Atomically(op, p)
      PROVE  Engine!PlanChanges(p)
  BY <1>1, <1>2, SaveShows, RestingLinks, ShowsPlan DEF Atomically
<1>3. CASE SaveDraft
  <2>1. Engine!SaveDraft
    BY <1>2, <1>3, SameDrafts, SameQueries DEF SaveDraft, Engine!SaveDraft
  <2> QED
    BY <2>1 DEF Engine!Next
<1>4. CASE Stop
  <2>1. Engine!Stop
    BY <1>2, <1>4, SameStops DEF Stop, Engine!Stop, Engine!Stoppable
  <2> QED
    BY <2>1 DEF Engine!Next
<1>5. CASE Resume
  <2>1. Engine!Resume
    BY <1>2, <1>5, SameStops DEF Resume, Engine!Resume
  <2> QED
    BY <2>1 DEF Engine!Next
<1>6. CASE StopWorker
  <2>1. PICK t \in DOMAIN Active.tasks :
          /\ Owner[t] = "worker" /\ Active.tasks[t].thread \in Workers
          /\ Active.tasks[t].status \in {"running", "reported", "auditing", "rework"}
          /\ Atomically("other", WorkerStopped(Active, t))
    BY <1>1, <1>6 DEF StopWorker
  <2>2. Engine!PlanChanges(Engine!WorkerStopped(Active, t))
    BY <1>2, <2>1, SameWork
  <2>3. Engine!StopWorker
    BY <2>1, <2>2 DEF Engine!StopWorker, Engine!Workable
  <2> QED
    BY <2>3 DEF Engine!Next
<1> QED
  BY <1>3, <1>4, <1>5, <1>6

LEMMA AuditRefines ==
  ASSUME Queued, QueueInv, CallsInv', AuditCycle
  PROVE  Engine!Next
<1>1. DOMAIN calls = {} /\ DOMAIN calls' = {}
  BY QueueAtomics
<1>2. ASSUME NEW op, NEW p, Atomically(op, p)
      PROVE  Engine!PlanChanges(p)
  BY <1>1, <1>2, SaveShows, RestingLinks, ShowsPlan DEF Atomically
<1> SUFFICES Engine!AuditCycle
  BY DEF Engine!Next
<1>3. CASE BeginAllowed(Active) /\ Atomically("audit", Begun(Active))
  BY <1>2, <1>3, SameAudit DEF Engine!AuditCycle, Engine!BeginAudit
<1>4. CASE /\ Active.status = "completed" /\ InCycle(Active, {"running"})
           /\ Atomically("audit", SetCycle("failed"))
  BY <1>2, <1>4, SameAudit DEF Engine!AuditCycle, Engine!FailAudit, SetCycle
<1>5. CASE /\ Active.status = "completed" /\ InCycle(Active, {"running"})
           /\ Atomically("audit", CycleSaved(Active,
                [Active.cycle EXCEPT !.status = "report_ready", !.reportId = TRUE]))
  BY <1>2, <1>5, SameAudit DEF Engine!AuditCycle, Engine!ReportAudit
<1>6. CASE /\ BeginReworkAllowed(Active) /\ BegunRework(Active).cycle.rework <= MaxCycle
           /\ Atomically("audit", BegunRework(Active))
  BY <1>2, <1>6, SameAudit DEF Engine!AuditCycle, Engine!BeginAuditRework
<1>7. CASE /\ Active.status = "completed" /\ InCycle(Active, {"report_ready", "available"})
           /\ Atomically("audit", SetCycle("completed"))
  BY <1>2, <1>7, SameAudit DEF Engine!AuditCycle, Engine!CompleteAudit, SetCycle
<1>8. CASE /\ Active.status = "completed" /\ InCycle(Active, Withdrawable)
           /\ Atomically("audit", CycleSaved(Active,
                [Active.cycle EXCEPT !.status = "available", !.dismissed = FALSE]))
  BY <1>2, <1>8, SameAudit, SameQueries DEF Engine!AuditCycle, Engine!MakeAvailable
<1> QED
  BY <1>3, <1>4, <1>5, <1>6, <1>7, <1>8 DEF AuditCycle

LEMMA ProposalRefines ==
  ASSUME Queued, QueueInv, CallsInv', ProposeRework
  PROVE  Engine!Next
<1>1. DOMAIN calls = {} /\ DOMAIN calls' = {}
  BY QueueAtomics
<1>2. PICK S \in SUBSET Tasks :
        /\ ValidGraph(S)
        /\ ScopeRepair(Active) => DOMAIN Active.tasks \subseteq S
        /\ ReworkDraft(Active, S).cycle.rework <= MaxCycle
        /\ Atomically("other", ReworkDraft(Active, S))
  BY DEF ProposeRework, Proposals
<1>3. Engine!PlanChanges(ReworkDraft(Active, S))
  BY <1>1, <1>2, SaveShows, RestingLinks, ShowsPlan DEF Atomically
<1>4. ProposalAllowed(Active) /\ Active.version < MaxVersion
  BY DEF ProposeRework
<1>5. /\ Engine!ProposalAllowed(Active) /\ Engine!ValidGraph(S)
      /\ Engine!ScopeRepair(Active) => DOMAIN Active.tasks \subseteq S
  BY <1>2, <1>4, SameRework, SameQueries
<1>6. Engine!ReworkDraft(Active, S) = ReworkDraft(Active, S)
  BY SameRework
<1>7. Engine!ProposeRework
  BY <1>2, <1>3, <1>4, <1>5, <1>6 DEF Engine!ProposeRework
<1> QED
  BY <1>7 DEF Engine!Next

LEMMA ReviewRefines ==
  ASSUME Queued, QueueInv, CallsInv', ReviewTask
  PROVE  Engine!Next
<1>1. PICK t \in DOMAIN Active.tasks, decision \in Decisions :
        /\ Active.tasks[t].status \in {"reported", "attention", "failed"}
        /\ Save(Reviewed(Active, t, decision)) /\ UNCHANGED link
  BY LatestIsActive DEF ReviewTask
<1>2. ShownLink' = ShownLink
  BY <1>1, QueueReviews, RestingLinks
<1>3. Engine!PlanChanges(Engine!Reviewed(Active, t, decision))
  BY <1>1, <1>2, SaveShows, ShowsPlan, SameWork
<1>4. Engine!ReviewTask
  BY <1>1, <1>3, SameQueries DEF Engine!ReviewTask, Engine!Workable
<1> QED
  BY <1>4 DEF Engine!Next

\* A call that saves and returns.
LEMMA ReturnsRefine ==
  ASSUME QueueInv, PermittedHeld, CallsInv', NEW s \in Slots,
         SaveActivated(s) \/ SaveAuditor(s) \/ SaveSteered(s) \/ SaveRework(s)
  PROVE  [Engine!Next]_(Engine!vars)
<1> DEFINE t == calls[s].task
<1>1. /\ s \in DOMAIN calls /\ DOMAIN calls = {s} /\ CallHeld(calls[s])
      /\ calls[s].phase = "read" /\ calls[s].plan = Active
      /\ Permitted(calls[s].op, Active, t)
  BY DEF QueueInv, OneCall, HoldsCurrent, PermittedHeld, CallsInv, CallsHeld, SaveActivated,
     SaveAuditor, SaveSteered, SaveRework, At
<1>2. DOMAIN calls' = {} /\ UNCHANGED link
  BY <1>1, NoCallLeft DEF SaveActivated, SaveAuditor, SaveSteered, SaveRework
<1>3. ShownLink' = ShownLink
  BY <1>1, <1>2, RestingLinks
<1>4. CASE SaveActivated(s)
  <2>1. Active.status = "draft" /\ ValidGraph(DOMAIN Active.tasks)
    BY <1>1, <1>4 DEF SaveActivated, At, Permitted, CallHeld
  <2>2. Engine!PlanChanges(Engine!Activated(Active))
    BY <1>1, <1>3, <1>4, SaveShows, ShowsPlan, SameDrafts DEF SaveActivated
  <2>3. Engine!Activate
    BY <2>1, <2>2, SameQueries DEF Engine!Activate
  <2> QED
    BY <2>3 DEF Engine!Next
<1>5. CASE SaveAuditor(s)
  BY <1>1, <1>3, <1>5, SaveShows, ShowsNothing DEF SaveAuditor
<1>6. CASE SaveSteered(s)
  <2>1. /\ t \in DOMAIN Active.tasks
        /\ Owner[t] = "worker" /\ Active.tasks[t].thread \in Workers
        /\ ~AlreadySteered(Active, t)
        /\ Active.status = "stopped" => SteersStopped
    BY <1>1, <1>6 DEF SaveSteered, At, Permitted, CallHeld
  <2>2. Active' = Engine!SteeredPlan(Active, t)
    BY <1>1, <1>6, SaveShows, SameWork DEF SaveSteered
  <2>3. ~Engine!AlreadySteered(Active, t)
    BY <2>1, SameWork
  <2>4. Engine!MarkWorkerSteered
    BY <1>3, <2>1, <2>2, <2>3, ShowsStart DEF Engine!MarkWorkerSteered, Engine!Workable
  <2> QED
    BY <2>4 DEF Engine!Next
<1>7. CASE SaveRework(s)
  <2>1. ReworkAllowed(Active) /\ Quiet(Active)
    BY <1>1, <1>7, CurrentPlans, StorableFields
    DEF SaveRework, At, Permitted, QueueInv, CallsInv
  <2>2. Engine!InRework(Active) = Active /\ Engine!ReworkAllowed(Active)
    <3>1. InRework(Active) = Active
      BY <2>1 DEF ReworkAllowed, Quiet, QuietCycle, InRework
    <3> QED
      BY <2>1, <3>1, SameRework
  <2>3. CASE calls[s].op = "reopen"
    <3>1. t \in Engine!Completed(Active.tasks)
      BY <1>1, <2>3, SameQueries DEF Permitted
    <3>2. Engine!PlanChanges(Engine!ReopenedPlan(Active, t))
      BY <1>1, <1>3, <1>7, <2>3, SaveShows, ShowsPlan, SameRework DEF SaveRework, At
    <3>3. Engine!ReopenCompletedTask
      BY <2>2, <3>1, <3>2 DEF Engine!ReopenCompletedTask
    <3> QED
      BY <3>3 DEF Engine!Next
  <2>4. CASE calls[s].op = "followup"
    <3>1. t \in Tasks \ DOMAIN Active.tasks /\ Engine!ValidGraph(DOMAIN Active.tasks \cup {t})
      BY <1>1, <2>4, SameQueries DEF Permitted
    <3>2. Engine!PlanChanges(Engine!FollowUpPlan(Active, t))
      BY <1>1, <1>3, <1>7, <2>4, SaveShows, ShowsPlan, SameRework DEF SaveRework, At
    <3>3. Engine!AppendFollowUpTask
      BY <2>2, <3>1, <3>2 DEF Engine!AppendFollowUpTask
    <3> QED
      BY <3>3 DEF Engine!Next
  <2> QED
    BY <1>7, <2>3, <2>4 DEF SaveRework, At
<1> QED
  BY <1>4, <1>5, <1>6, <1>7

LEMMA AssignsSeniorRefines ==
  ASSUME QueueInv, CallsInv', NEW s \in Slots, AssignSenior(s)
  PROVE  Engine!Next
<1> DEFINE t == calls[s].task
<1>1. /\ s \in DOMAIN calls /\ DOMAIN calls = {s} /\ CallHeld(calls[s])
      /\ calls[s].phase = "read" /\ calls[s].plan = Active /\ calls[s].op = "assign"
      /\ Owner[t] = "senior"
  BY DEF QueueInv, OneCall, HoldsCurrent, CallsInv, CallsHeld, AssignSenior, At
<1>2. t \in DOMAIN Active.tasks /\ Engine!Assignable(Active.tasks[t])
  BY <1>1, SameWork DEF CallHeld
<1>3. DOMAIN calls' = {s} /\ calls'[s].phase = "saved" /\ UNCHANGED link
  BY <1>1, CallFields DEF AssignSenior, SavesAs, OnTo
<1>4. ShownLink' = ShownLink
  BY <1>1, <1>3, RestingLinks
<1>5. Active' = ReplaceTask(Active, t, Dispatched(Active.tasks[t], Coordinator), "running")
  BY <1>1, SaveShows DEF AssignSenior, SavesAs, Dispatch
<1>6. Engine!AssignOn(t, Coordinator)
  BY <1>5, SameWork DEF Engine!AssignOn
<1>7. Engine!AssignSenior(t)
  BY <1>1, <1>4, <1>6 DEF Engine!AssignSenior
<1>8. Engine!AssignTask
  BY <1>2, <1>7, ShowsStart DEF Engine!AssignTask, Engine!Workable
<1> QED
  BY <1>8 DEF Engine!Next

\* What the engine sees of a dispatch that has claimed its operation.
LEMMA DispatchSeen ==
  ASSUME QueueInv, NEW s \in DOMAIN calls, calls[s].phase \in {"claimed", "created"}
  PROVE  /\ DOMAIN calls = {s} /\ CallHeld(calls[s]) /\ calls[s].plan = Active
         /\ calls[s].task \in DOMAIN Active.tasks
         /\ Engine!Assignable(Active.tasks[calls[s].task])
         /\ Owner[calls[s].task] = "worker"
         /\ BaseOf(calls[s]) = Engine!DispatchBase(Active.tasks[calls[s].task])
         /\ ShownLink = calls[s].links /\ ShownLink \in [Workers -> Link]
         /\ GivenUp(calls[s]) =
              Engine!UnlinkedAll(Engine!StaleWorker(calls[s].task))
         /\ BaseOf(calls[s]).thread # NoThread =>
              /\ GivenUp(calls[s]) = ShownLink
              /\ BaseOf(calls[s]).thread = Active.tasks[calls[s].task].thread
<1> DEFINE c == calls[s]
           t == calls[s].task
<1>1. /\ DOMAIN calls = {s} /\ CallHeld(c) /\ c.plan = Active /\ Owner[t] = "worker"
      /\ c.op = "assign"
  BY DEF QueueInv, OneCall, HoldsCurrent, LinksUnderWay, CallsInv, CallsHeld, CallHeld
<1>2. t \in DOMAIN Active.tasks /\ Engine!Assignable(Active.tasks[t])
  BY <1>1, SameWork DEF CallHeld
<1>3. BaseOf(c) = Engine!DispatchBase(Active.tasks[t])
  BY <1>1, SameWork DEF BaseOf
<1>4. ShownLink = c.links /\ ShownLink \in [Workers -> Link]
  BY <1>1, CallFields DEF ShownLink
<1>5. \A w \in Workers : w \in Stale(c) <=> w \in Engine!StaleWorker(t)
  BY <1>1, SameWork DEF Stale, Engine!StaleWorker
<1>6. GivenUp(c) = Engine!UnlinkedAll(Engine!StaleWorker(t))
  BY <1>4, <1>5 DEF GivenUp, Engine!UnlinkedAll
<1>7. ASSUME BaseOf(c).thread # NoThread
      PROVE  GivenUp(c) = ShownLink /\ BaseOf(c).thread = Active.tasks[t].thread
  <2>1. PICK S \in SUBSET Tasks : Active \in PlanOver(S)
    BY CurrentPlans DEF QueueInv, CallsInv, Storable, PlanSound, IsPlan
  <2>2. Active.tasks[t] \in Task
    BY <1>2, <2>1 DEF PlanOver
  <2>3. ~ReplacesWorker(Active.tasks[t])
    BY <1>1, <1>7, <2>2 DEF BaseOf, DispatchBase, Task
  <2>4. Stale(c) = {}
    BY <1>1, <2>3 DEF Stale
  <2>5. BaseOf(c).thread = Active.tasks[t].thread
    BY <1>1, <2>2, <2>3 DEF BaseOf, DispatchBase, Task
  <2>6. GivenUp(c) = [w \in Workers |-> ShownLink[w]]
    BY <1>4, <2>4 DEF GivenUp
  <2> QED
    BY <1>4, <2>5, <2>6
<1> QED
  BY <1>1, <1>2, <1>3, <1>4, <1>6, <1>7

LEMMA SavesAssignedRefines ==
  ASSUME QueueInv, CallsInv', NEW s \in Slots, SaveAssigned(s)
  PROVE  Engine!Next
<1> DEFINE c == calls[s]
           t == calls[s].task
<1>1. s \in DOMAIN calls /\ c.phase \in {"claimed", "created"} /\ UNCHANGED link
  BY DEF SaveAssigned, At
<1>2. /\ DOMAIN calls = {s} /\ CallHeld(c) /\ c.plan = Active /\ t \in DOMAIN Active.tasks
      /\ Engine!Assignable(Active.tasks[t]) /\ Owner[t] = "worker"
      /\ BaseOf(c) = Engine!DispatchBase(Active.tasks[t])
      /\ ShownLink = c.links /\ ShownLink \in [Workers -> Link]
      /\ GivenUp(c) = Engine!UnlinkedAll(Engine!StaleWorker(t))
  BY <1>1, DispatchSeen
<1>3. DOMAIN calls' = {s} /\ calls'[s].phase = "saved"
  BY <1>1, <1>2, CallFields DEF SaveAssigned, OnTo
<1>4. ShownLink' = link
  BY <1>1, <1>3, RestingLinks
<1>5. ASSUME NEW thread, Save(Dispatch(c, thread))
      PROVE  Engine!AssignOn(t, thread)
  <2>1. Active' = ReplaceTask(Active, t, Dispatched(Active.tasks[t], thread), "running")
    BY <1>2, <1>5, SaveShows DEF Dispatch
  <2> QED
    BY <2>1, SameWork DEF Engine!AssignOn
<1>6. Engine!AssignSameWorker(t) \/ Engine!AssignNewWorker(t)
  <2>1. CASE c.phase = "created"
    <3>1. /\ BaseOf(c).thread = NoThread /\ GivenUp(c)[c.thread] = "unused"
          /\ link = [GivenUp(c) EXCEPT ![c.thread] = t] /\ c.thread \in Workers
      BY <1>1, <1>2, <2>1 DEF QueueInv, LinksUnderWay, CallHeld
    <3>2. ShownLink[c.thread] = "unused"
      BY <1>2, <3>1 DEF GivenUp
    <3>3. Engine!AssignOn(t, c.thread)
      BY <1>1, <1>5, <2>1 DEF SaveAssigned
    <3> QED
      BY <1>2, <1>4, <3>1, <3>2, <3>3 DEF Engine!AssignNewWorker
  <2>2. CASE c.phase = "claimed"
    <3>1. BaseOf(c).thread # NoThread
      BY <2>2 DEF SaveAssigned, At
    <3>2. GivenUp(c) = ShownLink /\ BaseOf(c).thread = Active.tasks[t].thread
      BY <1>1, <3>1, DispatchSeen
    <3>3. ShownLink' = ShownLink
      BY <1>1, <1>4, <2>2, <3>2 DEF QueueInv, LinksUnderWay
    <3>4. Engine!AssignOn(t, Active.tasks[t].thread)
      BY <1>5, <2>2, <3>2 DEF SaveAssigned
    <3> QED
      BY <1>2, <3>1, <3>3, <3>4 DEF Engine!AssignSameWorker
  <2> QED
    BY <1>1, <2>1, <2>2
<1>7. Engine!AssignTask
  BY <1>2, <1>6, ShowsStart DEF Engine!AssignTask, Engine!Workable
<1> QED
  BY <1>7 DEF Engine!Next

LEMMA SavesReportedRefines ==
  ASSUME QueueInv, CallsInv', NEW s \in Slots, SaveReported(s)
  PROVE  Engine!Next
<1> DEFINE c == calls[s]
           t == calls[s].task
<1>1. /\ s \in DOMAIN calls /\ DOMAIN calls = {s} /\ CallHeld(c)
      /\ c.phase = "read" /\ c.plan = Active /\ c.op = "report"
  BY DEF QueueInv, OneCall, HoldsCurrent, CallsInv, CallsHeld, SaveReported, At
<1>2. /\ t \in DOMAIN Active.tasks /\ t \in Tasks /\ c.report \in Reports
      /\ Active.tasks[t].status = "running"
  BY <1>1, CurrentPlans, StorableFields DEF CallHeld, QueueInv, CallsInv
<1>3. DOMAIN calls' = {s} /\ calls'[s].phase = "saved" /\ UNCHANGED link
  BY <1>1, CallFields DEF SaveReported, SavesAs, OnTo
<1>4. ShownLink = link /\ ShownLink' = ShownLink
  BY <1>1, <1>3, RestingLinks
<1>5. LinkedTo(t, Active.tasks[t].thread)
  BY <1>1 DEF SaveReported
<1>6. Engine!OwnsRunning(t, Active.tasks[t].thread)
  BY <1>2, <1>4, <1>5 DEF Engine!OwnsRunning, LinkedTo
<1>7. Engine!PlanChanges(Engine!ReportedPlan(Active, t, c.report))
  BY <1>1, <1>4, SaveShows, ShowsPlan, SameWork DEF SaveReported, SavesAs
<1>8. Owner[t] = "worker" => Active.tasks[t].thread \in Workers
  BY <1>5 DEF LinkedTo
<1>9. Engine!ReportTask
  BY <1>2, <1>6, <1>7, <1>8, SameQueries DEF Engine!ReportTask
<1> QED
  BY <1>9 DEF Engine!Next

\* A call that is gone: a dispatch that had claimed is one that failed.
LEMMA GoneRefines ==
  ASSUME QueueInv, NEW s \in DOMAIN calls, DOMAIN calls' = {},
         UNCHANGED <<versions, active, link>>
  PROVE  [Engine!Next]_(Engine!vars)
<1> DEFINE c == calls[s]
           t == calls[s].task
<1>1. Active' = Active /\ ShownLink' = link
  BY RestingLinks DEF Active
<1>2. DOMAIN calls = {s} /\ CallHeld(c)
  BY DEF QueueInv, OneCall, CallsInv, CallsHeld
<1>3. CASE c.phase \in {"read", "saved"}
  BY <1>1, <1>2, <1>3, RestingLinks, ShowsNothing
<1>4. CASE c.phase \in {"claimed", "created"}
  <2>1. /\ t \in DOMAIN Active.tasks /\ Engine!Assignable(Active.tasks[t])
        /\ Owner[t] = "worker"
        /\ BaseOf(c) = Engine!DispatchBase(Active.tasks[t])
        /\ ShownLink = c.links /\ ShownLink \in [Workers -> Link]
        /\ GivenUp(c) = Engine!UnlinkedAll(Engine!StaleWorker(t))
    BY <1>4, DispatchSeen
  <2>2. CASE c.phase = "claimed" /\ BaseOf(c).thread # NoThread
    <3>1. ShownLink' = ShownLink
      BY <1>1, <2>2, DispatchSeen DEF QueueInv, LinksUnderWay
    <3> QED
      BY <1>1, <3>1, ShowsNothing
  <2>3. CASE c.phase = "claimed" /\ BaseOf(c).thread = NoThread
    <3>1. ShownLink' = Engine!UnlinkedAll(Engine!StaleWorker(t))
      BY <1>1, <2>1, <2>3 DEF QueueInv, LinksUnderWay
    <3>2. Engine!AssignTaskFails
      BY <1>1, <2>1, <2>3, <3>1 DEF Engine!AssignTaskFails, Engine!Workable
    <3> QED
      BY <3>2 DEF Engine!Next
  <2>4. CASE c.phase = "created"
    <3>1. /\ BaseOf(c).thread = NoThread /\ GivenUp(c)[c.thread] = "unused"
          /\ link = [GivenUp(c) EXCEPT ![c.thread] = t] /\ c.thread \in Workers
      BY <1>2, <2>4 DEF QueueInv, LinksUnderWay, CallHeld
    <3>2. ShownLink[c.thread] = "unused"
      BY <2>1, <3>1 DEF GivenUp
    <3>3. Engine!AssignTaskFails
      BY <1>1, <2>1, <3>1, <3>2 DEF Engine!AssignTaskFails, Engine!Workable
    <3> QED
      BY <3>3 DEF Engine!Next
  <2> QED
    BY <1>4, <2>2, <2>3, <2>4
<1> QED
  BY <1>2, <1>3, <1>4, CallFields

LEMMA CallsGoneRefine ==
  ASSUME QueueInv, \/ \E s \in Slots : Complete(s) \/ Rejected(s) \/ Fail(s)
                   \/ Crash
  PROVE  [Engine!Next]_(Engine!vars)
<1>1. ASSUME NEW s \in Slots, Complete(s) \/ Rejected(s) \/ Fail(s)
      PROVE  [Engine!Next]_(Engine!vars)
  <2>1. s \in DOMAIN calls /\ Returns(s) /\ UNCHANGED <<versions, active, link>>
    BY <1>1 DEF Complete, Rejected, Fail
  <2> QED
    BY <2>1, NoCallLeft, GoneRefines
<1>2. CASE Crash
  <2>1. DOMAIN calls' = {} /\ UNCHANGED <<versions, active, link>>
    BY <1>2 DEF Crash
  <2>2. CASE DOMAIN calls = {}
    <3>1. Active' = Active /\ ShownLink' = link /\ ShownLink = link
      BY <2>1, <2>2, RestingLinks DEF Active
    <3> QED
      BY <2>1, <3>1, ShowsNothing
  <2> QED
    BY <2>1, <2>2, GoneRefines
<1> QED
  BY <1>1, <1>2

-----------------------------------------------------------------------------
LEMMA InitRefines == Init => Engine!Init /\ PermittedHeld
<1> SUFFICES ASSUME Init PROVE Engine!Init /\ PermittedHeld
  OBVIOUS
<1>1. PICK S \in SUBSET Tasks : ValidGraph(S) /\ versions = [v \in {1} |-> DraftPlan(S)]
  BY DEF Init
<1>2. DOMAIN calls = {} /\ Active = DraftPlan(S) /\ link = [w \in Workers |-> "unused"]
  BY <1>1 DEF Init, Active
<1>3. ShownLink = link /\ PermittedHeld
  BY <1>2, RestingLinks DEF PermittedHeld
<1>4. Engine!ValidGraph(S) /\ Active = Engine!DraftPlan(S)
  BY <1>1, <1>2, SameQueries, SameDrafts
<1> QED
  BY <1>2, <1>3, <1>4 DEF Engine!Init, Engine!NoEvidence

LEMMA NextRefines ==
  ASSUME Queued
  PROVE  QueueInv /\ PermittedHeld /\ [Next]_vars =>
           PermittedHeld' /\ [Engine!Next]_(Engine!vars)
<1> SUFFICES ASSUME QueueInv, PermittedHeld, [Next]_vars
             PROVE  PermittedHeld' /\ [Engine!Next]_(Engine!vars)
  OBVIOUS
<1>1. CallsInv'
  BY NextCallsInv DEF QueueInv
<1>2. CASE UNCHANGED vars
  <2>1. Active' = Active /\ ShownLink' = ShownLink /\ PermittedHeld'
    BY <1>2
    DEF vars, Active, ShownLink, PermittedHeld, Permitted, ReworkAllowed, AlreadySteered,
        Completed
  <2> QED
    BY <2>1, ShowsNothing
<1>3. CASE \/ ReadActivate \/ ReadAuditor \/ ReadAssign \/ ReadReport \/ ReadSteer
           \/ ReadReopen \/ ReadFollowUp
  BY <1>1, <1>3, ReadsPermitted, ReadsStutter
<1>4. ASSUME NEW s \in Slots, Step(s)
      PROVE  [Engine!Next]_(Engine!vars)
  <2>1. CASE ClaimAssign(s)
    BY <1>1, <2>1, QueueClaims, ShowsNothing DEF ClaimAssign, Active
  <2>2. CASE CreateWorker(s)
    BY <1>1, <2>2, QueueCreates, ShowsNothing DEF CreateWorker, Active
  <2> QED
    BY <1>1, <1>4, <2>1, <2>2, ReturnsRefine, AssignsSeniorRefines, SavesAssignedRefines,
       SavesReportedRefines, CallsGoneRefine
    DEF Step
<1>5. CASE \E s \in Slots : Step(s)
  BY <1>1, <1>4, <1>5, OthersPermitted
<1>6. CASE Crash \/ CrashInSave
  BY <1>1, <1>6, OthersPermitted, QueueCrashes, CallsGoneRefine
<1>7. CASE \/ ReviewTask \/ SaveDraft \/ Stop \/ Resume \/ StopWorker \/ AuditCycle
           \/ ProposeRework
  BY <1>1, <1>7, OthersPermitted, ReviewRefines, AtomicsRefine, AuditRefines, ProposalRefines
<1> QED
  BY <1>2, <1>3, <1>5, <1>6, <1>7 DEF Next

(***************************************************************************)
(* assignment-engine.ts with the queue of withAssignmentApiLock: the calls *)
(* with all their awaits, their ledger, their failures and the app going   *)
(* away implement the one-step operations of AssignmentEngine.  A dispatch *)
(* shows when its plan is saved, or as a failed one when it never is.      *)
(***************************************************************************)
THEOREM QueuedCallsImplementEngine ==
  ASSUME Outside = {}, ~TornSaves
  PROVE  Spec => ImplementsEngine
<1>1. Queued
  BY DEF Queued
<1>2. QueueInv /\ PermittedHeld /\ [Next]_vars =>
        PermittedHeld' /\ [Engine!Next]_(Engine!vars)
  BY <1>1, NextRefines
<1> QED
  BY <1>1, <1>2, InitRefines, QueueInvariant, PTL DEF Spec, ImplementsEngine, Engine!Spec

=============================================================================
