--------------------------- MODULE AssignmentCalls ---------------------------
(***************************************************************************)
(* The operations of AssignmentEngine with their awaits.                   *)
(*                                                                         *)
(* An engine operation rewrites a whole plan.  Most read the stored plan   *)
(* and save the new one without giving way; activate, assignTask,          *)
(* reportTask, markWorkerSteered, ensureAuditorThread, reopenCompletedTask *)
(* and appendFollowUpTask await in between and save what they made of the  *)
(* plan they read first.                                                   *)
(*                                                                         *)
(* The Assignment API, Stop and Resume take the assignment's queue         *)
(* (withAssignmentApiLock) around the whole call; sign-off, the Studio,    *)
(* the audit and the reactions to a worker's live state do not.  The       *)
(* constant Outside names the operations that are called without it.       *)
(*                                                                         *)
(* Modelled with it: the operation ledger (assignment_operations), the     *)
(* version table and active version of assignment-repo.ts, the two lookups *)
(* that may disagree about which plan is current, failing calls and the    *)
(* app going away between two statements.  Left to AssignmentEngine:       *)
(* evidence, the reporting switch, retract and the dismissed offer.        *)
(***************************************************************************)
EXTENDS AssignmentPlan

CONSTANTS Slots,       \* room for calls in flight
          OpIds,       \* operation ids callers choose
          MaxVersion,  \* bound on plan versions
          MaxCycle,    \* bound on correction cycles
          Outside,     \* operations that are also called without the queue
          SteersStopped, \* BOOLEAN: a worker of a stopped plan may be steered
          MayFail,     \* BOOLEAN: calls may fail and the app may go away
          TornSaves    \* BOOLEAN: the app may go away inside save

Operations == {"draft", "activate", "assign", "report", "review", "steer",
               "reopen", "followup", "auditor", "audit", "other"}

ASSUME CallsAssumption ==
  /\ MaxVersion \in Nat \ {0} /\ MaxCycle \in Nat
  /\ Outside \subseteq Operations
  /\ {SteersStopped, MayFail, TornSaves} \subseteq BOOLEAN
  /\ {"unused", "unlinked"} \cap Tasks = {}

VARIABLES versions,  \* assignment_versions: version -> plan
          active,    \* assignment_workflow.active_version
          link,      \* worker thread -> its assignmentTaskId
          ledger,    \* assignment_operations: "free", "claimed", "done"
          calls,     \* slot -> the call that gave way and has not returned
          applied    \* history: how often an operation id took effect

vars == <<versions, active, link, ledger, calls, applied>>

Link == Tasks \cup {"unused", "unlinked"}

\* A call holds the plan it read and, once it claimed its operation, the worker
\* links of that moment; the operations without an id have id "none".
CallOver(S) ==
  [op : Operations, phase : {"read", "claimed", "created", "saved"}, locked : BOOLEAN,
   plan : PlanOver(S), task : Tasks \cup {"none"}, thread : Threads \cup {NoThread},
   report : Reports \cup {"none"}, id : OpIds \cup {"none"}, links : [Workers -> Link]]

TypeOK ==
  /\ DOMAIN versions \subseteq Nat /\ active \in DOMAIN versions
  /\ \A v \in DOMAIN versions : IsPlan(versions[v]) /\ versions[v].version = v
  /\ link \in [Workers -> Link]
  /\ ledger \in [OpIds -> {"free", "claimed", "done"}]
  /\ DOMAIN calls \subseteq Slots
  /\ \A s \in DOMAIN calls : \E S \in SUBSET Tasks : calls[s] \in CallOver(S)
  /\ applied \in [OpIds -> Nat]

Init ==
  /\ \E S \in SUBSET Tasks : ValidGraph(S) /\ versions = [v \in {1} |-> DraftPlan(S)]
  /\ active = 1
  /\ link = [w \in Workers |-> "unused"]
  /\ ledger = [i \in OpIds |-> "free"]
  /\ calls = [s \in {} |-> {}]
  /\ applied = [i \in OpIds |-> 0]

-----------------------------------------------------------------------------
(* Reading and saving plans.                                               *)

Newest == CHOOSE v \in DOMAIN versions : \A u \in DOMAIN versions : u <= v
Active == versions[active]   \* requireActivePlan
Latest == versions[Newest]   \* requirePlanById

\* Mutant: a new version overwrites the row of the one it came from.
StoredInPlace(p) == [versions EXCEPT ![active] = p]

\* The version's row and the pointer to it.
Stored(p) == [v \in DOMAIN versions \cup {p.version} |->
                IF v = p.version THEN p ELSE versions[v]]
Save(p)   == versions' = Stored(p) /\ active' = p.version

\* Mutant: the queue admits everybody.
EnterAnyway(op, locked) == TRUE

\* The queue admits one call at a time.
Enter(op, locked) == IF locked THEN \A s \in DOMAIN calls : ~calls[s].locked
                     ELSE op \in Outside

\* An operation that does not give way: it only has to be admitted.
Atomically(op, p) == /\ \E locked \in BOOLEAN : Enter(op, locked)
                     /\ Save(p)
                     /\ UNCHANGED <<link, ledger, calls, applied>>

GivesWay(s, c) == calls' = [r \in DOMAIN calls \cup {s} |-> IF r = s THEN c ELSE calls[r]]
Returns(s)     == calls' = [r \in DOMAIN calls \ {s} |-> calls[r]]
OnTo(s, phase) == calls' = [calls EXCEPT ![s].phase = phase]

\* A call takes its plan and gives way.
Opens(op, p, t, report, id) ==
  /\ \E s \in Slots \ DOMAIN calls, locked \in BOOLEAN :
       /\ Enter(op, locked)
       /\ GivesWay(s, [op |-> op, phase |-> "read", locked |-> locked, plan |-> p,
                       task |-> t, thread |-> NoThread, report |-> report, id |-> id,
                       links |-> link])
  /\ UNCHANGED <<link, ledger, applied>>
Read(op, p, t, report, id) ==
  Opens(op, p, t, report, id) /\ UNCHANGED <<versions, active>>

At(s, op, phase) == s \in DOMAIN calls /\ calls[s].op = op /\ calls[s].phase = phase

\* Mutant: a duplicate of an operation that is under way is let through.
ClaimsAnyway(i) ==
  /\ ledger[i] # "done"
  /\ ledger' = [ledger EXCEPT ![i] = "claimed"]

\* claimOperation: INSERT OR IGNORE on the operation's primary key.
Claims(i) ==
  /\ ledger[i] = "free"
  /\ ledger' = [ledger EXCEPT ![i] = "claimed"]
Applies(i) == applied' = [applied EXCEPT ![i] = @ + 1]

-----------------------------------------------------------------------------
(* Sign-off and the auditor thread.                                        *)

ReadActivate == Active.status = "draft" /\ ValidGraph(DOMAIN Active.tasks)
                /\ Read("activate", Active, "none", "none", "none")

SaveActivated(s) ==
  /\ At(s, "activate", "read")
  /\ Save(Activated(calls[s].plan)) /\ Returns(s)
  /\ UNCHANGED <<link, ledger, applied>>

ReadAuditor == Active.status = "completed" /\ Read("auditor", Active, "none", "none", "none")

\* Only the auditor's id is new, the rest of the plan is what it was.
SaveAuditor(s) ==
  /\ At(s, "auditor", "read")
  /\ Save(calls[s].plan) /\ Returns(s)
  /\ UNCHANGED <<link, ledger, applied>>

-----------------------------------------------------------------------------
(* Dispatching a task.                                                     *)

ReadAssign == \E t \in DOMAIN Latest.tasks, i \in OpIds :
                /\ ledger[i] # "done" /\ Assignable(Latest.tasks[t])
                /\ Read("assign", Latest, t, "none", i)

BaseOf(c)  == DispatchBase(c.plan.tasks[c.task])
\* Mutant: the worker of the attempt given up keeps its link.
StaleKept(c) == {}
Stale(c)   == {w \in Workers : ReplacesWorker(c.plan.tasks[c.task])
                               /\ c.plan.tasks[c.task].thread = w}
Dispatch(c, thread) ==
  ReplaceTask(c.plan, c.task, Dispatched(c.plan.tasks[c.task], thread), "running")

\* A call that claims, saves and still has to complete its operation.
SavesAs(s, p) ==
  /\ Claims(calls[s].id) /\ Applies(calls[s].id)
  /\ Save(p) /\ OnTo(s, "saved")
  /\ UNCHANGED link

AssignSenior(s) ==
  /\ At(s, "assign", "read") /\ Owner[calls[s].task] = "senior"
  /\ SavesAs(s, Dispatch(calls[s], Coordinator))

\* The operation is claimed and the replaced worker given up.
ClaimAssign(s) ==
  /\ At(s, "assign", "read") /\ Owner[calls[s].task] = "worker" /\ Claims(calls[s].id)
  /\ link' = [w \in Workers |-> IF w \in Stale(calls[s]) THEN "unlinked" ELSE link[w]]
  /\ calls' = [calls EXCEPT ![s].phase = "claimed", ![s].links = link]
  /\ UNCHANGED <<versions, active, applied>>

CreateWorker(s) ==
  /\ At(s, "assign", "claimed") /\ BaseOf(calls[s]).thread = NoThread
  /\ \E w \in Workers :
       /\ link[w] = "unused"
       /\ link' = [link EXCEPT ![w] = calls[s].task]
       /\ calls' = [calls EXCEPT ![s].phase = "created", ![s].thread = w]
  /\ UNCHANGED <<versions, active, ledger, applied>>

\* A worker that keeps its task keeps its thread.
SaveAssigned(s) ==
  /\ \/ At(s, "assign", "created")
     \/ At(s, "assign", "claimed") /\ BaseOf(calls[s]).thread # NoThread
  /\ Save(Dispatch(calls[s], IF calls[s].phase = "created" THEN calls[s].thread
                             ELSE BaseOf(calls[s]).thread))
  /\ Applies(calls[s].id) /\ OnTo(s, "saved")
  /\ UNCHANGED <<link, ledger>>

-----------------------------------------------------------------------------
(* Reports, reviews and live workers.                                      *)

ReadReport == \E t \in DOMAIN Latest.tasks, report \in Reports, i \in OpIds :
                /\ ledger[i] # "done" /\ Latest.tasks[t].status = "running"
                /\ Latest.tasks[t].thread # NoThread
                /\ Read("report", Latest, t, report, i)

LinkedTo(t, thread) == IF Owner[t] = "senior" THEN thread = Coordinator
                       ELSE thread \in Workers /\ link[thread] = t

SaveReported(s) ==
  /\ At(s, "report", "read")
  /\ LinkedTo(calls[s].task, calls[s].plan.tasks[calls[s].task].thread)
  /\ SavesAs(s, ReportedPlan(calls[s].plan, calls[s].task, calls[s].report))

\* A review does not give way before it saves, only before it completes.
ReviewTask == \E t \in DOMAIN Latest.tasks, decision \in Decisions, i \in OpIds,
                 s \in Slots \ DOMAIN calls, locked \in BOOLEAN :
  /\ Enter("review", locked)
  /\ Latest.tasks[t].status \in {"reported", "attention", "failed"}
  /\ Claims(i) /\ Applies(i) /\ Save(Reviewed(Latest, t, decision))
  /\ GivesWay(s, [op |-> "review", phase |-> "saved", locked |-> locked, plan |-> Latest,
                  task |-> t, thread |-> NoThread, report |-> "none", id |-> i,
                  links |-> link])
  /\ UNCHANGED link

\* completeOperation, after the reviewable markdown was written.
Complete(s) ==
  /\ s \in DOMAIN calls /\ calls[s].phase = "saved"
  /\ ledger' = [ledger EXCEPT ![calls[s].id] = "done"] /\ Returns(s)
  /\ UNCHANGED <<versions, active, link, applied>>

ReadSteer == \E t \in DOMAIN Latest.tasks :
               /\ Owner[t] = "worker" /\ Latest.tasks[t].thread \in Workers
               /\ ~AlreadySteered(Latest, t)
               /\ Latest.status = "stopped" => SteersStopped
               /\ Read("steer", Latest, t, "none", "none")

SaveSteered(s) ==
  /\ At(s, "steer", "read")
  /\ Save(SteeredPlan(calls[s].plan, calls[s].task)) /\ Returns(s)
  /\ UNCHANGED <<link, ledger, applied>>

\* requireRework, which saves a plan that was not in rework yet, is awaited.
ReadReopen ==
  /\ ReworkAllowed(Active) /\ Save(InRework(Active))
  /\ \E t \in Completed(Active.tasks) : Opens("reopen", InRework(Active), t, "none", "none")

ReadFollowUp ==
  /\ ReworkAllowed(Active) /\ Save(InRework(Active))
  /\ \E t \in Tasks \ DOMAIN Active.tasks :
       /\ ValidGraph(DOMAIN Active.tasks \cup {t})
       /\ Opens("followup", InRework(Active), t, "none", "none")

SaveRework(s) ==
  /\ \/ At(s, "reopen", "read") /\ Save(ReopenedPlan(calls[s].plan, calls[s].task))
     \/ At(s, "followup", "read") /\ Save(FollowUpPlan(calls[s].plan, calls[s].task))
  /\ Returns(s)
  /\ UNCHANGED <<link, ledger, applied>>

-----------------------------------------------------------------------------
(* The operations that read and save without giving way.                   *)

SaveDraft ==
  /\ Active.status = "draft" /\ Active.version < MaxVersion
  /\ \/ Atomically("draft", EditedDraft(Active))
     \/ \E S \in SUBSET Tasks :
          ValidGraph(S) /\ Atomically("draft", RegeneratedDraft(Active, S))

Stop == /\ Active.status \notin {"stopped", "draft"}
        /\ ~(Active.status = "completed" /\ Active.cycle.status = "completed")
        /\ Atomically("other", Stopped(Active))

Resume == Active.status = "stopped" /\ Atomically("other", Resumed(Active))

StopWorker == \E t \in DOMAIN Latest.tasks :
  /\ Owner[t] = "worker" /\ Latest.tasks[t].thread \in Workers
  /\ Latest.tasks[t].status \in {"running", "reported", "auditing", "rework"}
  /\ Atomically("other", WorkerStopped(Latest, t))

SetCycle(status) == CycleSaved(Active, [Active.cycle EXCEPT !.status = status])

AuditCycle ==
  \/ BeginAllowed(Active) /\ Atomically("audit", Begun(Active))
  \/ /\ Active.status = "completed" /\ InCycle(Active, {"running"})
     /\ \/ Atomically("audit", SetCycle("failed"))
        \/ Atomically("audit", CycleSaved(Active,
             [Active.cycle EXCEPT !.status = "report_ready", !.reportId = TRUE]))
  \/ /\ BeginReworkAllowed(Active) /\ BegunRework(Active).cycle.rework <= MaxCycle
     /\ Atomically("audit", BegunRework(Active))
  \/ /\ Active.status = "completed" /\ InCycle(Active, {"report_ready", "available"})
     /\ Atomically("audit", SetCycle("completed"))
  \/ /\ Active.status = "completed" /\ InCycle(Active, Withdrawable)
     /\ Atomically("audit", CycleSaved(Active,
          [Active.cycle EXCEPT !.status = "available", !.dismissed = FALSE]))

Proposals == {ReworkDraft(Active, S) :
                S \in {S \in SUBSET Tasks :
                         /\ ValidGraph(S)
                         /\ ScopeRepair(Active) => DOMAIN Active.tasks \subseteq S}}
ProposeRework ==
  /\ ProposalAllowed(Active) /\ Active.version < MaxVersion
  /\ \E p \in Proposals : p.cycle.rework <= MaxCycle /\ Atomically("other", p)

-----------------------------------------------------------------------------
(* Failures.                                                               *)

\* A duplicate of an operation that is claimed already throws, and so does a
\* report from a worker that is no longer linked to its task.
Rejected(s) ==
  /\ s \in DOMAIN calls /\ calls[s].phase = "read" /\ calls[s].op \in {"assign", "report"}
  /\ \/ ledger[calls[s].id] # "free"
     \/ /\ calls[s].op = "report"
        /\ ~LinkedTo(calls[s].task, calls[s].plan.tasks[calls[s].task].thread)
  /\ Returns(s)
  /\ UNCHANGED <<versions, active, link, ledger, applied>>

\* An awaited thread, worktree or file is not to be had.
Fail(s) == /\ MayFail /\ s \in DOMAIN calls /\ Returns(s)
           /\ UNCHANGED <<versions, active, link, ledger, applied>>

\* The app goes away: what is in the database stays.
Crash == /\ MayFail /\ calls # [s \in {} |-> {}] /\ calls' = [s \in {} |-> {}]
         /\ UNCHANGED <<versions, active, link, ledger, applied>>

\* The two statements of save are two transactions: a new version may be stored
\* and not pointed to.
CrashInSave ==
  /\ TornSaves /\ Active.status = "draft" /\ Active.version < MaxVersion
  /\ versions' = Stored(EditedDraft(Active)) /\ calls' = [s \in {} |-> {}]
  /\ UNCHANGED <<active, link, ledger, applied>>

-----------------------------------------------------------------------------
Step(s) ==
  \/ SaveActivated(s) \/ SaveAuditor(s)
  \/ AssignSenior(s) \/ ClaimAssign(s) \/ CreateWorker(s) \/ SaveAssigned(s)
  \/ SaveReported(s) \/ Complete(s) \/ SaveSteered(s) \/ SaveRework(s)
  \/ Rejected(s) \/ Fail(s)

Next ==
  \/ ReadActivate \/ ReadAuditor \/ ReadAssign \/ ReadReport \/ ReadSteer
  \/ ReadReopen \/ ReadFollowUp
  \/ \E s \in Slots : Step(s)
  \/ ReviewTask \/ SaveDraft \/ Stop \/ Resume \/ StopWorker \/ AuditCycle
  \/ ProposeRework \/ Crash \/ CrashInSave

Spec == Init /\ [][Next]_vars

-----------------------------------------------------------------------------
(* What holds however the calls interleave.                                *)

\* Writing back a stale plan never stores a plan no operation could produce:
\* every stored version, and every plan a call still holds, is sound.
StoredSound ==
  /\ \A v \in DOMAIN versions : PlanSound(versions[v])
  /\ \A s \in DOMAIN calls : PlanSound(calls[s].plan)

\* An operation id takes effect at most once, however often a caller repeats it,
\* at the same time or after a failure, and its result is kept only if it did.
OnceOnly == \A i \in OpIds :
  /\ applied[i] <= 1
  /\ ledger[i] = "free" => applied[i] = 0
  /\ ledger[i] = "done" => applied[i] = 1

-----------------------------------------------------------------------------
(* What holds while every call takes the queue.                            *)

\* No call works on a plan that has changed since it read it.
NoStaleRead == \A s \in DOMAIN calls :
  calls[s].phase # "saved" => calls[s].plan = Active /\ calls[s].plan = Latest

\* Until an assign call has saved its plan nobody sees the links it changed.
ShownLink ==
  LET linking == {s \in DOMAIN calls : calls[s].phase \in {"claimed", "created"}}
  IN IF linking = {} THEN link ELSE calls[CHOOSE s \in linking : TRUE].links

Engine == INSTANCE AssignmentEngine WITH
  plan <- Active, link <- ShownLink, reporting <- [w \in Workers |-> TRUE],
  fresh <- [t \in Tasks |-> {}], submitted <- [t \in Tasks |-> {}],
  Evidence <- {}, WorksOnDraft <- TRUE, ScopeMayFail <- TRUE, Toggled <- {}

\* Queued calls are the one-step operations of AssignmentEngine.
ImplementsEngine == Engine!Spec

-----------------------------------------------------------------------------
(* What the source says of the calls, and they do not keep.                *)

\* requireActivePlan returns the latest durable version.
ActiveIsLatest == Active = Latest

\* A stopped Assignment stays as it is until the user resumes it.
StopSticks ==
  [][Active.status = "stopped" => Active' \in {Active, Resumed(Active)}]_vars

\* An operation that was claimed is under way: repeating its id will return a
\* result, never "in progress" for good.
ClaimedIsUnderWay == \A i \in OpIds :
  ledger[i] = "claimed" =>
    \E s \in DOMAIN calls : calls[s].id = i /\ calls[s].phase \in {"claimed", "created", "saved"}
=============================================================================
