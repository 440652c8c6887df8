-------------------------- MODULE AssignmentEngine --------------------------
(***************************************************************************)
(* AssignmentEngine (src/src/lib/engines/assignment-engine.ts and          *)
(* assignment-engine-audit-cycle.ts): one Assignment, from the draft a     *)
(* plan is born as to its accepted audit, with one action per engine       *)
(* operation that changes state.                                           *)
(*                                                                         *)
(* Here an operation is one step: it reads the active plan and saves the   *)
(* rewritten one with nothing in between, which is what holding the        *)
(* per-assignment lock for the whole call gives.  AssignmentCalls opens    *)
(* the same operations up at their awaits.                                 *)
(*                                                                         *)
(* A caller may call any operation at any time; it succeeds when its       *)
(* guard holds and throws, changing nothing, when it does not.             *)
(***************************************************************************)
EXTENDS AssignmentPlan

CONSTANTS Evidence,       \* the files a report must come with: baseline, check
          MaxVersion,     \* bound on plan versions
          MaxCycle,       \* bound on correction cycles
          SteersStopped,  \* BOOLEAN: a worker of a stopped plan may be steered
          WorksOnDraft,   \* BOOLEAN: task operations may be called on a draft
          ScopeMayFail,   \* BOOLEAN: a worker scope may turn out unavailable
          Toggled         \* the workers whose reporting control the user may touch

ASSUME EngineAssumption ==
  /\ MaxVersion \in Nat \ {0}
  /\ MaxCycle \in Nat
  /\ {SteersStopped, WorksOnDraft, ScopeMayFail} \subseteq BOOLEAN
  /\ Toggled \subseteq Workers
  /\ {"unused", "unlinked"} \cap Tasks = {}

VARIABLES plan,       \* the stored plan: assignment_versions at its active version
          link,       \* worker thread -> its assignmentTaskId
          reporting,  \* worker thread -> settings.reportToCoordinator
          fresh,      \* task -> evidence files written on its thread since it started
          submitted   \* task -> evidence submitted naming it since it started

vars == <<plan, link, reporting, fresh, submitted>>

(***************************************************************************)
(* A worker thread is "unused" before it is created and "unlinked" after   *)
(* the plan abandons it.                                                   *)
(***************************************************************************)
Link        == Tasks \cup {"unused", "unlinked"}
NoEvidence  == [t \in Tasks |-> {}]

TypeOK ==
  /\ IsPlan(plan)
  /\ link \in [Workers -> Link]
  /\ reporting \in [Workers -> BOOLEAN]
  /\ fresh \in [Tasks -> SUBSET Evidence]
  /\ submitted \in [Tasks -> SUBSET Evidence]

Init ==
  /\ \E S \in SUBSET Tasks : ValidGraph(S) /\ plan = DraftPlan(S)
  /\ link = [w \in Workers |-> "unused"]
  /\ reporting = [w \in Workers |-> TRUE]
  /\ fresh = NoEvidence
  /\ submitted = NoEvidence

PlanChanges(p) == plan' = p /\ UNCHANGED <<link, reporting, fresh, submitted>>

\* Mutant: the files of an earlier run keep counting.
StartsWithOldFiles(t) == submitted' = [submitted EXCEPT ![t] = {}] /\ UNCHANGED fresh

\* Starting a task sets startedAt: what was written before belongs to an earlier run.
Starts(t) == /\ fresh' = [fresh EXCEPT ![t] = {}]
             /\ submitted' = [submitted EXCEPT ![t] = {}]

\* What the callers of the task operations do not check: the status of the plan.
Workable == WorksOnDraft \/ plan.status # "draft"

-----------------------------------------------------------------------------
(* Drafting, sign-off, stop, resume.                                       *)

\* The Studio saves the graph it edits, the agent a graph it derived anew.
SaveDraft ==
  /\ plan.status = "draft" /\ plan.version < MaxVersion
  /\ \/ PlanChanges(EditedDraft(plan))
     \/ \E S \in SUBSET Tasks : ValidGraph(S) /\ PlanChanges(RegeneratedDraft(plan, S))

SyncDraftToSpec ==
  /\ plan.status = "draft" /\ plan.version < MaxVersion
  /\ \E S \in SUBSET Tasks : ValidGraph(S) /\ PlanChanges(RegeneratedDraft(plan, S))

Activate ==
  /\ plan.status = "draft"
  /\ ValidGraph(DOMAIN plan.tasks)
  /\ PlanChanges(Activated(plan))

\* Mutant: a stopped plan is stopped again.
StoppableAgain(p) == p.status # "draft"

Stoppable(p) == /\ p.status \notin {"stopped", "draft"}
                /\ ~(p.status = "completed" /\ p.cycle.status = "completed")
Stop == Stoppable(plan) /\ PlanChanges(Stopped(plan))

Resume == plan.status = "stopped" /\ PlanChanges(Resumed(plan))

-----------------------------------------------------------------------------
(* Dispatching tasks.                                                      *)

StaleWorker(t) ==
  LET w == plan.tasks[t].thread
  IN IF ReplacesWorker(plan.tasks[t]) /\ w \in Workers THEN {w} ELSE {}
\* Mutant: giving up one worker unlinks every worker of the Assignment.
UnlinkedEverybody(ws) ==
  [w \in Workers |-> IF ws # {} /\ link[w] # "unused" THEN "unlinked" ELSE link[w]]

UnlinkedAll(ws) == [w \in Workers |-> IF w \in ws THEN "unlinked" ELSE link[w]]

AssignOn(t, thread) ==
  plan' = ReplaceTask(plan, t, Dispatched(plan.tasks[t], thread), "running")

AssignSenior(t) ==
  /\ Owner[t] = "senior"
  /\ AssignOn(t, Coordinator)
  /\ UNCHANGED link

\* A rework goes back to the thread that knows the task.
AssignSameWorker(t) ==
  /\ Owner[t] = "worker" /\ DispatchBase(plan.tasks[t]).thread # NoThread
  /\ AssignOn(t, plan.tasks[t].thread)
  /\ UNCHANGED link

\* Mutant: the new worker is a thread that exists already.
AssignAnyWorker(t) ==
  /\ Owner[t] = "worker" /\ DispatchBase(plan.tasks[t]).thread = NoThread
  /\ \E w \in Workers \ StaleWorker(t) :
       /\ AssignOn(t, w)
       /\ link' = [UnlinkedAll(StaleWorker(t)) EXCEPT ![w] = t]

AssignNewWorker(t) ==
  /\ Owner[t] = "worker" /\ DispatchBase(plan.tasks[t]).thread = NoThread
  /\ \E w \in Workers :
       /\ link[w] = "unused"
       /\ AssignOn(t, w)
       /\ link' = [UnlinkedAll(StaleWorker(t)) EXCEPT ![w] = t]

AssignTask ==
  /\ Workable
  /\ \E t \in DOMAIN plan.tasks :
       /\ Assignable(plan.tasks[t])
       /\ AssignSenior(t) \/ AssignSameWorker(t) \/ AssignNewWorker(t)
       /\ Starts(t)
  /\ UNCHANGED reporting

\* provisionWorkerScope throws after the replaced worker was given up, or the
\* checklist cannot be written after the new one was created.
AssignTaskFails ==
  /\ Workable /\ ScopeMayFail
  /\ \E t \in DOMAIN plan.tasks :
       /\ Assignable(plan.tasks[t]) /\ Owner[t] = "worker"
       /\ DispatchBase(plan.tasks[t]).thread = NoThread
       /\ \/ link' = UnlinkedAll(StaleWorker(t))
          \/ \E w \in Workers :
               link[w] = "unused" /\ link' = [UnlinkedAll(StaleWorker(t)) EXCEPT ![w] = t]
  /\ UNCHANGED <<plan, reporting, fresh, submitted>>

-----------------------------------------------------------------------------
(* Evidence, reports and reviews.                                          *)

OwnsRunning(t, thread) ==
  /\ t \in DOMAIN plan.tasks
  /\ plan.tasks[t].thread = thread /\ plan.tasks[t].status = "running"
  /\ IF Owner[t] = "senior" THEN thread = Coordinator
     ELSE thread \in Workers /\ link[thread] = t

\* The file belongs to the thread: it is new for every task the thread runs.
SubmitEvidence ==
  /\ \E t \in DOMAIN plan.tasks, e \in Evidence :
       /\ OwnsRunning(t, plan.tasks[t].thread)
       /\ fresh' = [u \in Tasks |->
                      IF u \in DOMAIN plan.tasks /\ plan.tasks[u].thread = plan.tasks[t].thread
                      THEN fresh[u] \cup {e} ELSE fresh[u]]
       /\ submitted' = [submitted EXCEPT ![t] = @ \cup {e}]
  /\ UNCHANGED <<plan, link, reporting>>

ReportTask ==
  \E t \in DOMAIN plan.tasks, report \in Reports :
    /\ OwnsRunning(t, plan.tasks[t].thread)
    /\ Owner[t] = "worker" => reporting[plan.tasks[t].thread]
    /\ report = "ready_for_audit" => fresh[t] = Evidence
    /\ PlanChanges(ReportedPlan(plan, t, report))

ReviewTask ==
  /\ Workable
  /\ \E t \in DOMAIN plan.tasks, decision \in Decisions :
       /\ plan.tasks[t].status \in {"reported", "attention", "failed"}
       /\ PlanChanges(Reviewed(plan, t, decision))

StopWorker ==
  /\ Workable
  /\ \E t \in DOMAIN plan.tasks :
       /\ Owner[t] = "worker" /\ plan.tasks[t].thread \in Workers
       /\ plan.tasks[t].status \in {"running", "reported", "auditing", "rework"}
       /\ PlanChanges(WorkerStopped(plan, t))

MarkWorkerSteered ==
  /\ Workable
  /\ plan.status = "stopped" => SteersStopped
  /\ \E t \in DOMAIN plan.tasks :
       /\ Owner[t] = "worker" /\ plan.tasks[t].thread \in Workers
       /\ reporting[plan.tasks[t].thread]
       /\ ~AlreadySteered(plan, t)
       /\ plan' = SteeredPlan(plan, t)
       /\ Starts(t)
  /\ UNCHANGED <<link, reporting>>

\* The user switches a worker's hand-off on or off.
ToggleReporting ==
  /\ \E w \in Toggled : /\ link[w] # "unused"
                        /\ reporting' = [reporting EXCEPT ![w] = ~@]
  /\ UNCHANGED <<plan, link, fresh, submitted>>

-----------------------------------------------------------------------------
(* The audit cycle and the rework it leads to.                             *)

BeginAudit       == BeginAllowed(plan) /\ PlanChanges(Begun(plan))
FailAudit        == /\ plan.status = "completed" /\ InCycle(plan, {"running"})
                    /\ PlanChanges(CycleSaved(plan, [plan.cycle EXCEPT !.status = "failed"]))
ReportAudit      == /\ plan.status = "completed" /\ InCycle(plan, {"running"})
                    /\ PlanChanges(CycleSaved(plan, [plan.cycle EXCEPT !.status = "report_ready",
                                          !.reportId = TRUE]))
BeginAuditRework == /\ BeginReworkAllowed(plan)
                    /\ BegunRework(plan).cycle.rework <= MaxCycle
                    /\ PlanChanges(BegunRework(plan))
CompleteAudit    == /\ plan.status = "completed" /\ InCycle(plan, {"report_ready", "available"})
                    /\ PlanChanges(CycleSaved(plan, [plan.cycle EXCEPT !.status = "completed"]))
RetractAudit     == /\ plan.status = "completed" /\ InCycle(plan, {"completed"})
                    /\ PlanChanges(CycleSaved(plan,
                         [plan.cycle EXCEPT !.status = RetractedStatus(plan.cycle)]))
DismissOffer     == /\ InCycle(plan, {"available"}) /\ ~plan.cycle.dismissed
                    /\ PlanChanges(CycleSaved(plan, [plan.cycle EXCEPT !.dismissed = TRUE]))
RestoreOffer     == /\ plan.status = "completed" /\ InCycle(plan, {"available"})
                    /\ plan.cycle.dismissed
                    /\ PlanChanges(CycleSaved(plan, [plan.cycle EXCEPT !.dismissed = FALSE]))
MakeAvailable    == /\ plan.status = "completed" /\ InCycle(plan, Withdrawable)
                    /\ PlanChanges(CycleSaved(plan, [plan.cycle EXCEPT !.status = "available",
                                          !.dismissed = FALSE]))
AuditCycle ==
  \/ BeginAudit \/ FailAudit \/ ReportAudit \/ BeginAuditRework \/ CompleteAudit
  \/ RetractAudit \/ DismissOffer \/ RestoreOffer \/ MakeAvailable

ReopenCompletedTask ==
  /\ ReworkAllowed(plan)
  /\ \E t \in Completed(plan.tasks) : PlanChanges(ReopenedPlan(InRework(plan), t))

AppendFollowUpTask ==
  /\ ReworkAllowed(plan)
  /\ \E t \in Tasks \ DOMAIN plan.tasks :
       /\ ValidGraph(DOMAIN plan.tasks \cup {t})
       /\ PlanChanges(FollowUpPlan(InRework(plan), t))

\* Either the audit's findings or a running Assignment's own rework needs a new graph.
ProposeRework ==
  /\ ProposalAllowed(plan) /\ plan.version < MaxVersion
  /\ \E S \in SUBSET Tasks :
       /\ ValidGraph(S)
       /\ ScopeRepair(plan) => DOMAIN plan.tasks \subseteq S
       /\ ReworkDraft(plan, S).cycle.rework <= MaxCycle
       /\ PlanChanges(ReworkDraft(plan, S))

-----------------------------------------------------------------------------
Next ==
  \/ SaveDraft \/ SyncDraftToSpec \/ Activate \/ Stop \/ Resume
  \/ AssignTask \/ AssignTaskFails \/ SubmitEvidence \/ ReportTask
  \/ ReviewTask \/ StopWorker \/ MarkWorkerSteered \/ ToggleReporting
  \/ AuditCycle \/ ReopenCompletedTask \/ AppendFollowUpTask \/ ProposeRework

Spec == Init /\ [][Next]_vars
-----------------------------------------------------------------------------
(* Safety.                                                                 *)

\* settleAuditOffer: an offered audit and the plan it belongs to never disagree
\* about whether the implementation is finished, whichever operation reopens work.
AuditOfferSound == OfferSound(plan)

\* A plan is completed exactly by the review that completes its last task: the
\* status never outlives a reopened task and there is always an audit cycle.
CompletedSound == FinishSound(plan)

\* stop freezes everything that is not finished: no task of a stopped plan can
\* be dispatched, reported or reviewed, and no audit of it can run.
StoppedSound == StopSound(plan)

\* No work is under way on a graph that waits for the user's sign-off:
\* proposeAuditReworkDraft refuses while a task is running or in review.
DraftAtRest == DraftSound(plan)

\* The review and the status of a task never disagree: work counts as done
\* exactly while the review that passed it stands.
ReviewAgrees == ReviewSound(plan)

\* What stop remembers is a state the plan was in: resume never brings back a
\* draft, nor a completed plan that is not, nor finishes a task on its own.
StopRemembers == ResumeSound(plan)

\* Two tasks never share a worker: stopWorker and markWorkerSteered take the
\* first task whose thread matches and rely on it being the only one.
OneTaskPerWorker ==
  \A t, u \in DOMAIN plan.tasks :
    t # u /\ plan.tasks[t].thread \in Workers => plan.tasks[t].thread # plan.tasks[u].thread

\* The worker a running task waits for can hand it back: its thread is still
\* linked to the task, which reportTask and submitTaskTestEvidence insist on.
\* assignTask promises never to reuse the thread of an attempt it gave up.
RunningWorkerLinked ==
  \A t \in DOMAIN plan.tasks :
    Owner[t] = "worker" /\ plan.tasks[t].status = "running" =>
      plan.tasks[t].thread \in Workers /\ link[plan.tasks[t].thread] = t

\* unblockDependentTasks misses nobody: a task of a working plan is blocked only
\* while a dependency is unfinished.
BlockedForAReason ==
  plan.status \in SignedOff =>
    \A t \in DOMAIN plan.tasks :
      plan.tasks[t].status = "blocked" => ~(DependsOn[t] \subseteq Completed(plan.tasks))

\* A working plan never runs dry: somebody can still dispatch, run or review a
\* task of it, so its coordinator can bring it to completion.
WorkRemains ==
  plan.status \in SignedOff =>
    AnyWith(plan.tasks, {"ready", "rework", "running", "reported", "attention", "failed"})

\* Stop, then resume, loses no work and no review: every task is where it was,
\* an interrupted one wants attention, and an interrupted audit is on offer again.
StopResumeKeepsWork ==
  Stoppable(plan) =>
    LET p == Resumed(Stopped(plan))
        Kept(t) == [p.tasks[t] EXCEPT !.status = plan.tasks[t].status,
                                      !.prior  = plan.tasks[t].prior]
    IN /\ \A t \in DOMAIN plan.tasks :
            /\ Kept(t) = plan.tasks[t]
            /\ p.tasks[t].status = CASE plan.tasks[t].status = "running" -> "attention"
                                     [] OTHER -> plan.tasks[t].status
       /\ p.status \in {plan.status, "attention"}
       /\ plan.cycle.status \notin {"running", "stopped"} => p.cycle.status = plan.cycle.status
       /\ plan.cycle.status = "running" /\ p.status = "completed" => p.cycle.status = "available"

\* reportTask: a task handed over for audit comes with baseline and check
\* evidence submitted for that very task since its run started.
OwnEvidence ==
  \A t \in DOMAIN plan.tasks :
    plan.tasks[t].status = "reported" => submitted[t] = Evidence

-----------------------------------------------------------------------------
(* What a step may never do.                                               *)

\* Finished work of a signed-off plan is undone only by reopening that task
\* (reopen-task, a steered worker); stop, resume, reviews of other tasks and a
\* scope repair's sign-off keep it as it is.
WorkKeptStep ==
  plan.status # "draft" \/ (plan'.status = "approved" /\ plan.cycle.scopeRepair) =>
    \A t \in Completed(plan.tasks) :
      /\ t \in DOMAIN plan'.tasks
      /\ \/ plan'.tasks[t] = plan.tasks[t]
         \/ plan'.tasks[t].status \in {"rework", "running"} /\ plan'.tasks[t].review = "none"
WorkKept == [][WorkKeptStep]_vars

\* The next three are what the docs say, and the code does not keep.

\* Assignment approval is a human gate: only sign-off takes a plan out of draft.
SignOffRequired ==
  [][plan.status = "draft" => plan'.status \in {"draft", "approved"}]_vars

\* A stopped Assignment leaves that state only when the user resumes it, never
\* because a message reached one of its workers.
OnlyResumeRestarts ==
  [][plan.status = "stopped" /\ plan'.status # "stopped"
       => \A t \in DOMAIN plan'.tasks : plan'.tasks[t].status # "running"]_vars

\* A finished implementation is offered for audit in the open: making the audit
\* available again clears an earlier dismissal of the offer.
OfferReturnsVisible ==
  [][plan.status # "completed" /\ plan'.status = "completed"
       /\ plan'.cycle.status = "available" /\ plan.status # "stopped"
       => ~plan'.cycle.dismissed]_vars
=============================================================================
