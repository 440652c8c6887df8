--------------------------- MODULE AssignmentPlan ---------------------------
(***************************************************************************)
(* The Assignment plan record and the pure functions the engine rewrites   *)
(* it with (src/src/lib/engines/assignment-engine-tasks.ts and the plan    *)
(* literals of assignment-engine.ts and assignment-engine-audit-cycle.ts). *)
(*                                                                         *)
(* A plan is the JSON document one row of assignment_versions holds.       *)
(* Optional fields that the code tests with `undefined` are "none", FALSE, *)
(* 0 or NoThread here.  Left out as data no transition reads: titles,      *)
(* prompts, models, phases, worker scopes, annotations, timestamps and     *)
(* provenance.  A task's owner and dependencies come from the constants:   *)
(* an edited draft picks other task ids.                                   *)
(***************************************************************************)
EXTENDS Naturals, FiniteSets

CONSTANTS Tasks,        \* task ids a plan may contain
          Workers,      \* worker threads that may ever be created
          Coordinator,  \* the Sr. Engineer's thread
          NoThread,     \* an absent threadId
          Owner,        \* task.owner
          DependsOn     \* task.dependsOn

Threads == Workers \cup {Coordinator}

ASSUME PlanAssumption ==
  /\ Coordinator \notin Workers
  /\ NoThread \notin Threads
  /\ Owner \in [Tasks -> {"senior", "worker"}]
  /\ DependsOn \in [Tasks -> SUBSET Tasks]

PlanStatus  == {"draft", "approved", "running", "attention", "completed",
                "failed", "stopped"}
TaskStatus  == {"planned", "blocked", "ready", "running", "reported",
                "auditing", "rework", "attention", "completed", "failed",
                "stopped"}
CycleStatus == {"none", "available", "running", "failed", "report_ready",
                "planning_rework", "awaiting_rework_approval", "reworking",
                "completed", "stopped"}
Reports     == {"ready_for_audit", "blocked"}   \* "failed" is treated as "blocked"
Decisions   == {"pass", "rework", "fail"}
SignedOff   == {"approved", "running", "attention"}

Task  == [status : TaskStatus,
          prior  : (TaskStatus \ {"stopped"}) \cup {"none"},
          thread : Threads \cup {NoThread},
          report : Reports \cup {"none"},
          review : Decisions \cup {"none"}]

Cycle == [status      : CycleStatus,
          prior       : CycleStatus \ {"stopped"},
          scopeRepair : BOOLEAN,
          dismissed   : BOOLEAN,   \* offerDismissedAt
          reportId    : BOOLEAN,
          rework      : Nat]       \* reworkCycle

PlanOver(S) == [version : Nat \ {0},
                status  : PlanStatus,
                prior   : (PlanStatus \ {"stopped"}) \cup {"none"},
                tasks   : [S -> Task],
                cycle   : Cycle]
IsPlan(p)   == \E S \in SUBSET Tasks : p \in PlanOver(S)

NewTask == [status |-> "planned", prior |-> "none", thread |-> NoThread,
            report |-> "none", review |-> "none"]
NoCycle == [status |-> "none", prior |-> "none", scopeRepair |-> FALSE,
            dismissed |-> FALSE, reportId |-> FALSE, rework |-> 0]

(***************************************************************************)
(* Queries on a task graph.                                                *)
(***************************************************************************)
Completed(tasks)    == {t \in DOMAIN tasks : tasks[t].status = "completed"}
AllCompleted(tasks) == \A t \in DOMAIN tasks : tasks[t].status = "completed"
AnyWith(tasks, sts) == \E t \in DOMAIN tasks : tasks[t].status \in sts
DependencyStatus(t, done) == IF DependsOn[t] \subseteq done THEN "ready" ELSE "blocked"

\* The dependency rules of validateAssignment: no unknown dependency, no cycle.
ValidGraph(S) ==
  /\ S # {}
  /\ \E rank \in [S -> 1..Cardinality(S)] :
       \A t \in S : \A d \in DependsOn[t] : d \in S /\ rank[d] < rank[t]

(***************************************************************************)
(* The offered audit of a plan that no longer is a finished implementation *)
(* is dropped, with the whole cycle, by every write that settles the plan. *)
(***************************************************************************)
OfferStale(p) == /\ p.cycle.status = "available"
                 /\ ~(p.status = "completed" /\ AllCompleted(p.tasks))
Settle(p) == IF OfferStale(p) THEN [p EXCEPT !.cycle = NoCycle] ELSE p

\* replaceTask: one task and the plan status change.
ReplaceTask(p, t, task, status) ==
  Settle([p EXCEPT !.status = status, !.tasks[t] = task])

(***************************************************************************)
(* Drafting and sign-off.                                                  *)
(***************************************************************************)
DraftPlan(S) ==
  [version |-> 1, status |-> "draft", prior |-> "none",
   tasks |-> [t \in S |-> NewTask], cycle |-> NoCycle]

\* saveDraft keeps the graph the Studio was editing; a regenerated graph is new.
EditedDraft(p)         == Settle([p EXCEPT !.version = @ + 1])
RegeneratedDraft(p, S) == Settle([p EXCEPT !.version = @ + 1,
                                           !.tasks = [t \in S |-> NewTask]])

\* A rework activation restarts every task, a scope repair all but the completed.
\* Mutant: a scope repair restarts everything, as a rework does.
KeepsNothing(p) == {}
KeptByActivation(p) ==
  IF p.cycle.status = "awaiting_rework_approval" /\ p.cycle.scopeRepair
  THEN Completed(p.tasks) ELSE {}

\* Mutant: a scope repair forgets that kept tasks satisfy dependencies.
ActivatedAfresh(p) ==
  [t \in DOMAIN p.tasks |-> IF t \in KeptByActivation(p) THEN p.tasks[t]
                            ELSE [NewTask EXCEPT !.status = DependencyStatus(t, {})]]

ActivatedTasks(p) ==
  LET kept == KeptByActivation(p)
  IN [t \in DOMAIN p.tasks |->
        IF t \in kept THEN p.tasks[t]
        ELSE [NewTask EXCEPT !.status = DependencyStatus(t, kept)]]

Activated(p) ==
  [p EXCEPT !.status = "approved",
            !.tasks  = ActivatedTasks(p),
            !.cycle.status = IF @ = "awaiting_rework_approval" THEN "reworking" ELSE @]

(***************************************************************************)
(* Stop and resume.                                                        *)
(***************************************************************************)
\* Mutant: a task in review is not frozen.
StoppedUnlessReported(task) ==
  IF task.status \in {"completed", "reported"} THEN task
  ELSE [task EXCEPT !.status = "stopped", !.prior = "attention"]

\* Mutant: finished tasks are frozen like the others.
StoppedThoughDone(task) ==
  [task EXCEPT !.status = "stopped",
               !.prior  = IF task.status # "stopped" THEN task.status
                          ELSE IF task.prior = "none" THEN "attention"
                          ELSE task.prior]

StoppedTask(task) ==
  IF task.status = "completed" THEN task
  ELSE [task EXCEPT !.status = "stopped",
                    !.prior  = IF task.status # "stopped" THEN task.status
                               ELSE IF task.prior = "none" THEN "attention"
                               ELSE task.prior]

StoppedCycle(c) ==
  IF c.status \in {"none", "completed"} THEN c
  ELSE [c EXCEPT !.status = "stopped",
                 !.prior  = IF c.status # "stopped" THEN c.status
                            ELSE IF c.prior = "none" THEN "available"
                            ELSE c.prior]

Stopped(p) ==
  [p EXCEPT !.status = "stopped", !.prior = p.status,
            !.tasks  = [t \in DOMAIN p.tasks |-> StoppedTask(p.tasks[t])],
            !.cycle  = StoppedCycle(@)]

\* Mutant: an interrupted task comes back as running, with nobody running it.
ResumedVerbatim(task) ==
  IF task.status # "stopped" THEN task
  ELSE [task EXCEPT !.status = IF task.prior = "none" THEN "attention" ELSE task.prior,
                    !.prior  = "none"]

ResumedTask(task) ==
  IF task.status # "stopped" THEN task
  ELSE [task EXCEPT !.status = IF task.prior \in {"running", "none"} THEN "attention"
                               ELSE task.prior,
                    !.prior  = "none"]

ResumedStatus(p, tasks) ==
  LET previous == IF p.prior # "none" THEN p.prior
                  ELSE IF AllCompleted(tasks) THEN "completed" ELSE "attention"
  IN IF previous = "failed" \/ AnyWith(tasks, {"attention"}) THEN "attention" ELSE previous

ResumedCycle(c) ==
  IF c.status # "stopped" THEN c
  ELSE [c EXCEPT !.status = IF c.prior \in {"running", "none"} THEN "available" ELSE c.prior,
                 !.prior  = "none"]

Resumed(p) ==
  LET tasks == [t \in DOMAIN p.tasks |-> ResumedTask(p.tasks[t])]
  IN Settle([p EXCEPT !.status = ResumedStatus(p, tasks), !.prior = "none",
                      !.tasks = tasks, !.cycle = ResumedCycle(@)])

(***************************************************************************)
(* Work on tasks.                                                          *)
(***************************************************************************)
\* attention without a report: a worker that was stopped, not one that reported.
RetryingStopped(task) == task.status = "attention" /\ task.report = "none"
Assignable(task)      == task.status \in {"ready", "rework", "failed"} \/ RetryingStopped(task)
ReplacesWorker(task)  == task.status = "failed" \/ RetryingStopped(task)

\* The task as dispatch starts from it.
DispatchBase(task) ==
  IF ReplacesWorker(task)
  THEN [task EXCEPT !.report = "none", !.review = "none", !.thread = NoThread]
  ELSE IF task.status = "rework"
  THEN [task EXCEPT !.report = "none", !.review = "none"]
  ELSE task

Dispatched(task, thread) ==
  [DispatchBase(task) EXCEPT !.status = "running", !.thread = thread]

ReportedTask(task, report) ==
  [task EXCEPT !.report = report,
               !.status = IF report = "ready_for_audit" THEN "reported" ELSE "attention"]
ReportedPlan(p, t, report) ==
  ReplaceTask(p, t, ReportedTask(p.tasks[t], report),
              IF report = "ready_for_audit" THEN "running" ELSE "attention")

ReviewedTask(task, decision) ==
  [task EXCEPT !.review = decision,
               !.status = CASE decision = "pass"   -> "completed"
                            [] decision = "rework" -> "rework"
                            [] decision = "fail"   -> "failed"]

\* Mutant: a review promotes nobody.
NoneUnblocked(tasks) == tasks

Unblocked(tasks) ==
  [t \in DOMAIN tasks |->
     IF tasks[t].status = "blocked" /\ DependsOn[t] \subseteq Completed(tasks)
     THEN [tasks[t] EXCEPT !.status = "ready"] ELSE tasks[t]]

\* offerDismissedAt, reportId and scopeRepair survive the spread of the old cycle.
OfferedCycle(c) ==
  [c EXCEPT !.status = "available",
            !.rework = IF c.status = "reworking" /\ c.rework = 0 THEN 1 ELSE @]

Reviewed(p, t, decision) ==
  LET tasks == Unblocked([p.tasks EXCEPT ![t] = ReviewedTask(@, decision)])
      all   == AllCompleted(tasks)
  IN Settle([p EXCEPT !.status = IF all THEN "completed"
                                 ELSE IF AnyWith(tasks, {"failed"}) THEN "attention"
                                 ELSE "running",
                      !.tasks  = tasks,
                      !.cycle  = IF all THEN OfferedCycle(@) ELSE @])

WorkerStopped(p, t) ==
  ReplaceTask(p, t, [p.tasks[t] EXCEPT !.status = "attention"], "attention")

AlreadySteered(p, t) ==
  /\ p.status = "running" /\ p.tasks[t].status = "running"
  /\ p.tasks[t].report = "none" /\ p.tasks[t].review = "none"
\* Mutant: the review of a reopened task stays.
SteeredReviewed(p, t) ==
  [p.tasks EXCEPT ![t] = [@ EXCEPT !.status = "running", !.report = "none"]]

SteeredTasks(p, t) ==
  [p.tasks EXCEPT ![t] = [@ EXCEPT !.status = "running", !.report = "none",
                                   !.review = "none"]]
\* Mutant: reopening work leaves the audit on offer.
SteeredUnsettled(p, t) ==
  [p EXCEPT !.status = "running", !.tasks = SteeredTasks(p, t)]

SteeredPlan(p, t) ==
  LET tasks == SteeredTasks(p, t)
  IN Settle([p EXCEPT !.status = IF AnyWith(tasks, {"attention", "failed", "stopped"})
                                 THEN "attention" ELSE "running",
                      !.tasks = tasks])

(***************************************************************************)
(* Rework after an audit, and scope repair.                                *)
(***************************************************************************)
OrFirst(n) == IF n = 0 THEN 1 ELSE n   \* reworkCycle ?? 1

\* requireRework: a plan whose cycle is reworking, or becomes so.
ReworkAllowed(p) == /\ p.status \in {"completed", "running"}
                    /\ p.cycle.status \in {"reworking", "planning_rework"}
InRework(p) == IF p.cycle.status = "reworking" THEN p
               ELSE Settle([p EXCEPT !.cycle.status = "reworking",
                                     !.cycle.rework = OrFirst(@)])

ReopenedPlan(p, t) ==
  ReplaceTask(p, t, [p.tasks[t] EXCEPT !.status = "rework", !.report = "none",
                                       !.review = "none"], "running")

\* Mutant: a plan that gets a new task stays completed.
FollowUpUnopened(p, t) ==
  [p EXCEPT !.tasks = [u \in DOMAIN p.tasks \cup {t} |->
                         IF u = t THEN [NewTask EXCEPT !.status = "ready"] ELSE p.tasks[u]]]

FollowUpPlan(p, t) ==
  LET added == [NewTask EXCEPT !.status = DependencyStatus(t, Completed(p.tasks))]
  IN Settle([p EXCEPT !.status = "running",
                      !.tasks  = [u \in DOMAIN p.tasks \cup {t} |->
                                    IF u = t THEN added ELSE p.tasks[u]]])

AuditRework(p) == p.status = "completed" /\ p.cycle.status = "planning_rework"
ScopeRepair(p) == p.status \in SignedOff /\ AnyWith(p.tasks, {"rework"})
\* Mutant: a scope repair may be proposed while tasks run.
ProposedAnytime(p) == AuditRework(p) \/ ScopeRepair(p)

ProposalAllowed(p) ==
  /\ AuditRework(p) \/ ScopeRepair(p)
  /\ ScopeRepair(p) => ~AnyWith(p.tasks, {"running", "reported", "auditing"})

\* A scope repair keeps every existing task's live state, a rework none of it.
ProposedTasks(p, S) ==
  [t \in S |-> IF ScopeRepair(p) /\ t \in DOMAIN p.tasks
               THEN [p.tasks[t] EXCEPT !.prior = IF p.tasks[t].status = "completed"
                                                 THEN @ ELSE "none"]
               ELSE NewTask]

ProposedCycle(p) ==
  [p.cycle EXCEPT !.status = "awaiting_rework_approval",
                  !.scopeRepair = ScopeRepair(p),
                  !.rework = IF AuditRework(p) THEN OrFirst(@) ELSE @ + 1]

ReworkDraft(p, S) ==
  Settle([p EXCEPT !.version = @ + 1, !.status = "draft",
                   !.tasks = ProposedTasks(p, S), !.cycle = ProposedCycle(p)])

(***************************************************************************)
(* The audit cycle of a completed implementation.                          *)
(***************************************************************************)
InCycle(p, statuses)  == p.cycle.status \in statuses
CycleSaved(p, cycle)  == Settle([p EXCEPT !.cycle = cycle])

\* begin starts a new cycle object: the report and the rework count are dropped.
BeginAllowed(p)       == p.status = "completed" /\ InCycle(p, {"none", "available", "failed"})
Begun(p)              == CycleSaved(p, [NoCycle EXCEPT !.status = "running"])

BeginReworkAllowed(p) == p.status = "completed" /\ InCycle(p, {"report_ready", "planning_rework"})
BegunRework(p)        ==
  CycleSaved(p, [p.cycle EXCEPT !.status = "reworking",
                                !.rework = IF p.cycle.status = "planning_rework"
                                           THEN OrFirst(@) ELSE @ + 1])

RetractedStatus(c)    == IF c.reportId THEN "report_ready" ELSE "available"
Withdrawable          == {"running", "report_ready", "planning_rework", "reworking"}

(***************************************************************************)
(* What every stored plan satisfies, whoever wrote it.  AssignmentEngine   *)
(* states these of the active plan, AssignmentCalls of every stored        *)
(* version and of every snapshot a call still holds.                       *)
(***************************************************************************)
\* An offered audit and its plan agree that the implementation is finished.
OfferSound(p) ==
  p.cycle.status = "available" => p.status = "completed" /\ AllCompleted(p.tasks)

\* A completed plan has no open task, and an audit cycle that is its own.
FinishSound(p) ==
  p.status = "completed" =>
    /\ AllCompleted(p.tasks)
    /\ p.cycle.status \notin {"none", "awaiting_rework_approval", "stopped"}

\* Everything that is not finished is frozen in a stopped plan.
StopSound(p) ==
  p.status = "stopped" =>
    /\ \A t \in DOMAIN p.tasks : p.tasks[t].status \in {"completed", "stopped"}
    /\ p.cycle.status \in {"none", "completed", "stopped"}

\* Nothing is under way on a graph that waits for the user's sign-off.
DraftSound(p) ==
  p.status = "draft" => ~AnyWith(p.tasks, {"running", "reported"})

\* Work counts as done exactly while the review that passed it stands.
ReviewSound(p) ==
  \A t \in DOMAIN p.tasks :
    (p.tasks[t].status = "completed") <=> (p.tasks[t].review = "pass")

\* A stopped plan remembers a state it can safely be resumed to.
ResumeSound(p) ==
  /\ p.status = "stopped" =>
       /\ p.prior \notin {"none", "draft"}
       /\ p.prior = "completed" =>
            /\ AllCompleted(p.tasks)
            /\ p.cycle.status = "stopped"
            /\ p.cycle.prior \notin {"none", "awaiting_rework_approval"}
  /\ \A t \in DOMAIN p.tasks :
       p.tasks[t].status = "stopped" =>
         /\ p.tasks[t].prior # "completed"
         /\ p.status = "stopped" => p.tasks[t].prior # "none"

PlanSound(p) ==
  /\ IsPlan(p) /\ OfferSound(p) /\ FinishSound(p) /\ StopSound(p)
  /\ DraftSound(p) /\ ReviewSound(p) /\ ResumeSound(p)
=============================================================================
