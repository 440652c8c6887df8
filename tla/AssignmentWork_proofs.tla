------------------------ MODULE AssignmentWork_proofs ------------------------
(***************************************************************************)
(* What AssignmentEngine promises about the work itself: whose worker a    *)
(* task has, what evidence it was handed over with, that no blocked task   *)
(* is forgotten and no working plan runs dry, and that stop, resume and a  *)
(* scope repair lose nothing.                                              *)
(*                                                                         *)
(* Each theorem assumes of the switches only what its property needs, and  *)
(* most of them nothing.                                                   *)
(***************************************************************************)
EXTENDS AssignmentEngine_proofs, WellFoundedInduction

(***************************************************************************)
(* What the plan operators leave in the fields the invariants read.        *)
(***************************************************************************)
Fields == {"version", "status", "prior", "tasks", "cycle"}

LEMMA FieldsOfPlan ==
  ASSUME NEW p, PlanSound(p)
  PROVE  DOMAIN p = Fields
BY DEF PlanSound, IsPlan, PlanOver, Fields

LEMMA SettleKeeps ==
  ASSUME NEW p, DOMAIN p = Fields
  PROVE  /\ Settle(p).tasks = p.tasks /\ Settle(p).status = p.status
         /\ Settle(p).prior = p.prior /\ Settle(p).version = p.version
         /\ Settle(p).cycle = IF OfferStale(p) THEN NoCycle ELSE p.cycle
BY DEF Settle, Fields

LEMMA ReplaceTaskKeeps ==
  ASSUME NEW p, DOMAIN p = Fields, NEW t, NEW task, NEW status
  PROVE  /\ ReplaceTask(p, t, task, status).tasks = [p.tasks EXCEPT ![t] = task]
         /\ ReplaceTask(p, t, task, status).status = status
         /\ ReplaceTask(p, t, task, status).prior = p.prior
         /\ ReplaceTask(p, t, task, status).cycle \in {p.cycle, NoCycle}
<1> DEFINE q == [p EXCEPT !.status = status, !.tasks[t] = task]
<1>1. /\ q.tasks = [p.tasks EXCEPT ![t] = task] /\ q.status = status
      /\ q.prior = p.prior /\ q.cycle = p.cycle /\ DOMAIN q = Fields
  BY DEF Fields
<1>2. ReplaceTask(p, t, task, status) = Settle(q)
  BY DEF ReplaceTask
<1> HIDE DEF q
<1> QED
  BY <1>1, <1>2, SettleKeeps

LEMMA EditedDraftKeeps ==
  ASSUME NEW p, PlanSound(p), p.status = "draft"
  PROVE  /\ EditedDraft(p).tasks = p.tasks /\ EditedDraft(p).status = "draft"
         /\ EditedDraft(p).prior = p.prior /\ EditedDraft(p).cycle = p.cycle
<1> DEFINE q == [p EXCEPT !.version = @ + 1]
<1>1. /\ q.tasks = p.tasks /\ q.status = "draft" /\ q.prior = p.prior /\ q.cycle = p.cycle
      /\ DOMAIN q = Fields
  BY FieldsOfPlan DEF Fields
<1> HIDE DEF q
<1>2. ~OfferStale(q)
  BY <1>1 DEF OfferStale, PlanSound, OfferSound
<1> QED
  BY <1>1, <1>2, SettleKeeps DEF EditedDraft, q

LEMMA RegeneratedDraftKeeps ==
  ASSUME NEW p, PlanSound(p), p.status = "draft", NEW S
  PROVE  /\ RegeneratedDraft(p, S).tasks = [t \in S |-> NewTask]
         /\ RegeneratedDraft(p, S).status = "draft"
         /\ RegeneratedDraft(p, S).prior = p.prior
         /\ RegeneratedDraft(p, S).cycle = p.cycle
<1> DEFINE tasks == [t \in S |-> NewTask]
           v == p.version + 1
           q == [p EXCEPT !.version = v, !.tasks = tasks]
<1>1. RegeneratedDraft(p, S) = Settle(q)
  BY DEF RegeneratedDraft
<1> HIDE DEF tasks, v
<1>2. /\ q.tasks = tasks /\ q.status = "draft" /\ q.prior = p.prior /\ q.cycle = p.cycle
      /\ DOMAIN q = Fields
  BY FieldsOfPlan DEF Fields
<1> HIDE DEF q
<1>3. ~OfferStale(q)
  BY <1>2 DEF OfferStale, PlanSound, OfferSound
<1> QED
  BY <1>1, <1>2, <1>3, SettleKeeps DEF tasks

LEMMA ActivatedKeeps ==
  ASSUME NEW p, DOMAIN p = Fields
  PROVE  /\ Activated(p).tasks = ActivatedTasks(p) /\ Activated(p).status = "approved"
         /\ Activated(p).prior = p.prior
         /\ Activated(p).cycle = [p.cycle EXCEPT !.status =
              IF @ = "awaiting_rework_approval" THEN "reworking" ELSE @]
BY DEF Activated, Fields

LEMMA StoppedKeeps ==
  ASSUME NEW p, DOMAIN p = Fields
  PROVE  /\ Stopped(p).tasks = [t \in DOMAIN p.tasks |-> StoppedTask(p.tasks[t])]
         /\ Stopped(p).status = "stopped" /\ Stopped(p).prior = p.status
         /\ Stopped(p).cycle = StoppedCycle(p.cycle) /\ DOMAIN Stopped(p) = Fields
<1> DEFINE tasks == [t \in DOMAIN p.tasks |-> StoppedTask(p.tasks[t])]
           cycle == StoppedCycle(p.cycle)
           q == [p EXCEPT !.status = "stopped", !.prior = p.status, !.tasks = tasks,
                          !.cycle = cycle]
<1>1. Stopped(p) = q
  BY DEF Stopped
<1> HIDE DEF tasks, cycle
<1>2. /\ q.tasks = tasks /\ q.status = "stopped" /\ q.prior = p.status /\ q.cycle = cycle
      /\ DOMAIN q = Fields
  BY DEF Fields
<1> QED
  BY <1>1, <1>2 DEF tasks, cycle

LEMMA ResumedKeeps ==
  ASSUME NEW p, DOMAIN p = Fields
  PROVE  LET tasks == [t \in DOMAIN p.tasks |-> ResumedTask(p.tasks[t])]
             q     == Resumed(p)
         IN /\ q.tasks = tasks
            /\ q.status = ResumedStatus(p, tasks) /\ q.prior = "none"
            /\ q.cycle = IF /\ ResumedCycle(p.cycle).status = "available"
                            /\ ~(q.status = "completed" /\ AllCompleted(tasks))
                         THEN NoCycle ELSE ResumedCycle(p.cycle)
<1> DEFINE tasks  == [t \in DOMAIN p.tasks |-> ResumedTask(p.tasks[t])]
           cycle  == ResumedCycle(p.cycle)
           status == ResumedStatus(p, tasks)
           q      == [p EXCEPT !.status = status, !.prior = "none",
                               !.tasks = tasks, !.cycle = cycle]
<1>1. Resumed(p) = Settle(q)
  BY DEF Resumed
<1> HIDE DEF tasks, cycle, status
<1>2. /\ q.tasks = tasks /\ q.status = status /\ q.prior = "none" /\ q.cycle = cycle
      /\ DOMAIN q = Fields
  BY DEF Fields
<1> HIDE DEF q
<1>3. /\ Resumed(p).tasks = tasks /\ Resumed(p).status = status /\ Resumed(p).prior = "none"
      /\ Resumed(p).cycle = IF cycle.status = "available"
                               /\ ~(status = "completed" /\ AllCompleted(tasks))
                            THEN NoCycle ELSE cycle
  BY <1>1, <1>2, SettleKeeps DEF OfferStale
<1> QED
  BY <1>3 DEF tasks, cycle, status

LEMMA ReviewedKeeps ==
  ASSUME NEW p, DOMAIN p = Fields, NEW t, NEW decision
  PROVE  LET tasks == Unblocked([p.tasks EXCEPT ![t] = ReviewedTask(@, decision)])
             q     == Reviewed(p, t, decision)
         IN /\ q.tasks = tasks
            /\ q.status = IF AllCompleted(tasks) THEN "completed"
                          ELSE IF AnyWith(tasks, {"failed"}) THEN "attention" ELSE "running"
            /\ q.prior = p.prior
            /\ q.cycle \in {p.cycle, NoCycle, OfferedCycle(p.cycle)}
<1> DEFINE tasks  == Unblocked([p.tasks EXCEPT ![t] = ReviewedTask(@, decision)])
           cycle  == IF AllCompleted(tasks) THEN OfferedCycle(p.cycle) ELSE p.cycle
           status == IF AllCompleted(tasks) THEN "completed"
                     ELSE IF AnyWith(tasks, {"failed"}) THEN "attention" ELSE "running"
           q      == [p EXCEPT !.status = status, !.tasks = tasks, !.cycle = cycle]
<1>1. Reviewed(p, t, decision) = Settle(q)
  BY DEF Reviewed
<1>2. cycle \in {p.cycle, OfferedCycle(p.cycle)}
  OBVIOUS
<1> HIDE DEF tasks, cycle, status
<1>3. /\ q.tasks = tasks /\ q.status = status /\ q.prior = p.prior /\ q.cycle = cycle
      /\ DOMAIN q = Fields
  BY DEF Fields
<1> HIDE DEF q
<1>4. /\ Reviewed(p, t, decision).tasks = tasks /\ Reviewed(p, t, decision).status = status
      /\ Reviewed(p, t, decision).prior = p.prior
      /\ Reviewed(p, t, decision).cycle \in {p.cycle, NoCycle, OfferedCycle(p.cycle)}
  BY <1>1, <1>2, <1>3, SettleKeeps
<1> QED
  BY <1>4 DEF tasks, status

LEMMA SteeredKeeps ==
  ASSUME NEW p, DOMAIN p = Fields, NEW t
  PROVE  LET tasks == SteeredTasks(p, t)
         IN /\ SteeredPlan(p, t).tasks = tasks
            /\ SteeredPlan(p, t).status \in {"attention", "running"}
            /\ SteeredPlan(p, t).prior = p.prior
            /\ SteeredPlan(p, t).cycle \in {p.cycle, NoCycle}
<1> DEFINE tasks  == SteeredTasks(p, t)
           status == IF AnyWith(tasks, {"attention", "failed", "stopped"})
                     THEN "attention" ELSE "running"
           q      == [p EXCEPT !.status = status, !.tasks = tasks]
<1>1. SteeredPlan(p, t) = Settle(q)
  BY DEF SteeredPlan
<1>2. status \in {"attention", "running"}
  OBVIOUS
<1> HIDE DEF tasks, status
<1>3. /\ q.tasks = tasks /\ q.status = status /\ q.prior = p.prior /\ q.cycle = p.cycle
      /\ DOMAIN q = Fields
  BY DEF Fields
<1> HIDE DEF q
<1> QED
  BY <1>1, <1>2, <1>3, SettleKeeps DEF tasks

LEMMA InReworkKeeps ==
  ASSUME NEW p, PlanSound(p)
  PROVE  /\ InRework(p).tasks = p.tasks /\ InRework(p).status = p.status
         /\ InRework(p).prior = p.prior /\ InRework(p).cycle.status = "reworking"
         /\ InRework(p).cycle.prior = p.cycle.prior /\ DOMAIN InRework(p) = Fields
<1>1. CASE p.cycle.status = "reworking"
  BY <1>1, FieldsOfPlan DEF InRework
<1>2. CASE p.cycle.status # "reworking"
  <2> DEFINE n == OrFirst(p.cycle.rework)
             q == [p EXCEPT !.cycle.status = "reworking", !.cycle.rework = n]
  <2>1. DOMAIN p.cycle = {"status", "prior", "scopeRepair", "dismissed", "reportId", "rework"}
    BY DEF PlanSound, IsPlan, PlanOver, Cycle
  <2>2. InRework(p) = Settle(q)
    BY <1>2 DEF InRework
  <2> HIDE DEF n
  <2>3. /\ q.tasks = p.tasks /\ q.status = p.status /\ q.prior = p.prior
        /\ q.cycle.status = "reworking" /\ q.cycle.prior = p.cycle.prior
        /\ DOMAIN q = Fields
    BY <2>1, FieldsOfPlan DEF Fields
  <2> HIDE DEF q
  <2>4. Settle(q) = q
    BY <2>3 DEF Settle, OfferStale
  <2> QED
    BY <2>2, <2>3, <2>4
<1> QED
  BY <1>1, <1>2

LEMMA FollowUpKeeps ==
  ASSUME NEW p, DOMAIN p = Fields, NEW t
  PROVE  /\ FollowUpPlan(p, t).tasks =
              [u \in DOMAIN p.tasks \cup {t} |->
                 IF u = t THEN [NewTask EXCEPT !.status =
                                  DependencyStatus(t, Completed(p.tasks))]
                 ELSE p.tasks[u]]
         /\ FollowUpPlan(p, t).status = "running" /\ FollowUpPlan(p, t).prior = p.prior
         /\ FollowUpPlan(p, t).cycle \in {p.cycle, NoCycle}
<1> DEFINE added == [NewTask EXCEPT !.status = DependencyStatus(t, Completed(p.tasks))]
           tasks == [u \in DOMAIN p.tasks \cup {t} |-> IF u = t THEN added ELSE p.tasks[u]]
           q     == [p EXCEPT !.status = "running", !.tasks = tasks]
<1>1. FollowUpPlan(p, t) = Settle(q)
  BY DEF FollowUpPlan
<1> HIDE DEF tasks
<1>2. /\ q.tasks = tasks /\ q.status = "running" /\ q.prior = p.prior /\ q.cycle = p.cycle
      /\ DOMAIN q = Fields
  BY DEF Fields
<1> HIDE DEF q
<1> QED
  BY <1>1, <1>2, SettleKeeps DEF tasks

LEMMA ReworkDraftKeeps ==
  ASSUME NEW p, PlanSound(p), NEW S
  PROVE  /\ ReworkDraft(p, S).tasks = ProposedTasks(p, S)
         /\ ReworkDraft(p, S).status = "draft" /\ ReworkDraft(p, S).prior = p.prior
         /\ ReworkDraft(p, S).cycle.status = "awaiting_rework_approval"
         /\ ReworkDraft(p, S).cycle.prior = p.cycle.prior
         /\ ReworkDraft(p, S).cycle.scopeRepair = ScopeRepair(p)
<1> DEFINE tasks  == ProposedTasks(p, S)
           cycle  == ProposedCycle(p)
           v      == p.version + 1
           q      == [p EXCEPT !.version = v, !.status = "draft",
                               !.tasks = tasks, !.cycle = cycle]
<1>1. ReworkDraft(p, S) = Settle(q)
  BY DEF ReworkDraft
<1>2. DOMAIN p.cycle = {"status", "prior", "scopeRepair", "dismissed", "reportId", "rework"}
  BY DEF PlanSound, IsPlan, PlanOver, Cycle
<1>3. /\ cycle.status = "awaiting_rework_approval" /\ cycle.prior = p.cycle.prior
      /\ cycle.scopeRepair = ScopeRepair(p)
  BY <1>2 DEF ProposedCycle
<1> HIDE DEF tasks, cycle, v
<1>4. /\ q.tasks = tasks /\ q.status = "draft" /\ q.prior = p.prior /\ q.cycle = cycle
      /\ DOMAIN q = Fields
  BY FieldsOfPlan DEF Fields
<1> HIDE DEF q
<1>5. ~OfferStale(q)
  BY <1>3, <1>4 DEF OfferStale
<1> QED
  BY <1>1, <1>3, <1>4, <1>5, SettleKeeps DEF tasks

LEMMA CycleSavedKeeps ==
  ASSUME NEW p, DOMAIN p = Fields, NEW cycle
  PROVE  /\ CycleSaved(p, cycle).tasks = p.tasks /\ CycleSaved(p, cycle).status = p.status
         /\ CycleSaved(p, cycle).prior = p.prior
         /\ CycleSaved(p, cycle).cycle \in {cycle, NoCycle}
<1> DEFINE q == [p EXCEPT !.cycle = cycle]
<1>1. /\ q.tasks = p.tasks /\ q.status = p.status /\ q.prior = p.prior /\ q.cycle = cycle
      /\ DOMAIN q = Fields
  BY DEF Fields
<1>2. CycleSaved(p, cycle) = Settle(q)
  BY DEF CycleSaved
<1> HIDE DEF q
<1> QED
  BY <1>1, <1>2, SettleKeeps

(***************************************************************************)
(* Workers and evidence.                                                   *)
(*                                                                         *)
(* A thread a task names is linked to that task or was given up: that is   *)
(* what makes the worker of a task its own, and what a new worker, which   *)
(* is linked to nothing, cannot disturb.                                   *)
(***************************************************************************)
WorkerInv ==
  /\ OneTaskPerWorker
  /\ \A t \in DOMAIN plan.tasks :
       LET w == plan.tasks[t].thread
       IN /\ w \in Workers => link[w] \in {t, "unlinked"}
          /\ w \in IF Owner[t] = "senior" THEN {NoThread, Coordinator}
                   ELSE Workers \cup {NoThread}
          /\ plan.tasks[t].status = "running" => w # NoThread

\* No worker is given up while its task keeps it, unless a scope was unavailable.
LinkInv ==
  ~ScopeMayFail =>
    \A t \in DOMAIN plan.tasks :
      plan.tasks[t].thread \in Workers => link[plan.tasks[t].thread] = t

Handed(task) == \/ task.status = "reported"
                \/ task.status = "stopped" /\ task.prior = "reported"

\* The evidence of a task's thread is its own: a worker's always, the Sr. Engineer's
\* when there is only one senior task.
OwnFiles(t) == Owner[t] = "worker" \/ \A u \in Tasks \ {t} : Owner[u] = "worker"

EvidenceInv ==
  \A t \in Tasks :
    OwnFiles(t) =>
      /\ fresh[t] = submitted[t]
      /\ t \in DOMAIN plan.tasks /\ Handed(plan.tasks[t]) => submitted[t] = Evidence

WorkInv == PlanInv /\ WorkerInv /\ LinkInv /\ EvidenceInv

\* What every operation but a dispatch, a report and a steer does to each task: it
\* starts over without a worker, or keeps its thread and gets no further than it was.
NotStarted(task)   == task.thread = NoThread /\ task.status \notin {"running", "reported", "stopped"}
SameThread(task, old) == /\ task.thread = old.thread
                         /\ task.status = "running" => old.status = "running"
ThreadsKept(p, q) ==
  \A t \in DOMAIN q.tasks :
    \/ NotStarted(q.tasks[t])
    \/ t \in DOMAIN p.tasks /\ SameThread(q.tasks[t], p.tasks[t])
HandedKept(p, q) ==
  \A t \in DOMAIN q.tasks :
    Handed(q.tasks[t]) => t \in DOMAIN p.tasks /\ Handed(p.tasks[t])
Kin(p, q) == ThreadsKept(p, q) /\ HandedKept(p, q)

LEMMA SameTasksKin ==
  ASSUME NEW p, NEW q, q.tasks = p.tasks
  PROVE  Kin(p, q)
BY DEF Kin, ThreadsKept, HandedKept, SameThread

LEMMA NewTasksKin ==
  ASSUME NEW p, NEW q, NEW S, q.tasks = [t \in S |-> NewTask]
  PROVE  Kin(p, q)
BY DEF Kin, ThreadsKept, HandedKept, NotStarted, Handed, NewTask

LEMMA ActivatedKin ==
  ASSUME NEW p, PlanSound(p)
  PROVE  Kin(p, Activated(p))
<1>1. Activated(p).tasks = ActivatedTasks(p)
  BY FieldsOfPlan, ActivatedKeeps
<1>2. DOMAIN ActivatedTasks(p) = DOMAIN p.tasks
  BY DEF ActivatedTasks
<1>3. ASSUME NEW t \in DOMAIN p.tasks
      PROVE  ActivatedTasks(p)[t] = p.tasks[t] \/ NotStarted(ActivatedTasks(p)[t])
  BY DEF ActivatedTasks, NotStarted, NewTask, DependencyStatus
<1> QED
  BY <1>1, <1>2, <1>3 DEF Kin, ThreadsKept, HandedKept, SameThread, NotStarted, Handed

LEMMA StoppedKin ==
  ASSUME NEW p, PlanSound(p)
  PROVE  Kin(p, Stopped(p))
<1>1. Stopped(p).tasks = [t \in DOMAIN p.tasks |-> StoppedTask(p.tasks[t])]
  BY FieldsOfPlan, StoppedKeeps
<1>2. ASSUME NEW task \in Task
      PROVE  /\ SameThread(StoppedTask(task), task)
             /\ Handed(StoppedTask(task)) => Handed(task)
  BY DEF StoppedTask, SameThread, Handed, Task
<1> QED
  BY <1>1, <1>2, TasksOfSoundPlan DEF Kin, ThreadsKept, HandedKept

LEMMA ResumedKin ==
  ASSUME NEW p, PlanSound(p)
  PROVE  Kin(p, Resumed(p))
<1>1. Resumed(p).tasks = [t \in DOMAIN p.tasks |-> ResumedTask(p.tasks[t])]
  BY FieldsOfPlan, ResumedKeeps
<1>2. ASSUME NEW task \in Task
      PROVE  /\ SameThread(ResumedTask(task), task)
             /\ Handed(ResumedTask(task)) => Handed(task)
  BY DEF ResumedTask, SameThread, Handed, Task, TaskStatus
<1> QED
  BY <1>1, <1>2, TasksOfSoundPlan DEF Kin, ThreadsKept, HandedKept

\* One task is rewritten, on its thread and without starting or reporting it.
LEMMA ReplacedKin ==
  ASSUME NEW p, PlanSound(p), NEW t \in DOMAIN p.tasks, NEW task, NEW status,
         task.thread = p.tasks[t].thread,
         task.status \notin {"running", "reported", "stopped"}
  PROVE  Kin(p, ReplaceTask(p, t, task, status))
<1>1. ReplaceTask(p, t, task, status).tasks = [p.tasks EXCEPT ![t] = task]
  BY FieldsOfPlan, ReplaceTaskKeeps
<1> QED
  BY <1>1 DEF Kin, ThreadsKept, HandedKept, SameThread, Handed

LEMMA ReviewedKin ==
  ASSUME NEW p, PlanSound(p), NEW t \in DOMAIN p.tasks, NEW decision \in Decisions
  PROVE  Kin(p, Reviewed(p, t, decision))
<1> DEFINE reviewed == [p.tasks EXCEPT ![t] = ReviewedTask(@, decision)]
<1>1. Reviewed(p, t, decision).tasks = Unblocked(reviewed)
  BY FieldsOfPlan, ReviewedKeeps
<1>2. PICK S \in SUBSET Tasks : /\ DOMAIN p.tasks = S
                               /\ \A u \in S : p.tasks[u] \in Task
  BY TasksOfSoundPlan
<1>3. /\ ReviewedTask(p.tasks[t], decision).thread = p.tasks[t].thread
      /\ ReviewedTask(p.tasks[t], decision).status \in {"completed", "rework", "failed"}
      /\ ReviewedTask(p.tasks[t], decision) \in Task
  <2> DEFINE task   == p.tasks[t]
             status == CASE decision = "pass"   -> "completed"
                         [] decision = "rework" -> "rework"
                         [] decision = "fail"   -> "failed"
  <2>1. status \in {"completed", "rework", "failed"}
    BY DEF Decisions
  <2>2. ReviewedTask(task, decision) = [task EXCEPT !.review = decision, !.status = status]
    BY DEF ReviewedTask
  <2>3. task \in Task /\ ReviewedTask(task, decision) \in Task
    BY <1>2, ReviewedTaskSound
  <2> HIDE DEF status, task
  <2>4. /\ ReviewedTask(task, decision).thread = task.thread
        /\ ReviewedTask(task, decision).status = status
    BY <2>2, <2>3 DEF Task
  <2> QED
    BY <2>1, <2>3, <2>4 DEF task
<1>4. ASSUME NEW u \in S
      PROVE  /\ reviewed[u] \in Task
             /\ SameThread(reviewed[u], p.tasks[u])
             /\ Handed(reviewed[u]) => Handed(p.tasks[u])
  BY <1>2, <1>3 DEF SameThread, Handed
<1>5. DOMAIN reviewed = S
  BY <1>2
<1> HIDE DEF reviewed
<1>6. ASSUME NEW u \in S
      PROVE  /\ SameThread(Unblocked(reviewed)[u], reviewed[u])
             /\ Handed(Unblocked(reviewed)[u]) => Handed(reviewed[u])
  <2>1. Unblocked(reviewed)[u] = reviewed[u]
        \/ Unblocked(reviewed)[u] = [reviewed[u] EXCEPT !.status = "ready"]
    BY <1>5 DEF Unblocked
  <2> QED
    BY <1>4, <2>1 DEF SameThread, Handed, Task
<1>7. DOMAIN Unblocked(reviewed) = S
  BY <1>5 DEF Unblocked
<1> QED
  BY <1>1, <1>2, <1>4, <1>6, <1>7 DEF Kin, ThreadsKept, HandedKept, SameThread

LEMMA FollowUpKin ==
  ASSUME NEW p, PlanSound(p), NEW t, NEW q, PlanSound(q), q.tasks = p.tasks
  PROVE  Kin(p, FollowUpPlan(q, t))
<1> DEFINE added == [NewTask EXCEPT !.status = DependencyStatus(t, Completed(q.tasks))]
<1>1. FollowUpPlan(q, t).tasks = [u \in DOMAIN q.tasks \cup {t} |->
                                    IF u = t THEN added ELSE q.tasks[u]]
  BY FieldsOfPlan, FollowUpKeeps
<1>2. NotStarted(added) /\ ~Handed(added)
  BY DEF NotStarted, Handed, NewTask, DependencyStatus
<1> HIDE DEF added
<1> QED
  BY <1>1, <1>2 DEF Kin, ThreadsKept, HandedKept, SameThread

LEMMA ReworkDraftKin ==
  ASSUME NEW p, PlanSound(p), ProposalAllowed(p), NEW S
  PROVE  Kin(p, ReworkDraft(p, S))
<1>1. ReworkDraft(p, S).tasks = ProposedTasks(p, S) /\ DOMAIN ProposedTasks(p, S) = S
  BY ReworkDraftKeeps DEF ProposedTasks
<1>2. ASSUME NEW t \in S
      PROVE  \/ NotStarted(ProposedTasks(p, S)[t])
             \/ /\ t \in DOMAIN p.tasks
                /\ SameThread(ProposedTasks(p, S)[t], p.tasks[t])
                /\ ~Handed(ProposedTasks(p, S)[t])
  <2>1. CASE ScopeRepair(p) /\ t \in DOMAIN p.tasks
    <3> DEFINE prior == IF p.tasks[t].status = "completed" THEN p.tasks[t].prior ELSE "none"
    <3>1. ProposedTasks(p, S)[t] = [p.tasks[t] EXCEPT !.prior = prior]
      BY <2>1 DEF ProposedTasks
    <3>2. p.tasks[t] \in Task /\ p.tasks[t].status # "reported"
      BY <2>1, TasksOfSoundPlan DEF ProposalAllowed, AnyWith
    <3>3. p.tasks[t].status # "completed" => prior = "none"
      OBVIOUS
    <3> HIDE DEF prior
    <3> QED
      BY <2>1, <3>1, <3>2, <3>3 DEF SameThread, Handed, Task
  <2>2. CASE ~(ScopeRepair(p) /\ t \in DOMAIN p.tasks)
    BY <2>2 DEF ProposedTasks, NotStarted, NewTask
  <2> QED
    BY <2>1, <2>2
<1> QED
  BY <1>1, <1>2 DEF Kin, ThreadsKept, HandedKept, NotStarted, Handed

LEMMA ThreadOfTask ==
  ASSUME PlanInv, NEW t \in DOMAIN plan.tasks
  PROVE  /\ t \in Tasks /\ Owner[t] \in {"senior", "worker"}
         /\ t \notin {"unused", "unlinked"} /\ plan.tasks[t] \in Task
         /\ NoThread \notin Workers /\ Coordinator \notin Workers /\ NoThread # Coordinator
BY TasksTyped, PlanAssumption, EngineAssumption DEF Threads

LEMMA WorkersKept ==
  ASSUME PlanInv, WorkerInv, LinkInv, PlanInv', UNCHANGED link, ThreadsKept(plan, plan')
  PROVE  WorkerInv' /\ LinkInv'
<1>1. ASSUME NEW t \in DOMAIN plan'.tasks
      PROVE  /\ t \in Tasks /\ Owner[t] \in {"senior", "worker"}
             /\ NoThread \notin Workers
             /\ \/ NotStarted(plan'.tasks[t])
                \/ t \in DOMAIN plan.tasks /\ SameThread(plan'.tasks[t], plan.tasks[t])
  <2>1. DOMAIN plan'.tasks \subseteq Tasks
    BY TasksOfSoundPlan DEF PlanInv
  <2> QED
    BY <2>1, PlanAssumption DEF ThreadsKept, Threads
<1>2. OneTaskPerWorker'
  BY <1>1 DEF WorkerInv, OneTaskPerWorker, NotStarted, SameThread
<1>3. ASSUME NEW t \in DOMAIN plan'.tasks
      PROVE  LET w == plan'.tasks[t].thread
             IN /\ w \in Workers => link'[w] \in {t, "unlinked"}
                /\ w \in IF Owner[t] = "senior" THEN {NoThread, Coordinator}
                         ELSE Workers \cup {NoThread}
                /\ plan'.tasks[t].status = "running" => w # NoThread
  BY <1>1 DEF WorkerInv, NotStarted, SameThread
<1>4. LinkInv'
  BY <1>1 DEF LinkInv, NotStarted, SameThread
<1> QED
  BY <1>2, <1>3, <1>4 DEF WorkerInv

LEMMA EvidenceKept ==
  ASSUME PlanInv, EvidenceInv, UNCHANGED <<fresh, submitted>>, HandedKept(plan, plan')
  PROVE  EvidenceInv'
BY DEF EvidenceInv, HandedKept, OwnFiles

LEMMA KinKeepsWork ==
  ASSUME WorkInv, PlanInv', NEW q, PlanChanges(q), Kin(plan, q)
  PROVE  WorkInv'
BY WorkersKept, EvidenceKept DEF WorkInv, PlanChanges, Kin

\* A task that starts anew has no evidence yet and is not handed over.
LEMMA StartKeepsEvidence ==
  ASSUME PlanInv, EvidenceInv, NEW t \in DOMAIN plan.tasks, NEW task, task.status = "running",
         plan'.tasks = [plan.tasks EXCEPT ![t] = task], Starts(t)
  PROVE  EvidenceInv'
<1>1. fresh \in [Tasks -> SUBSET Evidence] /\ submitted \in [Tasks -> SUBSET Evidence]
  BY DEF PlanInv, TypeOK
<1>2. t \in Tasks
  BY ThreadOfTask
<1>3. /\ fresh'[t] = {} /\ submitted'[t] = {}
      /\ \A u \in Tasks \ {t} : fresh'[u] = fresh[u] /\ submitted'[u] = submitted[u]
  BY <1>1, <1>2 DEF Starts
<1>4. DOMAIN plan'.tasks = DOMAIN plan.tasks /\ plan'.tasks[t] = task
      /\ \A u \in DOMAIN plan.tasks \ {t} : plan'.tasks[u] = plan.tasks[u]
  OBVIOUS
<1>5. ~Handed(plan'.tasks[t])
  BY <1>4 DEF Handed
<1> QED
  BY <1>3, <1>4, <1>5 DEF EvidenceInv, OwnFiles

LEMMA AssignKeepsWork ==
  ASSUME WorkInv, AssignTask, PlanInv'
  PROVE  WorkInv'
<1>1. PICK t \in DOMAIN plan.tasks :
        /\ Assignable(plan.tasks[t])
        /\ AssignSenior(t) \/ AssignSameWorker(t) \/ AssignNewWorker(t)
        /\ Starts(t)
  BY DEF AssignTask
<1>2. PlanInv /\ WorkerInv /\ LinkInv /\ EvidenceInv
  BY DEF WorkInv
<1>3. /\ t \in Tasks /\ Owner[t] \in {"senior", "worker"} /\ plan.tasks[t] \in Task
      /\ t \notin {"unused", "unlinked"}
      /\ NoThread \notin Workers /\ Coordinator \notin Workers /\ NoThread # Coordinator
      /\ TaskSound(plan.tasks[t])
  BY <1>2, ThreadOfTask, TasksTyped
<1>4. ASSUME NEW thread \in Threads, AssignOn(t, thread)
      PROVE  /\ DOMAIN plan'.tasks = DOMAIN plan.tasks
             /\ plan'.tasks[t].thread = thread /\ plan'.tasks[t].status = "running"
             /\ \A u \in DOMAIN plan.tasks \ {t} : plan'.tasks[u] = plan.tasks[u]
             /\ EvidenceInv'
  <2> DEFINE task == Dispatched(plan.tasks[t], thread)
  <2>1. plan'.tasks = [plan.tasks EXCEPT ![t] = task]
    BY <1>2, <1>4, FieldsOfPlan, ReplaceTaskKeeps DEF AssignOn, PlanInv
  <2>2. task.thread = thread /\ task.status = "running"
    BY <1>1, <1>3, DispatchedSound
  <2> HIDE DEF task
  <2> QED
    BY <1>1, <1>2, <2>1, <2>2, StartKeepsEvidence
<1>5. CASE AssignSenior(t)
  <2>1. /\ DOMAIN plan'.tasks = DOMAIN plan.tasks
        /\ plan'.tasks[t].thread = Coordinator /\ plan'.tasks[t].status = "running"
        /\ \A u \in DOMAIN plan.tasks \ {t} : plan'.tasks[u] = plan.tasks[u]
        /\ EvidenceInv'
    BY <1>4, <1>5 DEF AssignSenior, Threads
  <2>2. Owner[t] = "senior" /\ link' = link
    BY <1>5 DEF AssignSenior
  <2>3. WorkerInv'
    BY <1>2, <1>3, <2>1, <2>2 DEF WorkerInv, OneTaskPerWorker
  <2>4. LinkInv'
    BY <1>2, <1>3, <2>1, <2>2 DEF LinkInv
  <2> QED
    BY <2>1, <2>3, <2>4 DEF WorkInv
<1>6. CASE AssignSameWorker(t)
  <2>1. DispatchBase(plan.tasks[t]).thread = plan.tasks[t].thread
        /\ plan.tasks[t].thread \in Threads
    BY <1>3, <1>6 DEF AssignSameWorker, DispatchBase, Task
  <2>2. /\ DOMAIN plan'.tasks = DOMAIN plan.tasks
        /\ plan'.tasks[t].thread = plan.tasks[t].thread /\ plan'.tasks[t].status = "running"
        /\ \A u \in DOMAIN plan.tasks \ {t} : plan'.tasks[u] = plan.tasks[u]
        /\ EvidenceInv'
    BY <1>4, <1>6, <2>1 DEF AssignSameWorker
  <2>3. plan.tasks[t].thread # NoThread /\ link' = link
    BY <1>6, <2>1 DEF AssignSameWorker
  <2>4. WorkerInv'
    BY <1>2, <1>3, <2>2, <2>3 DEF WorkerInv, OneTaskPerWorker
  <2>5. LinkInv'
    BY <1>2, <1>3, <2>2, <2>3 DEF LinkInv
  <2> QED
    BY <2>2, <2>4, <2>5 DEF WorkInv
<1>7. CASE AssignNewWorker(t)
  <2>1. PICK w \in Workers :
          /\ link[w] = "unused"
          /\ AssignOn(t, w)
          /\ link' = [UnlinkedAll(StaleWorker(t)) EXCEPT ![w] = t]
    BY <1>7 DEF AssignNewWorker
  <2>2. Owner[t] = "worker"
    BY <1>7 DEF AssignNewWorker
  <2>3. /\ DOMAIN plan'.tasks = DOMAIN plan.tasks
        /\ plan'.tasks[t].thread = w /\ plan'.tasks[t].status = "running"
        /\ \A u \in DOMAIN plan.tasks \ {t} : plan'.tasks[u] = plan.tasks[u]
        /\ EvidenceInv'
    BY <1>4, <2>1 DEF Threads
  <2>4. ASSUME NEW u \in DOMAIN plan.tasks
        PROVE  plan.tasks[u].thread # w
    BY <1>2, <2>1, ThreadOfTask DEF WorkerInv
  <2>5. /\ link'[w] = t
        /\ \A x \in Workers \ {w} : link'[x] = IF x \in StaleWorker(t) THEN "unlinked" ELSE link[x]
    BY <2>1 DEF UnlinkedAll
  <2>6. StaleWorker(t) \subseteq {plan.tasks[t].thread}
    BY DEF StaleWorker
  <2>7. WorkerInv'
    BY <1>2, <1>3, <2>2, <2>3, <2>4, <2>5 DEF WorkerInv, OneTaskPerWorker
  <2>8. LinkInv'
    <3>1. ASSUME NEW u \in DOMAIN plan.tasks, u # t, plan.tasks[u].thread \in Workers
          PROVE  plan.tasks[u].thread \notin StaleWorker(t)
      BY <1>2, <2>6, <3>1 DEF WorkerInv, OneTaskPerWorker
    <3> QED
      BY <1>2, <2>3, <2>4, <2>5, <3>1 DEF LinkInv
  <2> QED
    BY <2>3, <2>7, <2>8 DEF WorkInv
<1> QED
  BY <1>1, <1>5, <1>6, <1>7

LEMMA AssignFailsKeepsWork ==
  ASSUME WorkInv, AssignTaskFails, PlanInv'
  PROVE  WorkInv'
<1>1. PICK t \in DOMAIN plan.tasks :
        \/ link' = UnlinkedAll(StaleWorker(t))
        \/ \E w \in Workers :
             link[w] = "unused" /\ link' = [UnlinkedAll(StaleWorker(t)) EXCEPT ![w] = t]
  BY DEF AssignTaskFails
<1>2. ScopeMayFail /\ UNCHANGED <<plan, fresh, submitted>>
  BY DEF AssignTaskFails
<1>3. ASSUME NEW u \in DOMAIN plan.tasks, plan.tasks[u].thread \in Workers
      PROVE  link'[plan.tasks[u].thread] \in {u, "unlinked"}
  <2>1. link[plan.tasks[u].thread] \in {u, "unlinked"} /\ u # "unused"
    BY <1>3, ThreadOfTask DEF WorkInv, WorkerInv
  <2> QED
    BY <1>1, <1>3, <2>1 DEF UnlinkedAll
<1>4. WorkerInv'
  BY <1>2, <1>3 DEF WorkInv, WorkerInv, OneTaskPerWorker
<1>5. EvidenceInv' /\ LinkInv'
  BY <1>2 DEF WorkInv, EvidenceInv, LinkInv
<1> QED
  BY <1>4, <1>5 DEF WorkInv

\* A file written on a thread counts for every task of the thread: where the thread
\* has only the task it is submitted for, the two never differ.
LEMMA SubmitKeepsWork ==
  ASSUME WorkInv, SubmitEvidence, PlanInv'
  PROVE  WorkInv'
<1>1. PICK t \in DOMAIN plan.tasks, e \in Evidence :
        /\ OwnsRunning(t, plan.tasks[t].thread)
        /\ fresh' = [u \in Tasks |->
                       IF u \in DOMAIN plan.tasks /\ plan.tasks[u].thread = plan.tasks[t].thread
                       THEN fresh[u] \cup {e} ELSE fresh[u]]
        /\ submitted' = [submitted EXCEPT ![t] = @ \cup {e}]
  BY DEF SubmitEvidence
<1>2. UNCHANGED <<plan, link>>
  BY DEF SubmitEvidence
<1>3. submitted \in [Tasks -> SUBSET Evidence] /\ t \in Tasks
  BY TasksTyped DEF WorkInv, PlanInv, TypeOK
<1>4. submitted'[t] = submitted[t] \cup {e}
      /\ \A u \in Tasks \ {t} : submitted'[u] = submitted[u]
  BY <1>1, <1>3
<1>5. ASSUME NEW u \in Tasks, OwnFiles(u), u # t, u \in DOMAIN plan.tasks
      PROVE  plan.tasks[u].thread # plan.tasks[t].thread
  <2>1. CASE Owner[t] = "senior"
    <3>1. plan.tasks[t].thread = Coordinator
      BY <1>1, <2>1 DEF OwnsRunning
    <3>2. Owner[u] = "worker"
      BY <1>3, <1>5, <2>1 DEF OwnFiles
    <3>3. plan.tasks[u].thread \in Workers \cup {NoThread}
      BY <1>5, <3>2 DEF WorkInv, WorkerInv
    <3> QED
      BY <3>1, <3>3, PlanAssumption DEF Threads
  <2>2. CASE Owner[t] # "senior"
    BY <1>1, <1>5, <2>2 DEF OwnsRunning, WorkInv, WorkerInv, OneTaskPerWorker
  <2> QED
    BY <2>1, <2>2
<1>6. ASSUME NEW u \in Tasks, OwnFiles(u)
      PROVE  fresh'[u] = submitted'[u]
  <2>1. fresh[u] = submitted[u]
    BY <1>6 DEF WorkInv, EvidenceInv
  <2>2. CASE u = t
    BY <1>1, <1>4, <2>1, <2>2
  <2>3. CASE u # t
    BY <1>1, <1>4, <1>5, <1>6, <2>1, <2>3
  <2> QED
    BY <2>2, <2>3
<1>7. ~Handed(plan.tasks[t])
  BY <1>1 DEF OwnsRunning, Handed
<1>8. EvidenceInv'
  BY <1>2, <1>4, <1>6, <1>7 DEF WorkInv, EvidenceInv, OwnFiles
<1>9. WorkerInv' /\ LinkInv'
  BY <1>2 DEF WorkInv, WorkerInv, OneTaskPerWorker, LinkInv
<1> QED
  BY <1>8, <1>9 DEF WorkInv

LEMMA ReportKeepsWork ==
  ASSUME WorkInv, ReportTask, PlanInv'
  PROVE  WorkInv'
<1>1. PICK t \in DOMAIN plan.tasks, report \in Reports :
        /\ OwnsRunning(t, plan.tasks[t].thread)
        /\ report = "ready_for_audit" => fresh[t] = Evidence
        /\ PlanChanges(ReportedPlan(plan, t, report))
  BY DEF ReportTask
<1> DEFINE task == ReportedTask(plan.tasks[t], report)
<1>2. plan'.tasks = [plan.tasks EXCEPT ![t] = task]
  BY <1>1, FieldsOfPlan, ReplaceTaskKeeps DEF PlanChanges, ReportedPlan, WorkInv, PlanInv
<1>3. /\ task.thread = plan.tasks[t].thread
      /\ task.status = IF report = "ready_for_audit" THEN "reported" ELSE "attention"
  <2> DEFINE status == IF report = "ready_for_audit" THEN "reported" ELSE "attention"
  <2>1. task = [plan.tasks[t] EXCEPT !.report = report, !.status = status]
    BY DEF ReportedTask
  <2>2. plan.tasks[t] \in Task
    BY TasksTyped DEF WorkInv
  <2> HIDE DEF status, task
  <2>3. task.thread = plan.tasks[t].thread /\ task.status = status
    BY <2>1, <2>2 DEF Task
  <2> QED
    BY <2>3 DEF status
<1> HIDE DEF task
<1>4. ThreadsKept(plan, plan')
  BY <1>2, <1>3 DEF ThreadsKept, SameThread
<1>5. WorkerInv' /\ LinkInv'
  BY <1>1, <1>4, WorkersKept DEF WorkInv, PlanChanges
<1>6. EvidenceInv'
  <2>1. UNCHANGED <<fresh, submitted>>
    BY <1>1 DEF PlanChanges
  <2>2. ASSUME NEW u \in Tasks, OwnFiles(u), u \in DOMAIN plan'.tasks, Handed(plan'.tasks[u])
        PROVE  submitted[u] = Evidence
    BY <1>1, <1>2, <1>3, <2>2 DEF WorkInv, EvidenceInv, Handed
  <2> QED
    BY <2>1, <2>2 DEF WorkInv, EvidenceInv, OwnFiles
<1> QED
  BY <1>5, <1>6 DEF WorkInv

LEMMA SteerKeepsWork ==
  ASSUME WorkInv, MarkWorkerSteered, PlanInv'
  PROVE  WorkInv'
<1>1. PICK t \in DOMAIN plan.tasks :
        /\ Owner[t] = "worker" /\ plan.tasks[t].thread \in Workers
        /\ plan' = SteeredPlan(plan, t)
        /\ Starts(t)
  BY DEF MarkWorkerSteered
<1> DEFINE task == [plan.tasks[t] EXCEPT !.status = "running", !.report = "none",
                                         !.review = "none"]
<1>2. plan'.tasks = [plan.tasks EXCEPT ![t] = task]
  BY <1>1, FieldsOfPlan, SteeredKeeps DEF SteeredTasks, WorkInv, PlanInv
<1>3. plan.tasks[t] \in Task /\ NoThread \notin Workers
  BY ThreadOfTask DEF WorkInv
<1>4. task.thread = plan.tasks[t].thread /\ task.status = "running"
  BY <1>3 DEF Task
<1> HIDE DEF task
<1>5. EvidenceInv'
  BY <1>1, <1>2, <1>4, StartKeepsEvidence DEF WorkInv
<1>6. UNCHANGED link
  BY DEF MarkWorkerSteered
<1>7. WorkerInv'
  BY <1>1, <1>2, <1>3, <1>4, <1>6 DEF WorkInv, WorkerInv, OneTaskPerWorker
<1>8. LinkInv'
  BY <1>1, <1>2, <1>4, <1>6 DEF WorkInv, LinkInv
<1> QED
  BY <1>5, <1>7, <1>8 DEF WorkInv

\* The nine operations on the audit cycle of a completed plan touch nothing else.
LEMMA AuditCycleKeeps ==
  ASSUME PlanInv, AuditCycle
  PROVE  /\ plan.status = "completed"
         /\ plan'.tasks = plan.tasks /\ plan'.status = plan.status
         /\ plan'.prior = plan.prior
         /\ UNCHANGED <<link, reporting, fresh, submitted>>
         /\ plan'.cycle.status # "planning_rework"
         /\ plan'.cycle.prior \in {plan.cycle.prior, "none"}
<1>1. PICK cycle : /\ PlanChanges(CycleSaved(plan, cycle))
                   /\ plan.status = "completed"
                   /\ cycle.status # "planning_rework"
                   /\ cycle.prior \in {plan.cycle.prior, "none"}
  <2>1. DOMAIN plan.cycle = {"status", "prior", "scopeRepair", "dismissed", "reportId", "rework"}
    BY DEF PlanInv, PlanSound, IsPlan, PlanOver, Cycle
  <2>2. CASE BeginAudit
    <3> DEFINE c == [NoCycle EXCEPT !.status = "running"]
    <3>1. PlanChanges(CycleSaved(plan, c)) /\ plan.status = "completed"
      BY <2>2 DEF BeginAudit, BeginAllowed, Begun
    <3>2. c.status = "running" /\ c.prior = "none"
      BY DEF NoCycle
    <3> HIDE DEF c
    <3> QED
      BY <3>1, <3>2
  <2>3. CASE FailAudit
    <3> DEFINE c == [plan.cycle EXCEPT !.status = "failed"]
    <3>1. PlanChanges(CycleSaved(plan, c)) /\ plan.status = "completed"
      BY <2>3 DEF FailAudit
    <3>2. c.status = "failed" /\ c.prior = plan.cycle.prior
      BY <2>1
    <3> HIDE DEF c
    <3> QED
      BY <3>1, <3>2
  <2>4. CASE ReportAudit
    <3> DEFINE c == [plan.cycle EXCEPT !.status = "report_ready", !.reportId = TRUE]
    <3>1. PlanChanges(CycleSaved(plan, c)) /\ plan.status = "completed"
      BY <2>4 DEF ReportAudit
    <3>2. c.status = "report_ready" /\ c.prior = plan.cycle.prior
      BY <2>1
    <3> HIDE DEF c
    <3> QED
      BY <3>1, <3>2
  <2>5. CASE BeginAuditRework
    <3> DEFINE n == IF plan.cycle.status = "planning_rework" THEN OrFirst(plan.cycle.rework)
                    ELSE plan.cycle.rework + 1
               c == [plan.cycle EXCEPT !.status = "reworking", !.rework = n]
    <3>1. PlanChanges(CycleSaved(plan, c)) /\ plan.status = "completed"
      BY <2>5 DEF BeginAuditRework, BegunRework, BeginReworkAllowed
    <3> HIDE DEF n
    <3>2. c.status = "reworking" /\ c.prior = plan.cycle.prior
      BY <2>1
    <3> HIDE DEF c
    <3> QED
      BY <3>1, <3>2
  <2>6. CASE CompleteAudit
    <3> DEFINE c == [plan.cycle EXCEPT !.status = "completed"]
    <3>1. PlanChanges(CycleSaved(plan, c)) /\ plan.status = "completed"
      BY <2>6 DEF CompleteAudit
    <3>2. c.status = "completed" /\ c.prior = plan.cycle.prior
      BY <2>1
    <3> HIDE DEF c
    <3> QED
      BY <3>1, <3>2
  <2>7. CASE RetractAudit
    <3> DEFINE s == RetractedStatus(plan.cycle)
               c == [plan.cycle EXCEPT !.status = s]
    <3>1. s # "planning_rework" /\ PlanChanges(CycleSaved(plan, c)) /\ plan.status = "completed"
      BY <2>7 DEF RetractedStatus, RetractAudit
    <3> HIDE DEF s
    <3>2. c.status = s /\ c.prior = plan.cycle.prior
      BY <2>1
    <3> HIDE DEF c
    <3> QED
      BY <3>1, <3>2
  <2>8. CASE DismissOffer
    <3> DEFINE c == [plan.cycle EXCEPT !.dismissed = TRUE]
    <3>1. PlanChanges(CycleSaved(plan, c)) /\ plan.status = "completed"
      BY <2>8 DEF DismissOffer, InCycle, PlanInv, PlanSound, OfferSound
    <3>2. c.status = "available" /\ c.prior = plan.cycle.prior
      BY <2>1, <2>8 DEF DismissOffer, InCycle
    <3> HIDE DEF c
    <3> QED
      BY <3>1, <3>2
  <2>9. CASE RestoreOffer
    <3> DEFINE c == [plan.cycle EXCEPT !.dismissed = FALSE]
    <3>1. PlanChanges(CycleSaved(plan, c)) /\ plan.status = "completed"
      BY <2>9 DEF RestoreOffer
    <3>2. c.status = "available" /\ c.prior = plan.cycle.prior
      BY <2>1, <2>9 DEF RestoreOffer, InCycle
    <3> HIDE DEF c
    <3> QED
      BY <3>1, <3>2
  <2>10. CASE MakeAvailable
    <3> DEFINE c == [plan.cycle EXCEPT !.status = "available", !.dismissed = FALSE]
    <3>1. PlanChanges(CycleSaved(plan, c)) /\ plan.status = "completed"
      BY <2>10 DEF MakeAvailable
    <3>2. c.status = "available" /\ c.prior = plan.cycle.prior
      BY <2>1
    <3> HIDE DEF c
    <3> QED
      BY <3>1, <3>2
  <2> QED
    BY <2>2, <2>3, <2>4, <2>5, <2>6, <2>7, <2>8, <2>9, <2>10 DEF AuditCycle
<1>2. /\ plan'.tasks = plan.tasks /\ plan'.status = plan.status /\ plan'.prior = plan.prior
      /\ plan'.cycle \in {cycle, NoCycle}
  BY <1>1, FieldsOfPlan, CycleSavedKeeps DEF PlanChanges, PlanInv
<1> QED
  BY <1>1, <1>2 DEF PlanChanges, NoCycle

LEMMA InitWorkInv == Init => WorkInv
<1> SUFFICES ASSUME Init PROVE WorkInv
  OBVIOUS
<1>1. PICK S \in SUBSET Tasks : plan = DraftPlan(S)
  BY DEF Init
<1>2. plan.tasks = [t \in S |-> NewTask]
  BY <1>1 DEF DraftPlan
<1>3. ASSUME NEW t \in DOMAIN plan.tasks
      PROVE  /\ plan.tasks[t].thread = NoThread /\ plan.tasks[t].status = "planned"
             /\ Owner[t] \in {"senior", "worker"} /\ NoThread \notin Workers
  BY <1>2, PlanAssumption DEF NewTask, Threads
<1>4. WorkerInv /\ LinkInv
  BY <1>3 DEF WorkerInv, LinkInv, OneTaskPerWorker
<1>5. EvidenceInv
  BY <1>3 DEF Init, EvidenceInv, Handed
<1> QED
  BY <1>4, <1>5, InitPlanInv DEF WorkInv

LEMMA NextWorkInv == WorkInv /\ [Next]_vars => WorkInv'
<1> SUFFICES ASSUME WorkInv, [Next]_vars PROVE WorkInv'
  OBVIOUS
<1>a. PlanInv /\ PlanSound(plan) /\ PlanInv'
  BY NextPlanInv DEF WorkInv, PlanInv
<1>b. ASSUME NEW q, PlanChanges(q), Kin(plan, q)
      PROVE  WorkInv'
  BY <1>a, <1>b, KinKeepsWork
<1> USE DEF Workable
<1>1. CASE SaveDraft
  <2>1. CASE PlanChanges(EditedDraft(plan))
    BY <1>a, <1>b, <1>1, <2>1, EditedDraftKeeps, SameTasksKin DEF SaveDraft
  <2>2. CASE \E S \in SUBSET Tasks : ValidGraph(S) /\ PlanChanges(RegeneratedDraft(plan, S))
    <3>1. PICK S \in SUBSET Tasks : PlanChanges(RegeneratedDraft(plan, S))
      BY <2>2
    <3>2. RegeneratedDraft(plan, S).tasks = [t \in S |-> NewTask]
      BY <1>a, <1>1, RegeneratedDraftKeeps DEF SaveDraft
    <3> QED
      BY <1>b, <3>1, <3>2, NewTasksKin
  <2> QED
    BY <1>1, <2>1, <2>2 DEF SaveDraft
<1>2. CASE SyncDraftToSpec
  <2>1. PICK S \in SUBSET Tasks : PlanChanges(RegeneratedDraft(plan, S))
    BY <1>2 DEF SyncDraftToSpec
  <2>2. RegeneratedDraft(plan, S).tasks = [t \in S |-> NewTask]
    BY <1>a, <1>2, RegeneratedDraftKeeps DEF SyncDraftToSpec
  <2> QED
    BY <1>b, <2>1, <2>2, NewTasksKin
<1>3. CASE Activate
  BY <1>a, <1>b, <1>3, ActivatedKin DEF Activate
<1>4. CASE Stop
  BY <1>a, <1>b, <1>4, StoppedKin DEF Stop
<1>5. CASE Resume
  BY <1>a, <1>b, <1>5, ResumedKin DEF Resume
<1>6. CASE AssignTask
  BY <1>a, <1>6, AssignKeepsWork
<1>7. CASE AssignTaskFails
  BY <1>a, <1>7, AssignFailsKeepsWork
<1>8. CASE SubmitEvidence
  BY <1>a, <1>8, SubmitKeepsWork
<1>9. CASE ReportTask
  BY <1>a, <1>9, ReportKeepsWork
<1>10. CASE ReviewTask
  BY <1>a, <1>b, <1>10, ReviewedKin DEF ReviewTask
<1>11. CASE StopWorker
  <2>1. PICK t \in DOMAIN plan.tasks : PlanChanges(WorkerStopped(plan, t))
    BY <1>11 DEF StopWorker
  <2> DEFINE task == [plan.tasks[t] EXCEPT !.status = "attention"]
  <2>2. task.thread = plan.tasks[t].thread /\ task.status = "attention"
    BY <1>a, TasksTyped DEF Task
  <2> HIDE DEF task
  <2>3. Kin(plan, WorkerStopped(plan, t))
    BY <1>a, <2>2, ReplacedKin DEF WorkerStopped, task
  <2> QED
    BY <1>b, <2>1, <2>3
<1>12. CASE MarkWorkerSteered
  BY <1>a, <1>12, SteerKeepsWork
<1>13. CASE ToggleReporting
  BY <1>a, <1>13 DEF ToggleReporting, WorkInv, WorkerInv, OneTaskPerWorker, LinkInv, EvidenceInv
<1>14. CASE AuditCycle
  <2>1. plan'.tasks = plan.tasks /\ UNCHANGED <<link, reporting, fresh, submitted>>
    BY <1>a, <1>14, AuditCycleKeeps
  <2>2. PlanChanges(plan')
    BY <2>1 DEF PlanChanges
  <2> QED
    BY <1>b, <2>1, <2>2, SameTasksKin
<1>15. CASE ReopenCompletedTask
  <2>1. PICK t \in Completed(plan.tasks) : PlanChanges(ReopenedPlan(InRework(plan), t))
    BY <1>15 DEF ReopenCompletedTask
  <2>2. /\ PlanSound(InRework(plan)) /\ InRework(plan).tasks = plan.tasks
        /\ t \in DOMAIN plan.tasks
    BY <1>a, <1>15, <2>1, InReworkSound DEF ReopenCompletedTask, Completed
  <2> DEFINE task == [plan.tasks[t] EXCEPT !.status = "rework", !.report = "none",
                                           !.review = "none"]
  <2>3. task.thread = plan.tasks[t].thread /\ task.status = "rework"
    BY <1>a, <2>2, TasksTyped DEF Task
  <2>4. ReopenedPlan(InRework(plan), t) = ReplaceTask(InRework(plan), t, task, "running")
    BY <2>2 DEF ReopenedPlan
  <2> HIDE DEF task
  <2>5. Kin(InRework(plan), ReopenedPlan(InRework(plan), t))
    BY <2>2, <2>3, <2>4, ReplacedKin
  <2>6. Kin(plan, ReopenedPlan(InRework(plan), t))
    BY <2>2, <2>5 DEF Kin, ThreadsKept, HandedKept
  <2> QED
    BY <1>b, <2>1, <2>6
<1>16. CASE AppendFollowUpTask
  <2>1. PICK t \in Tasks : PlanChanges(FollowUpPlan(InRework(plan), t))
    BY <1>16 DEF AppendFollowUpTask
  <2>2. PlanSound(InRework(plan)) /\ InRework(plan).tasks = plan.tasks
    BY <1>a, <1>16, InReworkSound DEF AppendFollowUpTask
  <2> QED
    BY <1>a, <1>b, <2>1, <2>2, FollowUpKin
<1>17. CASE ProposeRework
  BY <1>a, <1>b, <1>17, ReworkDraftKin DEF ProposeRework
<1>18. CASE UNCHANGED vars
  BY <1>a, <1>18 DEF vars, WorkInv, WorkerInv, OneTaskPerWorker, LinkInv, EvidenceInv
<1> QED
  BY <1>1, <1>2, <1>3, <1>4, <1>5, <1>6, <1>7, <1>8, <1>9, <1>10, <1>11, <1>12,
     <1>13, <1>14, <1>15, <1>16, <1>17, <1>18 DEF Next

LEMMA WorkInvariant == Spec => []WorkInv
BY InitWorkInv, NextWorkInv, PTL DEF Spec

\* assignTask: no two tasks ever name the same worker, whichever calls are made and
\* whichever of them fail halfway.
THEOREM WorkersAreNotShared == Spec => []OneTaskPerWorker
<1>1. WorkInv => OneTaskPerWorker
  BY DEF WorkInv, WorkerInv
<1> QED
  BY <1>1, WorkInvariant, PTL

\* As long as a worker scope is always available, the worker of a running task is
\* linked to it, so it can submit evidence and report: assignTask gives up a worker
\* only with the task it replaces it for.
THEOREM RunningWorkerIsLinked ==
  ASSUME ~ScopeMayFail
  PROVE  Spec => []RunningWorkerLinked
<1>1. WorkInv => RunningWorkerLinked
  <2> SUFFICES ASSUME WorkInv, NEW t \in DOMAIN plan.tasks, Owner[t] = "worker",
                      plan.tasks[t].status = "running"
               PROVE  /\ plan.tasks[t].thread \in Workers
                      /\ link[plan.tasks[t].thread] = t
    BY DEF RunningWorkerLinked
  <2> QED
    BY DEF WorkInv, WorkerInv, LinkInv
<1> QED
  BY <1>1, WorkInvariant, PTL

\* reportTask: with one senior task in the graph at most, a task handed over for audit
\* has all its evidence submitted for that very task since its run started.
THEOREM EvidenceIsItsOwn ==
  ASSUME \A t, u \in Tasks : Owner[t] = "senior" /\ Owner[u] = "senior" => t = u
  PROVE  Spec => []OwnEvidence
<1>1. WorkInv => OwnEvidence
  <2> SUFFICES ASSUME WorkInv, NEW t \in DOMAIN plan.tasks, plan.tasks[t].status = "reported"
               PROVE  submitted[t] = Evidence
    BY DEF OwnEvidence
  <2>1. t \in Tasks
    BY ThreadOfTask DEF WorkInv
  <2>2. OwnFiles(t)
    BY <2>1, PlanAssumption DEF OwnFiles
  <2> QED
    BY <2>1, <2>2 DEF WorkInv, EvidenceInv, Handed
<1> QED
  BY <1>1, WorkInvariant, PTL

\* The same of every task a worker handed over, however many senior tasks share the
\* coordinator's thread.
THEOREM WorkerEvidenceIsItsOwn ==
  Spec => [](\A t \in DOMAIN plan.tasks :
               Owner[t] = "worker" /\ plan.tasks[t].status = "reported"
                 => submitted[t] = Evidence)
<1>1. WorkInv => (\A t \in DOMAIN plan.tasks :
                    Owner[t] = "worker" /\ plan.tasks[t].status = "reported"
                      => submitted[t] = Evidence)
  <2> SUFFICES ASSUME WorkInv, NEW t \in DOMAIN plan.tasks, Owner[t] = "worker",
                      plan.tasks[t].status = "reported"
               PROVE  submitted[t] = Evidence
    OBVIOUS
  <2>1. t \in Tasks
    BY ThreadOfTask DEF WorkInv
  <2> QED
    BY <2>1 DEF WorkInv, EvidenceInv, OwnFiles, Handed
<1> QED
  BY <1>1, WorkInvariant, PTL

(***************************************************************************)
(* The flow of work.                                                       *)
(*                                                                         *)
(* A plan is closed exactly when its last task is, its graph stays valid,  *)
(* a correction is never left half planned, and while nobody steers a      *)
(* worker of a stopped plan or works on a draft, what stop froze is what   *)
(* the plan was: Before gives the status a frozen task comes back to.      *)
(***************************************************************************)
GraphInv ==
  /\ ValidGraph(DOMAIN plan.tasks)
  /\ AllCompleted(plan.tasks) =>
       plan.status = "completed" \/ (plan.status = "stopped" /\ plan.prior = "completed")

CycleInv ==
  /\ plan.cycle.status # "planning_rework" /\ plan.cycle.prior # "planning_rework"
  /\ plan.status = "draft" /\ plan.cycle.scopeRepair
       => plan.cycle.status = "awaiting_rework_approval"

FrozenInv ==
  ~SteersStopped /\ plan.status # "stopped" =>
    \A t \in DOMAIN plan.tasks : plan.tasks[t].status # "stopped"

Live == {"blocked", "ready", "running", "reported", "rework", "attention", "completed", "failed"}
Before(task) == IF task.status = "stopped" THEN task.prior ELSE task.status

Waits(tasks, t) == Before(tasks[t]) = "blocked" => ~(DependsOn[t] \subseteq Completed(tasks))
BlockInv ==
  ~SteersStopped /\ ~WorksOnDraft /\ plan.status # "draft" =>
    \A t \in DOMAIN plan.tasks : Before(plan.tasks[t]) \in Live /\ Waits(plan.tasks, t)

FlowInv == PlanInv /\ GraphInv /\ CycleInv /\ FrozenInv /\ BlockInv

\* What every step but a draft, a sign-off and a stop leaves of the cycle.
SettledCycle == /\ plan'.cycle.status # "planning_rework"
                /\ plan'.cycle.prior \in {plan.cycle.prior, "none"}

LEMMA KeptCycle ==
  ASSUME FlowInv, plan'.cycle \in {plan.cycle, NoCycle}
  PROVE  SettledCycle
BY DEF FlowInv, CycleInv, SettledCycle, NoCycle

LEMMA SameTasksFlow ==
  ASSUME FlowInv, PlanInv', plan'.tasks = plan.tasks, plan'.status = plan.status,
         plan'.prior = plan.prior, SettledCycle,
         plan.status = "draft" => plan'.cycle = plan.cycle
  PROVE  FlowInv'
BY DEF FlowInv, GraphInv, CycleInv, FrozenInv, BlockInv, Waits, SettledCycle

LEMMA NewTasksFlow ==
  ASSUME FlowInv, PlanInv', NEW S, ValidGraph(S), plan'.tasks = [t \in S |-> NewTask],
         plan.status = "draft", plan'.status = "draft", plan'.cycle = plan.cycle
  PROVE  FlowInv'
<1>1. /\ DOMAIN plan'.tasks = S /\ S # {}
      /\ \A t \in S : plan'.tasks[t].status = "planned"
  BY DEF NewTask, ValidGraph
<1>2. GraphInv'
  BY <1>1 DEF GraphInv, AllCompleted
<1>3. CycleInv' /\ FrozenInv' /\ BlockInv'
  BY <1>1 DEF FlowInv, CycleInv, FrozenInv, BlockInv
<1> QED
  BY <1>2, <1>3 DEF FlowInv

\* One task moves on, without being completed or blocked.
LEMMA ReplacedFlow ==
  ASSUME FlowInv, PlanInv', NEW t \in DOMAIN plan.tasks, NEW task,
         task.status \in Live \ {"blocked", "completed"},
         plan'.tasks = [plan.tasks EXCEPT ![t] = task],
         plan'.status \in {"running", "attention"}, SettledCycle,
         plan.status = "stopped" => SteersStopped,
         plan.status = "draft" => WorksOnDraft
  PROVE  FlowInv'
<1>1. /\ DOMAIN plan'.tasks = DOMAIN plan.tasks /\ plan'.tasks[t] = task
      /\ \A u \in DOMAIN plan.tasks \ {t} : plan'.tasks[u] = plan.tasks[u]
      /\ task.status \notin {"blocked", "completed", "stopped"}
  BY DEF Live
<1>2. GraphInv'
  BY <1>1 DEF FlowInv, GraphInv, AllCompleted
<1>3. CycleInv' /\ FrozenInv'
  BY <1>1 DEF FlowInv, CycleInv, FrozenInv, SettledCycle
<1>4. BlockInv'
  <2>1. Completed(plan'.tasks) \subseteq Completed(plan.tasks)
    BY <1>1 DEF Completed
  <2> SUFFICES ASSUME ~SteersStopped, ~WorksOnDraft, NEW u \in DOMAIN plan.tasks
               PROVE  Before(plan'.tasks[u]) \in Live /\ Waits(plan'.tasks, u)
    BY <1>1 DEF BlockInv
  <2>2. CASE u = t
    BY <1>1, <2>2 DEF Before, Waits, Live
  <2>3. CASE u # t
    <3>1. Before(plan.tasks[u]) \in Live /\ Waits(plan.tasks, u)
      BY DEF FlowInv, BlockInv
    <3>2. plan'.tasks[u] = plan.tasks[u]
      BY <1>1, <2>3
    <3> QED
      BY <2>1, <3>1, <3>2 DEF Waits
  <2> QED
    BY <2>2, <2>3
<1> QED
  BY <1>2, <1>3, <1>4 DEF FlowInv

LEMMA ActivateFlow ==
  ASSUME FlowInv, PlanInv', Activate
  PROVE  FlowInv'
<1>1. /\ plan.status = "draft" /\ plan' = Activated(plan)
      /\ PlanSound(plan) /\ DOMAIN plan = Fields
  BY FieldsOfPlan DEF Activate, PlanChanges, FlowInv, PlanInv
<1>2. /\ plan'.tasks = ActivatedTasks(plan) /\ plan'.status = "approved"
      /\ plan'.cycle = [plan.cycle EXCEPT !.status =
              IF @ = "awaiting_rework_approval" THEN "reworking" ELSE @]
  BY <1>1, ActivatedKeeps
<1> DEFINE kept == KeptByActivation(plan)
<1>3. kept \subseteq Completed(plan.tasks)
  BY DEF KeptByActivation
<1>4. DOMAIN plan'.tasks = DOMAIN plan.tasks
  BY <1>2 DEF ActivatedTasks
<1>5. ASSUME NEW t \in DOMAIN plan.tasks
      PROVE  IF t \in kept THEN plan'.tasks[t].status = "completed"
             ELSE plan'.tasks[t].status = DependencyStatus(t, kept)
  BY <1>2, <1>3 DEF ActivatedTasks, Completed, NewTask
<1> HIDE DEF kept
<1>6. Completed(plan'.tasks) = kept
  BY <1>3, <1>4, <1>5 DEF Completed, DependencyStatus
<1>7. GraphInv'
  BY <1>1, <1>3, <1>4, <1>6 DEF FlowInv, GraphInv, AllCompleted, Completed
<1>8. CycleInv'
  <2>1. DOMAIN plan.cycle = {"status", "prior", "scopeRepair", "dismissed", "reportId", "rework"}
    BY <1>1 DEF PlanSound, IsPlan, PlanOver, Cycle
  <2> QED
    BY <1>2, <2>1 DEF FlowInv, CycleInv
<1>9. FrozenInv'
  BY <1>4, <1>5 DEF FrozenInv, DependencyStatus
<1>10. BlockInv'
  <2> SUFFICES ASSUME NEW t \in DOMAIN plan.tasks
               PROVE  Before(plan'.tasks[t]) \in Live /\ Waits(plan'.tasks, t)
    BY <1>4 DEF BlockInv
  <2> QED
    BY <1>5, <1>6 DEF Before, Live, Waits, DependencyStatus
<1> QED
  BY <1>7, <1>8, <1>9, <1>10 DEF FlowInv

LEMMA StopFlow ==
  ASSUME FlowInv, PlanInv', Stop
  PROVE  FlowInv'
<1>1. /\ plan.status \notin {"stopped", "draft"} /\ plan' = Stopped(plan)
      /\ PlanSound(plan) /\ DOMAIN plan = Fields
  BY FieldsOfPlan DEF Stop, Stoppable, PlanChanges, FlowInv, PlanInv
<1>2. /\ plan'.tasks = [t \in DOMAIN plan.tasks |-> StoppedTask(plan.tasks[t])]
      /\ plan'.status = "stopped" /\ plan'.prior = plan.status
      /\ plan'.cycle = StoppedCycle(plan.cycle)
  BY <1>1, StoppedKeeps
<1>3. ASSUME NEW t \in DOMAIN plan.tasks
      PROVE  /\ plan'.tasks[t].status = "completed" <=> plan.tasks[t].status = "completed"
             /\ plan.tasks[t].status # "stopped" =>
                  Before(plan'.tasks[t]) = Before(plan.tasks[t])
  <2> DEFINE task == plan.tasks[t]
  <2>1. task \in Task /\ plan'.tasks[t] = StoppedTask(task)
    BY <1>1, <1>2, TasksOfSoundPlan
  <2> HIDE DEF task
  <2>2. CASE task.status = "completed"
    BY <2>1, <2>2 DEF StoppedTask, task
  <2>3. CASE task.status = "stopped"
    BY <2>1, <2>3 DEF StoppedTask, Task, task
  <2>4. CASE task.status \notin {"completed", "stopped"}
    <3>1. StoppedTask(task) = [task EXCEPT !.status = "stopped", !.prior = task.status]
      BY <2>4 DEF StoppedTask
    <3>2. StoppedTask(task).status = "stopped" /\ StoppedTask(task).prior = task.status
      BY <2>1, <3>1 DEF Task
    <3> QED
      BY <2>1, <2>4, <3>2 DEF Before, task
  <2> QED
    BY <2>2, <2>3, <2>4
<1>4. DOMAIN plan'.tasks = DOMAIN plan.tasks
  BY <1>2
<1>5. Completed(plan'.tasks) = Completed(plan.tasks)
  BY <1>3, <1>4 DEF Completed
<1>6. GraphInv'
  BY <1>1, <1>2, <1>3, <1>4 DEF FlowInv, GraphInv, AllCompleted
<1>7. CycleInv'
  <2>1. DOMAIN plan.cycle = {"status", "prior", "scopeRepair", "dismissed", "reportId", "rework"}
    BY <1>1 DEF PlanSound, IsPlan, PlanOver, Cycle
  <2> QED
    BY <1>2, <2>1 DEF FlowInv, CycleInv, StoppedCycle
<1>8. FrozenInv' /\ BlockInv'
  <2>1. FrozenInv'
    BY <1>2 DEF FrozenInv
  <2>2. ASSUME ~SteersStopped, ~WorksOnDraft, NEW t \in DOMAIN plan.tasks
        PROVE  Before(plan'.tasks[t]) \in Live /\ Waits(plan'.tasks, t)
    <3>1. Before(plan'.tasks[t]) = Before(plan.tasks[t])
      BY <1>1, <1>3, <2>2 DEF FlowInv, FrozenInv
    <3>2. Before(plan.tasks[t]) \in Live /\ Waits(plan.tasks, t)
      BY <1>1, <2>2 DEF FlowInv, BlockInv
    <3> QED
      BY <1>5, <3>1, <3>2 DEF Waits
  <2> QED
    BY <1>4, <2>1, <2>2 DEF BlockInv
<1> QED
  BY <1>6, <1>7, <1>8 DEF FlowInv

LEMMA ResumeFlow ==
  ASSUME FlowInv, PlanInv', Resume
  PROVE  FlowInv'
<1>1. /\ plan.status = "stopped" /\ plan' = Resumed(plan)
      /\ PlanSound(plan) /\ DOMAIN plan = Fields
  BY FieldsOfPlan DEF Resume, PlanChanges, FlowInv, PlanInv
<1> DEFINE tasks == [t \in DOMAIN plan.tasks |-> ResumedTask(plan.tasks[t])]
<1>2. /\ plan'.tasks = tasks /\ plan'.status = ResumedStatus(plan, tasks)
      /\ plan'.prior = "none" /\ plan'.cycle \in {ResumedCycle(plan.cycle), NoCycle}
  BY <1>1, ResumedKeeps
<1>3. DOMAIN tasks = DOMAIN plan.tasks
  OBVIOUS
<1>4. ASSUME NEW t \in DOMAIN plan.tasks
      PROVE  /\ tasks[t].status # "stopped"
             /\ tasks[t].status = "completed" <=> plan.tasks[t].status = "completed"
             /\ Before(tasks[t]) = Before(plan.tasks[t]) \/ Before(tasks[t]) = "attention"
  <2>1. plan.tasks[t] \in Task /\ TaskSound(plan.tasks[t])
    BY <1>1, TasksOfSoundPlan
  <2> QED
    BY <2>1 DEF ResumedTask, Before, Task, TaskStatus, TaskSound
<1> HIDE DEF tasks
<1>5. Completed(tasks) = Completed(plan.tasks)
  BY <1>3, <1>4 DEF Completed
<1>6. plan.prior \notin {"none", "draft"}
  BY <1>1 DEF PlanSound, ResumeSound
<1>7. GraphInv'
  <2> SUFFICES ASSUME AllCompleted(tasks) PROVE plan'.status = "completed"
    BY <1>2, <1>3 DEF FlowInv, GraphInv
  <2>1. AllCompleted(plan.tasks)
    BY <1>3, <1>4 DEF AllCompleted
  <2>2. plan.prior = "completed"
    BY <1>1, <2>1 DEF FlowInv, GraphInv
  <2>3. ~AnyWith(tasks, {"attention"})
    BY DEF AllCompleted, AnyWith
  <2> QED
    BY <1>2, <2>2, <2>3 DEF ResumedStatus
<1>8. CycleInv'
  <2>1. DOMAIN plan.cycle = {"status", "prior", "scopeRepair", "dismissed", "reportId", "rework"}
    BY <1>1 DEF PlanSound, IsPlan, PlanOver, Cycle
  <2>2. plan'.status # "draft"
    BY <1>2, <1>6 DEF ResumedStatus
  <2>3. /\ ResumedCycle(plan.cycle).status # "planning_rework"
        /\ ResumedCycle(plan.cycle).prior # "planning_rework"
    BY <2>1 DEF FlowInv, CycleInv, ResumedCycle
  <2> QED
    BY <1>2, <2>2, <2>3 DEF CycleInv, NoCycle
<1>9. FrozenInv'
  BY <1>2, <1>3, <1>4 DEF FrozenInv
<1>10. BlockInv'
  <2> SUFFICES ASSUME ~SteersStopped, ~WorksOnDraft, NEW t \in DOMAIN plan.tasks
               PROVE  Before(tasks[t]) \in Live /\ Waits(tasks, t)
    BY <1>2, <1>3 DEF BlockInv
  <2>1. Before(plan.tasks[t]) \in Live /\ Waits(plan.tasks, t)
    BY <1>1 DEF FlowInv, BlockInv
  <2> QED
    BY <1>4, <1>5, <2>1 DEF Waits, Live
<1> QED
  BY <1>7, <1>8, <1>9, <1>10 DEF FlowInv

LEMMA ReviewFlow ==
  ASSUME FlowInv, PlanInv', ReviewTask
  PROVE  FlowInv'
<1>1. PICK t \in DOMAIN plan.tasks, decision \in Decisions :
        /\ plan.tasks[t].status \in {"reported", "attention", "failed"}
        /\ PlanChanges(Reviewed(plan, t, decision))
  BY DEF ReviewTask
<1>2. PlanSound(plan) /\ DOMAIN plan = Fields /\ plan.status # "stopped"
      /\ (plan.status = "draft" => WorksOnDraft)
  <2>1. PlanSound(plan)
    BY DEF FlowInv, PlanInv
  <2> QED
    BY <1>1, <2>1, FieldsOfPlan DEF PlanSound, StopSound, ReviewTask, Workable
<1> DEFINE reviewed == [plan.tasks EXCEPT ![t] = ReviewedTask(@, decision)]
           tasks    == Unblocked(reviewed)
<1>3. /\ plan'.tasks = tasks
      /\ plan'.status = IF AllCompleted(tasks) THEN "completed"
                        ELSE IF AnyWith(tasks, {"failed"}) THEN "attention" ELSE "running"
      /\ plan'.cycle \in {plan.cycle, NoCycle, OfferedCycle(plan.cycle)}
  BY <1>1, <1>2, ReviewedKeeps DEF PlanChanges
<1>4. /\ DOMAIN reviewed = DOMAIN plan.tasks
      /\ reviewed[t].status \in {"completed", "rework", "failed"}
      /\ reviewed[t] \in Task
      /\ \A u \in DOMAIN plan.tasks \ {t} : reviewed[u] = plan.tasks[u] /\ reviewed[u] \in Task
  <2> DEFINE task   == plan.tasks[t]
             status == CASE decision = "pass"   -> "completed"
                         [] decision = "rework" -> "rework"
                         [] decision = "fail"   -> "failed"
  <2>1. status \in {"completed", "rework", "failed"}
    BY DEF Decisions
  <2>2. ReviewedTask(task, decision) = [task EXCEPT !.review = decision, !.status = status]
    BY DEF ReviewedTask
  <2>3. \A u \in DOMAIN plan.tasks : plan.tasks[u] \in Task
    BY TasksTyped DEF FlowInv
  <2>4. ReviewedTask(task, decision) \in Task
    BY <2>3, ReviewedTaskSound
  <2> HIDE DEF status
  <2>5. ReviewedTask(task, decision).status = status
    BY <2>2, <2>3 DEF Task
  <2> QED
    BY <2>1, <2>3, <2>4, <2>5
<1> HIDE DEF reviewed
<1>5. /\ DOMAIN tasks = DOMAIN plan.tasks
      /\ \A u \in DOMAIN plan.tasks :
           \/ tasks[u] = reviewed[u]
              /\ ~(reviewed[u].status = "blocked" /\ DependsOn[u] \subseteq Completed(reviewed))
           \/ tasks[u].status = "ready" /\ reviewed[u].status = "blocked"
  BY <1>4 DEF Unblocked, Task
<1> HIDE DEF tasks
<1>6. Completed(tasks) = Completed(reviewed)
  BY <1>4, <1>5 DEF Completed
<1>7. GraphInv'
  BY <1>3, <1>5 DEF FlowInv, GraphInv
<1>8. CycleInv'
  <2>1. DOMAIN plan.cycle = {"status", "prior", "scopeRepair", "dismissed", "reportId", "rework"}
    BY <1>2 DEF PlanSound, IsPlan, PlanOver, Cycle
  <2>2. OfferedCycle(plan.cycle).status = "available"
        /\ OfferedCycle(plan.cycle).prior = plan.cycle.prior
    BY <2>1 DEF OfferedCycle
  <2>3. plan'.status # "draft"
    BY <1>3
  <2> QED
    BY <1>3, <2>2, <2>3 DEF FlowInv, CycleInv, NoCycle
<1>9. FrozenInv'
  BY <1>2, <1>3, <1>4, <1>5 DEF FlowInv, FrozenInv
<1>10. BlockInv'
  <2> SUFFICES ASSUME ~SteersStopped, ~WorksOnDraft, NEW u \in DOMAIN plan.tasks
               PROVE  Before(tasks[u]) \in Live /\ Waits(tasks, u)
    BY <1>3, <1>5 DEF BlockInv
  <2>1. reviewed[u].status \in Live
    BY <1>2, <1>4 DEF FlowInv, FrozenInv, BlockInv, Before, Live
  <2>2. tasks[u].status \in Live
    BY <1>5, <2>1 DEF Live
  <2> QED
    BY <1>5, <1>6, <2>2 DEF Before, Waits, Live
<1> QED
  BY <1>7, <1>8, <1>9, <1>10 DEF FlowInv

LEMMA FollowUpFlow ==
  ASSUME FlowInv, PlanInv', AppendFollowUpTask
  PROVE  FlowInv'
<1>1. PICK t \in Tasks \ DOMAIN plan.tasks :
        /\ ValidGraph(DOMAIN plan.tasks \cup {t})
        /\ PlanChanges(FollowUpPlan(InRework(plan), t))
  BY DEF AppendFollowUpTask
<1>2. /\ plan.status \in {"completed", "running"}
      /\ PlanSound(plan) /\ DOMAIN plan = Fields
  BY FieldsOfPlan DEF AppendFollowUpTask, ReworkAllowed, FlowInv, PlanInv
<1> DEFINE status == DependencyStatus(t, Completed(plan.tasks))
           added  == [NewTask EXCEPT !.status = status]
<1>3. /\ InRework(plan).tasks = plan.tasks /\ InRework(plan).cycle.status = "reworking"
      /\ InRework(plan).cycle.prior = plan.cycle.prior /\ DOMAIN InRework(plan) = Fields
  BY <1>2, InReworkKeeps
<1>4. /\ plan'.tasks = [u \in DOMAIN plan.tasks \cup {t} |->
                          IF u = t THEN added ELSE plan.tasks[u]]
      /\ plan'.status = "running" /\ plan'.cycle \in {InRework(plan).cycle, NoCycle}
  BY <1>1, <1>3, FollowUpKeeps DEF PlanChanges
<1>5. added.status = status /\ status \in {"ready", "blocked"}
  BY DEF NewTask, DependencyStatus
<1> HIDE DEF added
<1>6. /\ DOMAIN plan'.tasks = DOMAIN plan.tasks \cup {t}
      /\ plan'.tasks[t].status = status
      /\ \A u \in DOMAIN plan.tasks : plan'.tasks[u] = plan.tasks[u]
  BY <1>1, <1>4, <1>5
<1>7. Completed(plan'.tasks) = Completed(plan.tasks)
  BY <1>5, <1>6 DEF Completed
<1>8. GraphInv'
  BY <1>1, <1>5, <1>6 DEF GraphInv, AllCompleted
<1>9. CycleInv' /\ FrozenInv'
  BY <1>2, <1>3, <1>4, <1>5, <1>6 DEF FlowInv, CycleInv, FrozenInv, NoCycle
<1>10. BlockInv'
  <2> SUFFICES ASSUME ~SteersStopped, ~WorksOnDraft, NEW u \in DOMAIN plan.tasks \cup {t}
               PROVE  Before(plan'.tasks[u]) \in Live /\ Waits(plan'.tasks, u)
    BY <1>6 DEF BlockInv
  <2>1. CASE u = t
    BY <1>5, <1>6, <1>7, <2>1 DEF Before, Live, Waits, DependencyStatus
  <2>2. CASE u # t
    <3>1. Before(plan.tasks[u]) \in Live /\ Waits(plan.tasks, u)
      BY <1>2, <2>2 DEF FlowInv, BlockInv
    <3> QED
      BY <1>6, <1>7, <2>2, <3>1 DEF Waits
  <2> QED
    BY <2>1, <2>2
<1> QED
  BY <1>8, <1>9, <1>10 DEF FlowInv

LEMMA ReworkDraftFlow ==
  ASSUME FlowInv, PlanInv', ProposeRework
  PROVE  FlowInv'
<1>1. PICK S \in SUBSET Tasks :
        /\ ValidGraph(S) /\ (ScopeRepair(plan) => DOMAIN plan.tasks \subseteq S)
        /\ PlanChanges(ReworkDraft(plan, S))
  BY DEF ProposeRework
<1>2. PlanSound(plan)
  BY DEF FlowInv, PlanInv
<1>3. /\ plan'.tasks = ProposedTasks(plan, S) /\ plan'.status = "draft"
      /\ plan'.cycle.status = "awaiting_rework_approval"
      /\ plan'.cycle.prior = plan.cycle.prior
  BY <1>1, <1>2, ReworkDraftKeeps DEF PlanChanges
<1>4. DOMAIN plan'.tasks = S /\ S # {}
  BY <1>1, <1>3 DEF ProposedTasks, ValidGraph
<1>5. ASSUME NEW t \in S
      PROVE  plan'.tasks[t].status = IF ScopeRepair(plan) /\ t \in DOMAIN plan.tasks
                                     THEN plan.tasks[t].status ELSE "planned"
  <2>1. CASE ScopeRepair(plan) /\ t \in DOMAIN plan.tasks
    <3> DEFINE prior == IF plan.tasks[t].status = "completed" THEN plan.tasks[t].prior ELSE "none"
    <3>1. plan'.tasks[t] = [plan.tasks[t] EXCEPT !.prior = prior]
      BY <1>3, <2>1 DEF ProposedTasks
    <3>2. plan.tasks[t] \in Task
      BY <1>2, <2>1, TasksOfSoundPlan
    <3> HIDE DEF prior
    <3> QED
      BY <2>1, <3>1, <3>2 DEF Task
  <2>2. CASE ~(ScopeRepair(plan) /\ t \in DOMAIN plan.tasks)
    BY <1>3, <2>2 DEF ProposedTasks, NewTask
  <2> QED
    BY <2>1, <2>2
<1>6. GraphInv'
  <2>1. \E t \in S : plan'.tasks[t].status # "completed"
    <3>1. CASE ScopeRepair(plan)
      BY <1>1, <1>5, <3>1 DEF ScopeRepair, AnyWith
    <3>2. CASE ~ScopeRepair(plan)
      BY <1>4, <1>5, <3>2
    <3> QED
      BY <3>1, <3>2
  <2> QED
    BY <1>1, <1>4, <2>1 DEF GraphInv, AllCompleted
<1>7. CycleInv'
  BY <1>3 DEF FlowInv, CycleInv
<1>8. FrozenInv'
  BY <1>4, <1>5 DEF FlowInv, FrozenInv, ScopeRepair, SignedOff
<1>9. BlockInv'
  BY <1>3 DEF BlockInv
<1> QED
  BY <1>6, <1>7, <1>8, <1>9 DEF FlowInv

LEMMA InitFlowInv == Init => FlowInv
<1> SUFFICES ASSUME Init PROVE FlowInv
  OBVIOUS
<1>1. PICK S \in SUBSET Tasks : ValidGraph(S) /\ plan = DraftPlan(S)
  BY DEF Init
<1>2. /\ plan.tasks = [t \in S |-> NewTask] /\ plan.status = "draft" /\ plan.cycle = NoCycle
  BY <1>1 DEF DraftPlan
<1>3. /\ DOMAIN plan.tasks = S /\ S # {}
      /\ \A t \in S : plan.tasks[t].status = "planned"
  BY <1>1, <1>2 DEF NewTask, ValidGraph
<1>4. GraphInv
  BY <1>1, <1>3 DEF GraphInv, AllCompleted
<1>5. CycleInv /\ FrozenInv /\ BlockInv
  BY <1>2, <1>3 DEF CycleInv, FrozenInv, BlockInv, NoCycle
<1> QED
  BY <1>4, <1>5, InitPlanInv DEF FlowInv

LEMMA NextFlowInv == FlowInv /\ [Next]_vars => FlowInv'
<1> SUFFICES ASSUME FlowInv, [Next]_vars PROVE FlowInv'
  OBVIOUS
<1>a. /\ PlanInv /\ PlanSound(plan) /\ PlanInv' /\ DOMAIN plan = Fields
      /\ StopSound(plan) /\ DraftSound(plan)
  BY NextPlanInv, FieldsOfPlan DEF FlowInv, PlanInv, PlanSound
<1>b. ASSUME NEW t \in DOMAIN plan.tasks,
             plan.tasks[t].status \in {"running", "reported"}
      PROVE  plan.status \notin {"stopped", "draft"}
  BY <1>a, <1>b DEF StopSound, DraftSound, AnyWith
<1>c. ASSUME NEW t \in DOMAIN plan.tasks, NEW task,
             NEW status \in {"running", "attention"}, plan' = ReplaceTask(plan, t, task, status),
             task.status \in Live \ {"blocked", "completed"},
             plan.status = "stopped" => SteersStopped,
             plan.status = "draft" => WorksOnDraft
      PROVE  FlowInv'
  <2>1. /\ plan'.tasks = [plan.tasks EXCEPT ![t] = task] /\ plan'.status = status
        /\ plan'.cycle \in {plan.cycle, NoCycle}
    BY <1>a, <1>c, ReplaceTaskKeeps
  <2> QED
    BY <1>a, <1>c, <2>1, KeptCycle, ReplacedFlow
<1> USE DEF Workable
<1>1. CASE SaveDraft
  <2>1. CASE PlanChanges(EditedDraft(plan))
    <3>1. /\ plan.status = "draft" /\ plan'.tasks = plan.tasks /\ plan'.status = "draft"
          /\ plan'.prior = plan.prior /\ plan'.cycle = plan.cycle
      BY <1>a, <1>1, <2>1, EditedDraftKeeps DEF SaveDraft, PlanChanges
    <3> QED
      BY <1>a, <3>1, KeptCycle, SameTasksFlow
  <2>2. CASE \E S \in SUBSET Tasks : ValidGraph(S) /\ PlanChanges(RegeneratedDraft(plan, S))
    <3>1. PICK S \in SUBSET Tasks : ValidGraph(S) /\ PlanChanges(RegeneratedDraft(plan, S))
      BY <2>2
    <3>2. /\ plan.status = "draft" /\ plan'.tasks = [t \in S |-> NewTask]
          /\ plan'.status = "draft" /\ plan'.cycle = plan.cycle
      BY <1>a, <1>1, <3>1, RegeneratedDraftKeeps DEF SaveDraft, PlanChanges
    <3> QED
      BY <1>a, <3>1, <3>2, NewTasksFlow
  <2> QED
    BY <1>1, <2>1, <2>2 DEF SaveDraft
<1>2. CASE SyncDraftToSpec
  <2>1. PICK S \in SUBSET Tasks : ValidGraph(S) /\ PlanChanges(RegeneratedDraft(plan, S))
    BY <1>2 DEF SyncDraftToSpec
  <2>2. /\ plan.status = "draft" /\ plan'.tasks = [t \in S |-> NewTask]
        /\ plan'.status = "draft" /\ plan'.cycle = plan.cycle
    BY <1>a, <1>2, <2>1, RegeneratedDraftKeeps DEF SyncDraftToSpec, PlanChanges
  <2> QED
    BY <1>a, <2>1, <2>2, NewTasksFlow
<1>3. CASE Activate
  BY <1>a, <1>3, ActivateFlow
<1>4. CASE Stop
  BY <1>a, <1>4, StopFlow
<1>5. CASE Resume
  BY <1>a, <1>5, ResumeFlow
<1>6. CASE AssignTask
  <2>1. PICK t \in DOMAIN plan.tasks :
          /\ Assignable(plan.tasks[t])
          /\ AssignSenior(t) \/ AssignSameWorker(t) \/ AssignNewWorker(t)
    BY <1>6 DEF AssignTask
  <2>2. plan.tasks[t] \in Task /\ TaskSound(plan.tasks[t])
    BY <1>a, TasksTyped
  <2>3. PICK thread \in Threads : AssignOn(t, thread)
    <3>1. CASE AssignSenior(t)
      BY <3>1 DEF AssignSenior, Threads
    <3>2. CASE AssignSameWorker(t)
      BY <2>2, <3>2 DEF AssignSameWorker, DispatchBase, Task
    <3>3. CASE AssignNewWorker(t)
      BY <3>3 DEF AssignNewWorker, Threads
    <3> QED
      BY <2>1, <3>1, <3>2, <3>3
  <2> DEFINE task == Dispatched(plan.tasks[t], thread)
  <2>4. task.status = "running"
    BY <2>1, <2>2, DispatchedSound
  <2>5. plan.status # "stopped"
    BY <1>a, <2>1 DEF StopSound, Assignable, RetryingStopped
  <2>6. plan' = ReplaceTask(plan, t, task, "running") /\ (plan.status = "draft" => WorksOnDraft)
    BY <1>6, <2>3 DEF AssignOn, AssignTask
  <2> HIDE DEF task
  <2> QED
    BY <1>c, <2>4, <2>5, <2>6 DEF Live
<1>7. CASE AssignTaskFails
  BY <1>a, <1>7, KeptCycle, SameTasksFlow DEF AssignTaskFails
<1>8. CASE SubmitEvidence
  BY <1>a, <1>8, KeptCycle, SameTasksFlow DEF SubmitEvidence
<1>9. CASE ReportTask
  <2>1. PICK t \in DOMAIN plan.tasks, report \in Reports :
          plan.tasks[t].status = "running" /\ PlanChanges(ReportedPlan(plan, t, report))
    BY <1>9 DEF ReportTask, OwnsRunning
  <2> DEFINE task   == ReportedTask(plan.tasks[t], report)
             task_s == IF report = "ready_for_audit" THEN "reported" ELSE "attention"
             status == IF report = "ready_for_audit" THEN "running" ELSE "attention"
  <2>2. plan' = ReplaceTask(plan, t, task, status) /\ status \in {"running", "attention"}
    BY <2>1 DEF PlanChanges, ReportedPlan
  <2>3. task = [plan.tasks[t] EXCEPT !.report = report, !.status = task_s]
    BY DEF ReportedTask
  <2>4. plan.tasks[t] \in Task /\ task_s \in Live \ {"blocked", "completed"}
    BY <1>a, TasksTyped DEF Live
  <2> HIDE DEF task, task_s, status
  <2>5. task.status = task_s
    BY <2>3, <2>4 DEF Task
  <2> QED
    BY <1>b, <1>c, <2>1, <2>2, <2>4, <2>5
<1>10. CASE ReviewTask
  BY <1>a, <1>10, ReviewFlow
<1>11. CASE StopWorker
  <2>1. PICK t \in DOMAIN plan.tasks :
          /\ plan.tasks[t].status \in {"running", "reported", "auditing", "rework"}
          /\ PlanChanges(WorkerStopped(plan, t))
    BY <1>11 DEF StopWorker
  <2> DEFINE task == [plan.tasks[t] EXCEPT !.status = "attention"]
  <2>2. task.status = "attention"
    BY <1>a, TasksTyped DEF Task
  <2>3. plan' = ReplaceTask(plan, t, task, "attention")
    BY <2>1 DEF PlanChanges, WorkerStopped
  <2>4. plan.status # "stopped" /\ (plan.status = "draft" => WorksOnDraft)
    BY <1>a, <1>11, <2>1 DEF StopSound, StopWorker
  <2> HIDE DEF task
  <2> QED
    BY <1>c, <2>2, <2>3, <2>4 DEF Live
<1>12. CASE MarkWorkerSteered
  <2>1. PICK t \in DOMAIN plan.tasks : plan' = SteeredPlan(plan, t)
    BY <1>12 DEF MarkWorkerSteered
  <2> DEFINE task == [plan.tasks[t] EXCEPT !.status = "running", !.report = "none",
                                           !.review = "none"]
  <2>2. task.status = "running"
    BY <1>a, TasksTyped DEF Task
  <2>3. /\ plan'.tasks = [plan.tasks EXCEPT ![t] = task]
        /\ plan'.status \in {"attention", "running"}
        /\ plan'.cycle \in {plan.cycle, NoCycle}
    BY <1>a, <2>1, SteeredKeeps DEF SteeredTasks
  <2>4. /\ plan.status = "stopped" => SteersStopped
        /\ plan.status = "draft" => WorksOnDraft
    BY <1>12 DEF MarkWorkerSteered
  <2> HIDE DEF task
  <2>5. task.status \in Live \ {"blocked", "completed"}
    BY <2>2 DEF Live
  <2> QED
    BY <1>a, <2>3, <2>4, <2>5, KeptCycle, ReplacedFlow
<1>13. CASE ToggleReporting
  BY <1>a, <1>13, KeptCycle, SameTasksFlow DEF ToggleReporting
<1>14. CASE AuditCycle
  <2>1. SettledCycle /\ plan.status = "completed" /\ plan'.tasks = plan.tasks
        /\ plan'.status = plan.status /\ plan'.prior = plan.prior
    BY <1>a, <1>14, AuditCycleKeeps DEF SettledCycle
  <2> QED
    BY <1>a, <2>1, SameTasksFlow
<1>15. CASE ReopenCompletedTask
  <2>1. PICK t \in Completed(plan.tasks) : PlanChanges(ReopenedPlan(InRework(plan), t))
    BY <1>15 DEF ReopenCompletedTask
  <2>2. /\ InRework(plan).tasks = plan.tasks /\ InRework(plan).cycle.status = "reworking"
        /\ InRework(plan).cycle.prior = plan.cycle.prior /\ DOMAIN InRework(plan) = Fields
    BY <1>a, InReworkKeeps
  <2> DEFINE task == [plan.tasks[t] EXCEPT !.status = "rework", !.report = "none",
                                           !.review = "none"]
  <2>3. task.status = "rework" /\ t \in DOMAIN plan.tasks
    BY <1>a, TasksTyped DEF Task, Completed
  <2>4. plan' = ReplaceTask(InRework(plan), t, task, "running")
    BY <2>1, <2>2 DEF PlanChanges, ReopenedPlan
  <2> HIDE DEF task
  <2>5. /\ plan'.tasks = [plan.tasks EXCEPT ![t] = task] /\ plan'.status = "running"
        /\ plan'.cycle \in {InRework(plan).cycle, NoCycle}
    BY <2>2, <2>4, ReplaceTaskKeeps
  <2>6. SettledCycle
    BY <2>2, <2>5 DEF SettledCycle, NoCycle
  <2>7. plan.status \in {"completed", "running"}
    BY <1>15 DEF ReopenCompletedTask, ReworkAllowed
  <2>8. task.status \in Live \ {"blocked", "completed"}
    BY <2>3 DEF Live
  <2> QED
    BY <1>a, <2>3, <2>5, <2>6, <2>7, <2>8, ReplacedFlow
<1>16. CASE AppendFollowUpTask
  BY <1>a, <1>16, FollowUpFlow
<1>17. CASE ProposeRework
  BY <1>a, <1>17, ReworkDraftFlow
<1>18. CASE UNCHANGED vars
  BY <1>a, <1>18, KeptCycle, SameTasksFlow DEF vars
<1> QED
  BY <1>1, <1>2, <1>3, <1>4, <1>5, <1>6, <1>7, <1>8, <1>9, <1>10, <1>11, <1>12,
     <1>13, <1>14, <1>15, <1>16, <1>17, <1>18 DEF Next

LEMMA FlowInvariant == Spec => []FlowInv
BY InitFlowInv, NextFlowInv, PTL DEF Spec

\* unblockDependentTasks misses nobody: as long as no worker of a stopped plan is
\* steered and no draft is worked on, a task of a working plan stays blocked only
\* while one of its dependencies is unfinished.
THEOREM BlockedOnlyForAReason ==
  ASSUME ~SteersStopped, ~WorksOnDraft
  PROVE  Spec => []BlockedForAReason
<1>1. FlowInv => BlockedForAReason
  BY DEF FlowInv, BlockInv, Waits, Before, BlockedForAReason, SignedOff
<1> QED
  BY <1>1, FlowInvariant, PTL

LEMMA LeastNat ==
  ASSUME NEW T \in SUBSET Nat, T # {}
  PROVE  \E x \in T : \A y \in T : x <= y
<1> DEFINE R == OpToRel(<, Nat)
<1>1. IsWellFoundedOn(R, Nat)
  BY NatLessThanWellFounded
<1>2. \A x, y \in Nat : y < x => <<y, x>> \in R
  BY DEF OpToRel
<1> HIDE DEF R
<1>3. PICK x \in T : \A y \in T : ~(<<y, x>> \in R)
  BY <1>1, WFMin
<1>4. \A y \in T : ~(y < x)
  BY <1>2, <1>3
<1> QED
  BY <1>4

\* In a valid graph, some unfinished task has every dependency finished.
LEMMA SomeTaskIsNext ==
  ASSUME NEW tasks, ValidGraph(DOMAIN tasks), ~AllCompleted(tasks)
  PROVE  \E t \in DOMAIN tasks : /\ tasks[t].status # "completed"
                                 /\ DependsOn[t] \subseteq Completed(tasks)
<1> DEFINE S    == DOMAIN tasks
           Open == {t \in S : tasks[t].status # "completed"}
<1>1. PICK rank \in [S -> 1..Cardinality(S)] :
        \A t \in S : \A d \in DependsOn[t] : d \in S /\ rank[d] < rank[t]
  BY DEF ValidGraph
<1>2. \A t \in S : rank[t] \in Nat
  BY <1>1
<1> DEFINE Ranks == {rank[t] : t \in Open}
<1>3. Ranks \in SUBSET Nat /\ Ranks # {}
  BY <1>2 DEF AllCompleted
<1>4. PICK r \in Ranks : \A x \in Ranks : r <= x
  BY <1>3, LeastNat
<1>5. PICK t \in Open : rank[t] = r
  BY <1>4
<1>6. ASSUME NEW d \in DependsOn[t]
      PROVE  d \in Completed(tasks)
  <2>1. d \in S /\ rank[d] < rank[t]
    BY <1>1, <1>5
  <2>2. d \notin Open
    BY <1>2, <1>4, <1>5, <2>1
  <2> QED
    BY <2>1, <2>2 DEF Completed
<1> QED
  BY <1>5, <1>6

\* A working plan never runs dry: its graph is valid and not finished, so some open
\* task waits for nothing, and such a task is neither blocked nor forgotten.
THEOREM WorkAlwaysRemains ==
  ASSUME ~SteersStopped, ~WorksOnDraft
  PROVE  Spec => []WorkRemains
<1>1. FlowInv => WorkRemains
  <2> SUFFICES ASSUME FlowInv, plan.status \in SignedOff
               PROVE  AnyWith(plan.tasks, {"ready", "rework", "running", "reported",
                                           "attention", "failed"})
    BY DEF WorkRemains
  <2>1. plan.status \notin {"draft", "completed", "stopped"}
    BY DEF SignedOff
  <2>2. PICK t \in DOMAIN plan.tasks : /\ plan.tasks[t].status # "completed"
                                       /\ DependsOn[t] \subseteq Completed(plan.tasks)
    BY <2>1, SomeTaskIsNext DEF FlowInv, GraphInv
  <2>3. plan.tasks[t].status # "stopped"
    BY <2>1 DEF FlowInv, FrozenInv
  <2>4. plan.tasks[t].status \in Live \ {"blocked", "completed"}
    BY <2>1, <2>2, <2>3 DEF FlowInv, BlockInv, Waits, Before
  <2> QED
    BY <2>4 DEF Live, AnyWith
<1> QED
  BY <1>1, FlowInvariant, PTL

LEMMA StoppedThenResumed ==
  ASSUME NEW task \in Task, TaskSound(task), task.status # "stopped"
  PROVE  LET back == ResumedTask(StoppedTask(task))
         IN /\ back.status = IF task.status = "running" THEN "attention" ELSE task.status
            /\ [back EXCEPT !.status = task.status, !.prior = task.prior] = task
<1>1. CASE task.status = "completed"
  <2>1. ResumedTask(StoppedTask(task)) = task
    BY <1>1 DEF StoppedTask, ResumedTask
  <2> QED
    BY <1>1, <2>1 DEF Task
<1>2. CASE task.status # "completed"
  <2> DEFINE frozen == [task EXCEPT !.status = "stopped", !.prior = task.status]
             status == IF task.status \in {"running", "none"} THEN "attention" ELSE task.status
             back   == [frozen EXCEPT !.status = status, !.prior = "none"]
  <2>1. StoppedTask(task) = frozen
    BY <1>2 DEF StoppedTask
  <2>2. frozen.status = "stopped" /\ frozen.prior = task.status
    BY DEF Task
  <2>3. ResumedTask(frozen) = back
    BY <2>2 DEF ResumedTask
  <2>4. status = IF task.status = "running" THEN "attention" ELSE task.status
    BY DEF Task, TaskStatus
  <2> HIDE DEF status
  <2>5. back.status = status /\ [back EXCEPT !.status = task.status, !.prior = task.prior] = task
    BY DEF Task
  <2>6. ResumedTask(StoppedTask(task)) = back
    BY <2>1, <2>3
  <2> HIDE DEF back
  <2> QED
    BY <2>4, <2>5, <2>6
<1> QED
  BY <1>1, <1>2

\* stop followed by resume gives the plan back: no task, no review and no audit is
\* lost, and what was running when it was stopped wants attention.
THEOREM StopThenResumeKeepsWork ==
  ASSUME ~SteersStopped
  PROVE  Spec => []StopResumeKeepsWork
<1>1. FlowInv => StopResumeKeepsWork
  <2> SUFFICES ASSUME FlowInv, Stoppable(plan) PROVE StopResumeKeepsWork
    BY DEF StopResumeKeepsWork
  <2> DEFINE s     == Stopped(plan)
             p     == Resumed(s)
             tasks == [t \in DOMAIN s.tasks |-> ResumedTask(s.tasks[t])]
  <2>1. /\ PlanSound(plan) /\ DOMAIN plan = Fields
        /\ plan.status \notin {"stopped", "draft"} /\ plan.status \in PlanStatus
        /\ plan.cycle \in Cycle
    BY FieldsOfPlan DEF FlowInv, PlanInv, PlanSound, IsPlan, PlanOver, Stoppable
  <2>2. /\ s.tasks = [t \in DOMAIN plan.tasks |-> StoppedTask(plan.tasks[t])]
        /\ s.status = "stopped" /\ s.prior = plan.status
        /\ s.cycle = StoppedCycle(plan.cycle) /\ DOMAIN s = Fields
    BY <2>1, StoppedKeeps
  <2> HIDE DEF s
  <2>3. /\ p.tasks = tasks /\ p.status = ResumedStatus(s, tasks)
        /\ p.cycle = IF /\ ResumedCycle(s.cycle).status = "available"
                        /\ ~(p.status = "completed" /\ AllCompleted(tasks))
                     THEN NoCycle ELSE ResumedCycle(s.cycle)
    BY <2>2, ResumedKeeps
  <2>4. DOMAIN tasks = DOMAIN plan.tasks
        /\ \A t \in DOMAIN plan.tasks : tasks[t] = ResumedTask(StoppedTask(plan.tasks[t]))
    BY <2>2
  <2> HIDE DEF p, tasks
  <2>5. ASSUME NEW t \in DOMAIN plan.tasks
        PROVE  /\ [p.tasks[t] EXCEPT !.status = plan.tasks[t].status,
                                     !.prior  = plan.tasks[t].prior] = plan.tasks[t]
               /\ p.tasks[t].status = IF plan.tasks[t].status = "running" THEN "attention"
                                      ELSE plan.tasks[t].status
    <3>1. plan.tasks[t] \in Task /\ TaskSound(plan.tasks[t]) /\ plan.tasks[t].status # "stopped"
      BY <2>1, TasksTyped DEF FlowInv, FrozenInv
    <3> QED
      BY <2>3, <2>4, <3>1, StoppedThenResumed
  <2>6. p.status \in {plan.status, "attention"}
    BY <2>1, <2>2, <2>3 DEF ResumedStatus, PlanStatus
  <2>7. plan.status = "completed" => p.status = "completed" /\ AllCompleted(tasks)
    <3> SUFFICES ASSUME plan.status = "completed"
                 PROVE  p.status = "completed" /\ AllCompleted(tasks)
      OBVIOUS
    <3>1. \A t \in DOMAIN plan.tasks : plan.tasks[t].status = "completed"
      BY <2>1 DEF PlanSound, FinishSound, AllCompleted
    <3>2. AllCompleted(tasks) /\ ~AnyWith(tasks, {"attention"})
      BY <2>3, <2>4, <2>5, <3>1 DEF AllCompleted, AnyWith
    <3> QED
      BY <2>2, <2>3, <3>2 DEF ResumedStatus
  <2>8. plan.cycle.status = "available" => plan.status = "completed"
    BY <2>1 DEF PlanSound, OfferSound
  <2>9. plan.cycle.status \notin {"running", "stopped"} =>
          ResumedCycle(s.cycle).status = plan.cycle.status
    <3> SUFFICES ASSUME plan.cycle.status \notin {"running", "stopped"}
                 PROVE  ResumedCycle(s.cycle).status = plan.cycle.status
      OBVIOUS
    <3>1. CASE plan.cycle.status \in {"none", "completed"}
      BY <2>2, <3>1 DEF StoppedCycle, ResumedCycle
    <3>2. CASE plan.cycle.status \notin {"none", "completed"}
      <4> DEFINE c == [plan.cycle EXCEPT !.status = "stopped", !.prior = plan.cycle.status]
      <4>1. s.cycle = c
        BY <2>2, <3>2 DEF StoppedCycle
      <4>2. c.status = "stopped" /\ c.prior = plan.cycle.status
            /\ DOMAIN c = DOMAIN plan.cycle
        BY <2>1 DEF Cycle
      <4> HIDE DEF c
      <4>3. ResumedCycle(c) = [c EXCEPT !.status = plan.cycle.status, !.prior = "none"]
        BY <3>2, <4>2 DEF ResumedCycle
      <4> QED
        BY <2>1, <4>1, <4>2, <4>3 DEF Cycle
    <3> QED
      BY <3>1, <3>2
  <2>10. plan.cycle.status = "running" => ResumedCycle(s.cycle).status = "available"
    <3> SUFFICES ASSUME plan.cycle.status = "running"
                 PROVE  ResumedCycle(s.cycle).status = "available"
      OBVIOUS
    <3> DEFINE c == [plan.cycle EXCEPT !.status = "stopped", !.prior = "running"]
    <3>1. s.cycle = c
      BY <2>2 DEF StoppedCycle
    <3>2. c.status = "stopped" /\ c.prior = "running" /\ c \in Cycle
      BY <2>1 DEF Cycle, CycleStatus
    <3> HIDE DEF c
    <3>3. ResumedCycle(c) = [c EXCEPT !.status = "available", !.prior = "none"]
      BY <3>2 DEF ResumedCycle
    <3> QED
      BY <3>1, <3>2, <3>3 DEF Cycle
  <2>11. plan.cycle.status \notin {"running", "stopped"} => p.cycle.status = plan.cycle.status
    BY <2>3, <2>7, <2>8, <2>9
  <2>12. plan.cycle.status = "running" /\ p.status = "completed" => p.cycle.status = "available"
    BY <2>3, <2>6, <2>7, <2>10
  <2> QED
    BY <2>5, <2>6, <2>11, <2>12 DEF StopResumeKeepsWork, p, s
<1> QED
  BY <1>1, FlowInvariant, PTL

LEMMA SameTasksKeepWork ==
  ASSUME plan'.tasks = plan.tasks
  PROVE  WorkKeptStep
BY DEF WorkKeptStep, Completed

LEMMA ReplacedKeepsDone ==
  ASSUME NEW t \in DOMAIN plan.tasks, NEW task,
         plan'.tasks = [plan.tasks EXCEPT ![t] = task],
         \/ plan.tasks[t].status # "completed"
         \/ task.status \in {"rework", "running"} /\ task.review = "none"
  PROVE  WorkKeptStep
BY DEF WorkKeptStep, Completed

LEMMA ActivateKeepsDone ==
  ASSUME FlowInv, Activate
  PROVE  WorkKeptStep
<1>1. plan.status = "draft" /\ plan' = Activated(plan) /\ DOMAIN plan = Fields
  BY FieldsOfPlan DEF Activate, PlanChanges, FlowInv, PlanInv
<1>2. plan'.tasks = ActivatedTasks(plan)
  BY <1>1, ActivatedKeeps
<1>3. plan.cycle.scopeRepair => KeptByActivation(plan) = Completed(plan.tasks)
  BY <1>1 DEF FlowInv, CycleInv, KeptByActivation
<1> QED
  BY <1>1, <1>2, <1>3 DEF WorkKeptStep, ActivatedTasks, Completed

LEMMA StopResumeKeepDone ==
  ASSUME FlowInv, Stop \/ Resume
  PROVE  WorkKeptStep
<1>1. DOMAIN plan = Fields
  BY FieldsOfPlan DEF FlowInv, PlanInv
<1>2. \/ plan'.tasks = [t \in DOMAIN plan.tasks |-> StoppedTask(plan.tasks[t])]
      \/ plan'.tasks = [t \in DOMAIN plan.tasks |-> ResumedTask(plan.tasks[t])]
  BY <1>1, StoppedKeeps, ResumedKeeps DEF Stop, Resume, PlanChanges
<1> QED
  BY <1>2 DEF WorkKeptStep, Completed, StoppedTask, ResumedTask

LEMMA ReviewKeepsDone ==
  ASSUME FlowInv, ReviewTask
  PROVE  WorkKeptStep
<1>1. PICK t \in DOMAIN plan.tasks, decision \in Decisions :
        /\ plan.tasks[t].status \in {"reported", "attention", "failed"}
        /\ PlanChanges(Reviewed(plan, t, decision))
  BY DEF ReviewTask
<1> DEFINE reviewed == [plan.tasks EXCEPT ![t] = ReviewedTask(@, decision)]
<1>2. plan'.tasks = Unblocked(reviewed)
  BY <1>1, FieldsOfPlan, ReviewedKeeps DEF PlanChanges, FlowInv, PlanInv
<1>3. /\ DOMAIN reviewed = DOMAIN plan.tasks
      /\ \A u \in DOMAIN plan.tasks \ {t} : reviewed[u] = plan.tasks[u]
  OBVIOUS
<1> HIDE DEF reviewed
<1>4. ASSUME NEW u \in Completed(plan.tasks)
      PROVE  u \in DOMAIN plan'.tasks /\ plan'.tasks[u] = plan.tasks[u]
  <2>1. u \in DOMAIN reviewed /\ reviewed[u] = plan.tasks[u] /\ reviewed[u].status = "completed"
    BY <1>1, <1>3 DEF Completed
  <2> QED
    BY <1>2, <2>1 DEF Unblocked
<1> QED
  BY <1>4 DEF WorkKeptStep

LEMMA FollowUpKeepsDone ==
  ASSUME FlowInv, AppendFollowUpTask
  PROVE  WorkKeptStep
<1>1. PICK t \in Tasks \ DOMAIN plan.tasks : PlanChanges(FollowUpPlan(InRework(plan), t))
  BY DEF AppendFollowUpTask
<1>2. InRework(plan).tasks = plan.tasks /\ DOMAIN InRework(plan) = Fields
  BY InReworkKeeps DEF FlowInv, PlanInv
<1> DEFINE added == [NewTask EXCEPT !.status = DependencyStatus(t, Completed(plan.tasks))]
<1>3. plan'.tasks = [u \in DOMAIN plan.tasks \cup {t} |->
                       IF u = t THEN added ELSE plan.tasks[u]]
  BY <1>1, <1>2, FollowUpKeeps DEF PlanChanges
<1> HIDE DEF added
<1> QED
  BY <1>1, <1>3 DEF WorkKeptStep, Completed

\* The audit's rework, which starts every task over, is out of reach: no operation
\* plans a correction of a completed plan, so what is proposed is a scope repair.
LEMMA ReworkDraftKeepsDone ==
  ASSUME FlowInv, ProposeRework
  PROVE  WorkKeptStep
<1>1. PICK S \in SUBSET Tasks :
        /\ ScopeRepair(plan) => DOMAIN plan.tasks \subseteq S
        /\ PlanChanges(ReworkDraft(plan, S))
  BY DEF ProposeRework
<1>2. ScopeRepair(plan)
  BY DEF ProposeRework, ProposalAllowed, AuditRework, FlowInv, CycleInv
<1>3. plan'.tasks = ProposedTasks(plan, S)
  BY <1>1, ReworkDraftKeeps DEF PlanChanges, FlowInv, PlanInv
<1>4. ASSUME NEW t \in Completed(plan.tasks)
      PROVE  t \in DOMAIN plan'.tasks /\ plan'.tasks[t] = plan.tasks[t]
  <2>1. t \in S /\ t \in DOMAIN plan.tasks /\ plan.tasks[t].status = "completed"
    BY <1>1, <1>2 DEF Completed
  <2>2. plan.tasks[t] \in Task
    BY <2>1, TasksTyped DEF FlowInv
  <2>3. plan'.tasks[t] = [plan.tasks[t] EXCEPT !.prior = plan.tasks[t].prior]
    BY <1>2, <1>3, <2>1 DEF ProposedTasks
  <2>4. [plan.tasks[t] EXCEPT !.prior = plan.tasks[t].prior] = plan.tasks[t]
    BY <2>2 DEF Task
  <2> QED
    BY <1>3, <2>1, <2>3, <2>4 DEF ProposedTasks
<1> QED
  BY <1>4 DEF WorkKeptStep

LEMMA NextKeepsDone == FlowInv /\ [Next]_vars => WorkKeptStep
<1> SUFFICES ASSUME FlowInv, [Next]_vars PROVE WorkKeptStep
  OBVIOUS
<1>a. /\ PlanInv /\ PlanSound(plan) /\ DOMAIN plan = Fields
      /\ \A t \in DOMAIN plan.tasks : plan.tasks[t] \in Task /\ TaskSound(plan.tasks[t])
  BY FieldsOfPlan, TasksTyped DEF FlowInv, PlanInv
<1>b. ASSUME NEW t \in DOMAIN plan.tasks, NEW task, NEW status,
             plan' = ReplaceTask(plan, t, task, status),
             plan.tasks[t].status # "completed"
      PROVE  WorkKeptStep
  <2>1. plan'.tasks = [plan.tasks EXCEPT ![t] = task]
    BY <1>a, <1>b, ReplaceTaskKeeps
  <2> QED
    BY <1>b, <2>1, ReplacedKeepsDone
<1>1. CASE SaveDraft \/ SyncDraftToSpec
  <2>1. /\ plan.status = "draft"
        /\ \/ plan' = EditedDraft(plan)
           \/ \E S : plan' = RegeneratedDraft(plan, S)
    BY <1>1 DEF SaveDraft, SyncDraftToSpec, PlanChanges
  <2>2. EditedDraft(plan).status = "draft"
    BY <1>a, <2>1, EditedDraftKeeps
  <2>3. \A S : RegeneratedDraft(plan, S).status = "draft"
    BY <1>a, <2>1, RegeneratedDraftKeeps
  <2> QED
    BY <2>1, <2>2, <2>3 DEF WorkKeptStep
<1>2. CASE Activate
  BY <1>2, ActivateKeepsDone
<1>3. CASE Stop \/ Resume
  BY <1>3, StopResumeKeepDone
<1>4. CASE AssignTask
  <2>1. PICK t \in DOMAIN plan.tasks :
          Assignable(plan.tasks[t]) /\ \E thread : AssignOn(t, thread)
    BY <1>4 DEF AssignTask, AssignSenior, AssignSameWorker, AssignNewWorker
  <2>2. plan.tasks[t].status # "completed"
    BY <2>1 DEF Assignable, RetryingStopped
  <2> QED
    BY <1>b, <2>1, <2>2 DEF AssignOn
<1>5. CASE AssignTaskFails \/ SubmitEvidence \/ ToggleReporting \/ UNCHANGED vars
  BY <1>5, SameTasksKeepWork DEF AssignTaskFails, SubmitEvidence, ToggleReporting, vars
<1>6. CASE ReportTask
  BY <1>b, <1>6 DEF ReportTask, OwnsRunning, PlanChanges, ReportedPlan
<1>7. CASE ReviewTask
  BY <1>7, ReviewKeepsDone
<1>8. CASE StopWorker
  BY <1>b, <1>8 DEF StopWorker, PlanChanges, WorkerStopped
<1>9. CASE MarkWorkerSteered
  <2>1. PICK t \in DOMAIN plan.tasks : plan' = SteeredPlan(plan, t)
    BY <1>9 DEF MarkWorkerSteered
  <2> DEFINE task == [plan.tasks[t] EXCEPT !.status = "running", !.report = "none",
                                           !.review = "none"]
  <2>2. plan'.tasks = [plan.tasks EXCEPT ![t] = task]
    BY <1>a, <2>1, SteeredKeeps DEF SteeredTasks
  <2>3. task.status = "running" /\ task.review = "none"
    BY <1>a DEF Task
  <2> HIDE DEF task
  <2> QED
    BY <2>2, <2>3, ReplacedKeepsDone
<1>10. CASE AuditCycle
  BY <1>a, <1>10, AuditCycleKeeps, SameTasksKeepWork
<1>11. CASE ReopenCompletedTask
  <2>1. PICK t \in Completed(plan.tasks) : PlanChanges(ReopenedPlan(InRework(plan), t))
    BY <1>11 DEF ReopenCompletedTask
  <2>2. /\ InRework(plan).tasks = plan.tasks /\ DOMAIN InRework(plan) = Fields
        /\ t \in DOMAIN plan.tasks
    BY <1>a, InReworkKeeps DEF Completed
  <2> DEFINE task == [plan.tasks[t] EXCEPT !.status = "rework", !.report = "none",
                                           !.review = "none"]
  <2>3. plan'.tasks = [plan.tasks EXCEPT ![t] = task]
    BY <2>1, <2>2, ReplaceTaskKeeps DEF PlanChanges, ReopenedPlan
  <2>4. task.status = "rework" /\ task.review = "none"
    BY <1>a, <2>2 DEF Task
  <2> HIDE DEF task
  <2> QED
    BY <2>2, <2>3, <2>4, ReplacedKeepsDone
<1>12. CASE AppendFollowUpTask
  BY <1>12, FollowUpKeepsDone
<1>13. CASE ProposeRework
  BY <1>13, ReworkDraftKeepsDone
<1> QED
  BY <1>1, <1>2, <1>3, <1>4, <1>5, <1>6, <1>7, <1>8, <1>9, <1>10, <1>11, <1>12, <1>13
  DEF Next

\* Whatever is called when, finished work of a signed-off plan is undone only by
\* reopening that very task, and the sign-off of a scope repair keeps it.
THEOREM FinishedWorkIsKept == Spec => WorkKept
<1>1. FlowInv /\ [Next]_vars => [WorkKeptStep]_vars
  BY NextKeepsDone
<1> QED
  BY <1>1, FlowInvariant, PTL DEF Spec, WorkKept
=============================================================================
