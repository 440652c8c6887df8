------------------------ MODULE AssignmentPlan_proofs ------------------------
(***************************************************************************)
(* Every operation of the engine turns a sound plan into a sound plan.     *)
(* The lemmas are about the operators of AssignmentPlan alone: they hold   *)
(* of the stored plan and of a stale snapshot alike.                       *)
(***************************************************************************)
EXTENDS AssignmentPlan, TLAPS

\* Dropping a stale offer is what makes any rewritten plan's offer sound.
LEMMA SettleSound ==
  ASSUME NEW p, IsPlan(p), FinishSound(p), StopSound(p), DraftSound(p),
         ReviewSound(p), ResumeSound(p)
  PROVE  PlanSound(Settle(p))
<1>1. CASE ~OfferStale(p)
  <2>1. Settle(p) = p
    BY <1>1 DEF Settle
  <2>2. OfferSound(p)
    BY <1>1 DEF OfferStale, OfferSound
  <2> QED
    BY <2>1, <2>2 DEF PlanSound
<1>2. CASE OfferStale(p)
  <2> DEFINE q == [p EXCEPT !.cycle = NoCycle]
  <2>1. Settle(p) = q
    BY <1>2 DEF Settle
  <2>2. PICK S \in SUBSET Tasks : p \in PlanOver(S)
    BY DEF IsPlan
  <2>3. NoCycle \in Cycle
    BY DEF NoCycle, Cycle, CycleStatus
  <2>4. q \in PlanOver(S) /\ q.status = p.status /\ q.tasks = p.tasks
        /\ q.prior = p.prior /\ q.cycle = NoCycle
    BY <2>2, <2>3 DEF PlanOver
  <2>5. p.status \notin {"completed", "stopped"}
    BY <1>2 DEF OfferStale, FinishSound, StopSound
  <2> HIDE DEF q
  <2>6. IsPlan(q)
    BY <2>4 DEF IsPlan
  <2>7. OfferSound(q) /\ FinishSound(q) /\ StopSound(q)
    BY <2>4, <2>5 DEF OfferSound, FinishSound, StopSound, NoCycle
  <2>8. DraftSound(q) /\ ReviewSound(q) /\ ResumeSound(q)
    BY <2>4, <2>5 DEF DraftSound, ReviewSound, ResumeSound
  <2> QED
    BY <2>1, <2>6, <2>7, <2>8 DEF PlanSound
<1> QED
  BY <1>1, <1>2

(***************************************************************************)
(* What a task must be to appear in a sound plan.                          *)
(***************************************************************************)
TaskSound(task) ==
  /\ (task.status = "completed") <=> (task.review = "pass")
  /\ task.status = "stopped" => task.prior # "completed"

LEMMA TasksOfSoundPlan ==
  ASSUME NEW p, PlanSound(p)
  PROVE  \E S \in SUBSET Tasks :
           /\ p \in PlanOver(S)
           /\ DOMAIN p.tasks = S
           /\ \A t \in S : p.tasks[t] \in Task /\ TaskSound(p.tasks[t])
<1>1. PICK S \in SUBSET Tasks : p \in PlanOver(S)
  BY DEF PlanSound, IsPlan
<1>2. DOMAIN p.tasks = S /\ \A t \in S : p.tasks[t] \in Task
  BY <1>1 DEF PlanOver
<1>3. \A t \in S : TaskSound(p.tasks[t])
  BY <1>2 DEF PlanSound, ReviewSound, ResumeSound, TaskSound
<1> QED
  BY <1>1, <1>2, <1>3

LEMMA NewTaskSound ==
  \A status \in {"planned", "blocked", "ready"} :
    LET task == [NewTask EXCEPT !.status = status]
    IN task \in Task /\ TaskSound(task) /\ task.status = status
BY DEF NewTask, Task, TaskStatus, Reports, Decisions, TaskSound

\* Whatever reopens or advances work leaves a running plan or one that wants
\* attention, and such a plan is sound whenever its tasks are.
LEMMA WorkingPlanSound ==
  ASSUME NEW p, PlanSound(p), NEW S \in SUBSET Tasks, NEW tasks \in [S -> Task],
         NEW status \in {"running", "attention"},
         \A t \in S : TaskSound(tasks[t])
  PROVE  PlanSound(Settle([p EXCEPT !.status = status, !.tasks = tasks]))
<1> DEFINE q == [p EXCEPT !.status = status, !.tasks = tasks]
<1>1. PICK S0 \in SUBSET Tasks : p \in PlanOver(S0)
  BY DEF PlanSound, IsPlan
<1>2. q \in PlanOver(S) /\ q.status = status /\ q.tasks = tasks /\ DOMAIN tasks = S
  BY <1>1 DEF PlanOver, PlanStatus
<1> HIDE DEF q
<1>3. IsPlan(q)
  BY <1>2 DEF IsPlan
<1>4. FinishSound(q) /\ StopSound(q) /\ DraftSound(q)
  BY <1>2 DEF FinishSound, StopSound, DraftSound
<1>5. ReviewSound(q) /\ ResumeSound(q)
  BY <1>2 DEF ReviewSound, ResumeSound, TaskSound
<1>6. PlanSound(Settle(q))
  BY <1>3, <1>4, <1>5, SettleSound
<1> QED
  BY <1>6 DEF q

LEMMA ReplaceTaskSound ==
  ASSUME NEW p, PlanSound(p), NEW t \in DOMAIN p.tasks, NEW task \in Task,
         TaskSound(task), NEW status \in {"running", "attention"}
  PROVE  PlanSound(ReplaceTask(p, t, task, status))
<1>1. PICK S \in SUBSET Tasks : /\ p \in PlanOver(S)
                               /\ DOMAIN p.tasks = S
                               /\ \A u \in S : p.tasks[u] \in Task /\ TaskSound(p.tasks[u])
  BY TasksOfSoundPlan
<1> DEFINE tasks == [p.tasks EXCEPT ![t] = task]
<1>2. tasks \in [S -> Task] /\ \A u \in S : TaskSound(tasks[u])
  BY <1>1 DEF PlanOver
<1>3. [p EXCEPT !.status = status, !.tasks[t] = task]
        = [p EXCEPT !.status = status, !.tasks = tasks]
  BY <1>1 DEF PlanOver
<1> HIDE DEF tasks
<1>4. PlanSound(Settle([p EXCEPT !.status = status, !.tasks = tasks]))
  BY <1>2, WorkingPlanSound
<1> QED
  BY <1>3, <1>4 DEF ReplaceTask

\* Every step of the audit cycle happens to a completed plan and leaves it one.
LEMMA CycleSavedSound ==
  ASSUME NEW p, PlanSound(p), p.status = "completed", NEW cycle \in Cycle,
         cycle.status \notin {"none", "awaiting_rework_approval", "stopped"}
  PROVE  PlanSound(CycleSaved(p, cycle))
<1> DEFINE q == [p EXCEPT !.cycle = cycle]
<1>1. PICK S \in SUBSET Tasks : p \in PlanOver(S)
  BY DEF PlanSound, IsPlan
<1>2. q \in PlanOver(S) /\ q.status = "completed" /\ q.tasks = p.tasks /\ q.cycle = cycle
  BY <1>1 DEF PlanOver
<1> HIDE DEF q
<1>3. IsPlan(q)
  BY <1>2 DEF IsPlan
<1>4. FinishSound(q) /\ StopSound(q) /\ DraftSound(q)
  BY <1>2 DEF PlanSound, FinishSound, StopSound, DraftSound
<1>5. ReviewSound(q) /\ ResumeSound(q)
  BY <1>2 DEF PlanSound, ReviewSound, ResumeSound
<1> QED
  BY <1>3, <1>4, <1>5, SettleSound DEF CycleSaved, q

(***************************************************************************)
(* Drafting and sign-off.                                                  *)
(***************************************************************************)
\* A plan whose tasks are all NewTask has nothing under way and nothing done.
LEMMA UntouchedTasks ==
  ASSUME NEW S
  PROVE  [t \in S |-> NewTask] \in [S -> Task]
         /\ \A t \in S : TaskSound([u \in S |-> NewTask][t])
                         /\ [u \in S |-> NewTask][t].status = "planned"
<1>1. NewTask \in Task /\ TaskSound(NewTask) /\ NewTask.status = "planned"
  BY DEF NewTask, Task, TaskStatus, Reports, Decisions, TaskSound
<1> QED
  BY <1>1

\* Whatever a draft is made of, it is sound when no task of it is under way.
LEMMA DraftIsSound ==
  ASSUME NEW p, NEW S \in SUBSET Tasks, p \in PlanOver(S), p.status = "draft",
         \A t \in S : TaskSound(p.tasks[t]),
         \A t \in S : p.tasks[t].status \notin {"running", "reported"}
  PROVE  PlanSound(Settle(p))
<1>1. DOMAIN p.tasks = S
  BY DEF PlanOver
<1>2. IsPlan(p) /\ FinishSound(p) /\ StopSound(p)
  BY DEF IsPlan, FinishSound, StopSound
<1>3. DraftSound(p) /\ ReviewSound(p) /\ ResumeSound(p)
  BY <1>1 DEF DraftSound, AnyWith, ReviewSound, ResumeSound, TaskSound
<1> QED
  BY <1>2, <1>3, SettleSound

LEMMA DraftPlanSound ==
  ASSUME NEW S \in SUBSET Tasks
  PROVE  PlanSound(DraftPlan(S))
<1>1. NoCycle \in Cycle /\ NoCycle.status = "none"
  BY DEF NoCycle, Cycle, CycleStatus
<1>2. DraftPlan(S) \in PlanOver(S)
  BY <1>1, UntouchedTasks DEF DraftPlan, PlanOver, PlanStatus
<1>3. /\ DraftPlan(S).status = "draft" /\ DraftPlan(S).cycle = NoCycle
      /\ DraftPlan(S).tasks = [t \in S |-> NewTask]
  BY DEF DraftPlan
<1>4. PlanSound(Settle(DraftPlan(S)))
  BY <1>2, <1>3, UntouchedTasks, DraftIsSound
<1>5. Settle(DraftPlan(S)) = DraftPlan(S)
  BY <1>1, <1>3 DEF Settle, OfferStale
<1> QED
  BY <1>4, <1>5

LEMMA EditedDraftSound ==
  ASSUME NEW p, PlanSound(p), p.status = "draft"
  PROVE  PlanSound(EditedDraft(p))
<1> DEFINE q == [p EXCEPT !.version = @ + 1]
<1>1. PICK S \in SUBSET Tasks : /\ p \in PlanOver(S)
                               /\ DOMAIN p.tasks = S
                               /\ \A t \in S : p.tasks[t] \in Task /\ TaskSound(p.tasks[t])
  BY TasksOfSoundPlan
<1>2. q \in PlanOver(S) /\ q.status = "draft" /\ q.tasks = p.tasks
  BY <1>1 DEF PlanOver
<1>3. \A t \in S : p.tasks[t].status \notin {"running", "reported"}
  BY <1>1 DEF PlanSound, DraftSound, AnyWith
<1> HIDE DEF q
<1>4. PlanSound(Settle(q))
  BY <1>1, <1>2, <1>3, DraftIsSound
<1> QED
  BY <1>4 DEF EditedDraft, q

LEMMA RegeneratedDraftSound ==
  ASSUME NEW p, PlanSound(p), p.status = "draft", NEW S \in SUBSET Tasks
  PROVE  PlanSound(RegeneratedDraft(p, S))
<1> DEFINE tasks == [t \in S |-> NewTask]
           q     == [p EXCEPT !.version = @ + 1, !.tasks = tasks]
<1>1. PICK S0 \in SUBSET Tasks : p \in PlanOver(S0)
  BY DEF PlanSound, IsPlan
<1>2. /\ tasks \in [S -> Task]
      /\ \A t \in S : TaskSound(tasks[t]) /\ tasks[t].status = "planned"
  BY UntouchedTasks
<1> HIDE DEF tasks
<1>3. [p EXCEPT !.tasks = tasks] \in PlanOver(S)
  BY <1>1, <1>2 DEF PlanOver
<1>4. q \in PlanOver(S) /\ q.status = "draft" /\ q.tasks = tasks
  <2> DEFINE r == [p EXCEPT !.tasks = tasks]
  <2>1. r \in PlanOver(S) /\ r.status = "draft" /\ r.tasks = tasks
    BY <1>1, <1>3 DEF PlanOver
  <2>2. q = [r EXCEPT !.version = @ + 1]
    BY <1>1 DEF PlanOver
  <2> HIDE DEF r, q
  <2>3. [r EXCEPT !.version = @ + 1] \in PlanOver(S)
    BY <2>1 DEF PlanOver
  <2> QED
    BY <2>1, <2>2, <2>3 DEF PlanOver
<1> HIDE DEF q
<1>5. PlanSound(Settle(q))
  BY <1>2, <1>4, DraftIsSound
<1> QED
  BY <1>5 DEF RegeneratedDraft, q, tasks

LEMMA ActivatedSound ==
  ASSUME NEW p, PlanSound(p), p.status = "draft"
  PROVE  PlanSound(Activated(p))
<1> DEFINE cycle == [p.cycle EXCEPT !.status = IF @ = "awaiting_rework_approval"
                                               THEN "reworking" ELSE @]
           q     == Activated(p)
<1>1. PICK S \in SUBSET Tasks : /\ p \in PlanOver(S)
                               /\ DOMAIN p.tasks = S
                               /\ \A t \in S : p.tasks[t] \in Task /\ TaskSound(p.tasks[t])
  BY TasksOfSoundPlan
<1>2. p.cycle.status # "available"
  BY DEF PlanSound, OfferSound
<1>3. cycle \in Cycle /\ cycle.status # "available"
  BY <1>1, <1>2 DEF PlanOver, Cycle, CycleStatus
<1>4. ASSUME NEW t \in S
      PROVE  ActivatedTasks(p)[t] \in Task /\ TaskSound(ActivatedTasks(p)[t])
  <2>1. CASE t \in KeptByActivation(p)
    BY <1>1, <2>1 DEF ActivatedTasks
  <2>2. CASE t \notin KeptByActivation(p)
    <3>1. PICK status \in {"planned", "blocked", "ready"} :
            ActivatedTasks(p)[t] = [NewTask EXCEPT !.status = status]
      BY <1>1, <2>2 DEF ActivatedTasks, DependencyStatus
    <3> QED
      BY <3>1, NewTaskSound
  <2> QED
    BY <2>1, <2>2
<1>5. ActivatedTasks(p) \in [S -> Task]
  BY <1>1, <1>4 DEF ActivatedTasks
<1>6. /\ q \in PlanOver(S) /\ q.status = "approved"
      /\ q.tasks = ActivatedTasks(p) /\ q.cycle = cycle
  BY <1>1, <1>3, <1>5 DEF Activated, PlanOver, PlanStatus
<1>7. DOMAIN q.tasks = S
  BY <1>5, <1>6
<1> HIDE DEF q, cycle
<1>8. IsPlan(q) /\ OfferSound(q) /\ FinishSound(q) /\ StopSound(q) /\ DraftSound(q)
  BY <1>3, <1>6 DEF IsPlan, OfferSound, FinishSound, StopSound, DraftSound
<1>9. ReviewSound(q) /\ ResumeSound(q)
  BY <1>4, <1>6, <1>7 DEF ReviewSound, ResumeSound, TaskSound
<1> QED
  BY <1>8, <1>9 DEF PlanSound, q

(***************************************************************************)
(* Stop and resume.                                                        *)
(***************************************************************************)
LEMMA StoppedTaskSound ==
  ASSUME NEW task \in Task, TaskSound(task)
  PROVE  /\ StoppedTask(task) \in Task
         /\ TaskSound(StoppedTask(task))
         /\ IF task.status = "completed" THEN StoppedTask(task) = task
            ELSE /\ StoppedTask(task).status = "stopped"
                 /\ StoppedTask(task).prior # "none"
<1>1. CASE task.status = "completed"
  BY <1>1 DEF StoppedTask
<1>2. CASE task.status # "completed"
  <2> DEFINE prior == IF task.status # "stopped" THEN task.status
                      ELSE IF task.prior = "none" THEN "attention" ELSE task.prior
  <2>1. prior \in TaskStatus \ {"stopped", "completed"} /\ prior # "none"
    BY <1>2 DEF Task, TaskStatus, TaskSound
  <2>2. StoppedTask(task) = [task EXCEPT !.status = "stopped", !.prior = prior]
    BY <1>2 DEF StoppedTask
  <2> HIDE DEF prior
  <2>3. /\ StoppedTask(task) \in Task
        /\ StoppedTask(task).status = "stopped" /\ StoppedTask(task).prior = prior
        /\ StoppedTask(task).review = task.review
    BY <2>1, <2>2 DEF Task, TaskStatus
  <2> QED
    BY <1>2, <2>1, <2>3 DEF TaskSound
<1> QED
  BY <1>1, <1>2

LEMMA StoppedCycleSound ==
  ASSUME NEW c \in Cycle
  PROVE  /\ StoppedCycle(c) \in Cycle
         /\ StoppedCycle(c).status \in {"none", "completed", "stopped"}
         /\ c.status \notin {"none", "completed", "stopped"} =>
              StoppedCycle(c).status = "stopped" /\ StoppedCycle(c).prior = c.status
<1>1. CASE c.status \in {"none", "completed"}
  BY <1>1 DEF StoppedCycle
<1>2. CASE c.status \notin {"none", "completed"}
  <2> DEFINE prior == IF c.status # "stopped" THEN c.status
                      ELSE IF c.prior = "none" THEN "available" ELSE c.prior
  <2>1. prior \in CycleStatus \ {"stopped"}
    BY <1>2 DEF Cycle, CycleStatus
  <2>2. StoppedCycle(c) = [c EXCEPT !.status = "stopped", !.prior = prior]
    BY <1>2 DEF StoppedCycle
  <2>3. c.status # "stopped" => prior = c.status
    OBVIOUS
  <2> HIDE DEF prior
  <2> QED
    BY <1>2, <2>1, <2>2, <2>3 DEF Cycle, CycleStatus
<1> QED
  BY <1>1, <1>2

LEMMA StoppedPlanSound ==
  ASSUME NEW p, PlanSound(p), p.status \notin {"stopped", "draft"},
         ~(p.status = "completed" /\ p.cycle.status = "completed")
  PROVE  PlanSound(Stopped(p))
<1> DEFINE tasks == [t \in DOMAIN p.tasks |-> StoppedTask(p.tasks[t])]
           cycle == StoppedCycle(p.cycle)
           q     == Stopped(p)
<1>1. PICK S \in SUBSET Tasks : /\ p \in PlanOver(S)
                               /\ DOMAIN p.tasks = S
                               /\ \A t \in S : p.tasks[t] \in Task /\ TaskSound(p.tasks[t])
  BY TasksOfSoundPlan
<1>2. ASSUME NEW t \in S
      PROVE  /\ tasks[t] \in Task /\ TaskSound(tasks[t])
             /\ IF p.tasks[t].status = "completed" THEN tasks[t] = p.tasks[t]
                ELSE tasks[t].status = "stopped" /\ tasks[t].prior # "none"
  BY <1>1, StoppedTaskSound
<1>3. tasks \in [S -> Task] /\ DOMAIN tasks = S
  BY <1>1, <1>2
<1>4. /\ cycle \in Cycle /\ cycle.status \in {"none", "completed", "stopped"}
      /\ p.cycle.status \notin {"none", "completed", "stopped"} =>
           cycle.status = "stopped" /\ cycle.prior = p.cycle.status
  BY <1>1, StoppedCycleSound DEF PlanOver
<1> HIDE DEF tasks, cycle
<1>5. q = [p EXCEPT !.status = "stopped", !.prior = p.status,
                    !.tasks = tasks, !.cycle = cycle]
  BY DEF Stopped, tasks, cycle
<1> HIDE DEF q
<1>6. /\ q \in PlanOver(S) /\ q.status = "stopped" /\ q.prior = p.status
      /\ q.tasks = tasks /\ q.cycle = cycle
  BY <1>1, <1>3, <1>4, <1>5 DEF PlanOver, PlanStatus
<1>7. IsPlan(q) /\ OfferSound(q) /\ FinishSound(q) /\ DraftSound(q)
  BY <1>4, <1>6 DEF IsPlan, OfferSound, FinishSound, DraftSound
<1>8. StopSound(q) /\ ReviewSound(q)
  BY <1>2, <1>3, <1>4, <1>6 DEF StopSound, ReviewSound, TaskSound
<1>9. ResumeSound(q)
  <2>1. q.prior \notin {"none", "draft"}
    BY <1>1, <1>6 DEF PlanOver, PlanStatus
  <2>2. ASSUME p.status = "completed"
        PROVE  /\ AllCompleted(q.tasks)
               /\ q.cycle.status = "stopped"
               /\ q.cycle.prior \notin {"none", "awaiting_rework_approval"}
    <3>1. /\ \A t \in S : p.tasks[t].status = "completed"
          /\ p.cycle.status \notin {"none", "awaiting_rework_approval", "stopped", "completed"}
      BY <1>1, <2>2 DEF PlanSound, FinishSound, AllCompleted
    <3> QED
      BY <1>2, <1>3, <1>4, <1>6, <3>1 DEF AllCompleted
  <2>3. \A t \in S : tasks[t].status = "stopped" =>
                       tasks[t].prior # "completed" /\ tasks[t].prior # "none"
    <3> SUFFICES ASSUME NEW t \in S, tasks[t].status = "stopped"
                 PROVE  tasks[t].prior # "completed" /\ tasks[t].prior # "none"
      OBVIOUS
    <3> QED
      BY <1>2 DEF TaskSound
  <2> QED
    BY <1>3, <1>6, <2>1, <2>2, <2>3 DEF ResumeSound
<1> QED
  BY <1>7, <1>8, <1>9 DEF PlanSound, q

LEMMA ResumedTaskSound ==
  ASSUME NEW task \in Task, TaskSound(task)
  PROVE  /\ ResumedTask(task) \in Task
         /\ TaskSound(ResumedTask(task))
         /\ ResumedTask(task).status # "stopped"
         /\ task.status = "completed" => ResumedTask(task) = task
<1>1. CASE task.status # "stopped"
  BY <1>1 DEF ResumedTask
<1>2. CASE task.status = "stopped"
  <2> DEFINE status == IF task.prior \in {"running", "none"} THEN "attention" ELSE task.prior
  <2>1. status \in TaskStatus \ {"stopped", "completed"}
    BY <1>2 DEF Task, TaskStatus, TaskSound
  <2>2. ResumedTask(task) = [task EXCEPT !.status = status, !.prior = "none"]
    BY <1>2 DEF ResumedTask
  <2> HIDE DEF status
  <2>3. /\ ResumedTask(task) \in Task /\ ResumedTask(task).status = status
        /\ ResumedTask(task).review = task.review
    BY <2>1, <2>2 DEF Task, TaskStatus
  <2> QED
    BY <1>2, <2>1, <2>3 DEF TaskSound
<1> QED
  BY <1>1, <1>2

LEMMA ResumedCycleSound ==
  ASSUME NEW c \in Cycle
  PROVE  /\ ResumedCycle(c) \in Cycle
         /\ ResumedCycle(c).status # "stopped"
         /\ c.status = "stopped" /\ c.prior \notin {"none", "awaiting_rework_approval"} =>
              ResumedCycle(c).status \notin {"none", "awaiting_rework_approval"}
<1>1. CASE c.status # "stopped"
  BY <1>1 DEF ResumedCycle
<1>2. CASE c.status = "stopped"
  <2> DEFINE status == IF c.prior \in {"running", "none"} THEN "available" ELSE c.prior
  <2>1. status \in CycleStatus \ {"stopped"}
    BY DEF Cycle, CycleStatus
  <2>2. ResumedCycle(c) = [c EXCEPT !.status = status, !.prior = "none"]
    BY <1>2 DEF ResumedCycle
  <2>3. c.prior \notin {"none", "awaiting_rework_approval"} =>
          status \notin {"none", "awaiting_rework_approval"}
    OBVIOUS
  <2> HIDE DEF status
  <2> QED
    BY <1>2, <2>1, <2>2, <2>3 DEF Cycle, CycleStatus
<1> QED
  BY <1>1, <1>2

LEMMA ResumedPlanSound ==
  ASSUME NEW p, PlanSound(p), p.status = "stopped"
  PROVE  PlanSound(Resumed(p))
<1> DEFINE tasks  == [t \in DOMAIN p.tasks |-> ResumedTask(p.tasks[t])]
           cycle  == ResumedCycle(p.cycle)
           status == ResumedStatus(p, tasks)
           q      == [p EXCEPT !.status = status, !.prior = "none",
                               !.tasks = tasks, !.cycle = cycle]
<1>1. PICK S \in SUBSET Tasks : /\ p \in PlanOver(S)
                               /\ DOMAIN p.tasks = S
                               /\ \A t \in S : p.tasks[t] \in Task /\ TaskSound(p.tasks[t])
  BY TasksOfSoundPlan
<1>2. ASSUME NEW t \in S
      PROVE  /\ tasks[t] \in Task /\ TaskSound(tasks[t]) /\ tasks[t].status # "stopped"
             /\ p.tasks[t].status = "completed" => tasks[t] = p.tasks[t]
  BY <1>1, ResumedTaskSound
<1>3. tasks \in [S -> Task] /\ DOMAIN tasks = S
  BY <1>1, <1>2
<1>4. /\ cycle \in Cycle /\ cycle.status # "stopped"
      /\ p.cycle.status = "stopped" /\ p.cycle.prior \notin {"none", "awaiting_rework_approval"}
           => cycle.status \notin {"none", "awaiting_rework_approval"}
  BY <1>1, ResumedCycleSound DEF PlanOver
<1>5. Resumed(p) = Settle(q)
  BY DEF Resumed
<1> HIDE DEF tasks, cycle
<1>6. p.prior \in PlanStatus \ {"stopped", "draft"}
  BY <1>1 DEF PlanOver, PlanStatus, PlanSound, ResumeSound
<1>7. /\ status \in PlanStatus \ {"stopped", "draft"}
      /\ status = "completed" => p.prior = "completed"
  BY <1>6 DEF ResumedStatus, PlanStatus
<1> HIDE DEF status
<1>8. /\ q \in PlanOver(S) /\ q.status = status /\ q.tasks = tasks /\ q.cycle = cycle
  BY <1>1, <1>3, <1>4, <1>7 DEF PlanOver, PlanStatus
<1> HIDE DEF q
<1>9. IsPlan(q) /\ StopSound(q) /\ DraftSound(q)
  BY <1>7, <1>8 DEF IsPlan, StopSound, DraftSound
<1>10. ReviewSound(q) /\ ResumeSound(q)
  BY <1>2, <1>3, <1>7, <1>8 DEF ReviewSound, ResumeSound, TaskSound
<1>11. FinishSound(q)
  <2> SUFFICES ASSUME p.prior = "completed"
               PROVE  /\ AllCompleted(tasks)
                      /\ cycle.status \notin {"none", "awaiting_rework_approval", "stopped"}
    BY <1>7, <1>8 DEF FinishSound
  <2>1. /\ \A t \in S : p.tasks[t].status = "completed"
        /\ p.cycle.status = "stopped"
        /\ p.cycle.prior \notin {"none", "awaiting_rework_approval"}
    BY <1>1 DEF PlanSound, ResumeSound, AllCompleted
  <2>2. AllCompleted(tasks)
    BY <1>2, <1>3, <2>1 DEF AllCompleted
  <2> QED
    BY <1>4, <2>1, <2>2
<1> QED
  BY <1>5, <1>9, <1>10, <1>11, SettleSound

(***************************************************************************)
(* Work on tasks.                                                          *)
(***************************************************************************)
LEMMA DispatchedSound ==
  ASSUME NEW task \in Task, TaskSound(task), Assignable(task), NEW thread \in Threads
  PROVE  /\ Dispatched(task, thread) \in Task
         /\ TaskSound(Dispatched(task, thread))
         /\ Dispatched(task, thread).thread = thread
         /\ Dispatched(task, thread).status = "running"
<1> DEFINE base == DispatchBase(task)
<1>1. base \in Task /\ base.review # "pass"
  <2>1. CASE ReplacesWorker(task)
    BY <2>1 DEF DispatchBase, Task, Reports, Decisions
  <2>2. CASE ~ReplacesWorker(task) /\ task.status = "rework"
    BY <2>2 DEF DispatchBase, Task, Reports, Decisions
  <2>3. CASE ~ReplacesWorker(task) /\ task.status # "rework"
    BY <2>3 DEF DispatchBase, Assignable, ReplacesWorker, TaskSound
  <2> QED
    BY <2>1, <2>2, <2>3
<1> HIDE DEF base
<1>2. Dispatched(task, thread) = [base EXCEPT !.status = "running", !.thread = thread]
  BY DEF Dispatched, base
<1> QED
  BY <1>1, <1>2 DEF Task, TaskStatus, TaskSound

LEMMA ReportedPlanSound ==
  ASSUME NEW p, PlanSound(p), NEW t \in DOMAIN p.tasks, p.tasks[t].status = "running",
         NEW report \in Reports
  PROVE  PlanSound(ReportedPlan(p, t, report))
<1> DEFINE status == IF report = "ready_for_audit" THEN "reported" ELSE "attention"
           task   == ReportedTask(p.tasks[t], report)
<1>1. p.tasks[t] \in Task /\ TaskSound(p.tasks[t])
  BY TasksOfSoundPlan
<1>2. status \in {"reported", "attention"}
  OBVIOUS
<1>3. task = [p.tasks[t] EXCEPT !.report = report, !.status = status]
  BY DEF ReportedTask
<1> HIDE DEF status
<1>4. task \in Task /\ TaskSound(task)
  BY <1>1, <1>2, <1>3 DEF Task, TaskStatus, TaskSound
<1> HIDE DEF task
<1> QED
  BY <1>4, ReplaceTaskSound DEF ReportedPlan, task

LEMMA WorkerStoppedSound ==
  ASSUME NEW p, PlanSound(p), NEW t \in DOMAIN p.tasks,
         p.tasks[t].status \notin {"completed", "stopped"}
  PROVE  PlanSound(WorkerStopped(p, t))
<1> DEFINE task == [p.tasks[t] EXCEPT !.status = "attention"]
<1>1. p.tasks[t] \in Task /\ TaskSound(p.tasks[t])
  BY TasksOfSoundPlan
<1>2. task \in Task /\ TaskSound(task)
  BY <1>1 DEF Task, TaskStatus, TaskSound
<1> HIDE DEF task
<1> QED
  BY <1>2, ReplaceTaskSound DEF WorkerStopped, task

LEMMA ReviewedTaskSound ==
  ASSUME NEW task \in Task, NEW decision \in Decisions
  PROVE  ReviewedTask(task, decision) \in Task /\ TaskSound(ReviewedTask(task, decision))
<1> DEFINE status == CASE decision = "pass"   -> "completed"
                       [] decision = "rework" -> "rework"
                       [] decision = "fail"   -> "failed"
<1>1. /\ status \in {"completed", "rework", "failed"}
      /\ status = "completed" <=> decision = "pass"
  BY DEF Decisions
<1>2. ReviewedTask(task, decision) = [task EXCEPT !.review = decision, !.status = status]
  BY DEF ReviewedTask
<1> HIDE DEF status
<1> QED
  BY <1>1, <1>2 DEF Task, TaskStatus, TaskSound

LEMMA UnblockedSound ==
  ASSUME NEW S, NEW tasks \in [S -> Task], \A t \in S : TaskSound(tasks[t])
  PROVE  Unblocked(tasks) \in [S -> Task] /\ \A t \in S : TaskSound(Unblocked(tasks)[t])
<1> SUFFICES ASSUME NEW t \in S
             PROVE  Unblocked(tasks)[t] \in Task /\ TaskSound(Unblocked(tasks)[t])
  BY DEF Unblocked
<1>1. \/ Unblocked(tasks)[t] = tasks[t]
      \/ /\ tasks[t].status = "blocked"
         /\ Unblocked(tasks)[t] = [tasks[t] EXCEPT !.status = "ready"]
  BY DEF Unblocked
<1> QED
  BY <1>1 DEF Task, TaskStatus, TaskSound

\* The one operation that completes a plan also puts its audit on offer.
LEMMA ReviewedSound ==
  ASSUME NEW p, PlanSound(p), NEW t \in DOMAIN p.tasks, NEW decision \in Decisions
  PROVE  PlanSound(Reviewed(p, t, decision))
<1> DEFINE reviewed == [p.tasks EXCEPT ![t] = ReviewedTask(@, decision)]
           tasks    == Unblocked(reviewed)
           all      == AllCompleted(tasks)
           status   == IF all THEN "completed"
                       ELSE IF AnyWith(tasks, {"failed"}) THEN "attention" ELSE "running"
           cycle    == IF all THEN OfferedCycle(p.cycle) ELSE p.cycle
           q        == [p EXCEPT !.status = status, !.tasks = tasks, !.cycle = cycle]
<1>1. PICK S \in SUBSET Tasks : /\ p \in PlanOver(S)
                               /\ DOMAIN p.tasks = S
                               /\ \A u \in S : p.tasks[u] \in Task /\ TaskSound(p.tasks[u])
  BY TasksOfSoundPlan
<1>2. reviewed \in [S -> Task] /\ \A u \in S : TaskSound(reviewed[u])
  <2>1. ReviewedTask(p.tasks[t], decision) \in Task
        /\ TaskSound(ReviewedTask(p.tasks[t], decision))
    BY <1>1, ReviewedTaskSound
  <2> QED
    BY <1>1, <2>1 DEF PlanOver
<1>3. Reviewed(p, t, decision) = Settle(q)
  BY DEF Reviewed
<1> HIDE DEF reviewed
<1>4. tasks \in [S -> Task] /\ \A u \in S : TaskSound(tasks[u])
  BY <1>2, UnblockedSound
<1> HIDE DEF tasks
<1>5. cycle \in Cycle /\ (all => cycle.status = "available")
  <2>1. p.cycle \in Cycle
    BY <1>1 DEF PlanOver
  <2> DEFINE rework == IF p.cycle.status = "reworking" /\ p.cycle.rework = 0
                       THEN 1 ELSE p.cycle.rework
  <2>2. rework \in Nat
    BY <2>1 DEF Cycle
  <2>3. OfferedCycle(p.cycle) = [p.cycle EXCEPT !.status = "available", !.rework = rework]
    BY DEF OfferedCycle
  <2> HIDE DEF rework
  <2>4. OfferedCycle(p.cycle) \in Cycle /\ OfferedCycle(p.cycle).status = "available"
    BY <2>1, <2>2, <2>3 DEF Cycle, CycleStatus
  <2> QED
    BY <2>1, <2>4
<1> HIDE DEF cycle
<1>6. status \in {"completed", "attention", "running"} /\ (status = "completed" <=> all)
  OBVIOUS
<1> HIDE DEF status
<1>7. q \in PlanOver(S) /\ q.status = status /\ q.tasks = tasks /\ q.cycle = cycle
  BY <1>1, <1>4, <1>5, <1>6 DEF PlanOver, PlanStatus
<1> HIDE DEF q
<1>8. IsPlan(q) /\ FinishSound(q) /\ StopSound(q) /\ DraftSound(q)
  BY <1>5, <1>6, <1>7 DEF IsPlan, FinishSound, StopSound, DraftSound
<1>9. ReviewSound(q) /\ ResumeSound(q)
  BY <1>4, <1>6, <1>7 DEF ReviewSound, ResumeSound, TaskSound
<1> QED
  BY <1>3, <1>8, <1>9, SettleSound

LEMMA SteeredPlanSound ==
  ASSUME NEW p, PlanSound(p), NEW t \in DOMAIN p.tasks
  PROVE  PlanSound(SteeredPlan(p, t))
<1> DEFINE task   == [p.tasks[t] EXCEPT !.status = "running", !.report = "none",
                                        !.review = "none"]
           tasks  == SteeredTasks(p, t)
           status == IF AnyWith(tasks, {"attention", "failed", "stopped"})
                     THEN "attention" ELSE "running"
<1>1. PICK S \in SUBSET Tasks : /\ p \in PlanOver(S)
                               /\ DOMAIN p.tasks = S
                               /\ \A u \in S : p.tasks[u] \in Task /\ TaskSound(p.tasks[u])
  BY TasksOfSoundPlan
<1>2. task \in Task /\ TaskSound(task)
  BY <1>1 DEF Task, TaskStatus, TaskSound
<1>3. tasks = [p.tasks EXCEPT ![t] = task]
  BY DEF SteeredTasks
<1>4. SteeredPlan(p, t) = Settle([p EXCEPT !.status = status, !.tasks = tasks])
  BY DEF SteeredPlan
<1> HIDE DEF task
<1>5. tasks \in [S -> Task] /\ \A u \in S : TaskSound(tasks[u])
  BY <1>1, <1>2, <1>3 DEF PlanOver
<1> HIDE DEF tasks
<1>6. status \in {"running", "attention"}
  OBVIOUS
<1> HIDE DEF status
<1> QED
  BY <1>4, <1>5, <1>6, WorkingPlanSound

(***************************************************************************)
(* Rework after an audit, and scope repair.                                *)
(***************************************************************************)
LEMMA InReworkSound ==
  ASSUME NEW p, PlanSound(p), ReworkAllowed(p)
  PROVE  PlanSound(InRework(p)) /\ InRework(p).tasks = p.tasks
<1>1. CASE p.cycle.status = "reworking"
  BY <1>1 DEF InRework
<1>2. CASE p.cycle.status # "reworking"
  <2> DEFINE rework == OrFirst(p.cycle.rework)
             cycle  == [p.cycle EXCEPT !.status = "reworking", !.rework = rework]
             q      == [p EXCEPT !.cycle = cycle]
  <2>1. PICK S \in SUBSET Tasks : p \in PlanOver(S)
    BY DEF PlanSound, IsPlan
  <2>2. p.cycle \in Cycle /\ rework \in Nat
    BY <2>1 DEF PlanOver, Cycle, OrFirst
  <2>3. InRework(p) = Settle([p EXCEPT !.cycle.status = "reworking", !.cycle.rework = rework])
    BY <1>2 DEF InRework
  <2> HIDE DEF rework
  <2>4. cycle \in Cycle /\ cycle.status = "reworking"
    BY <2>2 DEF Cycle, CycleStatus
  <2>5. [p EXCEPT !.cycle.status = "reworking", !.cycle.rework = rework] = q
    BY <2>1, <2>2 DEF PlanOver, Cycle
  <2> HIDE DEF cycle
  <2>6. /\ q \in PlanOver(S) /\ q.status = p.status /\ q.tasks = p.tasks
        /\ q.cycle = cycle /\ q.prior = p.prior
    BY <2>1, <2>4 DEF PlanOver
  <2>7. p.status \in {"completed", "running"}
    BY DEF ReworkAllowed
  <2> HIDE DEF q
  <2>8. IsPlan(q) /\ FinishSound(q) /\ StopSound(q) /\ DraftSound(q)
    BY <2>4, <2>6, <2>7 DEF IsPlan, PlanSound, FinishSound, StopSound, DraftSound
  <2>9. ReviewSound(q) /\ ResumeSound(q)
    BY <2>6, <2>7 DEF PlanSound, ReviewSound, ResumeSound
  <2>10. Settle(q) = q
    BY <2>4, <2>6 DEF Settle, OfferStale
  <2> QED
    BY <2>3, <2>5, <2>6, <2>8, <2>9, <2>10, SettleSound
<1> QED
  BY <1>1, <1>2

LEMMA ReopenedPlanSound ==
  ASSUME NEW p, PlanSound(p), NEW t \in DOMAIN p.tasks
  PROVE  PlanSound(ReopenedPlan(p, t))
<1> DEFINE task == [p.tasks[t] EXCEPT !.status = "rework", !.report = "none",
                                      !.review = "none"]
<1>1. p.tasks[t] \in Task /\ TaskSound(p.tasks[t])
  BY TasksOfSoundPlan
<1>2. task \in Task /\ TaskSound(task)
  BY <1>1 DEF Task, TaskStatus, TaskSound
<1> HIDE DEF task
<1> QED
  BY <1>2, ReplaceTaskSound DEF ReopenedPlan, task

LEMMA FollowUpPlanSound ==
  ASSUME NEW p, PlanSound(p), NEW t \in Tasks
  PROVE  PlanSound(FollowUpPlan(p, t))
<1> DEFINE status == DependencyStatus(t, Completed(p.tasks))
           added  == [NewTask EXCEPT !.status = status]
           tasks  == [u \in DOMAIN p.tasks \cup {t} |-> IF u = t THEN added ELSE p.tasks[u]]
<1>1. PICK S \in SUBSET Tasks : /\ p \in PlanOver(S)
                               /\ DOMAIN p.tasks = S
                               /\ \A u \in S : p.tasks[u] \in Task /\ TaskSound(p.tasks[u])
  BY TasksOfSoundPlan
<1>2. status \in {"planned", "blocked", "ready"}
  BY DEF DependencyStatus
<1>3. FollowUpPlan(p, t) = Settle([p EXCEPT !.status = "running", !.tasks = tasks])
  BY DEF FollowUpPlan
<1> HIDE DEF status
<1>4. added \in Task /\ TaskSound(added)
  BY <1>2, NewTaskSound
<1> HIDE DEF added
<1>5. tasks \in [S \cup {t} -> Task] /\ \A u \in S \cup {t} : TaskSound(tasks[u])
  BY <1>1, <1>4
<1>6. S \cup {t} \in SUBSET Tasks
  BY <1>1
<1> HIDE DEF tasks
<1> QED
  BY <1>3, <1>5, <1>6, WorkingPlanSound

\* A rework draft starts no work: the proposal is refused while a task is running
\* or in review, and outside a scope repair every task starts over.
LEMMA ReworkDraftSound ==
  ASSUME NEW p, PlanSound(p), ProposalAllowed(p), NEW S \in SUBSET Tasks
  PROVE  PlanSound(ReworkDraft(p, S))
<1> DEFINE tasks  == ProposedTasks(p, S)
           repair == ScopeRepair(p)
           rework == IF AuditRework(p) THEN OrFirst(p.cycle.rework) ELSE p.cycle.rework + 1
           cycle  == [p.cycle EXCEPT !.status = "awaiting_rework_approval",
                                     !.scopeRepair = repair, !.rework = rework]
           v      == p.version + 1
           q      == [p EXCEPT !.version = v, !.status = "draft",
                               !.tasks = tasks, !.cycle = cycle]
<1>1. PICK S0 \in SUBSET Tasks : /\ p \in PlanOver(S0)
                                /\ DOMAIN p.tasks = S0
                                /\ \A u \in S0 : p.tasks[u] \in Task /\ TaskSound(p.tasks[u])
  BY TasksOfSoundPlan
<1>2. ASSUME NEW t \in S
      PROVE  /\ tasks[t] \in Task /\ TaskSound(tasks[t])
             /\ tasks[t].status \notin {"running", "reported"}
  <2>1. CASE ScopeRepair(p) /\ t \in S0
    <3> DEFINE prior == IF p.tasks[t].status = "completed" THEN p.tasks[t].prior ELSE "none"
    <3>1. prior \in (TaskStatus \ {"stopped"}) \cup {"none"}
          /\ (p.tasks[t].status # "completed" => prior = "none")
      BY <1>1, <2>1 DEF Task
    <3>2. tasks[t] = [p.tasks[t] EXCEPT !.prior = prior]
      BY <1>1, <2>1 DEF ProposedTasks
    <3>3. p.tasks[t].status \notin {"running", "reported"}
      BY <1>1, <2>1 DEF ProposalAllowed, AnyWith
    <3> HIDE DEF prior
    <3> QED
      BY <1>1, <2>1, <3>1, <3>2, <3>3 DEF Task, TaskSound
  <2>2. CASE ~(ScopeRepair(p) /\ t \in S0)
    <3>1. tasks[t] = NewTask
      BY <1>1, <2>2 DEF ProposedTasks
    <3> QED
      BY <3>1 DEF NewTask, Task, TaskStatus, Reports, Decisions, TaskSound
  <2> QED
    BY <2>1, <2>2
<1>3. tasks \in [S -> Task]
  BY <1>2 DEF ProposedTasks
<1>4. ReworkDraft(p, S) = Settle(q)
  BY DEF ReworkDraft, ProposedCycle
<1> HIDE DEF tasks
<1>5. p.cycle \in Cycle /\ rework \in Nat /\ repair \in BOOLEAN /\ v \in Nat \ {0}
  BY <1>1 DEF PlanOver, Cycle, OrFirst, ScopeRepair
<1> HIDE DEF rework, repair, v
<1>6. cycle \in Cycle
  BY <1>5 DEF Cycle, CycleStatus
<1> HIDE DEF cycle
<1>7. q \in PlanOver(S) /\ q.status = "draft" /\ q.tasks = tasks
  BY <1>1, <1>3, <1>5, <1>6 DEF PlanOver, PlanStatus
<1> HIDE DEF q
<1>8. PlanSound(Settle(q))
  BY <1>2, <1>7, DraftIsSound
<1> QED
  BY <1>4, <1>8
=============================================================================
