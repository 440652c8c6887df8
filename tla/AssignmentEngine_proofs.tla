----------------------- MODULE AssignmentEngine_proofs -----------------------
(***************************************************************************)
(* AssignmentEngine keeps the stored plan sound, for any number of tasks   *)
(* and workers, any dependency graph, any bound on versions and cycles and *)
(* any setting of its switches.                                            *)
(***************************************************************************)
EXTENDS AssignmentEngine, AssignmentPlan_proofs

(***************************************************************************)
(* The plan.                                                               *)
(*                                                                         *)
(* None of the plan's safety properties is inductive alone: stop must know *)
(* that a completed plan has no open task to promise what resume restores, *)
(* resume must know what stop remembered to restore a sound plan.  Their   *)
(* conjunction is.                                                         *)
(***************************************************************************)
PlanInv == TypeOK /\ PlanSound(plan)

LEMMA InitPlanInv == Init => PlanInv
<1> SUFFICES ASSUME Init PROVE PlanInv
  OBVIOUS
<1>1. PICK S \in SUBSET Tasks : plan = DraftPlan(S)
  BY DEF Init
<1>2. PlanSound(plan)
  BY <1>1, DraftPlanSound
<1>3. link \in [Workers -> Link] /\ reporting \in [Workers -> BOOLEAN]
  BY DEF Init, Link
<1>4. fresh \in [Tasks -> SUBSET Evidence] /\ submitted \in [Tasks -> SUBSET Evidence]
  BY DEF Init, NoEvidence
<1> QED
  BY <1>2, <1>3, <1>4 DEF PlanInv, TypeOK, PlanSound

LEMMA PlanChangesInv ==
  ASSUME PlanInv, NEW p, PlanSound(p), PlanChanges(p)
  PROVE  PlanInv'
BY DEF PlanInv, TypeOK, PlanChanges, PlanSound

LEMMA TasksTyped ==
  ASSUME PlanInv
  PROVE  DOMAIN plan.tasks \subseteq Tasks
         /\ \A t \in DOMAIN plan.tasks : plan.tasks[t] \in Task /\ TaskSound(plan.tasks[t])
BY TasksOfSoundPlan DEF PlanInv

LEMMA StartsTyped ==
  ASSUME PlanInv, NEW t \in Tasks, Starts(t)
  PROVE  /\ fresh' \in [Tasks -> SUBSET Evidence]
         /\ submitted' \in [Tasks -> SUBSET Evidence]
BY DEF PlanInv, TypeOK, Starts

LEMMA UnlinkedTyped ==
  ASSUME PlanInv, NEW ws
  PROVE  UnlinkedAll(ws) \in [Workers -> Link]
BY DEF PlanInv, TypeOK, UnlinkedAll, Link

LEMMA AuditCyclePlanInv ==
  ASSUME PlanInv, AuditCycle
  PROVE  PlanInv'
<1>1. plan.cycle \in Cycle
  BY DEF PlanInv, TypeOK, IsPlan, PlanOver
<1>2. ASSUME NEW cycle \in Cycle, plan.status = "completed",
             cycle.status \notin {"none", "awaiting_rework_approval", "stopped"},
             PlanChanges(CycleSaved(plan, cycle))
      PROVE  PlanInv'
  BY <1>2, CycleSavedSound, PlanChangesInv DEF PlanInv
<1>3. CASE BeginAudit
  <2>1. [NoCycle EXCEPT !.status = "running"] \in Cycle
    BY DEF NoCycle, Cycle, CycleStatus
  <2>2. [NoCycle EXCEPT !.status = "running"].status = "running"
    BY DEF NoCycle
  <2> QED
    BY <1>2, <1>3, <2>1, <2>2 DEF BeginAudit, BeginAllowed, Begun
<1>4. CASE FailAudit
  <2> DEFINE c == [plan.cycle EXCEPT !.status = "failed"]
  <2>1. c \in Cycle /\ c.status = "failed"
    BY <1>1 DEF Cycle, CycleStatus
  <2> QED
    BY <1>2, <1>4, <2>1 DEF FailAudit
<1>5. CASE ReportAudit
  <2> DEFINE c == [plan.cycle EXCEPT !.status = "report_ready", !.reportId = TRUE]
  <2>1. c \in Cycle /\ c.status = "report_ready"
    BY <1>1 DEF Cycle, CycleStatus
  <2> QED
    BY <1>2, <1>5, <2>1 DEF ReportAudit
<1>6. CASE BeginAuditRework
  <2> DEFINE n == IF plan.cycle.status = "planning_rework" THEN OrFirst(plan.cycle.rework)
                  ELSE plan.cycle.rework + 1
             c == [plan.cycle EXCEPT !.status = "reworking", !.rework = n]
  <2>1. n \in Nat
    BY <1>1 DEF Cycle, OrFirst
  <2>2. PlanChanges(CycleSaved(plan, c)) /\ plan.status = "completed"
    BY <1>6 DEF BeginAuditRework, BegunRework, BeginReworkAllowed
  <2> HIDE DEF n
  <2>3. c \in Cycle /\ c.status = "reworking"
    BY <1>1, <2>1 DEF Cycle, CycleStatus
  <2> QED
    BY <1>2, <2>2, <2>3
<1>7. CASE CompleteAudit
  <2> DEFINE c == [plan.cycle EXCEPT !.status = "completed"]
  <2>1. c \in Cycle /\ c.status = "completed"
    BY <1>1 DEF Cycle, CycleStatus
  <2> QED
    BY <1>2, <1>7, <2>1 DEF CompleteAudit
<1>8. CASE RetractAudit
  <2> DEFINE s == RetractedStatus(plan.cycle)
             c == [plan.cycle EXCEPT !.status = s]
  <2>1. s \in {"report_ready", "available"}
    BY DEF RetractedStatus
  <2>2. PlanChanges(CycleSaved(plan, c)) /\ plan.status = "completed"
    BY <1>8 DEF RetractAudit
  <2> HIDE DEF s
  <2>3. c \in Cycle /\ c.status = s
    BY <1>1, <2>1 DEF Cycle, CycleStatus
  <2> QED
    BY <1>2, <2>1, <2>2, <2>3
<1>9. CASE DismissOffer
  <2> DEFINE c == [plan.cycle EXCEPT !.dismissed = TRUE]
  <2>1. plan.cycle.status = "available" /\ plan.status = "completed"
    BY <1>9 DEF DismissOffer, InCycle, PlanInv, PlanSound, OfferSound
  <2>2. c \in Cycle /\ c.status = "available"
    BY <1>1, <2>1 DEF Cycle, CycleStatus
  <2> QED
    BY <1>2, <1>9, <2>1, <2>2 DEF DismissOffer
<1>10. CASE RestoreOffer
  <2> DEFINE c == [plan.cycle EXCEPT !.dismissed = FALSE]
  <2>1. c \in Cycle /\ c.status = "available"
    BY <1>1, <1>10 DEF Cycle, CycleStatus, RestoreOffer, InCycle
  <2> QED
    BY <1>2, <1>10, <2>1 DEF RestoreOffer
<1>11. CASE MakeAvailable
  <2> DEFINE c == [plan.cycle EXCEPT !.status = "available", !.dismissed = FALSE]
  <2>1. c \in Cycle /\ c.status = "available"
    BY <1>1 DEF Cycle, CycleStatus
  <2> QED
    BY <1>2, <1>11, <2>1 DEF MakeAvailable
<1> QED
  BY <1>3, <1>4, <1>5, <1>6, <1>7, <1>8, <1>9, <1>10, <1>11 DEF AuditCycle

LEMMA AssignPlanInv ==
  ASSUME PlanInv, AssignTask
  PROVE  PlanInv'
<1>1. PICK t \in DOMAIN plan.tasks :
        /\ Assignable(plan.tasks[t])
        /\ AssignSenior(t) \/ AssignSameWorker(t) \/ AssignNewWorker(t)
        /\ Starts(t)
  BY DEF AssignTask
<1>2. t \in Tasks /\ plan.tasks[t] \in Task /\ TaskSound(plan.tasks[t])
  BY <1>1, TasksTyped
<1>3. ASSUME NEW thread \in Threads, AssignOn(t, thread)
      PROVE  PlanSound(plan')
  <2>1. Dispatched(plan.tasks[t], thread) \in Task
        /\ TaskSound(Dispatched(plan.tasks[t], thread))
    BY <1>1, <1>2, DispatchedSound
  <2> QED
    BY <1>1, <1>3, <2>1, ReplaceTaskSound DEF AssignOn, PlanInv
<1>4. PlanSound(plan') /\ link' \in [Workers -> Link]
  <2>1. CASE AssignSenior(t)
    BY <1>3, <2>1 DEF AssignSenior, Threads, PlanInv, TypeOK
  <2>2. CASE AssignSameWorker(t)
    <3>1. plan.tasks[t].thread \in Threads
      BY <1>2, <2>2 DEF AssignSameWorker, DispatchBase, Task
    <3> QED
      BY <1>3, <2>2, <3>1 DEF AssignSameWorker, PlanInv, TypeOK
  <2>3. CASE AssignNewWorker(t)
    <3>1. PICK w \in Workers :
            /\ AssignOn(t, w)
            /\ link' = [UnlinkedAll(StaleWorker(t)) EXCEPT ![w] = t]
      BY <2>3 DEF AssignNewWorker
    <3>2. PlanSound(plan')
      BY <1>3, <3>1 DEF Threads
    <3>3. UnlinkedAll(StaleWorker(t)) \in [Workers -> Link] /\ t \in Link
      BY <1>2, UnlinkedTyped DEF Link
    <3> QED
      BY <3>1, <3>2, <3>3
  <2> QED
    BY <1>1, <2>1, <2>2, <2>3
<1>5. reporting' = reporting
  BY DEF AssignTask
<1> QED
  BY <1>1, <1>2, <1>4, <1>5, StartsTyped DEF PlanInv, TypeOK, PlanSound

LEMMA NextPlanInv == PlanInv /\ [Next]_vars => PlanInv'
<1> SUFFICES ASSUME PlanInv, [Next]_vars PROVE PlanInv'
  OBVIOUS
<1> USE DEF Workable
<1>1. CASE SaveDraft
  BY <1>1, EditedDraftSound, RegeneratedDraftSound, PlanChangesInv DEF SaveDraft, PlanInv
<1>2. CASE SyncDraftToSpec
  BY <1>2, RegeneratedDraftSound, PlanChangesInv DEF SyncDraftToSpec, PlanInv
<1>3. CASE Activate
  BY <1>3, ActivatedSound, PlanChangesInv DEF Activate, PlanInv
<1>4. CASE Stop
  BY <1>4, StoppedPlanSound, PlanChangesInv DEF Stop, Stoppable, PlanInv
<1>5. CASE Resume
  BY <1>5, ResumedPlanSound, PlanChangesInv DEF Resume, PlanInv
<1>6. CASE AssignTask
  BY <1>6, AssignPlanInv
<1>7. CASE AssignTaskFails
  <2>1. link' \in [Workers -> Link]
    <3>1. PICK t \in DOMAIN plan.tasks :
            \/ link' = UnlinkedAll(StaleWorker(t))
            \/ \E w \in Workers : link' = [UnlinkedAll(StaleWorker(t)) EXCEPT ![w] = t]
      BY <1>7 DEF AssignTaskFails
    <3>2. UnlinkedAll(StaleWorker(t)) \in [Workers -> Link] /\ t \in Link
      BY TasksTyped, UnlinkedTyped DEF Link
    <3> HIDE DEF Link
    <3> QED
      BY <3>1, <3>2
  <2> QED
    BY <1>7, <2>1 DEF AssignTaskFails, PlanInv, TypeOK
<1>8. CASE SubmitEvidence
  <2>1. PICK t \in DOMAIN plan.tasks, e \in Evidence :
          /\ fresh' = [u \in Tasks |->
                         IF u \in DOMAIN plan.tasks /\ plan.tasks[u].thread = plan.tasks[t].thread
                         THEN fresh[u] \cup {e} ELSE fresh[u]]
          /\ submitted' = [submitted EXCEPT ![t] = @ \cup {e}]
    BY <1>8 DEF SubmitEvidence
  <2>2. fresh' \in [Tasks -> SUBSET Evidence]
    BY <2>1 DEF PlanInv, TypeOK
  <2>3. submitted' \in [Tasks -> SUBSET Evidence]
    BY <2>1 DEF PlanInv, TypeOK
  <2> QED
    BY <1>8, <2>2, <2>3 DEF SubmitEvidence, PlanInv, TypeOK
<1>9. CASE ReportTask
  BY <1>9, ReportedPlanSound, PlanChangesInv DEF ReportTask, OwnsRunning, PlanInv
<1>10. CASE ReviewTask
  BY <1>10, ReviewedSound, PlanChangesInv DEF ReviewTask, PlanInv
<1>11. CASE StopWorker
  BY <1>11, WorkerStoppedSound, PlanChangesInv DEF StopWorker, PlanInv
<1>12. CASE MarkWorkerSteered
  <2>1. PICK t \in DOMAIN plan.tasks : plan' = SteeredPlan(plan, t) /\ Starts(t)
    BY <1>12 DEF MarkWorkerSteered
  <2>2. PlanSound(plan') /\ t \in Tasks
    BY <2>1, SteeredPlanSound, TasksTyped DEF PlanInv
  <2> QED
    BY <1>12, <2>1, <2>2, StartsTyped DEF MarkWorkerSteered, PlanInv, TypeOK, PlanSound
<1>13. CASE ToggleReporting
  BY <1>13 DEF ToggleReporting, EngineAssumption, PlanInv, TypeOK
<1>14. CASE AuditCycle
  BY <1>14, AuditCyclePlanInv
<1>15. CASE ReopenCompletedTask
  <2>1. PICK t \in Completed(plan.tasks) : PlanChanges(ReopenedPlan(InRework(plan), t))
    BY <1>15 DEF ReopenCompletedTask
  <2>2. PlanSound(InRework(plan)) /\ t \in DOMAIN InRework(plan).tasks
    BY <1>15, <2>1, InReworkSound DEF ReopenCompletedTask, Completed, PlanInv
  <2> QED
    BY <2>1, <2>2, ReopenedPlanSound, PlanChangesInv
<1>16. CASE AppendFollowUpTask
  <2>1. PICK t \in Tasks : PlanChanges(FollowUpPlan(InRework(plan), t))
    BY <1>16 DEF AppendFollowUpTask
  <2>2. PlanSound(InRework(plan))
    BY <1>16, InReworkSound DEF AppendFollowUpTask, PlanInv
  <2> QED
    BY <2>1, <2>2, FollowUpPlanSound, PlanChangesInv
<1>17. CASE ProposeRework
  BY <1>17, ReworkDraftSound, PlanChangesInv DEF ProposeRework, PlanInv
<1>18. CASE UNCHANGED vars
  BY <1>18 DEF vars, PlanInv, TypeOK
<1> QED
  BY <1>1, <1>2, <1>3, <1>4, <1>5, <1>6, <1>7, <1>8, <1>9, <1>10, <1>11, <1>12,
     <1>13, <1>14, <1>15, <1>16, <1>17, <1>18 DEF Next

LEMMA PlanInvariant == Spec => []PlanInv
BY InitPlanInv, NextPlanInv, PTL DEF Spec

\* Every variable keeps its type, the plan its shape, whatever is called when.
THEOREM TypeCorrect == Spec => []TypeOK
BY PlanInvariant, PTL DEF PlanInv

\* settleAuditOffer: no operation leaves an audit on offer for a plan that is
\* not finished.
THEOREM AuditOfferIsSound == Spec => []AuditOfferSound
<1>1. PlanInv => AuditOfferSound
  BY DEF PlanInv, PlanSound, AuditOfferSound
<1> QED
  BY <1>1, PlanInvariant, PTL

\* A completed plan has no open task and has an audit cycle: the status cannot
\* outlive a reopened task.
THEOREM CompletedIsSound == Spec => []CompletedSound
<1>1. PlanInv => CompletedSound
  BY DEF PlanInv, PlanSound, CompletedSound
<1> QED
  BY <1>1, PlanInvariant, PTL

\* A stopped plan is frozen: every unfinished task and its audit cycle are.
THEOREM StoppedIsSound == Spec => []StoppedSound
<1>1. PlanInv => StoppedSound
  BY DEF PlanInv, PlanSound, StoppedSound
<1> QED
  BY <1>1, PlanInvariant, PTL

\* No task of a graph that waits for sign-off is running or in review.
THEOREM DraftIsAtRest == Spec => []DraftAtRest
<1>1. PlanInv => DraftAtRest
  BY DEF PlanInv, PlanSound, DraftAtRest
<1> QED
  BY <1>1, PlanInvariant, PTL

\* A task is completed exactly while its passing review stands.
THEOREM ReviewsAgree == Spec => []ReviewAgrees
<1>1. PlanInv => ReviewAgrees
  BY DEF PlanInv, PlanSound, ReviewAgrees
<1> QED
  BY <1>1, PlanInvariant, PTL

\* What stop remembers is a state resume may restore.
THEOREM StopIsRemembered == Spec => []StopRemembers
<1>1. PlanInv => StopRemembers
  BY DEF PlanInv, PlanSound, StopRemembers
<1> QED
  BY <1>1, PlanInvariant, PTL
=============================================================================
