# Verification of CodeInOven's orchestration core

CodeInOven is a desktop application that coordinates coding agents. Its own
core logic, as opposed to the agents, tools and user interface around it, is
the *Assignment*: a graph of tasks that a Sr. Engineer thread (the coordinator)
hands to worker threads, reviews, has audited and sends back for rework. Around
it are services that act on their own and across restarts and app instances:
retries of waiting threads, the schedules of assistants, the credential that
all instances share and the lock they share it behind. This project models
those in TLA+, checks them with TLC and proves with TLAPS what matters most.

All paths below are those of the repository, seen as `src/`.

## The system

| Part | State it keeps | Operations | What is hard |
|---|---|---|---|
| Assignment plan (`src/src/lib/engines/assignment-engine-tasks.ts`, `assignment-validation.ts`) | one JSON document: status, task graph, audit cycle | pure rewrites: activate, stop, resume, review, unblock, steer, reopen, settle | they have to agree with each other over long sequences of legal calls |
| Assignment engine (`assignment-engine.ts`, `-audit-cycle.ts`, `-artifacts.ts`) | the stored plan, worker threads' links, evidence files | about 25 operations, called by agents over HTTP, by the user and by the app's reactions | no caller owns the order; task operations do not look at the plan's status |
| Assignment store (`assignment-repo.ts`) | versions, the active version, the operation ledger, claimed snapshots | save, claim, complete, release | read, await, write back; two statements per save; claims survive crashes |
| Assignment API and queue (`chat-engine-assignment-run.ts`) | one promise chain per assignment, capability tokens | one request at a time per assignment | half of the callers do not take the queue |
| Worker and coordinator reactions (`chat-engine-assignment-workers.ts`, `chat-engine-assignment.ts`) | retry and hand-off bookkeeping | report idle workers, reconcile, steer, wake the coordinator | idempotent ids, claimed snapshots, races with Stop |
| Cross-process mutex (`src/src/main/system/cross-process-mutex.ts`) | a lock directory with its owner's stamp | acquire, break a stale lock, overtake, release | every statement is a file-system step that another process may follow; crashed owners |
| GitHub credentials (`src/src/main/git/github-auth-service.ts`) | one account file for all instances | renew, switch, sign in, sign out | refresh tokens work once; two instances, two locks, lost answers |
| Retry scheduler (`src/src/main/system/retry-scheduler-service.ts` and the chat engine's turns) | waits on a ledger and in a file, reservations, the stop latch on the thread's row | tick, probe, resume, track, Stop, start | everything awaits between reading and acting; restarts |
| Assistant scheduler (`src/src/main/scheduler`) | lastRunAt in the database, missed and skipped slots in two files, one dispatch chain | tick, fire, record, catch up, skip, run now | restarts, writes still queued, old slots run after later ones |
| Engineering lifecycle, specs, audits (`src/src/lib/engines`) | stage documents | approve, transition | ordering of stages |
| Instance registry, ownership, hand-off (`src/src/main/system`) | registry files, transfer locks | heartbeat, take over, hand off | two instances |
| Drivers, providers, browser, git, speech, video, renderer, services | adapters and user interface | | external processes, I/O |

How they interact: the renderer and the agents' tools call the chat engine; the
chat engine calls the Assignment engine, inside `withAssignmentApiLock` for the
HTTP API, Stop and Resume and outside of it for sign-off, the Studio, the audit
and the reactions to a worker's live state; the engine rewrites the plan
through the repository and writes markdown beside it; after a report the chat
engine prompts the coordinator's thread, which calls the API again. A turn that
ends at a provider limit or without connection is put on the retry scheduler's
ledger, which calls the chat engine back when the wait is over; the assistant
scheduler starts threads through the chat engine. The GitHub service takes the
cross-process mutex around every exchange of a refresh token; the auth gate of
the harnesses and the checkpoint store take the same class of lock.

`PROJECT.json` lists every part with its status, and every hazard with the line
it bites at.

## The modules of the Assignment

`AssignmentPlan` is the plan record and the pure functions that rewrite it. A
plan is `[version, status, prior, tasks, cycle]`: `prior` is
`statusBeforeStop`, `tasks` a function from the plan's task ids to
`[status, prior, thread, report, review]`, `cycle` the `auditCycle` with
status `"none"` when it is absent. Owner and dependencies of a task are
constants: a draft is edited by choosing another set of task ids. A report
`"failed"` is handled by the code exactly as `"blocked"` and is not told
apart. The values task `"auditing"`, plan `"failed"` and cycle
`"planning_rework"` are still tested by the code and never written by it; the
guards keep them. The module ends with what every stored plan satisfies
(`PlanSound`), so that the other modules can say it of the plans they hold.

`AssignmentEngine` is one Assignment with one action per engine operation.
An operation is one atomic step. `link` is a worker thread's
`assignmentTaskId` (`"unused"` before the thread exists, `"unlinked"` after
`unlinkAssignmentThread`), `reporting` its `reportToCoordinator` switch,
`fresh` the evidence files on a task's thread that are newer than its
`startedAt`, `submitted` the evidence that was submitted naming the task. A
guard that does not hold is an operation that throws and changes nothing.
Three switches say what callers do: `WorksOnDraft` and `SteersStopped` let task
operations reach a draft and a stopped plan, which the engine does not refuse;
`ScopeMayFail` lets `provisionWorkerScope` and the checklist's write fail after
the replaced worker was unlinked.

`AssignmentCalls` opens the same operations up. A plan lives in `versions`
under `active`; a call in flight is a record in `calls` with the plan it read,
its phase and its operation id. `activate`, `assignTask`, `reportTask`,
`markWorkerSteered`, `ensureAuditorThread`, `reopenCompletedTask` and
`appendFollowUpTask` give way between reading and saving; the others read and
save in one step, because JavaScript does not interrupt them there. `Enter`
is the queue: a queued call needs every other queued call to be over, and the
operations of `Outside` may also be called without it. `ledger` is
`assignment_operations`. A call may fail at any of its awaits, the app may go
away at any time, and between the two statements of `save`.

`MCAssignmentEngine` and `MCAssignmentCalls` give the task graph of the
instances. `AssignmentPlan_proofs`, `AssignmentEngine_proofs`,
`AssignmentWork_proofs` and `AssignmentCalls_proofs` hold the proofs.

The abstract specification is `AssignmentEngine`: `AssignmentCalls` declares
the mapping (`Engine`) and `ImplementsEngine` says that, while every call takes
the queue, the calls with their awaits, failures and crashes implement the
one-step operations. The links an assign call has changed already are hidden by
`ShownLink` until it saves; a call that dies in between is the engine's
`AssignTaskFails`.

## The modules of the services

`LeasedLock` says what a lock that waiters may break promises: callers are
`inside`, and each theft of a lock whose holder is still inside (`stolen`)
admits one more. It is the abstract specification of the mutex, and the lock
inside `GitHubCredentials`.

`CrossProcessMutex` is `acquire()` and `release()`, one action per file-system
statement: `mkdir`, writing `owner.json`, judging the lock, removing it,
sleeping. The directory is `lock`, with who made it (`by`), whom its stamp
names (`owner`, `NoOne` between `mkdir` and the write) and whether the stamp is
older than STALE_AFTER_MS. The statements between two awaits of one process
are not interleaved with one another (`LoopFree`), those of different processes
are. With `Timely` no section lasts long enough to be judged stale or
overtaken. `Abstract` is the mapping to `LeasedLock`.

`GitHubCredentials` is one account. A refresh token is a number and
`redeemable` the tokens GitHub would still exchange; a step ends at each await.
`renewal[i]` is where instance i's renewal stands, `edit[i]` a
`switchAccount` or `rememberLogin` between reading the file and writing it
back, `fileLock` the instance's own queue with its instance-wide depth. The
history variable `harmed` records that a token was redeemed and lost (its
answer, the instance, or the account it was for) or was written back spent.
`Prompt` bounds the time between GitHub's answer and its storing by the
window the loser polls in (`REFUSED_REFRESH_RECOVERY_DELAYS_MS`).

`RetryScheduler` is the ledger of waits (`pending`), the reservations
(`resuming`) and everything that touches them: ticks between their snapshot
and their end, resumes from `fire` through `continueScheduledThread` and
`sendPrompt` to the harness, `scheduleAutomaticRetry` and `track`, Stop, the
user's prompts, the file, crashes and the veto at launch. A wait is a number
because the code compares the records by identity. Whether waits fire at all
(the preference, or the link a connection wait needs) is one `enabled`.
The history variable `crossed` holds the sessions whose reservation went, with
a turn that started or ended, while a resume had yet to read the row.

`AssistantScheduler` is one task of one assistant. The slots of its schedule
are numbered in the order they come due: `previousDueAt` looks at the latest
one only. `lastRun` is the claim in the database, `missed` and `skipped` the
two stores with the snapshots of them that wait to be written, `chain` the
dispatch chain, `pass` the calls that run missed slots. History variables:
`runs` (runs sent per slot), `acked` (skips the user was told of), `reopened`
(claims given back), `crossed` (missed slots run from a stale list, by two
calls at once or again after the mark was lost with a crash).

Each of `CrossProcessMutex`, `GitHubCredentials`, `RetryScheduler` and
`AssistantScheduler` has its proofs in a module of its own, `..._proofs`.

## The runs

Passing:

- `engine_work` (tasks a and b, b depending on a; three workers; two versions,
  two correction cycles; callers behave as the app's own do): no work is lost
  by any step but reopening it (`WorkKept`), stop and resume are inverse on it
  (`StopResumeKeepsWork`), a working plan never runs dry and nobody is blocked
  without a reason (`WorkRemains`, `BlockedForAReason`), and each worker has one
  task and can report it (`OneTaskPerWorker`, `RunningWorkerLinked`).
- `engine_any_call` (one task, two workers, everything may be called at any
  time, scopes may fail): the plan never contradicts itself. One task is enough
  for these: they relate the plan's status, its cycle and single tasks.
- `engine_evidence` (a worker's and a Sr. Engineer's task, two evidence files,
  the reporting switch): a task is handed over only with its own evidence of
  its current run.
- `calls_queued` (a worker's and a Sr. Engineer's task, two workers, two slots,
  three operation ids): with everybody in the queue no call ever works on a
  stale plan, and the refinement holds.
- `calls_any_order` (one task, one worker, two slots, two ids, two versions,
  torn saves; `Outside` as the code has it): stored plans stay sound and an
  operation takes effect at most once. Two slots are two calls in flight: a
  third adds no new kind of overwriting.
- `mutex_locks` (two callers of one process and one of another, each acquiring
  twice, with crashes, stale stamps and deadlines): the mutex implements
  `LeasedLock`; never more callers are inside than the thefts account for
  (`BoundedOverlap`), so that every overlap is the doing of somebody who broke
  or overtook a lock; and no waiter waits for ever, whoever crashes or hangs
  (`NeverWedged`).
- `github_renewal` (two instances, three refresh tokens, one overtaking,
  crashes and lost answers): a renewal is refused only after a holder was
  overtaken or a token lost (`RefusedForAReason`), and losing a race alone,
  an overtaking included, never signs the user out (`NotDroppedForARace`).
  Three tokens are two renewals or sign-ins after the first: enough for a
  token to be spent, replaced, and spent again.
- `retry_admission` (one session, three waits, prompts, Stop and restarts): the
  wait a resume was admitted for stays reserved for it while it is on the
  ledger, so that no tick dispatches it again (`ReservedWhilePending`), and a
  thread whose Stop ended with no resume under way is not revived before the
  user's next prompt (`StoppedStays`). The third wait is needed: the exception
  the property makes takes an old resume, a later one and the wait between
  them, and two waits never show it (see the proofs). One tick is under way at
  a time here; both properties are proved for any number of them.
- `retry_answered` (one session, three waits, the gate and restarts): a due
  wait is resumed or leaves the ledger (`DueWaitIsAnswered`), and when a Stop
  stands, nothing of the thread stays on the ledger (`StopSticks`). One
  session is enough for these two runs, which are about one thread's wait.
  That ticks that overlap never reserve more sessions than there are places is
  proved for any number of them (below), and `retry_places`, kept beside the
  runs, checks it on two sessions, one place and two ticks.
- `assistant_slots` (two slots, two calls that run missed ones, one fault): a
  slot is run once but for two reasons (`RunOnceButForAReason`), a confirmed
  skip holds across restarts (`SkippedStaysOut`), a due slot is claimed or
  skipped and a fired one handed over (`DueIsServed`). Two slots are an old
  and a new one, which is what claims, skips and prunes compare.

Violations, each a disagreement between the code and its comments (`findings`
quotes them):

- `mutex_two_holders`: two waiters judge a dead owner's lock stale; the second
  removes the fresh lock of the first, and both are inside although no section
  is long.
- `assistant_refire`: running an older missed slot sets `lastRunAt` back behind
  a slot that was fired meanwhile, and the next tick fires that one again.

Further claims of the docs that small instances refute. Their configurations
are kept beside the others and `tlc -config <cfg> <module>` shows each:

| Definition (module) | Configuration | What happens |
|---|---|---|
| `SignOffRequired` (MCAssignmentEngine) | `engine_sign_off` | a scope-repair draft keeps its tasks' states and task operations do not look at the plan's status: dispatching or reviewing one makes the draft run without sign-off (`assignment-engine.ts:987`, against `docs/ENGINEERING-LIFECYCLE.md:123`). `WorkRemains` fails too when `WorksOnDraft` is set |
| `OnlyResumeRestarts` (MCAssignmentEngine) | `engine_stopped` | steering a worker restarts a stopped Assignment (`chat-engine-assignment-workers.ts:940`, against `ENGINEERING-LIFECYCLE.md:113`). `BlockedForAReason` fails too when `SteersStopped` is set |
| `RunningWorkerLinked` with `ScopeMayFail` (MCAssignmentEngine) | `engine_dead_worker` | the worker is unlinked before its replacement is certain; the plan may run the task on the unlinked thread, whose reports are refused (`assignment-engine.ts:1022`, against `:1004`) |
| `OfferReturnsVisible` (MCAssignmentEngine) | `engine_offer` | the offer of a finished implementation inherits an earlier dismissal (`assignment-engine.ts:1248`, against `ENGINEERING-LIFECYCLE.md:85`) |
| `ActiveIsLatest` (MCAssignmentCalls) | `calls_lookup` | sign-off moves the active version back behind a draft saved meanwhile (`assignment-engine.ts:453`, against `assignment-engine-plan-lookup.ts:5`) |
| `StopSticks` (MCAssignmentCalls) | `calls_stop` | a report or steer that gave way before Stop undoes the stop (`assignment-engine.ts:1130`, against `chat-engine-assignment.ts:438`) |
| `ClaimedIsUnderWay` (MCAssignmentCalls) | `calls_retry` | an operation that failed after it was claimed answers "in progress" for ever (`assignment-engine.ts:998`, against `chat-engine-assignment-run.ts:199`) |
| `SpentStaysSpent` (GitHubCredentials) | `github_file_lock` | `fileDepth` counts for the whole instance: a switch of accounts during a renewal runs inline and writes the spent token back (`github-auth-service.ts:956`, against `:222`) |
| `FailedResumeIsRetried` (RetryScheduler) | `retry_failed_resume` | a resume that fails in its preparation leaves the row failed, and the wait kept for a later attempt is cleared by it (`chat-engine-turns-send-prompt.ts:750`, against `retry-scheduler-service.ts:47`) |

Bounds. Assignment: `MaxVersion` on plan versions, `MaxCycle` on correction
cycles, the sets of tasks, workers, slots and operation ids. Mutex: `MaxRounds`
acquisitions per caller. GitHub: `MaxTokens` issued, `MaxStolen` overtakings.
Retries: `MaxWaits` records, `MaxTicks` ticks between snapshot and end (the
ticker brings another), `Moves` (which of the gate, crashes and prompts
happen). Scheduler: `MaxSlot`, `MaxPasses`, `MaxFaults` (failing writes and
restarts). They appear in the guards of the operations that count up and
nowhere else, and none in what is proved. `CHECK_DEADLOCK FALSE` stands where
the system does end within the bounds: an Assignment that is completed and
accepted, threads and ids used up; callers that acquired as often as they may
or died; tokens used up and the account signed out; threads that were stopped
and get no prompt; all slots served. Workers,
slots and ids of the Assignment are interchangeable and declared symmetric,
except the workers whose reporting switch the user touches.

## Fairness

The Assignment's runs assume none and claim no liveness: which operation is
called when is up to agents and users; that a plan *can* always be brought
further is stated as safety (`WorkRemains`, `BlockedForAReason`). Where the
program goes on by itself it is stated:

- `CrossProcessMutex`: the statements of a turn follow one another and a
  waiter's deadline passes (weak); a waiter's timer is served however often the
  other callers of its process run in between (strong, because the loop is
  taken and free again and again; the event loop serves timers in the order
  they expire). Nothing makes a holder release.
- `RetryScheduler`: the ticker, time, every await and the start after a crash
  (weak, per tick, prompt and session); a prompt that was dispatched is taken
  or fails. Turns, users and crashes promise nothing.
- `AssistantScheduler`: the interval (weak) and the dispatch chain, whose head
  is sent or fails (weak). Writes, passes and users promise nothing.

## The proofs

Every safety property the passing runs check, the type invariants and the two
refinements included, is also a theorem for every value of the constants. The
theorems assume the named assumptions of the modules, which TLC evaluates in
every run, and what is said below where a property holds only of some callers;
such a condition is a hypothesis of the theorem (`ASSUME ... PROVE`) and the
runs or the refuted claims above show what happens without it.

**The Assignment's plan.** `AssignmentEngine_proofs`, for any tasks, workers
and evidence, any owner and dependency functions and any setting of the
switches: `TypeCorrect`, `AuditOfferIsSound`, `CompletedIsSound`,
`StoppedIsSound`, `DraftIsAtRest`, `ReviewsAgree`, `StopIsRemembered`. None of
these is inductive alone. To show that resuming a stopped plan gives a sound
completed plan one needs what stop remembered (`ResumeSound`), which needs that
a completed plan had no open task (`FinishSound`), which needs that an offer is
withdrawn whenever work reopens (`OfferSound`), and so on around. `PlanInv`,
the type invariant with all of them (`PlanSound`), is inductive.
`AssignmentPlan_proofs` shows for each function of `AssignmentPlan` that it
keeps `PlanSound`; those lemmas speak of plans and not of a specification, so
that the calls can use them as well.

**Its work.** `AssignmentWork_proofs` proves the properties about who works on
what, and that nothing is lost:

| Theorem | Condition | Why it is needed |
|---|---|---|
| `WorkersAreNotShared`, `FinishedWorkIsKept`, `WorkerEvidenceIsItsOwn` | none | |
| `RunningWorkerIsLinked` | scopes do not fail | `engine_dead_worker` |
| `EvidenceIsItsOwn` | one senior task at most | all senior tasks share the coordinator's evidence files |
| `StopThenResumeKeepsWork` | stopped plans are not steered | `engine_stopped` |
| `BlockedOnlyForAReason`, `WorkAlwaysRemains` | neither that nor work on drafts | `engine_stopped`, `engine_sign_off` |

Two inductive invariants on top of `PlanInv` carry them. `WorkInv` relates
tasks, links and evidence: a link names the task that names the worker, and a
handed-over task's evidence was submitted since it started. `FlowInv` is about
the graph: it is valid, and finished only when the plan is (`GraphInv`); only a
stopped plan has stopped tasks (`FrozenInv`); and every task, in the state it
would resume to as well, is blocked only while a dependency is unfinished
(`BlockInv`). That a working plan never runs dry then takes a least unfinished
task in the order of dependency, which exists because a valid graph has ranks
and ranks are numbers. `CycleInv` says what the proofs ran into: the code never
writes the cycle's `"planning_rework"`, so that a repair draft is always one
that awaits its approval and every proposal of the auditor is a scope repair.

**Its calls.** `AssignmentCalls_proofs`: `CallTypes`, `StoredPlansAreSound` and
`OperationsApplyOnce` hold whoever avoids the queue and whatever crashes. Their
invariant says of every call what it may hold: a plan that is sound although it
may be stale, and for the call that owns an operation id, the claim. With every
call in the queue and no app going away between the two statements of `save`
(the hypotheses `Outside = {}` and `~TornSaves`, which are those of
`calls_queued`) there is one call at a time (`OneCall`), it holds the current
plan (`HoldsCurrent`, which gives `QueuedCallsReadFresh`), and the links it has
changed are the ones its plan is about to name (`LinksUnderWay`).
`QueuedCallsImplementEngine` uses these to map every step: reads, claims,
awaits, answers and most crashes are stutters, the save is the operation, and
a dispatch that dies with links changed is `AssignTaskFails`. The code has both
callers outside and torn saves, so this theorem says what the queue gives, not
that the app always has it; `calls_stop` and `calls_lookup` show what is lost
without.

**The mutex.** `CrossProcessMutex_proofs`, for any finite set of callers and any
processes (`CallersFinite`, `PidOfEach`, `RoundsBounded`): `MutexTypes`,
`OverlapIsBounded`, `OnlyTheftBreaksExclusion` (while nothing was stolen, at
most one caller is inside) and `Refinement` (the initial states and every step,
crashes included, are those of `LeasedLock`). The inductive invariant is the
type invariant with `BoundedOverlap` in a stronger form: the bound counts the
first caller only while a directory is there (`Owned`), because only `mkdir`
without a directory lets a caller in; so after a theft, a release or a crash
there is room for one more.

**The credential.** `GitHubCredentials_proofs`, for any finite set of instances
and any number of tokens (`Bounds`; the set is finite because instances are
processes of one machine, and the bound on who is inside counts them):
`CredentialTypes`, `RefusalsHaveAReason` and `RacesDoNotSignOut`. `RenewalInv`
says where a good token can be: unless a token was harmed, the one in the vault
is redeemable, or the instance that spent it has the answer, not stored yet,
and in it a successor nobody else has seen (`VaultGood`, `Unseen`). Behind a
lock nobody overtook (`Exclusive`) the token sent is the stored one
(`Undisturbed`). Losing
a race is harmless only while an answer is stored within the loser's polling
window: `RacesDoNotSignOut` assumes `Prompt`, and TLC refutes it otherwise.

**Retries.** `RetryScheduler_proofs`, for any finite set of sessions, which are
no numbers (`SessionsAssumption`), and any limits (`Limits`): `RetryTypes`,
`StoppedThreadsStay`, `PlacesAreKept`, `WaitsStayReserved`. The common
invariant has three parts. `Shape` says that a wait on the ledger or in the
file is a record of its own session. `Quiet` says more than `StoppedStays`: the
thread's latch is on and no tick has found a wait of it runnable, without which
the end of a tick could revive it. `PlacesKept` is inductive with `Shape`: a
tick admits no more waits than there are places, and each reserves the one
session it belongs to. Every step but a probe, the end of a tick and the end of
a Stop is shown to be `Plain`: it admits nothing, finds nothing runnable and
lets no Stop end, so those three carry the argument.

`WaitsStayReserved` needs `Held`: a resume that was only called holds its
reservation whether or not its wait is still there. The attempt to prove it
without an exception failed for a reason in the code. When the user's own
prompt starts and ends a turn while an admitted resume has not read the row
yet, the turn gives the reservation back and a later wait may be admitted; the
old resume then finds the thread not paused and calls `resumed(sessionId)`
(`chat-engine-thread-lifecycle.ts:820`), which, unlike the `clear` before it,
does not ask whose reservation it is. The later resume's reservation is gone
while its wait is on the ledger. `crossed` marks these sessions, and a run with
two waits is too small to meet one. `RetryTypes` shows on the way that the room
a step makes sure of for a record it will add later is there when it adds it.

**The schedule.** `AssistantScheduler_proofs`, for any number of slots,
catch-up calls, faults and restarts: `ScheduleTypes`, `SkipsAreKept` and
`SlotsRunOnce`. The types are proved part by part. The other two are proved one
slot at a time. `SkipsKept` says of a confirmed skip whose slot may still come
up that it is in memory, in the file and in every snapshot that waits to be
written, and that no failing write takes it back. `ClaimedOnce` says where a
slot whose claim was neither given back nor crossed can be: untouched, in the
chain once and nowhere else, run by one call, or run and on record as such.

Model-checked only: all liveness (`NeverWedged`, `DueWaitIsAnswered`,
`StopSticks`, `DueIsServed`), which the prover does not do; and of course the
two runs that expect a violation and the refuted claims above. No module uses a
recursive operator or an induction over data: the rank of the task graph is a
function that is given, not computed.

## Not modelled

Of the Assignment: titles, prompts, models, phases, annotations, worker scopes
other than that provisioning may fail, timestamps, provenance and the markdown
files: no transition reads them. Capability tokens and the detached dispatch of
prompts. Of the mutex: a removal of the directory that leaves part of it
behind, and errors of `mkdir` other than EEXIST, which the code treats as a
held lock. Of the GitHub service: several accounts, profiles, the device
flow, access tokens and their expiry. Of retries: several sessions of one
thread, a second instance and who owns a wait, provider-turn recovery at a
restart. Of the scheduler: pausing, edited schedules and their anchor, deleted
tasks, the background-run ledger, a second instance, and which of several
tasks is skipped. Everything else outside these parts; `PROJECT.json` gives the
reason for each.

## Plan

1. Done: the Assignment (`AssignmentPlan`, `AssignmentEngine`,
   `AssignmentCalls`), the mutex with its specification and refinement, the
   GitHub credentials on top of it, the retry and the assistant scheduler.
2. Waking the coordinator: reports, the unreported-idle reaction with its
   per-session id, snapshot claims; liveness under the fairness of the app's
   own reactions.
3. The engineering lifecycle, and how it and an Assignment move each other;
   the hand-off of threads between instances; the project deletion queue; the
   background-run ledger and pausing in the scheduler.
4. Proofs: the safety of the modules of item 2 and 3 when they are there; of
   those there are now only liveness is left to TLC.
