----------------------------- MODULE RetryScheduler -----------------------------
(***************************************************************************)
(* The automatic retry of threads that wait for a provider reset or for    *)
(* the device's connection: the ledger of waits and its file, the ticks    *)
(* that probe and admit due waits, the resumes under way, next to the      *)
(* user's Stop and prompts, turns that fail, and a crash of the instance.  *)
(*                                                                         *)
(* One instance, and one session per thread.  A step ends at each await.   *)
(* A wait is a number, the order the records were made in, since the code  *)
(* compares records by identity; 0 is no wait.  The preference that lets   *)
(* waits fire and the link a connection wait needs are one gate.           *)
(***************************************************************************)
EXTENDS Naturals, Sequences, FiniteSets, FiniteSetsExt

CONSTANTS
    Sessions,
    MaxResumes,     \* MAX_CONCURRENT_RESUMES
    MaxWaits,       \* bound on the records made
    Moves,          \* what happens besides: "gate", "crash", "prompt"
    MaxTicks        \* bound on the ticks under way; the ticker brings another

ASSUME Limits == MaxResumes \in Nat \ {0} /\ MaxWaits \in Nat \ {0} /\ MaxTicks \in Nat \ {0}
\* A prompt is sent for a wait, which is a number, or for a session.
ASSUME SessionsAssumption == IsFiniteSet(Sessions) /\ \A s \in Sessions : s \notin Nat

VARIABLES
    boot,           \* the instance: "down", "veto" while it starts, "up"
    unvetoed,       \* sessions the veto at launch has still to probe
    enabled,        \* the gate
    waits,          \* the session of every record made so far
    elapsed,        \* the records whose retryAt has passed
    pending,        \* the ledger: each session's wait
    resuming,       \* the reservations: the wait a session is resumed for
    ticks,          \* ticks between their snapshot and their end
    send,           \* prompts under way: a resume by its wait, a user's by its session
    arming,         \* scheduleAutomaticRetry under way for a session
    stop,           \* abort under way for a session
    file,           \* the ledger on disk
    status, latched,\* the thread's row: status and stoppedByUserAt
    live,           \* the harness runs a turn of the session
    quiet,          \* history: sessions whose Stop ended with nothing under way
    crossed         \* history: sessions whose reservation went before its resume began

ledger == <<waits, pending, resuming>>
thread == <<status, latched, live>>
history == <<quiet, crossed>>
vars == <<boot, unvetoed, enabled, ledger, elapsed, ticks, send, arming, stop, file, thread, history>>

None == 0
Waits == 1..MaxWaits
NoTick == [todo |-> {}, ok |-> {}, stopped |-> {}]
SendSteps == {"idle", "called", "sending", "preparing", "dispatching", "returned", "failed", "clean"}
ArmSteps == {"idle", "read", "pause", "probe", "refused", "set"}
StopSteps == {"idle", "abort", "drop", "settle"}
Senders == Waits \cup Sessions
SessionOf(k) == IF k \in Sessions THEN k ELSE waits[k]
Up == boot = "up"

Init ==
    /\ boot = "up" /\ unvetoed = {} /\ enabled = TRUE
    /\ waits = <<>> /\ elapsed = {}
    /\ pending = [s \in Sessions |-> None] /\ resuming = pending /\ file = pending
    /\ ticks = [t \in 1..MaxTicks |-> NoTick]
    /\ send = [k \in Senders |-> "idle"]
    /\ arming = [s \in Sessions |-> "idle"] /\ stop = arming
    /\ status = [s \in Sessions |-> "executing"]
    /\ latched = [s \in Sessions |-> FALSE]
    /\ live = [s \in Sessions |-> TRUE]
    /\ quiet = {} /\ crossed = {}

\* The resumes of a session under way, and whether a tick has found another runnable.
Resumes(s) == {n \in Waits : n <= Len(waits) /\ waits[n] = s /\ send[n] # "idle"}
Runnable(s) == \E t \in 1..MaxTicks, n \in 1..Len(waits) : waits[n] = s /\ n \in ticks[t].ok

\* Records that the steps under way may still make.
Promised ==
    Cardinality({s \in Sessions : arming[s] # "idle"})
        + Cardinality({k \in Senders : send[k] \in {"failed", "clean"}})
Room == Len(waits) + Promised < MaxWaits

Drop(f, s) == [f EXCEPT ![s] = None]
DropIf(f, s, n) == IF f[s] = n THEN Drop(f, s) ELSE f

\* Mutant: a wait is taken up before its time.
TickEarly(asked) ==
    LET due == {n \in 1..Len(waits) : \E s \in Sessions : pending'[s] = n /\ resuming'[s] = None}
        free == {t \in 1..MaxTicks : ticks[t] = NoTick}
    IN  ticks' = IF asked /\ boot' = "up" /\ enabled' /\ due # {} /\ free # {}
                   THEN [ticks EXCEPT ![Min(free)] = [NoTick EXCEPT !.todo = due]]
                   ELSE ticks

\* tick: its first part runs at once, on the ledger as the step leaves it, and takes
\* up the waits that are due, let through by the gate and not reserved.
TickIf(asked) ==
    LET due == {n \in elapsed : \E s \in Sessions : pending'[s] = n /\ resuming'[s] = None}
        free == {t \in 1..MaxTicks : ticks[t] = NoTick}
    IN  ticks' = IF asked /\ boot' = "up" /\ enabled' /\ due # {} /\ free # {}
                   THEN [ticks EXCEPT ![Min(free)] = [NoTick EXCEPT !.todo = due]]
                   ELSE ticks
Tick == TickIf(TRUE)
NoTicks == UNCHANGED ticks

Booted == Up /\ UNCHANGED <<boot, unvetoed, enabled, file>>
SameLedger == UNCHANGED ledger

\* clear and resumed, of a session that starts a turn, ends one or has moved on: the
\* reservation is given back whichever resume it is for.
ClearWait(s) == pending' = Drop(pending, s) /\ UNCHANGED waits
Resumed(s) == resuming' = Drop(resuming, s) /\ TickIf(resuming[s] # None)

\* A turn that starts or ends while a resume has yet to read the row.
CrossIf(s) ==
    crossed' = crossed \cup {r \in {s} : \E n \in Resumes(r) : send[n] = "called"}

-----------------------------------------------------------------------------
\* The ticker, connectionRestored: another tick.
Timer ==
    /\ Booted /\ SameLedger
    /\ Tick /\ ticks' # ticks
    /\ UNCHANGED <<elapsed, send, arming, stop, thread, history>>

\* setEnabled, or the link comes and goes.
SetEnabled(on) ==
    /\ "gate" \in Moves /\ Up /\ enabled # on
    /\ enabled' = on
    /\ UNCHANGED <<boot, unvetoed, file>> /\ SameLedger
    /\ TickIf(on)
    /\ UNCHANGED <<elapsed, send, arming, stop, thread, history>>

\* Time passes: the retryAt of a record.
Elapse(n) ==
    /\ n \in 1..Len(waits) \ elapsed
    /\ elapsed' = elapsed \cup {n}
    /\ UNCHANGED <<boot, unvetoed, enabled, ledger, ticks, send, arming, stop, file, thread, history>>

\* Mutant: the latch is not looked at.
ProbeBlind(t, n) ==
    /\ Booted /\ SameLedger
    /\ n \in ticks[t].todo
    /\ ticks' = [ticks EXCEPT ![t].todo = @ \ {n}, ![t].ok = @ \cup {n}]
    /\ UNCHANGED <<elapsed, send, arming, stop, thread, history>>

\* A tick asks of a due wait whether its thread was stopped.
Probe(t, n) ==
    /\ Booted /\ SameLedger
    /\ n \in ticks[t].todo
    /\ ticks' = IF latched[waits[n]]
                  THEN [ticks EXCEPT ![t].todo = @ \ {n}, ![t].stopped = @ \cup {n}]
                  ELSE [ticks EXCEPT ![t].todo = @ \ {n}, ![t].ok = @ \cup {n}]
    /\ UNCHANGED <<elapsed, send, arming, stop, thread, history>>

\* The waits a tick found runnable that are still on the ledger and not reserved.
Ready(t) ==
    {n \in ticks[t].ok : enabled /\ pending[waits[n]] = n /\ resuming[waits[n]] = None}

Places == MaxResumes - Cardinality({s \in Sessions : resuming[s] # None})

\* Mutant: the waits found stopped are left out, and stay.
FinishTickKeeping(t) ==
    /\ Booted /\ ticks[t] # NoTick /\ ticks[t].todo = {}
    /\ \E chosen \in SUBSET Ready(t) :
         /\ Cardinality(chosen) = Min({Cardinality(Ready(t)), Places})
         /\ resuming' = [s \in Sessions |->
                           IF pending[s] \in chosen THEN pending[s] ELSE resuming[s]]
         /\ send' = [k \in Senders |-> IF k \in chosen THEN "called" ELSE send[k]]
    /\ ticks' = [ticks EXCEPT ![t] = NoTick]
    /\ UNCHANGED <<waits, pending, elapsed, arming, stop, thread, history>>

\* The end of a tick: stopped waits leave the ledger, and of the ready ones as many
\* are admitted as there are places.
FinishTick(t) ==
    /\ Booted /\ ticks[t] # NoTick /\ ticks[t].todo = {}
    /\ pending' = [s \in Sessions |-> IF pending[s] \in ticks[t].stopped THEN None ELSE pending[s]]
    /\ \E chosen \in SUBSET Ready(t) :
         /\ Cardinality(chosen) = Min({Cardinality(Ready(t)), Places})
         /\ resuming' = [s \in Sessions |->
                           IF pending[s] \in chosen THEN pending[s] ELSE resuming[s]]
         /\ send' = [k \in Senders |-> IF k \in chosen THEN "called" ELSE send[k]]
    /\ ticks' = [ticks EXCEPT ![t] = NoTick]
    /\ UNCHANGED <<waits, elapsed, arming, stop, thread, history>>

-----------------------------------------------------------------------------
\* A step of a prompt under way.
Send(k, from, to) == Booted /\ send[k] = from /\ send' = [send EXCEPT ![k] = to]
OnlySend == UNCHANGED <<elapsed, arming, stop, history>>

\* continueScheduledThread: a thread that is no longer paused has moved on, its wait is
\* cleared; a session at work is left alone; otherwise a waiting card, which a restart
\* may have lost, goes with its wait before the prompt is sent.
Continue(n) ==
    LET s == waits[n]
    IN  /\ send[n] = "called"
        /\ \/ /\ status[s] # "paused"
              /\ Send(n, "called", "returned")
              /\ pending' = DropIf(pending, s, n) /\ UNCHANGED waits
              /\ Resumed(s)
           \/ /\ status[s] = "paused" /\ live[s]
              /\ Send(n, "called", "returned") /\ SameLedger /\ NoTicks
           \/ /\ status[s] = "paused" /\ ~live[s]
              /\ Send(n, "called", "sending")
              /\ SameLedger \/ (ClearWait(s) /\ UNCHANGED resuming)
              /\ NoTicks
        /\ OnlySend /\ UNCHANGED thread

\* sendPrompt, before the session is prepared: the thread is shown at work.
Prepare(k) ==
    /\ Send(k, "sending", "preparing")
    /\ status' = [status EXCEPT ![SessionOf(k)] = "executing"]
    /\ SameLedger /\ NoTicks /\ OnlySend
    /\ UNCHANGED <<latched, live>>

\* Once it is prepared the thread's waits are cleared; a turn that is live is steered.
Clear(k) ==
    /\ Send(k, "preparing", IF ~live[SessionOf(k)] THEN "dispatching"
                            ELSE IF k \in Sessions THEN "idle" ELSE "returned")
    /\ ClearWait(SessionOf(k)) /\ UNCHANGED resuming
    /\ NoTicks /\ OnlySend /\ UNCHANGED thread

\* The harness takes the prompt and reports the session at work.
HarnessStarts(k) ==
    LET s == SessionOf(k)
    IN  /\ ~live[s]
        /\ Send(k, "dispatching", IF k \in Sessions THEN "idle" ELSE "returned")
        /\ live' = [live EXCEPT ![s] = TRUE]
        /\ status' = [status EXCEPT ![s] = "executing"]
        /\ ClearWait(s) /\ Resumed(s)
        /\ CrossIf(s)
        /\ UNCHANGED <<elapsed, arming, stop, quiet, latched>>

\* sendPrompt fails: before the preparation the row keeps its status, later it is failed,
\* and a failure of the dispatch that is a provider issue arms a wait of its own.
SendFails(k) ==
    LET s == SessionOf(k)
        at == send[k]
    IN  /\ at \in {"sending", "preparing", "dispatching"} /\ Room
        /\ Send(k, at, IF k \in Sessions THEN "idle" ELSE "failed")
        /\ status' = IF at = "sending" THEN status ELSE [status EXCEPT ![s] = "failed"]
        /\ arming' \in {arming} \cup
             (IF at = "dispatching" /\ arming[s] = "idle" /\ Len(waits) + Promised + 1 < MaxWaits
                THEN {[arming EXCEPT ![s] = "read"]} ELSE {})
        /\ SameLedger /\ NoTicks
        /\ UNCHANGED <<elapsed, stop, history, latched, live>>

\* Mutant: whatever reservation the session has is given back.
ReleaseAny(n) == resuming' = Drop(resuming, waits[n]) /\ Tick
\* Mutant: the reservation is kept.
ReleaseNone(n) == UNCHANGED resuming /\ Tick

\* The end of fire: the reservation is given back, and another tick runs.
Release(n) == resuming' = DropIf(resuming, waits[n], n) /\ Tick

\* The callback returned: the wait it admitted leaves the ledger.
Return(n) ==
    /\ Send(n, "returned", "idle")
    /\ pending' = DropIf(pending, waits[n], n) /\ UNCHANGED waits
    /\ Release(n)
    /\ OnlySend /\ UNCHANGED thread

\* The callback failed: a newer wait stands, the wait of a stopped thread leaves the
\* ledger, and any other is kept for a later attempt.
FailProbe(n) ==
    LET s == waits[n]
        newer == pending[s] \notin {None, n}
    IN  /\ send[n] = "failed"
        /\ \/ /\ newer \/ latched[s]
              /\ Send(n, "failed", "idle")
              /\ pending' = (IF newer THEN pending ELSE Drop(pending, s)) /\ UNCHANGED waits
              /\ Release(n)
           \/ /\ ~newer /\ ~latched[s]
              /\ Send(n, "failed", "clean") /\ SameLedger /\ NoTicks
        /\ OnlySend /\ UNCHANGED thread

\* The answer is in: the wait is recorded again, a minute from now, unless the ledger
\* holds a newer one.
Restore(n) ==
    LET s == waits[n]
    IN  /\ Send(n, "clean", "idle")
        /\ IF pending[s] \in {None, n}
             THEN /\ waits' = Append(waits, s)
                  /\ pending' = [pending EXCEPT ![s] = Len(waits')]
             ELSE UNCHANGED <<waits, pending>>
        /\ Release(n)
        /\ OnlySend /\ UNCHANGED thread

-----------------------------------------------------------------------------
\* A live turn ends: the session is idle.
TurnEnds(s) ==
    /\ Booted /\ live[s] /\ stop[s] = "idle"
    /\ live' = [live EXCEPT ![s] = FALSE]
    /\ status' = [status EXCEPT ![s] = "completed"]
    /\ ClearWait(s) /\ Resumed(s) /\ CrossIf(s)
    /\ UNCHANGED <<elapsed, send, arming, stop, latched, quiet>>

\* A live turn ends in a wait: the row is paused, and a record is armed.
TurnFails(s) ==
    /\ Booted /\ live[s] /\ stop[s] = "idle" /\ arming[s] = "idle" /\ Room
    /\ live' = [live EXCEPT ![s] = FALSE]
    /\ status' = [status EXCEPT ![s] = "paused"]
    /\ arming' = [arming EXCEPT ![s] = "read"]
    /\ SameLedger /\ NoTicks
    /\ UNCHANGED <<elapsed, send, stop, latched, history>>

\* scheduleAutomaticRetry asks for the latch, pauses the row, and then track asks for
\* the latch again; a thread found stopped only then is left failed.
Arm(s, from, to) == Booted /\ arming[s] = from /\ arming' = [arming EXCEPT ![s] = to]
ArmStep(s) ==
    /\ \/ Arm(s, "read", IF latched[s] THEN "idle" ELSE "pause") /\ UNCHANGED status
       \/ Arm(s, "pause", "probe") /\ status' = [status EXCEPT ![s] = "paused"]
       \/ Arm(s, "probe", IF latched[s] THEN "refused" ELSE "set") /\ UNCHANGED status
       \/ Arm(s, "refused", "idle") /\ status' = [status EXCEPT ![s] = "failed"]
    /\ SameLedger /\ NoTicks
    /\ UNCHANGED <<elapsed, send, stop, latched, live, history>>

\* track: the record is on the ledger, in the place of an older one.
Track(s) ==
    /\ Arm(s, "set", "idle")
    /\ waits' = Append(waits, s)
    /\ pending' = [pending EXCEPT ![s] = Len(waits')]
    /\ UNCHANGED resuming /\ Tick
    /\ UNCHANGED <<elapsed, send, stop, thread, history>>

\* abort: the latch comes first, then the harness is told, the ledger is cleared of the
\* thread, and the row is interrupted.
StopLatch(s) ==
    /\ Booted /\ stop[s] = "idle" /\ ~latched[s]
    /\ latched' = [latched EXCEPT ![s] = TRUE]
    /\ stop' = [stop EXCEPT ![s] = "abort"]
    /\ SameLedger /\ NoTicks
    /\ UNCHANGED <<elapsed, send, arming, status, live, history>>

StopStep(s, from, to) == Booted /\ stop[s] = from /\ stop' = [stop EXCEPT ![s] = to]

StopAborts(s) ==
    /\ StopStep(s, "abort", "drop")
    /\ live' = [live EXCEPT ![s] = FALSE]
    /\ IF live[s] THEN ClearWait(s) /\ Resumed(s) /\ CrossIf(s)
                  ELSE SameLedger /\ NoTicks /\ UNCHANGED crossed
    /\ UNCHANGED <<elapsed, send, arming, status, latched, quiet>>

StopDrops(s) ==
    /\ StopStep(s, "drop", "settle")
    /\ ClearWait(s) /\ UNCHANGED resuming /\ NoTicks
    /\ UNCHANGED <<elapsed, send, arming, thread, history>>

StopSettles(s) ==
    /\ StopStep(s, "settle", "idle")
    /\ status' = [status EXCEPT ![s] = "interrupted"]
    /\ quiet' = IF latched[s] /\ Resumes(s) = {} /\ ~Runnable(s) THEN quiet \cup {s} ELSE quiet
    /\ SameLedger /\ NoTicks
    /\ UNCHANGED <<crossed, elapsed, send, arming, latched, live>>

\* The user sends a prompt, which lifts the latch.
Prompt(s) ==
    /\ "prompt" \in Moves /\ Send(s, "idle", "sending") /\ ~live[s]
    /\ latched' = [latched EXCEPT ![s] = FALSE]
    /\ quiet' = quiet \ {s}
    /\ SameLedger /\ NoTicks
    /\ UNCHANGED <<crossed, elapsed, arming, stop, status, live>>

-----------------------------------------------------------------------------
\* persist: the chain of writes catches up with the ledger.
WriteFile ==
    /\ Up /\ file # pending
    /\ file' = pending
    /\ UNCHANGED <<boot, unvetoed, enabled, ledger, elapsed, ticks, send, arming, stop, thread, history>>

\* The instance goes away with its memory and its harnesses.
Crash ==
    /\ "crash" \in Moves /\ boot # "down" /\ boot' = "down" /\ unvetoed' = {}
    /\ pending' = [s \in Sessions |-> None] /\ resuming' = pending'
    /\ ticks' = [t \in 1..MaxTicks |-> NoTick]
    /\ send' = [k \in Senders |-> "idle"]
    /\ arming' = [s \in Sessions |-> "idle"] /\ stop' = arming'
    /\ live' = [s \in Sessions |-> FALSE]
    /\ UNCHANGED <<enabled, waits, elapsed, file, status, latched, history>>

\* start: the file is loaded; a row left at work is shown as waiting when the ledger
\* has a wait for it, and as interrupted otherwise.
Start ==
    /\ boot = "down" /\ boot' = "veto"
    /\ pending' = file
    /\ unvetoed' = {s \in Sessions : file[s] # None}
    /\ status' = [s \in Sessions |-> IF status[s] # "executing" THEN status[s]
                                     ELSE IF file[s] # None THEN "paused" ELSE "interrupted"]
    /\ UNCHANGED <<enabled, waits, resuming, elapsed, ticks, send, arming, stop, file,
                   latched, live, history>>

\* refreshStoppedVeto: the waits of stopped threads are dropped.
Veto(s) ==
    /\ boot = "veto" /\ s \in unvetoed
    /\ unvetoed' = unvetoed \ {s}
    /\ pending' = IF latched[s] THEN Drop(pending, s) ELSE pending
    /\ UNCHANGED <<boot, enabled, waits, resuming, elapsed, ticks, send, arming, stop, file,
                   thread, history>>

\* The launch tick: what fell due meanwhile fires.
Started ==
    /\ boot = "veto" /\ unvetoed = {}
    /\ boot' = "up"
    /\ UNCHANGED <<unvetoed, enabled, file>> /\ SameLedger /\ Tick
    /\ UNCHANGED <<elapsed, send, arming, stop, thread, history>>

Sending(k) ==
    /\ send[k] # "idle"
    /\ \/ Prepare(k) \/ Clear(k) \/ HarnessStarts(k) \/ SendFails(k)
       \/ Continue(k) \/ Return(k) \/ FailProbe(k) \/ Restore(k)

Arming(s) == ArmStep(s) \/ Track(s)
Stopping(s) == StopAborts(s) \/ StopDrops(s) \/ StopSettles(s)

Next ==
    \/ Timer \/ WriteFile \/ Crash \/ Start \/ Started
    \/ \E on \in BOOLEAN : SetEnabled(on)
    \/ \E n \in Waits : Elapse(n)
    \/ \E t \in 1..MaxTicks : FinishTick(t) \/ \E n \in Waits : Probe(t, n)
    \/ \E k \in Senders : Sending(k)
    \/ \E s \in Sessions :
          \/ Arming(s) \/ Stopping(s) \/ Veto(s)
          \/ TurnEnds(s) \/ TurnFails(s) \/ StopLatch(s) \/ Prompt(s)

\* The ticker, time and every await go on; a prompt that is dispatched is taken by the
\* harness or fails.  The user, turns and crashes promise nothing.
Fairness ==
    /\ WF_vars(Timer) /\ WF_vars(Start) /\ WF_vars(Started)
    /\ \A n \in Waits : WF_vars(Elapse(n))
    /\ \A t \in 1..MaxTicks : WF_vars(FinishTick(t) \/ \E n \in Waits : Probe(t, n))
    /\ \A k \in Senders : WF_vars(Sending(k))
    /\ \A s \in Sessions : WF_vars(Arming(s)) /\ WF_vars(Stopping(s)) /\ WF_vars(Veto(s))

Spec == Init /\ [][Next]_vars /\ Fairness

-----------------------------------------------------------------------------
TypeOK ==
    /\ boot \in {"down", "veto", "up"} /\ unvetoed \subseteq Sessions /\ enabled \in BOOLEAN
    /\ waits \in Seq(Sessions) /\ Len(waits) <= MaxWaits /\ elapsed \subseteq 1..Len(waits)
    /\ {pending, resuming, file} \subseteq [Sessions -> Waits \cup {None}]
    /\ ticks \in [1..MaxTicks -> [todo : SUBSET Waits, ok : SUBSET Waits, stopped : SUBSET Waits]]
    /\ \A t \in 1..MaxTicks : ticks[t].todo \cup ticks[t].ok \subseteq elapsed
    /\ send \in [Senders -> SendSteps]
    /\ arming \in [Sessions -> ArmSteps] /\ stop \in [Sessions -> StopSteps]
    /\ status \in [Sessions -> {"executing", "paused", "completed", "failed", "interrupted"}]
    /\ latched \in [Sessions -> BOOLEAN] /\ live \in [Sessions -> BOOLEAN]
    /\ quiet \subseteq Sessions /\ crossed \subseteq Sessions

\* retry-scheduler-service.ts:45: whatever ticks overlap, and whichever resumes give their
\* reservation back early, no more sessions are reserved than there are places.
PlacesKept == Cardinality({s \in Sessions : resuming[s] # None}) <= MaxResumes

\* retry-scheduler-service.ts:490: as long as the wait a resume was admitted for is on the
\* ledger the reservation is that resume's, so no tick dispatches the wait again, unless
\* a turn of the session started or ended before a resume had read the row: that resume
\* gives back the reservation of a later one (chat-engine-thread-lifecycle.ts:820).
ReservedWhilePending ==
    \A s \in Sessions : \A n \in Resumes(s) : pending[s] = n => resuming[s] = n \/ s \in crossed

\* retry-scheduler-service.ts:119: a thread whose Stop ended with no resume under way is
\* not resumed before the user's next prompt, whatever was being armed or restored, and
\* across a restart.
StoppedStays == \A s \in quiet : Resumes(s) = {}

\* retry-scheduler-service.ts:62: while the gate is open and the instance is up, a due wait
\* is resumed or leaves the ledger.
DueWaitIsAnswered ==
    \A s \in Sessions, n \in Waits :
        (Up /\ pending[s] = n /\ n \in elapsed) ~> (~Up \/ ~enabled \/ pending[s] # n)

\* retry-scheduler-service.ts:185: when the user's Stop stands, in the end no wait of the
\* thread is left on the ledger for good.
StopSticks ==
    \A s \in Sessions :
        <>[](latched[s] /\ enabled /\ Up) => <>[](pending[s] = None)

\* retry-scheduler-service.ts:51: a wait kept after a failed resume, with nothing else
\* going on in its thread, is one a later attempt can admit: the row is still paused.
FailedResumeIsRetried ==
    [][\A s \in Sessions :
         (\E n \in Resumes(s) : send[n] = "clean" /\ send'[n] = "idle")
             /\ send[s] = "idle" /\ stop[s] = "idle" /\ pending'[s] \notin {None, pending[s]}
         => status[s] = "paused"]_vars
=============================================================================
