------------------------ MODULE RetryScheduler_proofs ------------------------
(***************************************************************************)
(* For any finite set of sessions and any bounds: ticks never reserve more *)
(* places than there are, a thread whose Stop ended with nothing under way *)
(* is not resumed before the user's next prompt, a wait being resumed      *)
(* stays reserved while it is on the ledger, and the variables have their  *)
(* types.                                                                  *)
(***************************************************************************)
EXTENDS RetryScheduler, FiniteSetTheorems, FunctionTheorems, TLAPS

\* Every wait of a ledger is a record of its own session.
OwnWaits(f) == \A s \in Sessions : f[s] # None => f[s] \in 1..Len(waits) /\ waits[f[s]] = s

Records == SUBSET (1..Len(waits))

\* The steps of a prompt of the user's, which nobody waits for.
UserSteps == {"idle", "sending", "preparing", "dispatching"}

Shape ==
    /\ waits \in Seq(Sessions)
    /\ pending \in [Sessions -> Nat] /\ OwnWaits(pending)
    /\ file \in [Sessions -> Nat] /\ OwnWaits(file)
    /\ resuming \in [Sessions -> Nat]
    /\ elapsed \in Records
    /\ ticks \in [1..MaxTicks -> [todo : Records, ok : Records, stopped : Records]]
    /\ send \in [Senders -> SendSteps]
    /\ \A n \in Waits : send[n] # "idle" => n <= Len(waits)
    /\ \A s \in Sessions : send[s] \in UserSteps
    /\ latched \in [Sessions -> BOOLEAN]

\* A thread Stop left quiet: nothing under way will resume it, and no tick will find it
\* runnable while its latch is on.
Quiet ==
    /\ quiet \subseteq Sessions
    /\ \A s \in quiet : latched[s] /\ Resumes(s) = {} /\ ~Runnable(s)

-----------------------------------------------------------------------------
(* The records only grow.                                                  *)

Grown == UNCHANGED waits \/ \E s \in Sessions : waits' = Append(waits, s)

LEMMA Growing ==
  ASSUME waits \in Seq(Sessions), Grown
  PROVE  /\ waits' \in Seq(Sessions)
         /\ Len(waits) \in Nat /\ Len(waits') \in Nat /\ Len(waits) <= Len(waits')
         /\ \A n \in 1..Len(waits) : waits'[n] = waits[n]
BY DEF Grown

\* The first part of a tick adds nothing that could be admitted.
LEMMA TickStarts ==
  ASSUME Shape, NEW asked, TickIf(asked), Grown
  PROVE  /\ ticks' \in [1..MaxTicks -> [todo : Records', ok : Records', stopped : Records']]
         /\ \A t \in 1..MaxTicks : ticks'[t].ok \subseteq ticks[t].ok
<1> DEFINE due == {n \in elapsed : \E s \in Sessions : pending'[s] = n /\ resuming'[s] = None}
           more == [NoTick EXCEPT !.todo = due]
<1>1. Records \subseteq Records'
  BY Growing DEF Shape, Records
<1>2. more \in [todo : Records, ok : Records, stopped : Records] /\ more.ok = {}
  BY DEF NoTick, Shape, Records
<1>3. PICK x : ticks' = [ticks EXCEPT ![x] = more] \/ ticks' = ticks
  BY DEF TickIf
<1>4. ticks' \in [1..MaxTicks -> [todo : Records, ok : Records, stopped : Records]]
  BY <1>2, <1>3 DEF Shape
<1>5. ASSUME NEW t \in 1..MaxTicks
      PROVE  ticks'[t].ok \subseteq ticks[t].ok
  BY <1>2, <1>3 DEF Shape
<1> HIDE DEF due, more
<1> QED
  BY <1>1, <1>4, <1>5

-----------------------------------------------------------------------------
(* What every step does, and what all but three do.                        *)

Ticking ==
    \/ UNCHANGED ticks
    \/ \E asked : TickIf(asked)
    \/ ticks' = [t \in 1..MaxTicks |-> NoTick]

\* The ledger after a step: waits leave it, the file is loaded, or a record is added.
Ledger ==
    \/ /\ pending' \in [Sessions -> Nat]
       /\ \A s \in Sessions : pending'[s] \in {pending[s], file[s], None}
    \/ \E s \in Sessions :
          waits' = Append(waits, s) /\ pending' = [pending EXCEPT ![s] = Len(waits')]

\* The shape of a step that may also probe or admit.
Step ==
    /\ Grown /\ Ledger
    /\ file' \in {file, pending}
    /\ resuming' \in [Sessions -> Nat]
    /\ elapsed' = elapsed \/ \E n \in 1..Len(waits) : elapsed' = elapsed \cup {n}
    /\ send' \in [Senders -> SendSteps]
    /\ \A n \in Waits : send'[n] # "idle" => n <= Len(waits)
    /\ \A s \in Sessions : send'[s] \in UserSteps
    /\ latched' \in [Sessions -> BOOLEAN]

\* A step that admits no wait, finds none runnable and lets no Stop end.
Plain ==
    /\ Step /\ Ticking
    /\ \A s \in Sessions : resuming'[s] \in {resuming[s], None}
    /\ \A n \in Waits : send'[n] # "idle" => send[n] # "idle"
    /\ quiet' \subseteq quiet
    /\ \A s \in quiet' \cap Sessions : latched[s] => latched'[s]

LEMMA LedgerShape ==
  ASSUME Shape, Grown, Ledger
  PROVE  pending' \in [Sessions -> Nat] /\ OwnWaits(pending)'
<1>g. /\ Len(waits) \in Nat /\ Len(waits') \in Nat /\ Len(waits) <= Len(waits')
      /\ \A n \in 1..Len(waits) : n \in 1..Len(waits') /\ waits'[n] = waits[n]
  BY Growing DEF Shape
<1>1. CASE /\ pending' \in [Sessions -> Nat]
           /\ \A s \in Sessions : pending'[s] \in {pending[s], file[s], None}
  <2> SUFFICES ASSUME NEW s \in Sessions, pending'[s] # None
               PROVE  pending'[s] \in 1..Len(waits') /\ waits'[pending'[s]] = s
    BY <1>1 DEF OwnWaits
  <2>1. pending'[s] \in 1..Len(waits) /\ waits[pending'[s]] = s
    <3>1. CASE pending'[s] = pending[s]
      BY <3>1 DEF Shape, OwnWaits
    <3>2. CASE pending'[s] = file[s]
      BY <3>2 DEF Shape, OwnWaits
    <3> QED
      BY <1>1, <3>1, <3>2
  <2> QED
    BY <2>1, <1>g
<1>2. ASSUME NEW s \in Sessions, waits' = Append(waits, s),
             pending' = [pending EXCEPT ![s] = Len(waits')]
      PROVE  pending' \in [Sessions -> Nat] /\ OwnWaits(pending)'
  <2>1. Len(waits') = Len(waits) + 1 /\ waits'[Len(waits')] = s
    BY <1>2 DEF Shape
  <2> QED
    BY <1>2, <2>1, <1>g DEF Shape, OwnWaits
<1> QED
  BY <1>1, <1>2 DEF Ledger

LEMMA TicksShape ==
  ASSUME Shape, Grown, Ticking
  PROVE  /\ ticks' \in [1..MaxTicks -> [todo : Records', ok : Records', stopped : Records']]
         /\ \A t \in 1..MaxTicks : ticks'[t].ok \subseteq ticks[t].ok
<1>1. Records \subseteq Records'
  BY Growing DEF Shape, Records
<1>2. CASE UNCHANGED ticks
  BY <1>1, <1>2 DEF Shape
<1>3. CASE ticks' = [t \in 1..MaxTicks |-> NoTick]
  BY <1>3 DEF NoTick, Records
<1> QED
  BY <1>2, <1>3, TickStarts DEF Ticking

LEMMA StepShape ==
  ASSUME Shape, Step,
         ticks' \in [1..MaxTicks -> [todo : Records', ok : Records', stopped : Records']]
  PROVE  Shape'
<1>g. /\ Len(waits) \in Nat /\ Len(waits') \in Nat /\ Len(waits) <= Len(waits')
      /\ \A n \in 1..Len(waits) : n \in 1..Len(waits') /\ waits'[n] = waits[n]
  BY Growing DEF Shape, Step
<1>2. file' \in [Sessions -> Nat] /\ OwnWaits(file)'
  <2>1. CASE file' = file
    BY <2>1, <1>g, Zenon DEF Shape, OwnWaits
  <2>2. CASE file' = pending
    BY <2>2, <1>g, Zenon DEF Shape, OwnWaits
  <2> QED
    BY <2>1, <2>2 DEF Step
<1>3. elapsed' \in Records'
  <2>1. elapsed \subseteq 1..Len(waits')
    BY <1>g DEF Shape, Records
  <2> QED
    BY <2>1, <1>g DEF Step, Records
<1>4. \A n \in Waits : send'[n] # "idle" => n <= Len(waits')
  <2>1. Len(waits) \in Nat /\ Len(waits') \in Nat /\ Len(waits) <= Len(waits')
    BY Growing DEF Shape, Step
  <2>2. ASSUME NEW n \in Waits, send'[n] # "idle"
        PROVE  n <= Len(waits) /\ n \in Nat
    BY <2>2 DEF Step, Waits
  <2> QED
    BY <2>1, <2>2
<1>5. waits' \in Seq(Sessions) /\ pending' \in [Sessions -> Nat] /\ OwnWaits(pending)'
  BY Growing, LedgerShape DEF Shape, Step
<1> QED
  BY <1>2, <1>3, <1>4, <1>5 DEF Shape, Step, Senders

LEMMA PlainQuiet ==
  ASSUME Shape, Plain, Quiet
  PROVE  Quiet'
<1>1. quiet' \subseteq Sessions
  BY DEF Plain, Quiet
<1>2. ASSUME NEW s \in quiet'
      PROVE  latched'[s] /\ Resumes(s)' = {} /\ ~Runnable(s)'
  <2>1. latched[s] /\ latched'[s] /\ Resumes(s) = {} /\ ~Runnable(s)
    BY <1>2 DEF Plain, Quiet
  <2>2. ASSUME NEW n \in Resumes(s)'
        PROVE  FALSE
    <3>1. n \in Waits /\ waits'[n] = s /\ send[n] # "idle" /\ n \in 1..Len(waits)
      BY <2>2 DEF Plain, Resumes, Shape, Step, Waits
    <3> QED
      BY <3>1, <2>1, Growing DEF Plain, Step, Resumes, Shape
  <2>3. ~Runnable(s)'
    BY <2>1, Growing, TicksShape DEF Plain, Step, Runnable, Shape, Records
  <2> QED
    BY <2>1, <2>2, <2>3
<1> QED
  BY <1>1, <1>2 DEF Quiet

-----------------------------------------------------------------------------
(* The steps that are plain.                                               *)

LEMMA SessionOfSender ==
  ASSUME Shape, NEW k \in Senders, send[k] # "idle"
  PROVE  SessionOf(k) \in Sessions
<1>1. CASE k \in Sessions
  BY <1>1 DEF SessionOf
<1>2. CASE k \in Waits
  BY <1>2 DEF Shape, SessionOf, Waits
<1> QED
  BY <1>1, <1>2 DEF Senders

\* What Send does to the prompts under way.
LEMMA Sends ==
  ASSUME Shape, NEW k \in Senders, NEW from, NEW to \in SendSteps, Send(k, from, to),
         from # "idle" \/ k \notin Waits, to \in UserSteps \/ k \notin Sessions
  PROVE  /\ send' \in [Senders -> SendSteps]
         /\ \A n \in Waits : send'[n] # "idle" => send[n] # "idle" /\ n <= Len(waits)
         /\ \A s \in Sessions : send'[s] \in UserSteps
BY DEF Shape, Send, Senders

\* A step that leaves the ledger, the ticks, the latches and the history alone.
LEMMA ApartPlain ==
  ASSUME Shape, SameLedger, Ticking, UNCHANGED <<elapsed, latched, quiet>>,
         file' \in {file, pending},
         send' \in [Senders -> SendSteps],
         \A n \in Waits : send'[n] # "idle" => send[n] # "idle" /\ n <= Len(waits),
         \A s \in Sessions : send'[s] \in UserSteps
  PROVE  Plain
BY DEF Shape, SameLedger, ledger, Plain, Step, Grown, Ledger

LEMMA DropsWaits ==
  ASSUME Shape, NEW s \in Sessions, NEW n
  PROVE  /\ Drop(pending, s) \in [Sessions -> Nat] /\ DropIf(pending, s, n) \in [Sessions -> Nat]
         /\ \A r \in Sessions : Drop(pending, s)[r] \in {pending[r], None}
                                /\ DropIf(pending, s, n)[r] \in {pending[r], None}
         /\ Drop(resuming, s) \in [Sessions -> Nat] /\ DropIf(resuming, s, n) \in [Sessions -> Nat]
         /\ \A r \in Sessions : Drop(resuming, s)[r] \in {resuming[r], None}
                                /\ DropIf(resuming, s, n)[r] \in {resuming[r], None}
BY DEF Shape, Drop, DropIf, None

\* A step that takes waits or reservations away.
LEMMA TakesPlain ==
  ASSUME Shape, UNCHANGED waits,
         pending' \in [Sessions -> Nat], \A r \in Sessions : pending'[r] \in {pending[r], None},
         resuming' \in [Sessions -> Nat], \A r \in Sessions : resuming'[r] \in {resuming[r], None},
         Ticking, file' = file,
         elapsed' = elapsed, latched' = latched, quiet' = quiet,
         send' \in [Senders -> SendSteps],
         \A n \in Waits : send'[n] # "idle" => send[n] # "idle" /\ n <= Len(waits),
         \A s \in Sessions : send'[s] \in UserSteps
  PROVE  Plain
BY DEF Shape, Plain, Step, Grown, Ledger

\* A step that adds a record for a session.
LEMMA AddsPlain ==
  ASSUME Shape, NEW r \in Sessions, waits' = Append(waits, r),
         pending' = [pending EXCEPT ![r] = Len(waits')],
         resuming' \in [Sessions -> Nat], \A s \in Sessions : resuming'[s] \in {resuming[s], None},
         Ticking, file' = file,
         elapsed' = elapsed, latched' = latched, quiet' = quiet,
         send' \in [Senders -> SendSteps],
         \A n \in Waits : send'[n] # "idle" => send[n] # "idle" /\ n <= Len(waits),
         \A s \in Sessions : send'[s] \in UserSteps
  PROVE  Plain
BY DEF Shape, Plain, Step, Grown, Ledger

\* The prompts when a step does not touch them.
LEMMA NoSends ==
  ASSUME Shape, UNCHANGED send
  PROVE  /\ send' \in [Senders -> SendSteps]
         /\ \A n \in Waits : send'[n] # "idle" => send[n] # "idle" /\ n <= Len(waits)
         /\ \A s \in Sessions : send'[s] \in UserSteps
BY DEF Shape

LEMMA SendingPlain ==
  ASSUME Shape, NEW k \in Senders, Sending(k)
  PROVE  Plain
<1> DEFINE s == SessionOf(k)
<1>s. s \in Sessions
  BY SessionOfSender DEF Sending
<1>t. ASSUME NEW asked, TickIf(asked)
      PROVE  Ticking
  BY <1>t DEF Ticking
<1>n. NoTicks => Ticking
  BY DEF NoTicks, Ticking
<1>w. ASSUME send[k] \notin UserSteps
      PROVE  k \notin Sessions /\ s = waits[k]
  BY <1>w DEF Shape, SessionOf
<1> DEFINE Sent == /\ send' \in [Senders -> SendSteps]
                   /\ \A n \in Waits : send'[n] # "idle" => send[n] # "idle" /\ n <= Len(waits)
                   /\ \A r \in Sessions : send'[r] \in UserSteps
<1>1. CASE Prepare(k)
  <2>1. Sent
    BY <1>1, Sends DEF Prepare, SendSteps, UserSteps
  <2> QED
    BY <1>1, <1>n, <2>1, ApartPlain DEF Prepare, Send, Booted, OnlySend, history
<1>2. CASE Clear(k)
  <2>1. Sent
    BY <1>2, Sends DEF Clear, SendSteps, UserSteps
  <2> QED
    BY <1>2, <1>n, <1>s, <2>1, DropsWaits, TakesPlain
    DEF Clear, Send, Booted, OnlySend, history, thread, ClearWait, Shape
<1>3. CASE HarnessStarts(k)
  <2>1. Sent
    BY <1>3, Sends DEF HarnessStarts, SendSteps, UserSteps
  <2>2. Ticking
    BY <1>3, <1>t DEF HarnessStarts, Resumed
  <2> QED
    BY <1>3, <1>s, <2>1, <2>2, DropsWaits, TakesPlain
    DEF HarnessStarts, Send, Booted, ClearWait, Resumed, Shape
<1>4. CASE SendFails(k)
  <2>1. Sent
    BY <1>4, Sends DEF SendFails, SendSteps, UserSteps
  <2> QED
    BY <1>4, <1>n, <2>1, ApartPlain DEF SendFails, Send, Booted, history
<1>5. CASE Continue(k)
  <2>1. k \notin Sessions /\ s = waits[k]
    BY <1>5, <1>w DEF Continue, UserSteps
  <2>2. Sent
    BY <1>5, <2>1, Sends DEF Continue, SendSteps
  <2>3. CASE /\ pending' = DropIf(pending, s, k) /\ UNCHANGED waits
             /\ Resumed(s)
    BY <1>5, <1>s, <1>t, <2>2, <2>3, DropsWaits, TakesPlain
    DEF Continue, Send, Booted, Resumed, OnlySend, thread, history, Shape
  <2>4. CASE SameLedger /\ NoTicks
    BY <1>5, <1>n, <2>2, <2>4, ApartPlain DEF Continue, Send, Booted, OnlySend, thread, history
  <2>5. CASE ClearWait(s) /\ UNCHANGED resuming /\ NoTicks
    BY <1>5, <1>n, <1>s, <2>2, <2>5, DropsWaits, TakesPlain
    DEF Continue, Send, Booted, ClearWait, OnlySend, thread, history, Shape
  <2> QED
    BY <1>5, <2>1, <2>3, <2>4, <2>5 DEF Continue
<1>6. CASE Return(k)
  <2>1. k \notin Sessions /\ s = waits[k]
    BY <1>6, <1>w DEF Return, Send, UserSteps
  <2>2. Sent
    BY <1>6, <2>1, Sends DEF Return, SendSteps
  <2> QED
    BY <1>6, <1>s, <1>t, <2>1, <2>2, DropsWaits, TakesPlain
    DEF Return, Send, Booted, Release, Tick, OnlySend, thread, history, Shape
<1>7. CASE FailProbe(k)
  <2>1. k \notin Sessions /\ s = waits[k]
    BY <1>7, <1>w DEF FailProbe, Send, UserSteps
  <2>2. Sent
    BY <1>7, <2>1, Sends DEF FailProbe, SendSteps
  <2>3. CASE pending' \in {pending, Drop(pending, s)} /\ UNCHANGED waits /\ Release(k)
    <3>1. /\ Ticking /\ resuming' = DropIf(resuming, s, k)
          /\ elapsed' = elapsed /\ latched' = latched /\ quiet' = quiet /\ file' = file
      BY <1>7, <1>t, <2>1, <2>3 DEF FailProbe, Send, Booted, Release, Tick, OnlySend, thread, history
    <3> QED
      BY <1>s, <2>2, <2>3, <3>1, DropsWaits, TakesPlain DEF Shape
  <2>4. CASE SameLedger /\ NoTicks
    BY <1>7, <1>n, <2>2, <2>4, ApartPlain DEF FailProbe, Send, Booted, OnlySend, thread, history
  <2> QED
    BY <1>7, <2>1, <2>3, <2>4 DEF FailProbe
<1>8. CASE Restore(k)
  <2>1. k \notin Sessions /\ s = waits[k]
    BY <1>8, <1>w DEF Restore, Send, UserSteps
  <2>2. Sent
    BY <1>8, <2>1, Sends DEF Restore, SendSteps
  <2>3. /\ Ticking /\ resuming' = DropIf(resuming, s, k)
        /\ elapsed' = elapsed /\ latched' = latched /\ quiet' = quiet /\ file' = file
    BY <1>8, <1>t, <2>1 DEF Restore, Send, Booted, Release, Tick, OnlySend, thread, history
  <2>4. CASE UNCHANGED <<waits, pending>>
    BY <1>s, <2>2, <2>3, <2>4, DropsWaits, TakesPlain DEF Shape
  <2>5. CASE waits' = Append(waits, s) /\ pending' = [pending EXCEPT ![s] = Len(waits')]
    BY <1>s, <2>2, <2>3, <2>5, DropsWaits, AddsPlain
  <2> QED
    BY <1>8, <2>1, <2>4, <2>5 DEF Restore
<1> QED
  BY <1>1, <1>2, <1>3, <1>4, <1>5, <1>6, <1>7, <1>8 DEF Sending

\* The steps of a session other than the end of its Stop.
LEMMA SessionPlain ==
  ASSUME Shape, NEW s \in Sessions,
         \/ Arming(s) \/ StopAborts(s) \/ StopDrops(s) \/ Veto(s)
         \/ TurnEnds(s) \/ TurnFails(s) \/ StopLatch(s) \/ Prompt(s)
  PROVE  Plain
<1>t. ASSUME NEW asked, TickIf(asked)
      PROVE  Ticking
  BY <1>t DEF Ticking
<1>n. NoTicks => Ticking
  BY DEF NoTicks, Ticking
<1> DEFINE Sent == /\ send' \in [Senders -> SendSteps]
                   /\ \A n \in Waits : send'[n] # "idle" => send[n] # "idle" /\ n <= Len(waits)
                   /\ \A r \in Sessions : send'[r] \in UserSteps
<1>u. UNCHANGED send => Sent
  BY NoSends
<1>1. CASE ArmStep(s)
  BY <1>1, <1>n, <1>u, ApartPlain DEF ArmStep, Arm, Booted, history
<1>2. CASE Track(s)
  <2>1. Ticking
    BY <1>2, <1>t DEF Track, Tick
  <2> QED
    BY <1>2, <2>1, <1>u, AddsPlain DEF Track, Arm, Booted, thread, history, Shape
<1>3. CASE StopAborts(s)
  <2>1. CASE SameLedger /\ NoTicks
    BY <1>3, <2>1, <1>n, <1>u, ApartPlain DEF StopAborts, StopStep, Booted, history
  <2>2. CASE ClearWait(s) /\ Resumed(s)
    <3>1. Ticking
      BY <2>2, <1>t DEF Resumed
    <3> QED
      BY <1>3, <2>2, <3>1, <1>u, DropsWaits, TakesPlain
      DEF StopAborts, StopStep, Booted, ClearWait, Resumed, history, Shape
  <2> QED
    BY <1>3, <2>1, <2>2 DEF StopAborts
<1>4. CASE StopDrops(s)
  BY <1>4, <1>n, <1>u, DropsWaits, TakesPlain
  DEF StopDrops, StopStep, Booted, ClearWait, thread, history, Shape
<1>5. CASE Veto(s)
  <2>1. Ticking
    BY <1>5 DEF Veto, Ticking
  <2> QED
    BY <1>5, <2>1, <1>u, DropsWaits, TakesPlain DEF Veto, thread, history, Shape
<1>6. CASE TurnEnds(s)
  <2>1. Ticking
    BY <1>6, <1>t DEF TurnEnds, Resumed
  <2> QED
    BY <1>6, <2>1, <1>u, DropsWaits, TakesPlain
    DEF TurnEnds, Booted, ClearWait, Resumed, history, Shape
<1>7. CASE TurnFails(s)
  BY <1>7, <1>n, <1>u, ApartPlain DEF TurnFails, Booted, history
<1>8. CASE StopLatch(s)
  <2>1. /\ latched' \in [Sessions -> BOOLEAN]
        /\ \A r \in Sessions : latched[r] => latched'[r]
    BY <1>8 DEF StopLatch, Shape
  <2>2. /\ UNCHANGED <<waits, pending, resuming, file, elapsed, quiet, send>>
        /\ Ticking
    BY <1>8, <1>n DEF StopLatch, SameLedger, ledger, Booted, history
  <2> QED
    BY <2>1, <2>2, <1>u DEF Plain, Step, Grown, Ledger, Shape
<1>9. CASE Prompt(s)
  <2>1. s \notin Waits /\ s \in Senders
    BY SessionsAssumption DEF Waits, Senders
  <2>2. Sent
    BY <1>9, <2>1, Sends DEF Prompt, SendSteps, UserSteps
  <2>3. /\ latched' \in [Sessions -> BOOLEAN] /\ quiet' \subseteq quiet
        /\ \A r \in quiet' : latched[r] => latched'[r]
    BY <1>9 DEF Prompt, Shape
  <2>4. UNCHANGED <<waits, pending, resuming, file, elapsed>> /\ Ticking
    BY <1>9, <1>n DEF Prompt, Send, SameLedger, ledger, Booted
  <2> QED
    BY <2>2, <2>3, <2>4 DEF Plain, Step, Grown, Ledger, Shape
<1> QED
  BY <1>1, <1>2, <1>3, <1>4, <1>5, <1>6, <1>7, <1>8, <1>9 DEF Arming

\* The steps of the instance.
LEMMA InstancePlain ==
  ASSUME Shape,
         \/ Timer \/ WriteFile \/ Crash \/ Start \/ Started
         \/ \E on \in BOOLEAN : SetEnabled(on)
         \/ \E n \in Waits : Elapse(n)
  PROVE  Plain
<1>t. ASSUME NEW asked, TickIf(asked)
      PROVE  Ticking
  BY <1>t DEF Ticking
<1> DEFINE Sent == /\ send' \in [Senders -> SendSteps]
                   /\ \A n \in Waits : send'[n] # "idle" => send[n] # "idle" /\ n <= Len(waits)
                   /\ \A r \in Sessions : send'[r] \in UserSteps
<1>u. UNCHANGED send => Sent
  BY NoSends
<1>1. CASE Timer
  BY <1>1, <1>t, <1>u, ApartPlain DEF Timer, Tick, Booted, thread, history
<1>2. CASE WriteFile
  <2>1. Ticking
    BY <1>2 DEF WriteFile, Ticking
  <2> QED
    BY <1>2, <2>1, <1>u, ApartPlain DEF WriteFile, SameLedger, thread, history
<1>3. CASE Crash
  <2>1. /\ UNCHANGED <<waits, file, elapsed, latched, quiet>> /\ Ticking
        /\ pending' = [s \in Sessions |-> None] /\ resuming' = [s \in Sessions |-> None]
    BY <1>3 DEF Crash, Ticking, history
  <2>2. send' = [k \in Senders |-> "idle"]
    BY <1>3 DEF Crash
  <2>3. Sent
    BY <2>2 DEF Senders, SendSteps, UserSteps
  <2> QED
    BY <2>1, <2>3, TakesPlain DEF None
<1>4. CASE Start
  <2>1. UNCHANGED <<waits, file, elapsed, latched, quiet, resuming, send>> /\ pending' = file
    BY <1>4 DEF Start, history
  <2>2. Ticking
    BY <1>4 DEF Start, Ticking
  <2> QED
    BY <2>1, <2>2, <1>u DEF Plain, Step, Grown, Ledger, Shape
<1>5. CASE Started
  BY <1>5, <1>t, <1>u, ApartPlain DEF Started, Tick, thread, history
<1>6. ASSUME NEW on \in BOOLEAN, SetEnabled(on)
      PROVE  Plain
  BY <1>6, <1>t, <1>u, ApartPlain DEF SetEnabled, thread, history
<1>7. ASSUME NEW n \in Waits, Elapse(n)
      PROVE  Plain
  <2>1. UNCHANGED <<waits, pending, resuming, file, latched, quiet, send>>
    BY <1>7 DEF Elapse, ledger, thread, history
  <2>2. Ticking /\ \E r \in 1..Len(waits) : elapsed' = elapsed \cup {r}
    BY <1>7 DEF Elapse, Ticking
  <2> QED
    BY <2>1, <2>2, <1>u DEF Plain, Step, Grown, Ledger, Shape
<1> QED
  BY <1>1, <1>2, <1>3, <1>4, <1>5, <1>6, <1>7

-----------------------------------------------------------------------------
(* Probing, admitting and the end of a Stop.                               *)

\* A wait that was probed goes to the runnable or to the stopped ones.
LEMMA Probed ==
  ASSUME NEW R, NEW tick \in [todo : SUBSET R, ok : SUBSET R, stopped : SUBSET R], NEW n \in R,
         NEW next,
         \/ next = [tick EXCEPT !.todo = @ \ {n}, !.stopped = @ \cup {n}]
         \/ next = [tick EXCEPT !.todo = @ \ {n}, !.ok = @ \cup {n}]
  PROVE  next \in [todo : SUBSET R, ok : SUBSET R, stopped : SUBSET R]
         /\ next.ok \subseteq tick.ok \cup {n}
<1>1. CASE next = [tick EXCEPT !.todo = @ \ {n}, !.stopped = @ \cup {n}]
  BY <1>1
<1>2. CASE next = [tick EXCEPT !.todo = @ \ {n}, !.ok = @ \cup {n}]
  BY <1>2
<1> QED
  BY <1>1, <1>2

LEMMA ProbeTicks ==
  ASSUME Shape, NEW t \in 1..MaxTicks, NEW n \in Waits, Probe(t, n)
  PROVE  /\ n \in 1..Len(waits)
         /\ ticks' \in [1..MaxTicks -> [todo : Records, ok : Records, stopped : Records]]
         /\ \A u \in 1..MaxTicks : ticks'[u].ok \subseteq ticks[u].ok \cup {n}
         /\ latched[waits[n]] => \A u \in 1..MaxTicks : ticks'[u].ok = ticks[u].ok
<1>1. /\ ticks[t] \in [todo : Records, ok : Records, stopped : Records]
      /\ n \in ticks[t].todo /\ n \in 1..Len(waits)
  BY DEF Probe, Shape, Records
<1> DEFINE Known == [todo : Records, ok : Records, stopped : Records]
<1>2. ASSUME NEW next, ticks' = [ticks EXCEPT ![t] = next], next \in Known,
             next.ok \subseteq ticks[t].ok \cup {n},
             latched[waits[n]] => next.ok = ticks[t].ok
      PROVE  /\ ticks' \in [1..MaxTicks -> Known]
             /\ \A u \in 1..MaxTicks : ticks'[u].ok \subseteq ticks[u].ok \cup {n}
             /\ latched[waits[n]] => \A u \in 1..MaxTicks : ticks'[u].ok = ticks[u].ok
  BY <1>2 DEF Shape
<1>3. CASE latched[waits[n]]
  <2> DEFINE next == [ticks[t] EXCEPT !.todo = @ \ {n}, !.stopped = @ \cup {n}]
  <2>1. ticks' = [ticks EXCEPT ![t] = next]
    BY <1>3 DEF Probe, Shape
  <2>2. next \in Known /\ next.ok = ticks[t].ok
    BY <1>1, Probed DEF Records
  <2> HIDE DEF next
  <2> QED
    BY <1>1, <1>2, <2>1, <2>2
<1>4. CASE ~latched[waits[n]]
  <2> DEFINE next == [ticks[t] EXCEPT !.todo = @ \ {n}, !.ok = @ \cup {n}]
  <2>1. ticks' = [ticks EXCEPT ![t] = next]
    BY <1>4 DEF Probe, Shape
  <2>2. next \in Known /\ next.ok \subseteq ticks[t].ok \cup {n}
    BY <1>1, Probed DEF Records
  <2> HIDE DEF next
  <2> QED
    BY <1>1, <1>2, <1>4, <2>1, <2>2
<1> QED
  BY <1>1, <1>3, <1>4

LEMMA ProbeShape ==
  ASSUME Shape, NEW t \in 1..MaxTicks, NEW n \in Waits, Probe(t, n)
  PROVE  Shape'
<1>1. UNCHANGED <<waits, pending, resuming, file, elapsed, send, latched>>
  BY DEF Probe, Booted, SameLedger, ledger, thread
<1>2. Step
  BY <1>1 DEF Step, Grown, Ledger, Shape
<1>3. Records' = Records
  BY <1>1 DEF Records
<1> QED
  BY <1>2, <1>3, ProbeTicks, StepShape

LEMMA ProbeQuiet ==
  ASSUME Shape, Quiet, NEW t \in 1..MaxTicks, NEW n \in Waits, Probe(t, n)
  PROVE  Quiet'
<1>1. UNCHANGED <<waits, send, latched, quiet>>
  BY DEF Probe, Booted, SameLedger, ledger, thread, history
<1>2. ASSUME NEW s \in quiet, NEW u \in 1..MaxTicks, NEW r \in 1..Len(waits),
             waits[r] = s, r \in ticks'[u].ok
      PROVE  FALSE
  <2>1. latched[s] /\ r \notin ticks[u].ok
    BY <1>2 DEF Quiet, Runnable
  <2>2. r = n
    BY <1>2, <2>1, ProbeTicks
  <2> QED
    BY <1>2, <2>1, <2>2, ProbeTicks
<1>3. ASSUME NEW s \in quiet
      PROVE  latched'[s] /\ Resumes(s)' = {} /\ ~Runnable(s)'
  BY <1>1, <1>2, <1>3 DEF Quiet, Resumes, Runnable
<1> QED
  BY <1>1, <1>3 DEF Quiet

LEMMA SettleShape ==
  ASSUME Shape, NEW s \in Sessions, StopSettles(s)
  PROVE  Shape'
<1>1. UNCHANGED <<waits, pending, resuming, file, elapsed, send, latched, ticks>>
  BY DEF StopSettles, StopStep, Booted, SameLedger, NoTicks, ledger
<1>2. Step
  BY <1>1 DEF Step, Grown, Ledger, Shape
<1>3. Records' = Records
  BY <1>1 DEF Records
<1> QED
  BY <1>1, <1>2, <1>3, StepShape DEF Shape

LEMMA SettleQuiet ==
  ASSUME Quiet, NEW s \in Sessions, StopSettles(s)
  PROVE  Quiet'
<1>1. UNCHANGED <<waits, send, latched, ticks>>
  BY DEF StopSettles, StopStep, Booted, SameLedger, NoTicks, ledger
<1>2. quiet' = quiet \/ (quiet' = quiet \cup {s} /\ latched[s] /\ Resumes(s) = {} /\ ~Runnable(s))
  BY DEF StopSettles
<1> QED
  BY <1>1, <1>2 DEF Quiet, Resumes, Runnable

\* The end of a tick admits waits that are on the ledger, each for its own session.
LEMMA Admits ==
  ASSUME Shape, NEW t \in 1..MaxTicks, FinishTick(t)
  PROVE  \E chosen \in SUBSET Ready(t) :
            /\ Cardinality(chosen) = Min({Cardinality(Ready(t)), Places})
            /\ resuming' = [s \in Sessions |->
                              IF pending[s] \in chosen THEN pending[s] ELSE resuming[s]]
            /\ send' = [k \in Senders |-> IF k \in chosen THEN "called" ELSE send[k]]
BY DEF FinishTick

LEMMA ReadyRecords ==
  ASSUME Shape, NEW t \in 1..MaxTicks
  PROVE  Ready(t) \subseteq 1..Len(waits) /\ Ready(t) \subseteq ticks[t].ok
BY DEF Shape, Ready, Records

LEMMA FinishShape ==
  ASSUME Shape, NEW t \in 1..MaxTicks, FinishTick(t)
  PROVE  Shape'
<1>1. UNCHANGED <<waits, file, elapsed, latched>> /\ ticks' = [ticks EXCEPT ![t] = NoTick]
  BY DEF FinishTick, Booted, thread
<1>2. PICK chosen \in SUBSET Ready(t) :
         /\ resuming' = [s \in Sessions |->
                           IF pending[s] \in chosen THEN pending[s] ELSE resuming[s]]
         /\ send' = [k \in Senders |-> IF k \in chosen THEN "called" ELSE send[k]]
  BY Admits
<1>3. resuming' \in [Sessions -> Nat]
  BY <1>2 DEF Shape
<1>4. chosen \subseteq 1..Len(waits)
  BY ReadyRecords
<1>5. ASSUME NEW s \in Sessions
      PROVE  s \notin chosen
  <2>1. chosen \subseteq Nat
    BY <1>4
  <2> QED
    BY <2>1, SessionsAssumption
<1>p. /\ pending' \in [Sessions -> Nat]
      /\ \A s \in Sessions : pending'[s] \in {pending[s], file[s], None}
  BY DEF FinishTick, Shape, None
<1>s. /\ send' \in [Senders -> SendSteps]
      /\ \A n \in Waits : send'[n] # "idle" => n <= Len(waits)
      /\ \A s \in Sessions : send'[s] \in UserSteps
  BY <1>2, <1>4, <1>5 DEF Shape, Senders, SendSteps, Waits
<1>6. Step
  BY <1>1, <1>3, <1>p, <1>s DEF Step, Grown, Ledger, Shape
<1>7. Records' = Records
  BY <1>1 DEF Records
<1>8. NoTick \in [todo : Records, ok : Records, stopped : Records]
  BY DEF NoTick, Records
<1> QED
  BY <1>1, <1>6, <1>7, <1>8, StepShape DEF Shape

LEMMA FinishQuiet ==
  ASSUME Shape, Quiet, NEW t \in 1..MaxTicks, FinishTick(t)
  PROVE  Quiet'
<1>1. UNCHANGED <<waits, latched, quiet>> /\ ticks' = [ticks EXCEPT ![t] = NoTick]
  BY DEF FinishTick, thread, history
<1>2. PICK chosen \in SUBSET Ready(t) :
         send' = [k \in Senders |-> IF k \in chosen THEN "called" ELSE send[k]]
  BY Admits
<1>3. \A u \in 1..MaxTicks : ticks'[u].ok \subseteq ticks[u].ok
  BY <1>1 DEF Shape, NoTick
<1>4. ASSUME NEW s \in quiet
      PROVE  Resumes(s)' = {} /\ ~Runnable(s)'
  <2>1. Resumes(s) = {} /\ ~Runnable(s)
    BY <1>4 DEF Quiet
  <2>2. ~Runnable(s)'
    BY <1>1, <1>3, <2>1 DEF Runnable
  <2>3. ASSUME NEW n \in Resumes(s)'
        PROVE  FALSE
    <3>1. n \in Waits /\ n <= Len(waits) /\ waits[n] = s /\ send'[n] # "idle"
      BY <1>1, <2>3 DEF Resumes
    <3>2. n \notin chosen
      BY <2>1, <3>1, ReadyRecords DEF Runnable
    <3>3. send'[n] = send[n]
      BY <1>2, <3>1, <3>2 DEF Senders
    <3> QED
      BY <2>1, <3>1, <3>3 DEF Resumes
  <2> QED
    BY <2>2, <2>3
<1> QED
  BY <1>1, <1>4 DEF Quiet

-----------------------------------------------------------------------------
(* The places.                                                             *)

Reserved == {s \in Sessions : resuming[s] # None}

LEMMA ReservedFinite == IsFiniteSet(Reserved) /\ Cardinality(Reserved) \in Nat
<1>1. IsFiniteSet(Reserved)
  BY SessionsAssumption, FS_Subset DEF Reserved
<1> QED
  BY <1>1, FS_CardinalityType

LEMMA FewerPlaces ==
  ASSUME PlacesKept, \A s \in Sessions : resuming'[s] # None => resuming[s] # None
  PROVE  PlacesKept'
<1>1. Reserved' \subseteq Reserved
  BY DEF Reserved
<1>2. Cardinality(Reserved') <= Cardinality(Reserved) /\ Cardinality(Reserved') \in Nat
  BY <1>1, ReservedFinite, FS_Subset, FS_CardinalityType
<1> QED
  BY <1>2, ReservedFinite, Limits DEF PlacesKept, Reserved

\* The sessions of a set of records are no more than the records.
LEMMA SessionsOfRecords ==
  ASSUME NEW chosen, IsFiniteSet(chosen)
  PROVE  LET owners == {waits[n] : n \in chosen}
         IN  IsFiniteSet(owners) /\ Cardinality(owners) <= Cardinality(chosen)
<1> DEFINE owners == {waits[n] : n \in chosen}
           owner == [n \in chosen |-> waits[n]]
<1>1. owner \in Surjection(chosen, owners)
  BY Fun_IsSurj
<1> QED
  BY <1>1, FS_Surjection

LEMMA FinishPlaces ==
  ASSUME Shape, PlacesKept, NEW t \in 1..MaxTicks, FinishTick(t)
  PROVE  PlacesKept'
<1>1. PICK chosen \in SUBSET Ready(t) :
         /\ Cardinality(chosen) = Min({Cardinality(Ready(t)), Places})
         /\ resuming' = [s \in Sessions |->
                           IF pending[s] \in chosen THEN pending[s] ELSE resuming[s]]
  BY Admits
<1> DEFINE owners == {waits[n] : n \in chosen}
<1>2. IsFiniteSet(Ready(t)) /\ IsFiniteSet(chosen)
  <2>1. IsFiniteSet(1..Len(waits))
    BY FS_Interval DEF Shape
  <2> QED
    BY <2>1, ReadyRecords, FS_Subset
<1>3. Cardinality(Ready(t)) \in Nat /\ Cardinality(chosen) \in Nat
  BY <1>2, FS_CardinalityType
<1>4. Places \in Nat /\ Cardinality(Reserved) + Places = MaxResumes
  BY ReservedFinite, Limits DEF PlacesKept, Places, Reserved
<1>5. Cardinality(chosen) <= Places
  <2>1. Cardinality(chosen) \in {Cardinality(Ready(t)), Places}
        /\ Cardinality(chosen) <= Places
    BY <1>1, <1>3, <1>4 DEF Min
  <2> QED
    BY <2>1
<1>6. IsFiniteSet(owners) /\ Cardinality(owners) <= Cardinality(chosen)
  BY <1>2, SessionsOfRecords
<1>7. Reserved' \subseteq Reserved \cup owners
  <2>1. ASSUME NEW s \in Reserved', s \notin Reserved
        PROVE  s \in owners
    <3>1. s \in Sessions /\ resuming[s] = None /\ resuming'[s] # None
      BY <2>1 DEF Reserved
    <3>2. pending[s] \in chosen /\ pending[s] # None
      BY <1>1, <3>1
    <3>3. waits[pending[s]] = s
      BY <3>1, <3>2 DEF Shape, OwnWaits
    <3> QED
      BY <3>2, <3>3
  <2> QED
    BY <2>1
<1> HIDE DEF owners
<1>8. /\ IsFiniteSet(Reserved \cup owners)
      /\ Cardinality(Reserved \cup owners) <= Cardinality(Reserved) + Cardinality(owners)
  <2>1. IsFiniteSet(Reserved \cup owners)
    BY <1>6, ReservedFinite, FS_Union
  <2>2. Cardinality(Reserved \cup owners)
          = Cardinality(Reserved) + Cardinality(owners) - Cardinality(Reserved \cap owners)
    BY <1>6, ReservedFinite, FS_Union
  <2>3. Cardinality(Reserved \cap owners) \in Nat /\ Cardinality(owners) \in Nat
    BY <1>6, ReservedFinite, FS_Intersection, FS_CardinalityType
  <2> QED
    BY <2>1, <2>2, <2>3, ReservedFinite
<1>9. /\ Cardinality(Reserved') <= Cardinality(Reserved \cup owners)
      /\ Cardinality(Reserved') \in Nat /\ Cardinality(Reserved \cup owners) \in Nat
      /\ Cardinality(owners) \in Nat
  BY <1>6, <1>7, <1>8, FS_Subset, FS_CardinalityType
<1>10. Cardinality(Reserved') <= MaxResumes
  BY <1>3, <1>4, <1>5, <1>6, <1>8, <1>9, ReservedFinite, Limits
<1> QED
  BY <1>10 DEF PlacesKept, Reserved

-----------------------------------------------------------------------------
(* The invariant, and what follows from it.                                *)

IInv == Shape /\ Quiet /\ PlacesKept

LEMMA InitIInv ==
  ASSUME Init
  PROVE  IInv
<1>1. /\ pending = [s \in Sessions |-> None] /\ resuming = [s \in Sessions |-> None]
      /\ file = [s \in Sessions |-> None] /\ send = [k \in Senders |-> "idle"]
      /\ latched = [s \in Sessions |-> FALSE] /\ ticks = [t \in 1..MaxTicks |-> NoTick]
      /\ waits = <<>> /\ elapsed = {} /\ quiet = {}
  BY DEF Init
<1>2. Shape
  BY <1>1 DEF Shape, OwnWaits, Records, NoTick, Senders, SendSteps, UserSteps, None
<1>3. Quiet
  BY <1>1 DEF Quiet
<1>4. Cardinality(Reserved) = 0
  <2>1. Reserved = {}
    BY <1>1 DEF Reserved
  <2> QED
    BY <2>1, FS_EmptySet
<1>5. PlacesKept
  BY <1>4, Limits DEF PlacesKept, Reserved
<1> QED
  BY <1>2, <1>3, <1>5 DEF IInv

LEMMA PlainIInv ==
  ASSUME IInv, Plain
  PROVE  IInv'
<1>1. Shape'
  <2>1. ticks' \in [1..MaxTicks -> [todo : Records', ok : Records', stopped : Records']]
    BY TicksShape DEF IInv, Plain, Step
  <2> QED
    BY <2>1, StepShape DEF IInv, Plain
<1>2. Quiet'
  BY PlainQuiet DEF IInv
<1>3. PlacesKept'
  <2>1. \A s \in Sessions : resuming'[s] # None => resuming[s] # None
    BY DEF Plain
  <2> QED
    BY <2>1, FewerPlaces DEF IInv
<1> QED
  BY <1>1, <1>2, <1>3 DEF IInv

LEMMA NextIInv ==
  ASSUME IInv, [Next]_vars
  PROVE  IInv'
<1>1. CASE Next
  <2>1. ASSUME \/ Timer \/ WriteFile \/ Crash \/ Start \/ Started
               \/ \E on \in BOOLEAN : SetEnabled(on)
               \/ \E n \in Waits : Elapse(n)
        PROVE  IInv'
    BY <2>1, InstancePlain, PlainIInv DEF IInv
  <2>2. ASSUME NEW t \in 1..MaxTicks, FinishTick(t)
        PROVE  IInv'
    BY <2>2, FinishShape, FinishQuiet, FinishPlaces DEF IInv
  <2>3. ASSUME NEW t \in 1..MaxTicks, NEW n \in Waits, Probe(t, n)
        PROVE  IInv'
    <3>1. UNCHANGED resuming
      BY <2>3 DEF Probe, SameLedger, ledger
    <3> QED
      BY <2>3, <3>1, ProbeShape, ProbeQuiet, FewerPlaces DEF IInv
  <2>4. ASSUME NEW k \in Senders, Sending(k)
        PROVE  IInv'
    BY <2>4, SendingPlain, PlainIInv DEF IInv
  <2>5. ASSUME NEW s \in Sessions, StopSettles(s)
        PROVE  IInv'
    <3>1. UNCHANGED resuming
      BY <2>5 DEF StopSettles, SameLedger, ledger
    <3> QED
      BY <2>5, <3>1, SettleShape, SettleQuiet, FewerPlaces DEF IInv
  <2>6. ASSUME NEW s \in Sessions,
               \/ Arming(s) \/ StopAborts(s) \/ StopDrops(s) \/ Veto(s)
               \/ TurnEnds(s) \/ TurnFails(s) \/ StopLatch(s) \/ Prompt(s)
        PROVE  IInv'
    BY <2>6, SessionPlain, PlainIInv DEF IInv
  <2> QED
    BY <1>1, <2>1, <2>2, <2>3, <2>4, <2>5, <2>6 DEF Next, Stopping
<1>2. CASE UNCHANGED vars
  <2>1. UNCHANGED <<waits, pending, resuming, file, elapsed, send, latched, ticks, quiet>>
    BY <1>2 DEF vars, ledger, thread, history
  <2>2. Plain
    BY <2>1 DEF IInv, Shape, Plain, Step, Ticking, Grown, Ledger
  <2> QED
    BY <2>2, PlainIInv
<1> QED
  BY <1>1, <1>2

LEMMA Invariance == Spec => []IInv
  BY InitIInv, NextIInv, PTL DEF Spec

\* retry-scheduler-service.ts:119: a thread whose Stop ended with no resume under way and
\* none found runnable is not resumed before the user's next prompt, with any number of
\* sessions, waits and ticks, and across restarts.
THEOREM StoppedThreadsStay == Spec => []StoppedStays
<1>1. IInv => StoppedStays
  BY DEF IInv, Quiet, StoppedStays
<1> QED
  BY <1>1, Invariance, PTL

\* retry-scheduler-service.ts:45: whatever ticks overlap, and whichever resumes end or give
\* their reservation back early, no more sessions are reserved than there are places.
THEOREM PlacesAreKept == Spec => []PlacesKept
<1>1. IInv => PlacesKept
  BY DEF IInv
<1> QED
  BY <1>1, Invariance, PTL

-----------------------------------------------------------------------------
(* The reservations.  ReservedWhilePending is not inductive: a resume that *)
(* has yet to read the row may give back the reservation of a later one,   *)
(* so a resume that was only called must hold it too.                      *)

Held ==
    \A s \in Sessions \ crossed : \A n \in Resumes(s) :
       pending[s] = n \/ send[n] = "called" => resuming[s] = n

\* Nothing is under way before the instance is up.
Off == boot # "up" => \A k \in Senders : send[k] = "idle"

\* A step that calls no resume, and takes no reservation of one that was only called or
\* whose wait stays on the ledger.
Holds ==
    /\ Grown /\ crossed \subseteq crossed'
    /\ \A n \in Waits : send'[n] # "idle" =>
         send[n] # "idle" /\ n \in 1..Len(waits) /\ (send'[n] = "called" => send[n] = "called")
    /\ \A s \in Sessions \ crossed', n \in Waits : send'[n] # "idle" =>
         /\ pending'[s] = n => pending[s] = n
         /\ waits[n] = s /\ resuming[s] = n /\ (pending'[s] = n \/ send'[n] = "called")
              => resuming'[s] = n

LEMMA HoldsHeld ==
  ASSUME Shape, Held, Holds
  PROVE  Held'
<1> SUFFICES ASSUME NEW s \in Sessions \ crossed', NEW n \in Resumes(s)',
                    pending'[s] = n \/ send'[n] = "called"
             PROVE  resuming'[s] = n
  BY DEF Held
<1>1. n \in Waits /\ waits'[n] = s /\ send'[n] # "idle"
  BY DEF Resumes
<1>2. send[n] # "idle" /\ n \in 1..Len(waits) /\ waits[n] = s /\ s \in Sessions \ crossed
  BY <1>1, Growing DEF Holds, Shape
<1>3. n \in Resumes(s)
  BY <1>1, <1>2 DEF Resumes, Shape
<1>4. pending[s] = n \/ send[n] = "called"
  BY <1>1 DEF Holds
<1> QED
  BY <1>1, <1>2, <1>3, <1>4 DEF Held, Holds

\* What a step of one prompt does to the resumes under way.
LEMMA OneSends ==
  ASSUME Shape, NEW k \in Senders, NEW from, NEW to, Send(k, from, to),
         from # "idle" \/ k \notin Waits, to # "called"
  PROVE  /\ \A n \in Waits : send'[n] # "idle" =>
              send[n] # "idle" /\ n \in 1..Len(waits) /\ (send'[n] = "called" => send[n] = "called")
         /\ send'[k] = to /\ send[k] = from
<1>1. \A n \in Waits : n \in Senders /\ (send[n] # "idle" => n \in 1..Len(waits))
  BY DEF Shape, Senders, Waits
<1> QED
  BY <1>1 DEF Shape, Send

\* The ledger loses waits, and the reservations stay.
LEMMA KeepsReserved ==
  ASSUME Shape, UNCHANGED <<waits, resuming, crossed>>,
         \A n \in Waits : send'[n] # "idle" =>
           send[n] # "idle" /\ n \in 1..Len(waits) /\ (send'[n] = "called" => send[n] = "called"),
         \A s \in Sessions : pending'[s] \in {pending[s], None}
  PROVE  Holds
<1>1. 0 \notin Waits
  BY DEF Waits
<1> QED
  BY <1>1 DEF Holds, Grown, None

LEMMA UnderWayKept ==
  ASSUME Shape, UNCHANGED send
  PROVE  \A n \in Waits : send'[n] # "idle" =>
           send[n] # "idle" /\ n \in 1..Len(waits) /\ (send'[n] = "called" => send[n] = "called")
BY DEF Shape, Waits

\* A turn starts or ends: the session's wait and reservation go together.
LEMMA TurnHolds ==
  ASSUME Shape, NEW s \in Sessions, ClearWait(s), Resumed(s), CrossIf(s),
         \A n \in Waits : send'[n] # "idle" =>
           send[n] # "idle" /\ n \in 1..Len(waits) /\ (send'[n] = "called" => send[n] = "called")
  PROVE  Holds
<1>1. /\ 0 \notin Waits /\ UNCHANGED waits /\ crossed \subseteq crossed'
      /\ \A r \in Sessions \ {s} : pending'[r] = pending[r] /\ resuming'[r] = resuming[r]
      /\ pending'[s] = None
  BY DEF Waits, ClearWait, Resumed, CrossIf, Drop, Shape
<1>2. ASSUME NEW n \in Waits, s \notin crossed', waits[n] = s, send'[n] # "idle"
      PROVE  send'[n] # "called"
  <2>1. \A m \in Resumes(s) : send[m] # "called"
    BY <1>2 DEF CrossIf
  <2>2. send[n] # "idle" /\ n <= Len(waits)
    BY <1>2 DEF Shape
  <2> QED
    BY <1>2, <2>1, <2>2 DEF Resumes
<1> QED
  BY <1>1, <1>2 DEF Holds, Grown, None

\* The end of a resume gives back its own reservation only.
LEMMA EndHolds ==
  ASSUME Shape, NEW k \in Waits, waits[k] \in Sessions, send'[k] = "idle", UNCHANGED crossed,
         resuming' = DropIf(resuming, waits[k], k), Grown,
         \A n \in Waits : send'[n] # "idle" =>
           send[n] # "idle" /\ n \in 1..Len(waits) /\ (send'[n] = "called" => send[n] = "called"),
         \A s \in Sessions : pending'[s] \in {pending[s], None, Len(waits) + 1}
  PROVE  Holds
<1>1. 0 \notin Waits /\ Len(waits) \in Nat
  BY DEF Waits, Shape
<1>2. ASSUME NEW n \in Waits, send'[n] # "idle"
      PROVE  n # k /\ n # 0 /\ n # Len(waits) + 1
  <2>1. n \in 1..Len(waits)
    BY <1>2
  <2> QED
    BY <1>1, <1>2, <2>1
<1>3. ASSUME NEW n \in Waits, n # k, NEW s \in Sessions, resuming[s] = n
      PROVE  resuming'[s] = n
  BY <1>3 DEF DropIf, Drop, Shape
<1> QED
  BY <1>2, <1>3 DEF Holds, None

LEMMA SendingHolds ==
  ASSUME Shape, Held, NEW k \in Senders, Sending(k)
  PROVE  Held'
<1> DEFINE s == SessionOf(k)
           OnlyThese == \A n \in Waits : send'[n] # "idle" =>
             send[n] # "idle" /\ n \in 1..Len(waits) /\ (send'[n] = "called" => send[n] = "called")
<1>s. s \in Sessions
  BY SessionOfSender DEF Sending
<1>w. ASSUME send[k] \notin UserSteps
      PROVE  k \in Waits /\ s = waits[k]
  BY <1>w DEF Shape, SessionOf, Senders
<1>1. CASE Prepare(k)
  <2>1. OnlyThese
    BY <1>1, OneSends DEF Prepare
  <2> QED
    BY <1>1, <2>1, KeepsReserved, HoldsHeld DEF Prepare, SameLedger, ledger, OnlySend, history
<1>2. CASE Clear(k)
  <2>1. OnlyThese
    BY <1>2, OneSends DEF Clear
  <2> QED
    BY <1>2, <1>s, <2>1, DropsWaits, KeepsReserved, HoldsHeld
    DEF Clear, ClearWait, OnlySend, history
<1>3. CASE HarnessStarts(k)
  <2>1. OnlyThese
    BY <1>3, OneSends DEF HarnessStarts
  <2> QED
    BY <1>3, <1>s, <2>1, TurnHolds, HoldsHeld DEF HarnessStarts
<1>4. CASE SendFails(k)
  <2>1. OnlyThese
    BY <1>4, OneSends DEF SendFails
  <2> QED
    BY <1>4, <2>1, KeepsReserved, HoldsHeld DEF SendFails, SameLedger, ledger, history
<1>5. CASE Continue(k)
  <2>1. k \in Waits /\ s = waits[k]
    BY <1>5, <1>w DEF Continue, UserSteps
  <2>2. OnlyThese /\ send[k] = "called" /\ UNCHANGED crossed
    BY <1>5, OneSends DEF Continue, OnlySend, history
  <2>3. CASE /\ Send(k, "called", "returned")
             /\ pending' = DropIf(pending, s, k) /\ UNCHANGED waits
             /\ Resumed(s)
    \* Its own reservation is the one it gives back.
    <3>1. s \notin crossed => resuming[s] = k
      <4>1. k \in Resumes(s)
        BY <2>1, <2>2 DEF Resumes, Shape
      <4> QED
        BY <1>s, <2>2, <4>1 DEF Held
    <3>2. /\ \A r \in Sessions \ {s} : pending'[r] = pending[r] /\ resuming'[r] = resuming[r]
          /\ pending'[s] \in {pending[s], None} /\ pending'[s] # k
          /\ 0 \notin Waits
      <4> HIDE DEF s
      <4>1. 0 \notin Waits /\ k # None
        BY <2>1 DEF None, Waits
      <4>2. /\ pending' = (IF pending[s] = k THEN [pending EXCEPT ![s] = None] ELSE pending)
            /\ resuming' = [resuming EXCEPT ![s] = None]
        BY <2>3 DEF DropIf, Drop, Resumed
      <4> QED
        BY <1>s, <4>1, <4>2 DEF Shape
    <3>3. send'[k] = "returned"
      BY <2>1, <2>3 DEF Send, Shape
    <3>4. Holds
      BY <2>2, <2>3, <3>1, <3>2, <3>3 DEF Holds, Grown, None
    <3> QED
      BY <3>4, HoldsHeld
  <2>4. CASE SameLedger
    BY <2>2, <2>4, KeepsReserved, HoldsHeld DEF SameLedger, ledger
  <2>5. CASE ClearWait(s) /\ UNCHANGED resuming
    BY <1>s, <2>2, <2>5, DropsWaits, KeepsReserved, HoldsHeld DEF ClearWait
  <2> QED
    BY <1>5, <2>1, <2>3, <2>4, <2>5 DEF Continue
<1>6. CASE Return(k)
  <2>1. k \in Waits /\ s = waits[k]
    BY <1>6, <1>w DEF Return, Send, UserSteps
  <2>2. OnlyThese /\ send'[k] = "idle"
    BY <1>6, OneSends DEF Return
  <2>3. /\ UNCHANGED <<crossed, waits>> /\ resuming' = DropIf(resuming, s, k) /\ Grown
        /\ \A r \in Sessions : pending'[r] \in {pending[r], None, Len(waits) + 1}
    BY <1>6, <1>s, <2>1, DropsWaits DEF Return, Release, OnlySend, history, Grown
  <2> QED
    BY <1>s, <2>1, <2>2, <2>3, EndHolds, HoldsHeld
<1>7. CASE FailProbe(k)
  <2>1. k \in Waits /\ s = waits[k]
    BY <1>7, <1>w DEF FailProbe, UserSteps
  <2>2. OnlyThese /\ UNCHANGED crossed
    BY <1>7, OneSends DEF FailProbe, OnlySend, history
  <2>3. CASE /\ Send(k, "failed", "idle")
             /\ pending' \in {pending, Drop(pending, s)} /\ UNCHANGED waits /\ Release(k)
    <3>1. send'[k] = "idle"
      BY <2>3, OneSends
    <3>2. \A r \in Sessions : pending'[r] \in {pending[r], None, Len(waits) + 1}
      BY <1>s, <2>3, DropsWaits
    <3> QED
      BY <1>s, <2>1, <2>2, <2>3, <3>1, <3>2, EndHolds, HoldsHeld DEF Release, Grown
  <2>4. CASE SameLedger
    BY <2>2, <2>4, KeepsReserved, HoldsHeld DEF SameLedger, ledger
  <2> QED
    BY <1>7, <2>1, <2>3, <2>4 DEF FailProbe
<1>8. CASE Restore(k)
  <2>1. k \in Waits /\ s = waits[k]
    BY <1>8, <1>w DEF Restore, Send, UserSteps
  <2>2. OnlyThese /\ send'[k] = "idle" /\ UNCHANGED crossed
    BY <1>8, OneSends DEF Restore, OnlySend, history
  <2>3. Grown /\ \A r \in Sessions : pending'[r] \in {pending[r], None, Len(waits) + 1}
    <3>1. CASE UNCHANGED <<waits, pending>>
      BY <3>1 DEF Grown
    <3>2. CASE waits' = Append(waits, s) /\ pending' = [pending EXCEPT ![s] = Len(waits')]
      <4>1. Len(waits') = Len(waits) + 1
        BY <1>s, <3>2 DEF Shape
      <4> QED
        BY <1>s, <3>2, <4>1 DEF Grown, Shape
    <3> QED
      BY <1>8, <2>1, <3>1, <3>2 DEF Restore
  <2> QED
    BY <1>8, <1>s, <2>1, <2>2, <2>3, EndHolds, HoldsHeld DEF Restore, Release
<1> QED
  BY <1>1, <1>2, <1>3, <1>4, <1>5, <1>6, <1>7, <1>8 DEF Sending

LEMMA SessionHolds ==
  ASSUME Shape, Held, NEW s \in Sessions,
         \/ Arming(s) \/ Stopping(s) \/ Veto(s)
         \/ TurnEnds(s) \/ TurnFails(s) \/ StopLatch(s) \/ Prompt(s)
  PROVE  Held'
<1>1. ASSUME SameLedger, UNCHANGED <<send, crossed>>
      PROVE  Held'
  BY <1>1, UnderWayKept, KeepsReserved, HoldsHeld DEF SameLedger, ledger
<1>2. CASE ArmStep(s) \/ StopSettles(s) \/ TurnFails(s) \/ StopLatch(s)
  BY <1>1, <1>2 DEF ArmStep, StopSettles, TurnFails, StopLatch, history
<1>3. CASE Track(s)
  <2>1. /\ Len(waits') = Len(waits) + 1 /\ Len(waits) \in Nat
        /\ waits' = Append(waits, s) /\ pending' = [pending EXCEPT ![s] = Len(waits')]
        /\ UNCHANGED <<resuming, send, crossed>>
    BY <1>3 DEF Track, Shape, history
  <2>2. ASSUME NEW n \in Waits, send[n] # "idle"
        PROVE  n \in 1..Len(waits) /\ n # Len(waits')
    BY <2>1, <2>2 DEF Shape, Waits
  <2>3. Holds
    BY <2>1, <2>2 DEF Holds, Grown, Shape
  <2> QED
    BY <2>3, HoldsHeld
<1>4. CASE StopAborts(s)
  <2>1. CASE ClearWait(s) /\ Resumed(s) /\ CrossIf(s)
    BY <1>4, <2>1, UnderWayKept, TurnHolds, HoldsHeld DEF StopAborts
  <2>2. CASE SameLedger /\ UNCHANGED crossed
    BY <1>1, <1>4, <2>2 DEF StopAborts
  <2> QED
    BY <1>4, <2>1, <2>2 DEF StopAborts
<1>5. CASE TurnEnds(s)
  BY <1>5, UnderWayKept, TurnHolds, HoldsHeld DEF TurnEnds
<1>6. CASE StopDrops(s) \/ Veto(s)
  <2>1. /\ UNCHANGED <<waits, resuming, crossed, send>>
        /\ \A r \in Sessions : pending'[r] \in {pending[r], None}
    BY <1>6, DropsWaits DEF StopDrops, Veto, ClearWait, history
  <2> QED
    BY <2>1, UnderWayKept, KeepsReserved, HoldsHeld
<1>7. CASE Prompt(s)
  <2>1. s \notin Waits /\ s \in Senders
    BY SessionsAssumption DEF Waits, Senders
  <2>2. /\ \A n \in Waits : send'[n] # "idle" =>
             send[n] # "idle" /\ n \in 1..Len(waits) /\ (send'[n] = "called" => send[n] = "called")
        /\ UNCHANGED <<waits, pending, resuming, crossed>>
    BY <1>7, <2>1, OneSends DEF Prompt, SameLedger, ledger
  <2> QED
    BY <2>2, KeepsReserved, HoldsHeld
<1> QED
  BY <1>2, <1>3, <1>4, <1>5, <1>6, <1>7 DEF Arming, Stopping

LEMMA InstanceHolds ==
  ASSUME Shape, Held, Off,
         \/ Timer \/ WriteFile \/ Crash \/ Start \/ Started
         \/ \E on \in BOOLEAN : SetEnabled(on)
         \/ \E n \in Waits : Elapse(n)
         \/ \E t \in 1..MaxTicks, n \in Waits : Probe(t, n)
         \/ UNCHANGED vars
  PROVE  Held'
<1>1. ASSUME SameLedger, UNCHANGED <<send, crossed>>
      PROVE  Held'
  BY <1>1, UnderWayKept, KeepsReserved, HoldsHeld DEF SameLedger, ledger
<1>2. CASE \/ Timer \/ WriteFile \/ Started \/ UNCHANGED vars
           \/ \E on \in BOOLEAN : SetEnabled(on)
           \/ \E n \in Waits : Elapse(n)
           \/ \E t \in 1..MaxTicks, n \in Waits : Probe(t, n)
  BY <1>1, <1>2
  DEF Timer, WriteFile, Started, SetEnabled, Elapse, Probe, SameLedger, ledger, vars, history
<1>3. CASE Start \/ Crash
  <2>1. \A n \in Waits : send'[n] = "idle"
    BY <1>3 DEF Start, Crash, Off, Senders
  <2> QED
    BY <2>1 DEF Held, Resumes
<1> QED
  BY <1>2, <1>3

LEMMA FinishHolds ==
  ASSUME Shape, Held, NEW t \in 1..MaxTicks, FinishTick(t)
  PROVE  Held'
<1>1. PICK chosen \in SUBSET Ready(t) :
         /\ resuming' = [s \in Sessions |->
                           IF pending[s] \in chosen THEN pending[s] ELSE resuming[s]]
         /\ send' = [k \in Senders |-> IF k \in chosen THEN "called" ELSE send[k]]
  BY Admits
<1>2. /\ UNCHANGED <<waits, crossed>> /\ None \notin Waits
      /\ \A s \in Sessions : pending'[s] \in {pending[s], None}
  BY DEF FinishTick, history, None, Waits
<1>3. \A n \in chosen : pending[waits[n]] = n /\ resuming[waits[n]] = None
  BY DEF Ready
<1> SUFFICES ASSUME NEW s \in Sessions \ crossed, NEW n \in Resumes(s)',
                    pending'[s] = n \/ send'[n] = "called"
             PROVE  resuming'[s] = n
  BY <1>2 DEF Held
<1>4. n \in Waits /\ n \in Senders /\ n <= Len(waits) /\ waits[n] = s /\ send'[n] # "idle"
  BY <1>2 DEF Resumes, Senders
<1>5. CASE n \in chosen
  BY <1>1, <1>3, <1>4, <1>5
<1>6. CASE n \notin chosen
  <2>1. send[n] = send'[n] /\ n \in Resumes(s)
    BY <1>1, <1>4, <1>6 DEF Resumes
  <2>2. resuming[s] = n
    BY <1>2, <1>4, <2>1 DEF Held
  <2>3. pending[s] \notin chosen
    <3>1. ASSUME pending[s] \in chosen
          PROVE  FALSE
      <4>1. pending[s] # None
        BY <3>1, ReadyRecords DEF None
      <4>2. waits[pending[s]] = s
        BY <4>1 DEF Shape, OwnWaits
      <4>3. resuming[s] = None
        BY <1>3, <3>1, <4>2
      <4> QED
        BY <1>2, <1>4, <2>2, <4>3
    <3> QED
      BY <3>1
  <2> QED
    BY <1>1, <2>2, <2>3
<1> QED
  BY <1>5, <1>6

LEMMA NextOff ==
  ASSUME Off, [Next]_vars
  PROVE  Off'
<1>1. CASE ~Up
  <2>1. \A k \in Senders : send[k] = "idle"
    BY <1>1 DEF Off, Up
  <2>2. CASE UNCHANGED send
    BY <2>1, <2>2 DEF Off
  <2>3. CASE Crash
    BY <2>3 DEF Crash, Off
  <2>4. \A k \in Senders : ~Sending(k)
    BY <2>1 DEF Sending
  <2>5. CASE Start \/ Started \/ UNCHANGED vars \/ \E n \in Waits : Elapse(n)
    BY <2>2, <2>5 DEF Start, Started, Elapse, vars
  <2>6. ASSUME NEW s \in Sessions, Veto(s)
        PROVE  Off'
    BY <2>2, <2>6 DEF Veto
  <2> QED
    BY <1>1, <2>3, <2>4, <2>5, <2>6
    DEF Next, Timer, WriteFile, SetEnabled, FinishTick, Probe, Arming, ArmStep, Arm, Track,
        Stopping, StopAborts, StopDrops, StopSettles, StopStep, TurnEnds, TurnFails, StopLatch,
        Prompt, Send, Booted
<1>2. CASE boot' = "up"
  BY <1>2 DEF Off
<1>3. CASE Crash
  BY <1>3 DEF Crash, Off
<1>4. CASE Up /\ ~Crash
  <2>1. ASSUME NEW k \in Senders, Sending(k)
        PROVE  boot' = boot
    BY <2>1
    DEF Sending, Prepare, Clear, HarnessStarts, SendFails, Continue, Return, FailProbe, Restore,
        Send, Booted
  <2>2. boot' = boot
    BY <1>4, <2>1
    DEF Next, Timer, WriteFile, Start, Started, SetEnabled, Elapse, FinishTick, Probe, Arming,
        ArmStep, Arm, Track, Stopping, StopAborts, StopDrops, StopSettles, StopStep, Veto,
        TurnEnds, TurnFails, StopLatch, Prompt, Send, Booted, Up, vars
  <2> QED
    BY <1>2, <1>4, <2>2 DEF Up
<1> QED
  BY <1>1, <1>3, <1>4

LEMMA NextHeld ==
  ASSUME IInv, Held, Off, [Next]_vars
  PROVE  Held'
<1>1. Shape
  BY DEF IInv
<1>2. ASSUME NEW t \in 1..MaxTicks, FinishTick(t)
      PROVE  Held'
  BY <1>1, <1>2, FinishHolds
<1>3. ASSUME NEW k \in Senders, Sending(k)
      PROVE  Held'
  BY <1>1, <1>3, SendingHolds
<1>4. ASSUME NEW s \in Sessions,
             \/ Arming(s) \/ Stopping(s) \/ Veto(s)
             \/ TurnEnds(s) \/ TurnFails(s) \/ StopLatch(s) \/ Prompt(s)
      PROVE  Held'
  BY <1>1, <1>4, SessionHolds
<1>5. CASE \/ Timer \/ WriteFile \/ Crash \/ Start \/ Started
           \/ \E on \in BOOLEAN : SetEnabled(on)
           \/ \E n \in Waits : Elapse(n)
           \/ \E t \in 1..MaxTicks, n \in Waits : Probe(t, n)
           \/ UNCHANGED vars
  BY <1>1, <1>5, InstanceHolds
<1> QED
  BY <1>2, <1>3, <1>4, <1>5 DEF Next

\* retry-scheduler-service.ts:490: with any number of sessions, waits, places and ticks, the
\* wait a resume was admitted for stays reserved for it while it is on the ledger, unless
\* a turn of the session started or ended before a resume had read the row.
THEOREM WaitsStayReserved == Spec => []ReservedWhilePending
<1>1. Init => Held /\ Off
  BY DEF Init, Held, Off, Resumes, Senders
<1>2. IInv /\ Held /\ Off /\ [Next]_vars => (Held /\ Off)'
  BY NextHeld, NextOff
<1>3. Held => ReservedWhilePending
  BY DEF Held, ReservedWhilePending
<1> QED
  BY <1>1, <1>2, <1>3, Invariance, PTL DEF Spec

-----------------------------------------------------------------------------
(* Types.  The records made never exceed their bound, since each step that *)
(* promises one finds room for it.                                         *)

Arms == {s \in Sessions : arming[s] # "idle"}
Restores == {k \in Senders : send[k] \in {"failed", "clean"}}

RoomKept == Len(waits) + Promised <= MaxWaits

\* A tick under way is about records that are due, and a reservation is for a record.
AboutRecords ==
    /\ \A t \in 1..MaxTicks : ticks[t].todo \cup ticks[t].ok \subseteq elapsed
    /\ \A s \in Sessions : resuming[s] # None => resuming[s] \in 1..Len(waits)

Steps ==
    /\ boot \in {"down", "veto", "up"} /\ unvetoed \subseteq Sessions /\ enabled \in BOOLEAN
    /\ arming \in [Sessions -> ArmSteps] /\ stop \in [Sessions -> StopSteps]
    /\ status \in [Sessions -> {"executing", "paused", "completed", "failed", "interrupted"}]
    /\ live \in [Sessions -> BOOLEAN] /\ crossed \subseteq Sessions

LEMMA PromisesFinite ==
  /\ IsFiniteSet(Arms) /\ Cardinality(Arms) \in Nat
  /\ IsFiniteSet(Restores) /\ Cardinality(Restores) \in Nat
  /\ Promised = Cardinality(Arms) + Cardinality(Restores)
<1>1. IsFiniteSet(Senders)
  <2>1. MaxWaits \in Int /\ 1 \in Int
    BY Limits
  <2>2. IsFiniteSet(Waits)
    BY <2>1, FS_Interval DEF Waits
  <2> QED
    BY <2>2, SessionsAssumption, FS_Union DEF Senders
<1>2. IsFiniteSet(Arms) /\ IsFiniteSet(Restores)
  BY <1>1, SessionsAssumption, FS_Subset DEF Arms, Restores
<1> QED
  BY <1>2, FS_CardinalityType DEF Promised, Arms, Restores

\* Room is left when what is promised lies in sets that leave room.
LEMMA RoomLeft ==
  ASSUME waits' \in Seq(Sessions), NEW A, NEW R, IsFiniteSet(A), IsFiniteSet(R),
         Arms' \subseteq A, Restores' \subseteq R,
         Len(waits') + Cardinality(A) + Cardinality(R) <= MaxWaits
  PROVE  RoomKept'
<1>1. /\ IsFiniteSet(Arms') /\ Cardinality(Arms') <= Cardinality(A)
      /\ IsFiniteSet(Restores') /\ Cardinality(Restores') <= Cardinality(R)
  BY FS_Subset
<1>2. /\ Cardinality(Arms') \in Nat /\ Cardinality(Restores') \in Nat
      /\ Cardinality(A) \in Nat /\ Cardinality(R) \in Nat /\ Len(waits') \in Nat
  BY <1>1, FS_CardinalityType
<1>3. Len(waits') + (Cardinality(Arms') + Cardinality(Restores')) <= MaxWaits
  BY <1>1, <1>2, Limits
<1>4. (Promised = Cardinality(Arms) + Cardinality(Restores))'
  BY PTL, PromisesFinite
<1> QED
  BY <1>3, <1>4 DEF RoomKept

\* Steps that promise nothing.
LEMMA PromisesLess ==
  ASSUME Shape, RoomKept, UNCHANGED waits, Arms' \subseteq Arms, Restores' \subseteq Restores
  PROVE  RoomKept'
<1>1. Len(waits') + Cardinality(Arms) + Cardinality(Restores) <= MaxWaits
  BY PromisesFinite, Limits DEF RoomKept, Shape
<1> QED
  BY <1>1, PromisesFinite, RoomLeft DEF Shape

\* Steps that promise one more record than before for an arming, for a resume, or for both.
LEMMA PromisesMore ==
  ASSUME Shape, UNCHANGED waits, NEW s, NEW k,
         \/ /\ Arms' \subseteq Arms \cup {s} /\ Restores' \subseteq Restores
            /\ Len(waits) + Promised < MaxWaits
         \/ /\ Arms' \subseteq Arms /\ Restores' \subseteq Restores \cup {k}
            /\ Len(waits) + Promised < MaxWaits
         \/ /\ Arms' \subseteq Arms \cup {s} /\ Restores' \subseteq Restores \cup {k}
            /\ Len(waits) + Promised + 1 < MaxWaits
  PROVE  RoomKept'
<1>1. /\ IsFiniteSet(Arms \cup {s}) /\ Cardinality(Arms \cup {s}) <= Cardinality(Arms) + 1
      /\ IsFiniteSet(Restores \cup {k})
      /\ Cardinality(Restores \cup {k}) <= Cardinality(Restores) + 1
  <2>1. ASSUME NEW S, NEW x, IsFiniteSet(S), Cardinality(S) \in Nat
        PROVE  IsFiniteSet(S \cup {x}) /\ Cardinality(S \cup {x}) <= Cardinality(S) + 1
    <3>1. /\ IsFiniteSet(S \cup {x})
          /\ Cardinality(S \cup {x}) = IF x \in S THEN Cardinality(S) ELSE Cardinality(S) + 1
      BY <2>1, FS_AddElement
    <3> QED
      BY <2>1, <3>1
  <2> QED
    BY <2>1, PromisesFinite
<1>2. Cardinality(Arms \cup {s}) \in Nat /\ Cardinality(Restores \cup {k}) \in Nat /\ Len(waits) \in Nat
  BY <1>1, FS_CardinalityType DEF Shape
<1>3. CASE /\ Arms' \subseteq Arms \cup {s} /\ Restores' \subseteq Restores
           /\ Len(waits) + Promised < MaxWaits
  <2>1. Len(waits') + Cardinality(Arms \cup {s}) + Cardinality(Restores) <= MaxWaits
    BY <1>1, <1>2, <1>3, PromisesFinite, Limits
  <2> QED
    BY <1>1, <1>3, <2>1, PromisesFinite, RoomLeft DEF Shape
<1>4. CASE /\ Arms' \subseteq Arms /\ Restores' \subseteq Restores \cup {k}
           /\ Len(waits) + Promised < MaxWaits
  <2>1. Len(waits') + Cardinality(Arms) + Cardinality(Restores \cup {k}) <= MaxWaits
    BY <1>1, <1>2, <1>4, PromisesFinite, Limits
  <2> QED
    BY <1>1, <1>4, <2>1, PromisesFinite, RoomLeft DEF Shape
<1>5. CASE /\ Arms' \subseteq Arms \cup {s} /\ Restores' \subseteq Restores \cup {k}
           /\ Len(waits) + Promised + 1 < MaxWaits
  <2>1. Len(waits') + Cardinality(Arms \cup {s}) + Cardinality(Restores \cup {k}) <= MaxWaits
    BY <1>1, <1>2, <1>5, PromisesFinite, Limits
  <2> QED
    BY <1>1, <1>5, <2>1, RoomLeft DEF Shape
<1> QED
  BY <1>3, <1>4, <1>5

\* A step that makes a record that was promised.
LEMMA PromiseMade ==
  ASSUME Shape, RoomKept, waits' \in Seq(Sessions), Len(waits') <= Len(waits) + 1,
         \/ \E s \in Arms : Arms' \subseteq Arms \ {s} /\ Restores' \subseteq Restores
         \/ \E k \in Restores : Arms' \subseteq Arms /\ Restores' \subseteq Restores \ {k}
  PROVE  RoomKept'
<1>1. /\ Len(waits') \in Nat /\ Len(waits) \in Nat
      /\ Len(waits) + (Cardinality(Arms) + Cardinality(Restores)) <= MaxWaits
  BY PromisesFinite DEF Shape, RoomKept
<1>2. ASSUME NEW s \in Arms, Arms' \subseteq Arms \ {s}, Restores' \subseteq Restores
      PROVE  RoomKept'
  <2>1. IsFiniteSet(Arms \ {s}) /\ Cardinality(Arms \ {s}) = Cardinality(Arms) - 1
    BY PromisesFinite, FS_RemoveElement
  <2>2. Len(waits') + Cardinality(Arms \ {s}) + Cardinality(Restores) <= MaxWaits
    BY <1>1, <2>1, PromisesFinite, Limits
  <2> QED
    BY <1>2, <2>1, <2>2, PromisesFinite, RoomLeft
<1>3. ASSUME NEW k \in Restores, Arms' \subseteq Arms, Restores' \subseteq Restores \ {k}
      PROVE  RoomKept'
  <2>1. IsFiniteSet(Restores \ {k}) /\ Cardinality(Restores \ {k}) = Cardinality(Restores) - 1
    BY PromisesFinite, FS_RemoveElement
  <2>2. Len(waits') + Cardinality(Arms) + Cardinality(Restores \ {k}) <= MaxWaits
    BY <1>1, <2>1, PromisesFinite, Limits
  <2> QED
    BY <1>3, <2>1, <2>2, PromisesFinite, RoomLeft
<1> QED
  BY <1>2, <1>3

\* The prompts and the armings a step leaves as they were, or ends.
LEMMA SendingRoom ==
  ASSUME Shape, RoomKept, NEW k \in Senders, Sending(k)
  PROVE  RoomKept'
<1> DEFINE s == SessionOf(k)
<1>s. s \in Sessions
  BY SessionOfSender DEF Sending
<1>w. ASSUME send[k] \notin UserSteps
      PROVE  k \in Waits /\ s = waits[k]
  BY <1>w DEF Shape, SessionOf, Senders
<1>1. ASSUME NEW from, NEW to, Send(k, from, to),
             to \in {"failed", "clean"} => from \in {"failed", "clean"}
      PROVE  Restores' \subseteq Restores
  BY <1>1 DEF Restores, Send, Shape
<1>2. UNCHANGED arming => Arms' \subseteq Arms
  BY DEF Arms
<1>3. CASE Prepare(k) \/ Clear(k) \/ HarnessStarts(k)
  <2>1. Restores' \subseteq Restores
    BY <1>1, <1>3 DEF Prepare, Clear, HarnessStarts
  <2> QED
    BY <1>2, <1>3, <2>1, PromisesLess
    DEF Prepare, Clear, HarnessStarts, OnlySend, SameLedger, ledger, ClearWait
<1>4. CASE Continue(k)
  <2>1. k \in Waits
    BY <1>4, <1>w DEF Continue, UserSteps
  <2>2. Restores' \subseteq Restores /\ UNCHANGED <<waits, arming>>
    BY <1>1, <1>4 DEF Continue, OnlySend, SameLedger, ledger, ClearWait
  <2> QED
    BY <1>2, <2>2, PromisesLess
<1>5. CASE SendFails(k)
  <2>1. Restores' \subseteq Restores \cup {k}
    BY <1>5 DEF SendFails, Send, Restores, Shape
  <2>2. CASE UNCHANGED arming
    BY <1>2, <1>5, <2>1, <2>2, PromisesMore DEF SendFails, Room, SameLedger, ledger
  <2>3. CASE arming' = [arming EXCEPT ![s] = "read"] /\ Len(waits) + Promised + 1 < MaxWaits
    <3>1. Arms' \subseteq Arms \cup {s}
      BY <2>3 DEF Arms
    <3> QED
      BY <1>5, <2>1, <2>3, <3>1, PromisesMore DEF SendFails, SameLedger, ledger
  <2> QED
    BY <1>5, <2>2, <2>3 DEF SendFails
<1>6. CASE Return(k) \/ FailProbe(k)
  <2>1. Restores' \subseteq Restores /\ UNCHANGED <<waits, arming>>
    BY <1>1, <1>6 DEF Return, FailProbe, OnlySend, SameLedger, ledger
  <2> QED
    BY <1>2, <2>1, PromisesLess
<1>7. CASE Restore(k)
  <2>1. k \in Waits /\ s = waits[k]
    BY <1>7, <1>w DEF Restore, Send, UserSteps
  <2>2. k \in Restores /\ Restores' \subseteq Restores \ {k} /\ Arms' \subseteq Arms
    BY <1>2, <1>7 DEF Restore, Send, Restores, Shape, OnlySend
  <2>3. waits' = waits \/ waits' = Append(waits, s)
    BY <1>7, <2>1 DEF Restore
  <2>4. waits' \in Seq(Sessions) /\ Len(waits') <= Len(waits) + 1
    <3>1. waits \in Seq(Sessions) /\ Len(waits) \in Nat
      BY DEF Shape
    <3>2. CASE waits' = waits
      BY <3>1, <3>2
    <3>3. CASE waits' = Append(waits, s)
      <4> HIDE DEF s
      <4> QED
        BY <1>s, <3>1, <3>3
    <3> QED
      BY <2>3, <3>2, <3>3
  <2> QED
    BY <2>2, <2>4, PromiseMade
<1> QED
  BY <1>3, <1>4, <1>5, <1>6, <1>7 DEF Sending

LEMMA SessionRoom ==
  ASSUME Shape, RoomKept, NEW s \in Sessions, arming \in [Sessions -> ArmSteps],
         \/ Arming(s) \/ Stopping(s) \/ Veto(s)
         \/ TurnEnds(s) \/ TurnFails(s) \/ StopLatch(s) \/ Prompt(s)
  PROVE  RoomKept'
<1>1. UNCHANGED send => Restores' \subseteq Restores
  BY DEF Restores
<1>2. UNCHANGED arming => Arms' \subseteq Arms
  BY DEF Arms
<1>3. CASE ArmStep(s)
  <2>1. Arms' \subseteq Arms
    BY <1>3 DEF Arms, ArmStep, Arm
  <2> QED
    BY <1>1, <1>3, <2>1, PromisesLess DEF ArmStep, SameLedger, ledger
<1>4. CASE Track(s)
  <2>1. s \in Arms /\ Arms' \subseteq Arms \ {s}
    BY <1>4 DEF Track, Arm, Arms
  <2>2. waits' \in Seq(Sessions) /\ Len(waits') <= Len(waits) + 1
    BY <1>4 DEF Track, Shape
  <2> QED
    BY <1>1, <1>4, <2>1, <2>2, PromiseMade DEF Track
<1>5. CASE TurnFails(s)
  <2>1. Arms' \subseteq Arms \cup {s}
    BY <1>5 DEF TurnFails, Arms
  <2> QED
    BY <1>1, <1>5, <2>1, PromisesMore DEF TurnFails, Room, SameLedger, ledger
<1>6. CASE Prompt(s)
  <2>1. Restores' \subseteq Restores
    BY <1>6 DEF Prompt, Send, Restores, Shape
  <2> QED
    BY <1>2, <1>6, <2>1, PromisesLess DEF Prompt, SameLedger, ledger
<1>7. CASE Stopping(s) \/ Veto(s) \/ TurnEnds(s) \/ StopLatch(s)
  BY <1>1, <1>2, <1>7, PromisesLess
  DEF Stopping, StopAborts, StopDrops, StopSettles, Veto, TurnEnds, StopLatch, SameLedger,
      ledger, ClearWait
<1> QED
  BY <1>3, <1>4, <1>5, <1>6, <1>7 DEF Arming

LEMMA InstanceRoom ==
  ASSUME Shape, RoomKept,
         \/ Timer \/ WriteFile \/ Crash \/ Start \/ Started
         \/ \E on \in BOOLEAN : SetEnabled(on)
         \/ \E n \in Waits : Elapse(n)
         \/ \E t \in 1..MaxTicks : FinishTick(t) \/ \E n \in Waits : Probe(t, n)
         \/ UNCHANGED vars
  PROVE  RoomKept'
<1>1. ASSUME UNCHANGED <<waits, send, arming>>
      PROVE  RoomKept'
  BY <1>1, PromisesLess DEF Arms, Restores
<1>2. CASE Crash
  <2>1. arming' = [s \in Sessions |-> "idle"] /\ send' = [k \in Senders |-> "idle"] /\ UNCHANGED waits
    BY <1>2 DEF Crash
  <2>2. Arms' \subseteq Arms /\ Restores' \subseteq Restores
    BY <2>1 DEF Arms, Restores
  <2> QED
    BY <2>1, <2>2, PromisesLess
<1>3. ASSUME NEW t \in 1..MaxTicks, FinishTick(t)
      PROVE  RoomKept'
  <2>1. \E chosen : send' = [k \in Senders |-> IF k \in chosen THEN "called" ELSE send[k]]
    BY <1>3, Admits
  <2>2. Restores' \subseteq Restores /\ Arms' \subseteq Arms /\ UNCHANGED waits
    BY <1>3, <2>1 DEF Restores, Arms, FinishTick
  <2> QED
    BY <2>2, PromisesLess
<1>4. CASE \/ Timer \/ WriteFile \/ Start \/ Started \/ UNCHANGED vars
           \/ \E on \in BOOLEAN : SetEnabled(on)
           \/ \E n \in Waits : Elapse(n)
           \/ \E t \in 1..MaxTicks, n \in Waits : Probe(t, n)
  BY <1>1, <1>4
  DEF Timer, WriteFile, Start, Started, SetEnabled, Elapse, Probe, SameLedger, ledger, vars
<1> QED
  BY <1>2, <1>3, <1>4

\* A tick under way stays about records that are due.
LEMMA TicksAbout ==
  ASSUME Shape, AboutRecords, Ticking, elapsed \subseteq elapsed'
  PROVE  \A t \in 1..MaxTicks : ticks'[t].todo \cup ticks'[t].ok \subseteq elapsed'
<1>1. CASE UNCHANGED ticks
  BY <1>1 DEF AboutRecords
<1>2. CASE ticks' = [t \in 1..MaxTicks |-> NoTick]
  BY <1>2 DEF NoTick
<1>3. ASSUME NEW asked, TickIf(asked)
      PROVE  \A t \in 1..MaxTicks : ticks'[t].todo \cup ticks'[t].ok \subseteq elapsed'
  <2> DEFINE due == {n \in elapsed : \E s \in Sessions : pending'[s] = n /\ resuming'[s] = None}
             more == [NoTick EXCEPT !.todo = due]
  <2>1. more.todo = due /\ more.ok = {} /\ due \subseteq elapsed
    BY DEF NoTick
  <2>2. PICK x : ticks' = [ticks EXCEPT ![x] = more] \/ ticks' = ticks
    BY <1>3 DEF TickIf
  <2> HIDE DEF due, more
  <2>3. \A t \in 1..MaxTicks : ticks'[t] \in {ticks[t], more}
    BY <2>2 DEF Shape
  <2> QED
    BY <2>1, <2>3 DEF AboutRecords
<1> QED
  BY <1>1, <1>2, <1>3 DEF Ticking

LEMMA PlainAbout ==
  ASSUME Shape, AboutRecords, Plain
  PROVE  AboutRecords'
<1>1. elapsed \subseteq elapsed' /\ Ticking
  BY DEF Plain, Step
<1>2. \A s \in Sessions : resuming'[s] # None => resuming'[s] \in 1..Len(waits')
  <2>1. /\ Len(waits) \in Nat /\ Len(waits') \in Nat /\ Len(waits) <= Len(waits')
        /\ \A s \in Sessions : resuming'[s] \in {resuming[s], None}
    BY Growing DEF Plain, Step, Shape
  <2> QED
    BY <2>1 DEF AboutRecords
<1> QED
  BY <1>1, <1>2, TicksAbout DEF AboutRecords

LEMMA ProbeAbout ==
  ASSUME Shape, AboutRecords, NEW t \in 1..MaxTicks, NEW n \in Waits, Probe(t, n)
  PROVE  AboutRecords'
<1>1. UNCHANGED <<waits, resuming, elapsed>> /\ n \in ticks[t].todo /\ n \in elapsed
  BY DEF Probe, SameLedger, ledger, AboutRecords
<1>2. \A u \in 1..MaxTicks : ticks'[u].ok \subseteq ticks[u].ok \cup {n}
  BY ProbeTicks
<1>3. \A u \in 1..MaxTicks : ticks'[u].todo \subseteq ticks[u].todo
  BY DEF Probe, Shape
<1> QED
  BY <1>1, <1>2, <1>3 DEF AboutRecords

LEMMA FinishAbout ==
  ASSUME Shape, AboutRecords, NEW t \in 1..MaxTicks, FinishTick(t)
  PROVE  AboutRecords'
<1>1. UNCHANGED <<waits, elapsed>> /\ ticks' = [ticks EXCEPT ![t] = NoTick]
  BY DEF FinishTick
<1>2. \A u \in 1..MaxTicks : ticks'[u].todo \cup ticks'[u].ok \subseteq elapsed'
  BY <1>1 DEF AboutRecords, NoTick, Shape
<1>3. PICK chosen \in SUBSET Ready(t) :
         resuming' = [s \in Sessions |-> IF pending[s] \in chosen THEN pending[s] ELSE resuming[s]]
  BY Admits
<1>4. \A s \in Sessions : resuming'[s] # None => resuming'[s] \in 1..Len(waits)
  BY <1>3, ReadyRecords DEF AboutRecords
<1> QED
  BY <1>1, <1>2, <1>4 DEF AboutRecords

Statuses == {"executing", "paused", "completed", "failed", "interrupted"}

LEMMA SendingSteps ==
  ASSUME Shape, Steps, NEW k \in Senders, Sending(k)
  PROVE  Steps'
<1> DEFINE s == SessionOf(k)
<1>s. s \in Sessions
  BY SessionOfSender DEF Sending
<1>1. UNCHANGED <<boot, unvetoed, enabled, stop>>
  BY DEF Sending, Prepare, Clear, HarnessStarts, SendFails, Continue, Return, FailProbe, Restore,
         Send, Booted, OnlySend
<1>2. status' \in [Sessions -> Statuses]
  <2>1. CASE UNCHANGED status
    BY <2>1 DEF Steps, Statuses
  <2>2. ASSUME NEW x \in {"executing", "failed"}, status' = [status EXCEPT ![s] = x]
        PROVE  status' \in [Sessions -> Statuses]
    BY <2>2 DEF Steps, Statuses
  <2> QED
    BY <2>1, <2>2
    DEF Sending, Prepare, Clear, HarnessStarts, SendFails, Continue, Return, FailProbe, Restore,
        thread
<1>3. arming' \in [Sessions -> ArmSteps]
  <2>1. CASE UNCHANGED arming
    BY <2>1 DEF Steps
  <2>2. CASE arming' = [arming EXCEPT ![s] = "read"]
    BY <2>2 DEF Steps, ArmSteps
  <2> QED
    BY <2>1, <2>2
    DEF Sending, Prepare, Clear, HarnessStarts, SendFails, Continue, Return, FailProbe, Restore,
        OnlySend
<1>4. live' \in [Sessions -> BOOLEAN]
  <2>1. CASE UNCHANGED live
    BY <2>1 DEF Steps
  <2>2. CASE live' = [live EXCEPT ![s] = TRUE]
    BY <2>2 DEF Steps
  <2> QED
    BY <2>1, <2>2
    DEF Sending, Prepare, Clear, HarnessStarts, SendFails, Continue, Return, FailProbe, Restore,
        thread
<1>5. crossed' \subseteq Sessions
  BY <1>s
  DEF Sending, Prepare, Clear, HarnessStarts, SendFails, Continue, Return, FailProbe, Restore,
      OnlySend, history, CrossIf, Steps
<1> QED
  BY <1>1, <1>2, <1>3, <1>4, <1>5 DEF Steps, Statuses

LEMMA SessionSteps ==
  ASSUME Shape, Steps, NEW s \in Sessions,
         \/ Arming(s) \/ Stopping(s) \/ Veto(s)
         \/ TurnEnds(s) \/ TurnFails(s) \/ StopLatch(s) \/ Prompt(s)
  PROVE  Steps'
<1>1. UNCHANGED <<boot, enabled>> /\ unvetoed' \subseteq unvetoed
  BY DEF Arming, ArmStep, Arm, Track, Stopping, StopAborts, StopDrops, StopSettles, StopStep,
         Veto, TurnEnds, TurnFails, StopLatch, Prompt, Send, Booted
<1>2. status' \in [Sessions -> Statuses]
  <2>1. CASE UNCHANGED status
    BY <2>1 DEF Steps, Statuses
  <2>2. ASSUME NEW x \in Statuses, status' = [status EXCEPT ![s] = x]
        PROVE  status' \in [Sessions -> Statuses]
    BY <2>2 DEF Steps, Statuses
  <2> QED
    BY <2>1, <2>2
    DEF Arming, ArmStep, Track, Stopping, StopAborts, StopDrops, StopSettles,
        Veto, TurnEnds, TurnFails, StopLatch, Prompt, thread, Statuses
<1>3. arming' \in [Sessions -> ArmSteps]
  <2>1. CASE UNCHANGED arming
    BY <2>1 DEF Steps
  <2>2. ASSUME NEW x \in ArmSteps, arming' = [arming EXCEPT ![s] = x]
        PROVE  arming' \in [Sessions -> ArmSteps]
    BY <2>2 DEF Steps
  <2> QED
    BY <2>1, <2>2
    DEF Arming, ArmStep, Arm, Track, Stopping, StopAborts, StopDrops, StopSettles,
        Veto, TurnEnds, TurnFails, StopLatch, Prompt, ArmSteps
<1>4. stop' \in [Sessions -> StopSteps]
  <2>1. CASE UNCHANGED stop
    BY <2>1 DEF Steps
  <2>2. ASSUME NEW x \in StopSteps, stop' = [stop EXCEPT ![s] = x]
        PROVE  stop' \in [Sessions -> StopSteps]
    BY <2>2 DEF Steps
  <2> QED
    BY <2>1, <2>2
    DEF Arming, ArmStep, Track, Stopping, StopAborts, StopDrops, StopSettles, StopStep,
        Veto, TurnEnds, TurnFails, StopLatch, Prompt, StopSteps
<1>5. live' \in [Sessions -> BOOLEAN]
  <2>1. CASE UNCHANGED live
    BY <2>1 DEF Steps
  <2>2. CASE live' = [live EXCEPT ![s] = FALSE]
    BY <2>2 DEF Steps
  <2> QED
    BY <2>1, <2>2
    DEF Arming, ArmStep, Track, Stopping, StopAborts, StopDrops, StopSettles,
        Veto, TurnEnds, TurnFails, StopLatch, Prompt, thread
<1>6. crossed' \subseteq Sessions
  BY DEF Arming, ArmStep, Track, Stopping, StopAborts, StopDrops, StopSettles,
         Veto, TurnEnds, TurnFails, StopLatch, Prompt, history, CrossIf, Steps
<1> QED
  BY <1>1, <1>2, <1>3, <1>4, <1>5, <1>6 DEF Steps, Statuses

LEMMA InstanceSteps ==
  ASSUME Shape, Steps,
         \/ Timer \/ WriteFile \/ Crash \/ Start \/ Started
         \/ \E on \in BOOLEAN : SetEnabled(on)
         \/ \E n \in Waits : Elapse(n)
         \/ \E t \in 1..MaxTicks : FinishTick(t) \/ \E n \in Waits : Probe(t, n)
         \/ UNCHANGED vars
  PROVE  Steps'
<1>1. CASE Crash
  BY <1>1 DEF Crash, Steps, ArmSteps, StopSteps, history
<1>2. CASE Start
  BY <1>2 DEF Start, Steps, history
<1>3. ASSUME UNCHANGED <<unvetoed, arming, stop, status, live, crossed>>,
             boot' = boot \/ boot' = "up", enabled' \in BOOLEAN
      PROVE  Steps'
  BY <1>3 DEF Steps
<1>4. ASSUME NEW on \in BOOLEAN, SetEnabled(on)
      PROVE  Steps'
  BY <1>3, <1>4 DEF SetEnabled, thread, history
<1>5. CASE \/ Timer \/ WriteFile \/ Started \/ UNCHANGED vars
           \/ \E n \in Waits : Elapse(n)
           \/ \E t \in 1..MaxTicks : FinishTick(t) \/ \E n \in Waits : Probe(t, n)
  <2>1. /\ UNCHANGED <<unvetoed, arming, stop, status, live, crossed, enabled>>
        /\ boot' = boot \/ boot' = "up"
    BY <1>5 DEF Timer, WriteFile, Started, Elapse, FinishTick, Probe, Booted, vars, thread, history
  <2>2. enabled' \in BOOLEAN
    BY <2>1 DEF Steps
  <2> QED
    BY <1>3, <2>1, <2>2
<1> QED
  BY <1>1, <1>2, <1>4, <1>5

Typed == RoomKept /\ AboutRecords /\ Steps

LEMMA NextTyped ==
  ASSUME IInv, Typed, [Next]_vars
  PROVE  Typed'
<1>1. Shape /\ RoomKept /\ AboutRecords /\ Steps
  BY DEF IInv, Typed
<1>2. ASSUME NEW k \in Senders, Sending(k)
      PROVE  Typed'
  BY <1>1, <1>2, SendingRoom, SendingSteps, SendingPlain, PlainAbout DEF Typed
<1>3. ASSUME NEW s \in Sessions,
             \/ Arming(s) \/ Stopping(s) \/ Veto(s)
             \/ TurnEnds(s) \/ TurnFails(s) \/ StopLatch(s) \/ Prompt(s)
      PROVE  Typed'
  <2>1. arming \in [Sessions -> ArmSteps]
    BY <1>1 DEF Steps
  <2>2. RoomKept' /\ Steps'
    BY <1>1, <1>3, <2>1, SessionRoom, SessionSteps
  <2>3. CASE StopSettles(s)
    BY <1>1, <2>2, <2>3
    DEF StopSettles, SameLedger, NoTicks, ledger, AboutRecords, Typed
  <2>4. CASE \/ Arming(s) \/ StopAborts(s) \/ StopDrops(s) \/ Veto(s)
             \/ TurnEnds(s) \/ TurnFails(s) \/ StopLatch(s) \/ Prompt(s)
    BY <1>1, <2>2, <2>4, SessionPlain, PlainAbout DEF Typed
  <2> QED
    BY <1>3, <2>3, <2>4 DEF Stopping
<1>4. CASE \/ Timer \/ WriteFile \/ Crash \/ Start \/ Started
           \/ \E on \in BOOLEAN : SetEnabled(on)
           \/ \E n \in Waits : Elapse(n)
           \/ \E t \in 1..MaxTicks : FinishTick(t) \/ \E n \in Waits : Probe(t, n)
           \/ UNCHANGED vars
  <2>1. RoomKept' /\ Steps'
    BY <1>1, <1>4, InstanceRoom, InstanceSteps
  <2>2. AboutRecords'
    <3>1. CASE \/ Timer \/ WriteFile \/ Crash \/ Start \/ Started
               \/ \E on \in BOOLEAN : SetEnabled(on)
               \/ \E n \in Waits : Elapse(n)
      BY <1>1, <3>1, InstancePlain, PlainAbout
    <3>2. CASE \E t \in 1..MaxTicks : FinishTick(t) \/ \E n \in Waits : Probe(t, n)
      BY <1>1, <3>2, FinishAbout, ProbeAbout
    <3>3. CASE UNCHANGED vars
      BY <1>1, <3>3 DEF vars, ledger, AboutRecords
    <3> QED
      BY <1>4, <3>1, <3>2, <3>3
  <2> QED
    BY <2>1, <2>2 DEF Typed
<1> QED
  BY <1>2, <1>3, <1>4 DEF Next

LEMMA InitTyped ==
  ASSUME Init
  PROVE  Typed
<1>1. Steps
  <2>1. /\ arming = [s \in Sessions |-> "idle"] /\ stop = [s \in Sessions |-> "idle"]
        /\ status = [s \in Sessions |-> "executing"] /\ live = [s \in Sessions |-> TRUE]
        /\ boot = "up" /\ unvetoed = {} /\ enabled = TRUE /\ crossed = {}
    BY DEF Init
  <2> QED
    BY <2>1 DEF Steps, ArmSteps, StopSteps
<1>2. AboutRecords
  <2>1. /\ resuming = [s \in Sessions |-> None] /\ ticks = [t \in 1..MaxTicks |-> NoTick]
    BY DEF Init
  <2> QED
    BY <2>1 DEF AboutRecords, NoTick
<1>3. RoomKept
  <2>1. Arms = {} /\ Restores = {}
    BY DEF Init, Arms, Restores
  <2>2. Cardinality(Arms) = 0 /\ Cardinality(Restores) = 0
    BY <2>1, FS_EmptySet
  <2>3. Len(waits) = 0
    BY DEF Init
  <2> QED
    BY <2>2, <2>3, PromisesFinite, Limits DEF RoomKept
<1> QED
  BY <1>1, <1>2, <1>3 DEF Typed

\* The records are bounded by the room every step that promises one makes sure of.
LEMMA InvTypeOK ==
  ASSUME IInv, Typed
  PROVE  TypeOK
<1>1. Shape /\ Quiet /\ Steps /\ AboutRecords
  BY DEF IInv, Typed
<1>2. Len(waits) \in Nat /\ Len(waits) <= MaxWaits
  <2>1. Len(waits) \in Nat /\ Len(waits) + Promised <= MaxWaits
    BY <1>1 DEF Shape, Typed, RoomKept
  <2> QED
    BY <2>1, PromisesFinite, Limits
<1>3. 1..Len(waits) \subseteq Waits
  BY <1>2, Limits DEF Waits
<1>4. {pending, resuming, file} \subseteq [Sessions -> Waits \cup {None}]
  <2>1. pending \in [Sessions -> Waits \cup {None}]
    BY <1>1, <1>3 DEF Shape, OwnWaits
  <2>2. file \in [Sessions -> Waits \cup {None}]
    BY <1>1, <1>3 DEF Shape, OwnWaits
  <2>3. resuming \in [Sessions -> Waits \cup {None}]
    BY <1>1, <1>3 DEF Shape, AboutRecords
  <2> QED
    BY <2>1, <2>2, <2>3
<1>5. ticks \in [1..MaxTicks -> [todo : SUBSET Waits, ok : SUBSET Waits, stopped : SUBSET Waits]]
  BY <1>1, <1>3 DEF Shape, Records
<1> QED
  BY <1>1, <1>2, <1>4, <1>5 DEF TypeOK, Shape, Quiet, Steps, AboutRecords, Records

\* retry-scheduler-service.ts:45: with any number of sessions, waits, places and ticks, every
\* variable has its type: no more records are made than their bound, a reservation is for
\* a record that was made, and a tick probes and finds runnable only what is due.
THEOREM RetryTypes == Spec => []TypeOK
<1>1. Init => Typed
  BY InitTyped
<1>2. IInv /\ Typed /\ [Next]_vars => Typed'
  BY NextTyped
<1>3. IInv /\ Typed => TypeOK
  BY InvTypeOK
<1> QED
  BY <1>1, <1>2, <1>3, Invariance, PTL DEF Spec
=============================================================================
