------------------------ MODULE GitHubCredentials_proofs ------------------------
(***************************************************************************)
(* For any number of instances, tokens and overtaken waits: a renewal is   *)
(* refused, and an account given up, only for the reasons the code names.  *)
(*                                                                         *)
(* Neither is inductive.  Both rest on where a stored token can be: GitHub *)
(* redeems the one in the vault, or the instance that spent it is about to *)
(* store its successor, which nobody else has seen.  The first also needs  *)
(* that the lock excludes while nobody was overtaken.                      *)
(***************************************************************************)
EXTENDS GitHubCredentials, FiniteSetTheorems, TLAPS

\* The steps a renewal is at behind the cross-process lock.
Behind == RenewalSteps \ {"idle", "waiting"}

InSection == \A i \in Instances : renewal[i].at \in Behind => i \in inside

Exclusive == stolen = 0 => \A i, j \in inside : i = j

\* GitHub issued every token anybody holds.
Known ==
    /\ \A t \in redeemable : t <= issued
    /\ vault <= issued
    /\ \A i \in Instances : renewal[i].tried <= issued /\ edit[i].seen <= issued

\* The token a renewal got and has not stored is one nobody else has seen.
Unseen ==
    \A i \in Instances : renewal[i].at = "store" =>
        /\ renewal[i].got \in redeemable
        /\ vault # renewal[i].got
        /\ \A j \in Instances :
             /\ renewal[j].tried # renewal[i].got
             /\ edit[j].seen # renewal[i].got
             /\ renewal[j].at = "store" /\ renewal[j].got = renewal[i].got => j = i

\* An edit holds the credentials of an account.
SeenAccount == \A i \in Instances : edit[i].at = "write" => edit[i].seen # NoAccount

BeingReplaced == \E i \in Instances : renewal[i].at = "store" /\ renewal[i].tried = vault

\* The stored token is redeemable, or its successor is about to be stored.
VaultGood == ~harmed /\ vault # NoAccount => vault \in redeemable \/ BeingReplaced

\* A refused token stays refused.
SpentTried == \A i \in Instances : renewal[i].at = "refused" => renewal[i].tried \notin redeemable

\* Behind a lock nobody overtook, the token sent is the stored one.
Undisturbed ==
    \A i \in Instances :
        renewal[i].at = "exchange" /\ ~renewal[i].signedIn /\ vault # NoAccount
            => stolen > 0 \/ harmed \/ vault = renewal[i].tried

RenewalInv ==
    /\ TypeOK /\ InSection /\ Exclusive /\ Known /\ Unseen /\ SeenAccount /\ VaultGood
    /\ SpentTried /\ Undisturbed /\ RefusedForAReason

-----------------------------------------------------------------------------
Renewal == [at : RenewalSteps, tried : Tokens \cup {NoAccount},
            got : Tokens \cup {NoAccount}, signedIn : BOOLEAN]

LEMMA TokenTypes ==
  /\ Tokens \subseteq Nat /\ 1 \in Tokens /\ NoAccount \notin Tokens
  /\ \A n \in Tokens : n < MaxTokens => n + 1 \in Tokens
  /\ NoAccount \in Nat /\ \A n \in Nat : NoAccount <= n
BY Bounds DEF Tokens, NoAccount

LEMMA NoRenewalType == NoRenewal \in Renewal
BY DEF NoRenewal, Renewal, RenewalSteps

LEMMA InitTypeOK == Init => TypeOK
<1> SUFFICES ASSUME Init PROVE TypeOK
  OBVIOUS
<1>1. redeemable \subseteq Tokens /\ issued \in Tokens /\ vault \in Tokens
  BY TokenTypes DEF Init
<1>2. renewal \in [Instances -> Renewal] /\ inside = {} /\ stolen \in 0..MaxStolen
  BY NoRenewalType, Bounds DEF Init, Lock!LockInit
<1>3. edit \in [Instances -> [at : {"idle", "write"}, seen : Tokens \cup {NoAccount}]]
  BY DEF Init, NoEdit
<1> QED
  BY <1>1, <1>2, <1>3 DEF Init, TypeOK, Renewal

LEMMA StepType ==
  ASSUME TypeOK, NEW i \in Instances, NEW from, NEW to \in RenewalSteps, Step(i, from, to)
  PROVE  renewal' \in [Instances -> Renewal]
BY DEF TypeOK, Step, Renewal

\* A caller inside stays behind the lock.
LEMMA StepInside ==
  ASSUME TypeOK, NEW i \in Instances, NEW from, NEW to \in Behind, Step(i, from, to)
  PROVE  inside \subseteq {j \in Instances : renewal'[j].at \notin {"idle", "waiting"}}
<1>1. to \notin {"idle", "waiting"}
  BY DEF Behind
<1>2. renewal'[i].at = to /\ \A j \in Instances \ {i} : renewal'[j] = renewal[j]
  BY DEF TypeOK, Step
<1>3. \A j \in inside : j \in Instances /\ renewal[j].at \notin {"idle", "waiting"}
  BY DEF TypeOK
<1> QED
  BY <1>1, <1>2, <1>3

LEMMA FileType ==
  ASSUME TypeOK, NEW i \in Instances, NEW who \in {"renewal", "edit"},
         TakeFile(i, who) \/ LeaveFile(i, who)
  PROVE  fileLock' \in [Instances -> {"free", "renewal", "edit"}]
BY DEF TypeOK, TakeFile, LeaveFile

\* Steps of one renewal that only move it along.
Moves(i, from, to) ==
    /\ Step(i, from, to)
    /\ UNCHANGED <<redeemable, issued, vault, edit, fileLock, inside, stolen, harmed>>

LEMMA MovesTypeOK ==
  ASSUME TypeOK, NEW i \in Instances, NEW from \in Behind, NEW to \in Behind, Moves(i, from, to)
  PROVE  TypeOK'
<1>1. renewal' \in [Instances -> Renewal]
  BY StepType DEF Moves, Behind
<1>2. inside \subseteq {j \in Instances : renewal'[j].at \notin {"idle", "waiting"}}
  BY StepInside DEF Moves
<1> QED
  BY <1>1, <1>2 DEF TypeOK, Moves, Renewal

LEMMA MovingSteps ==
  ASSUME NEW i \in Instances,
         ReadAgain(i) \/ Refused(i) \/ AfterRefusal(i) \/ DropRead(i)
  PROVE  \E from, to \in Behind : Moves(i, from, to)
<1>1. CASE ReadAgain(i)
  <2> DEFINE to == IF Rotated(i) THEN "leave" ELSE "exchange"
  <2>1. Moves(i, "entered", to)
    BY <1>1 DEF ReadAgain, Moves, GitHubIdle, Unlocked
  <2>2. "entered" \in Behind /\ to \in Behind
    BY DEF Behind, RenewalSteps
  <2> QED
    BY <2>1, <2>2
<1>2. CASE Refused(i)
  <2>1. Moves(i, "exchange", "refused")
    BY <1>2 DEF Refused, Moves, GitHubIdle, Unlocked
  <2> QED
    BY <2>1 DEF Behind, RenewalSteps
<1>3. CASE AfterRefusal(i)
  <2>1. Moves(i, "refused", "leave") \/ Moves(i, "refused", "drop")
    BY <1>3 DEF AfterRefusal, Moves, GitHubIdle, Unlocked
  <2> QED
    BY <2>1 DEF Behind, RenewalSteps
<1>4. CASE DropRead(i)
  <2>1. Moves(i, "drop", "dropping")
    BY <1>4 DEF DropRead, Moves, GitHubIdle, Unlocked
  <2> QED
    BY <2>1 DEF Behind, RenewalSteps
<1> QED
  BY <1>1, <1>2, <1>3, <1>4

LEMMA RefreshType ==
  ASSUME TypeOK, issued < MaxTokens, issued' = issued + 1,
         redeemable' \subseteq redeemable \cup {issued'}
  PROVE  redeemable' \subseteq Tokens /\ issued' \in Tokens
BY TokenTypes DEF TypeOK

LEMMA NextTypeOK ==
  ASSUME TypeOK, [Next]_vars
  PROVE  TypeOK'
<1>1. ASSUME NEW i \in Instances, Renew(i)
      PROVE  TypeOK'
  <2> DEFINE r == [NoRenewal EXCEPT !.at = "waiting", !.tried = vault]
  <2>1. r \in Renewal /\ r.at = "waiting"
    BY NoRenewalType DEF NoRenewal, Renewal, RenewalSteps, TypeOK
  <2>2. renewal' = [renewal EXCEPT ![i] = r] /\ renewal[i].at = "idle"
    BY <1>1 DEF Renew
  <2> HIDE DEF r
  <2>3. renewal' \in [Instances -> Renewal]
    BY <2>1, <2>2 DEF TypeOK, Renewal
  <2>4. inside' \subseteq {j \in Instances : renewal'[j].at \notin {"idle", "waiting"}}
    BY <1>1, <2>2 DEF TypeOK, Renew
  <2> QED
    BY <1>1, <2>3, <2>4, FileType DEF TypeOK, Renew, GitHubIdle, Renewal
<1>2. ASSUME NEW i \in Instances, EnterLock(i)
      PROVE  TypeOK'
  <2>1. renewal' \in [Instances -> Renewal]
    BY <1>2, StepType DEF EnterLock, RenewalSteps
  <2>2. inside' \subseteq {j \in Instances : renewal'[j].at \notin {"idle", "waiting"}}
    BY <1>2 DEF TypeOK, EnterLock, Step, Lock!Enter
  <2> QED
    BY <1>2, <2>1, <2>2 DEF TypeOK, EnterLock, GitHubIdle, Lock!Enter, Renewal
<1>3. ASSUME NEW i \in Instances, Overtake(i)
      PROVE  TypeOK'
  BY <1>3, Bounds DEF TypeOK, Overtake, GitHubIdle, Lock!Steal
<1>4. ASSUME NEW i \in Instances,
             ReadAgain(i) \/ Refused(i) \/ AfterRefusal(i) \/ DropRead(i)
      PROVE  TypeOK'
  BY <1>4, MovingSteps, MovesTypeOK
<1>5. ASSUME NEW i \in Instances, Exchange(i)
      PROVE  TypeOK'
  <2>1. redeemable' \subseteq Tokens /\ issued' \in Tokens
    BY <1>5, RefreshType DEF Exchange
  <2>2. renewal' = [renewal EXCEPT ![i] = [@ EXCEPT !.at = "store", !.got = issued']]
    BY <1>5 DEF Exchange
  <2>3. renewal' \in [Instances -> Renewal]
    BY <2>1, <2>2 DEF TypeOK, Renewal, RenewalSteps
  <2>4. inside \subseteq {j \in Instances : renewal'[j].at \notin {"idle", "waiting"}}
    BY <1>5 DEF TypeOK, Exchange
  <2> QED
    BY <1>5, <2>1, <2>3, <2>4 DEF TypeOK, Exchange, Unlocked, Renewal
<1>6. ASSUME NEW i \in Instances, ExchangeFails(i)
      PROVE  TypeOK'
  <2>1. redeemable' \subseteq Tokens /\ issued' \in Tokens
    BY <1>6, RefreshType DEF ExchangeFails, GitHubIdle, TypeOK
  <2>2. renewal' \in [Instances -> Renewal]
    BY <1>6, StepType DEF ExchangeFails, RenewalSteps
  <2>3. inside \subseteq {j \in Instances : renewal'[j].at \notin {"idle", "waiting"}}
    BY <1>6, StepInside DEF ExchangeFails, Behind, RenewalSteps
  <2>4. harmed' \in BOOLEAN
    BY <1>6 DEF TypeOK, ExchangeFails
  <2> QED
    BY <1>6, <2>1, <2>2, <2>3, <2>4 DEF TypeOK, ExchangeFails, Unlocked, Renewal
<1>7. ASSUME NEW i \in Instances, Store(i) \/ Drop(i)
      PROVE  TypeOK'
  <2>1. renewal' \in [Instances -> Renewal]
    BY <1>7, StepType DEF Store, Drop, RenewalSteps
  <2>2. inside \subseteq {j \in Instances : renewal'[j].at \notin {"idle", "waiting"}}
    BY <1>7, StepInside DEF Store, Drop, Behind, RenewalSteps
  <2>3. vault' \in Tokens \cup {NoAccount} /\ harmed' \in BOOLEAN
    BY <1>7 DEF TypeOK, Store, Drop
  <2> QED
    BY <1>7, <2>1, <2>2, <2>3 DEF TypeOK, Store, Drop, Unlocked, GitHubIdle, Renewal
<1>8. ASSUME NEW i \in Instances, LeaveLock(i)
      PROVE  TypeOK'
  <2>1. renewal' \in [Instances -> Renewal]
    BY <1>8, NoRenewalType DEF TypeOK, LeaveLock, Renewal
  <2>2. inside' \subseteq {j \in Instances : renewal'[j].at \notin {"idle", "waiting"}}
    BY <1>8 DEF TypeOK, LeaveLock
  <2> QED
    BY <1>8, <2>1, <2>2, FileType DEF TypeOK, LeaveLock, GitHubIdle, Renewal
<1>9. ASSUME NEW i \in Instances, EditRead(i) \/ EditWrite(i)
      PROVE  TypeOK'
  <2>1. edit' \in [Instances -> [at : {"idle", "write"}, seen : Tokens \cup {NoAccount}]]
    BY <1>9 DEF TypeOK, EditRead, EditWrite, NoEdit
  <2>2. vault' \in Tokens \cup {NoAccount} /\ harmed' \in BOOLEAN
    BY <1>9 DEF TypeOK, EditRead, EditWrite
  <2> QED
    BY <1>9, <2>1, <2>2, FileType DEF TypeOK, EditRead, EditWrite, GitHubIdle
<1>10. ASSUME NEW i \in Instances, SignIn(i)
       PROVE  TypeOK'
  <2>1. redeemable' \subseteq Tokens /\ issued' \in Tokens
    BY <1>10, RefreshType DEF SignIn
  <2> DEFINE Signed(j) == [renewal[j] EXCEPT !.signedIn = @ \/ renewal[j].at # "idle"]
  <2>a. ASSUME NEW j \in Instances
        PROVE  Signed(j) \in Renewal /\ Signed(j).at = renewal[j].at
    <3>1. renewal[j] \in Renewal
      BY DEF TypeOK, Renewal
    <3> QED
      BY <3>1 DEF Renewal
  <2>b. renewal' = [j \in Instances |-> Signed(j)]
    BY <1>10 DEF SignIn
  <2> HIDE DEF Signed
  <2>2. renewal' \in [Instances -> Renewal]
    BY <2>a, <2>b
  <2>3. inside \subseteq {j \in Instances : renewal'[j].at \notin {"idle", "waiting"}}
    <3>1. \A j \in Instances : renewal'[j].at = renewal[j].at
      BY <2>a, <2>b
    <3> QED
      BY <3>1 DEF TypeOK
  <2> QED
    BY <1>10, <2>1, <2>2, <2>3 DEF TypeOK, SignIn, Unlocked, Renewal
<1>11. ASSUME NEW i \in Instances, SignOut(i)
       PROVE  TypeOK'
  BY <1>11 DEF TypeOK, SignOut, GitHubIdle, Unlocked
<1>12. ASSUME NEW i \in Instances, Crash(i)
       PROVE  TypeOK'
  <2>1. renewal' \in [Instances -> Renewal]
    BY <1>12, NoRenewalType DEF TypeOK, Crash, Renewal
  <2>2. edit' \in [Instances -> [at : {"idle", "write"}, seen : Tokens \cup {NoAccount}]]
    BY <1>12 DEF TypeOK, Crash, NoEdit
  <2>3. inside' \subseteq {j \in Instances : renewal'[j].at \notin {"idle", "waiting"}}
    BY <1>12 DEF TypeOK, Crash
  <2> QED
    BY <1>12, <2>1, <2>2, <2>3 DEF TypeOK, Crash, GitHubIdle, Renewal
<1>13. CASE UNCHANGED vars
  BY <1>13 DEF TypeOK, vars
<1> QED
  BY <1>1, <1>2, <1>3, <1>4, <1>5, <1>6, <1>7, <1>8, <1>9, <1>10, <1>11, <1>12, <1>13
  DEF Next, Renewing

-----------------------------------------------------------------------------
\* What a step does to GitHub, to the vault and to the renewals, whichever it is.
Issues ==
    \/ issued' = issued /\ redeemable' = redeemable
    \/ issued' = issued + 1 /\ redeemable' \subseteq redeemable \cup {issued'}

\* A token is spent for a successor that is about to be stored, or lost.
Spends ==
    \A t \in redeemable \ redeemable' :
        \E i \in Instances :
            /\ renewal[i].at = "exchange" /\ renewal[i].tried = t
            /\ \/ harmed'
               \/ renewal'[i].at = "store" /\ renewal'[i].tried = t

\* A token comes into the vault by a renewal, by a sign-in or with an old snapshot.
Writes ==
    \/ vault' \in {NoAccount, vault}
    \/ \E i \in Instances :
          renewal[i].at = "store" /\ renewal'[i].at = "leave" /\ vault' = renewal[i].got
    \/ /\ vault' = issued' /\ issued' = issued + 1 /\ issued' \in redeemable'
       /\ \A i \in Instances : renewal'[i].at # "idle" => renewal'[i].signedIn
    \/ harmed' /\ \E i \in Instances : edit[i].at = "write" /\ vault' = edit[i].seen

Grows == stolen <= stolen' /\ (harmed => harmed')

\* One instance.
Reads(j) ==
    /\ renewal'[j].tried \in {NoAccount, renewal[j].tried, vault}
    /\ edit'[j].seen \in {NoAccount, edit[j].seen, vault}
    /\ edit'[j].at = "write" => \/ edit[j].at = "write" /\ edit'[j].seen = edit[j].seen
                                \/ vault # NoAccount /\ edit'[j].seen = vault

Keeps(j) ==
    renewal'[j].at \in Behind =>
        /\ renewal'[j].tried = renewal[j].tried
        /\ renewal[j].signedIn => renewal'[j].signedIn

Sends(j) ==
    renewal'[j].at = "exchange" =>
        \/ renewal[j].at = "exchange"
        \/ ~Rotated(j) /\ vault' = vault

IsRefused(j) ==
    renewal'[j].at = "refused" =>
        \/ renewal[j].at = "refused"
        \/ /\ renewal[j].at = "exchange" /\ renewal[j].tried \notin redeemable
           /\ UNCHANGED <<redeemable, vault, stolen, harmed>>
           /\ renewal'[j].signedIn = renewal[j].signedIn

Gets(j) ==
    renewal'[j].at = "store" =>
        \/ renewal[j].at = "store" /\ renewal'[j].got = renewal[j].got
        \/ /\ issued' = issued + 1 /\ issued' \in redeemable' /\ renewal'[j].got = issued'
           /\ vault' = vault
           /\ \A k \in Instances \ {j} : renewal'[k] = renewal[k]

Stores(j) ==
    renewal[j].at = "store" /\ renewal'[j].at # "store" => harmed' \/ vault' = renewal[j].got

Shape ==
    /\ Issues /\ Spends /\ Writes /\ Grows
    /\ \A j \in Instances :
          Reads(j) /\ Keeps(j) /\ Sends(j) /\ IsRefused(j) /\ Gets(j) /\ Stores(j)

\* Steps that change neither the tokens nor what the renewals hold.
LEMMA QuietShape ==
  ASSUME TypeOK, UNCHANGED <<redeemable, issued, vault, renewal>>, Grows,
         \A j \in Instances : Reads(j)
  PROVE  Shape
BY DEF TypeOK, Shape, Issues, Spends, Writes, Keeps, Sends, IsRefused, Gets, Stores

LEMMA NextShape ==
  ASSUME TypeOK, [Next]_vars
  PROVE  Shape
<1> USE DEF Unlocked, GitHubIdle
<1>0. stolen \in Nat
  BY DEF TypeOK
<1>1. ASSUME NEW i \in Instances, Renew(i)
      PROVE  Shape
  <2> DEFINE r == [NoRenewal EXCEPT !.at = "waiting", !.tried = vault]
  <2>1. r.at = "waiting" /\ r.tried = vault
    BY DEF NoRenewal
  <2>2. renewal' = [renewal EXCEPT ![i] = r] /\ renewal[i].at = "idle"
    BY <1>1 DEF Renew
  <2> HIDE DEF r
  <2>3. \A j \in Instances : renewal'[j] = IF j = i THEN r ELSE renewal[j]
    BY <2>2 DEF TypeOK
  <2>4. UNCHANGED <<redeemable, issued, vault, edit, stolen, harmed>>
    BY <1>1 DEF Renew
  <2> QED
    BY <1>0, <2>1, <2>2, <2>3, <2>4
    DEF Shape, Issues, Spends, Writes, Grows, Reads, Keeps, Sends, IsRefused, Gets, Stores,
        Behind, RenewalSteps
<1>2. ASSUME NEW i \in Instances, EnterLock(i)
      PROVE  Shape
  BY <1>0, <1>2 DEF TypeOK, EnterLock, Step, Lock!Enter, Shape, Issues, Spends, Writes, Grows,
     Reads, Keeps, Sends, IsRefused, Gets, Stores
<1>3. ASSUME NEW i \in Instances, Overtake(i)
      PROVE  Shape
  BY <1>0, <1>3, QuietShape DEF Overtake, Lock!Steal, Grows, Reads
<1>4. ASSUME NEW i \in Instances, ReadAgain(i)
      PROVE  Shape
  BY <1>0, <1>4 DEF TypeOK, ReadAgain, Step, Shape, Issues, Spends, Writes, Grows,
     Reads, Keeps, Sends, IsRefused, Gets, Stores
<1>5. ASSUME NEW i \in Instances, Exchange(i)
      PROVE  Shape
  BY <1>0, <1>5 DEF TypeOK, Exchange, Shape, Issues, Spends, Writes, Grows,
     Reads, Keeps, Sends, IsRefused, Gets, Stores
<1>6. ASSUME NEW i \in Instances, Refused(i)
      PROVE  Shape
  BY <1>0, <1>6 DEF TypeOK, Refused, Step, Shape, Issues, Spends, Writes, Grows,
     Reads, Keeps, Sends, IsRefused, Gets, Stores
<1>7. ASSUME NEW i \in Instances, ExchangeFails(i)
      PROVE  Shape
  BY <1>0, <1>7 DEF TypeOK, ExchangeFails, Step, Shape, Issues, Spends, Writes, Grows,
     Reads, Keeps, Sends, IsRefused, Gets, Stores
<1>8. ASSUME NEW i \in Instances, Store(i)
      PROVE  Shape
  <2>1. Issues /\ Spends /\ Grows
    BY <1>0, <1>8 DEF TypeOK, Store, Step, Issues, Spends, Grows
  <2>2. Writes
    BY <1>8 DEF TypeOK, Store, Step, Writes
  <2>3. ASSUME NEW j \in Instances
        PROVE  Reads(j) /\ Keeps(j) /\ Sends(j)
    <3>1. Reads(j)
      BY <1>8 DEF TypeOK, Store, Step, Reads
    <3>2. Keeps(j)
      BY <1>8 DEF TypeOK, Store, Step, Keeps, Behind
    <3>3. Sends(j)
      BY <1>8 DEF TypeOK, Store, Step, Sends, Rotated
    <3> QED
      BY <3>1, <3>2, <3>3
  <2>4. ASSUME NEW j \in Instances
        PROVE  IsRefused(j) /\ Gets(j) /\ Stores(j)
    BY <1>8 DEF TypeOK, Store, Step, IsRefused, Gets, Stores
  <2> QED
    BY <2>1, <2>2, <2>3, <2>4 DEF Shape
<1>9. ASSUME NEW i \in Instances, AfterRefusal(i) \/ DropRead(i)
      PROVE  Shape
  <2>1. PICK from \in {"refused", "drop"}, to \in {"leave", "drop", "dropping"} :
             Moves(i, from, to)
    BY <1>9 DEF AfterRefusal, DropRead, Moves
  <2> QED
    BY <1>0, <2>1 DEF TypeOK, Moves, Step, Shape, Issues, Spends, Writes, Grows,
       Reads, Keeps, Sends, IsRefused, Gets, Stores
<1>10. ASSUME NEW i \in Instances, Drop(i)
       PROVE  Shape
  <2>1. Issues /\ Spends /\ Grows
    BY <1>0, <1>10 DEF TypeOK, Drop, Step, Issues, Spends, Grows
  <2>2. Writes
    BY <1>10 DEF TypeOK, Drop, Step, Writes
  <2>3. ASSUME NEW j \in Instances
        PROVE  Reads(j) /\ Keeps(j) /\ Sends(j)
    <3>1. Reads(j)
      BY <1>10 DEF TypeOK, Drop, Step, Reads
    <3>2. Keeps(j)
      BY <1>10 DEF TypeOK, Drop, Step, Keeps, Behind
    <3>3. Sends(j)
      BY <1>10 DEF TypeOK, Drop, Step, Sends, Rotated
    <3> QED
      BY <3>1, <3>2, <3>3
  <2>4. ASSUME NEW j \in Instances
        PROVE  IsRefused(j) /\ Gets(j) /\ Stores(j)
    BY <1>10 DEF TypeOK, Drop, Step, IsRefused, Gets, Stores
  <2> QED
    BY <2>1, <2>2, <2>3, <2>4 DEF Shape
<1>11. ASSUME NEW i \in Instances, LeaveLock(i)
       PROVE  Shape
  BY <1>0, <1>11 DEF TypeOK, LeaveLock, NoRenewal, Shape, Issues, Spends, Writes, Grows,
     Reads, Keeps, Sends, IsRefused, Gets, Stores, Behind
<1>12. ASSUME NEW i \in Instances, EditRead(i)
       PROVE  Shape
  BY <1>0, <1>12, QuietShape DEF TypeOK, EditRead, Grows, Reads
<1>13. ASSUME NEW i \in Instances, EditWrite(i)
       PROVE  Shape
  <2>1. Issues /\ Spends /\ Grows
    BY <1>0, <1>13 DEF TypeOK, EditWrite, NoEdit, Issues, Spends, Grows
  <2>2. Writes
    BY <1>13 DEF TypeOK, EditWrite, NoEdit, Writes
  <2>3. ASSUME NEW j \in Instances
        PROVE  Reads(j) /\ Keeps(j) /\ Sends(j)
    <3>1. Reads(j)
      BY <1>13 DEF TypeOK, EditWrite, NoEdit, Reads
    <3>2. Keeps(j)
      BY <1>13 DEF TypeOK, EditWrite, NoEdit, Keeps, Behind
    <3>3. Sends(j)
      BY <1>13 DEF TypeOK, EditWrite, NoEdit, Sends, Rotated
    <3> QED
      BY <3>1, <3>2, <3>3
  <2>4. ASSUME NEW j \in Instances
        PROVE  IsRefused(j) /\ Gets(j) /\ Stores(j)
    BY <1>13 DEF TypeOK, EditWrite, NoEdit, IsRefused, Gets, Stores
  <2> QED
    BY <2>1, <2>2, <2>3, <2>4 DEF Shape
<1>14. ASSUME NEW i \in Instances, SignIn(i)
       PROVE  Shape
  <2>1. Issues /\ Spends /\ Grows
    BY <1>0, <1>14 DEF TypeOK, SignIn, Issues, Spends, Grows
  <2>2. Writes
    <3>1. ASSUME NEW j \in Instances
          PROVE  /\ renewal'[j].at = renewal[j].at
                 /\ renewal'[j].signedIn = (renewal[j].signedIn \/ renewal[j].at # "idle")
      BY <1>14 DEF TypeOK, SignIn
    <3>2. vault' = issued' /\ issued' = issued + 1 /\ issued' \in redeemable'
      BY <1>14 DEF SignIn
    <3>3. ASSUME NEW j \in Instances, renewal'[j].at # "idle"
          PROVE  renewal'[j].signedIn
      <4>1. renewal[j].signedIn \/ renewal[j].at # "idle"
        BY <3>1, <3>3
      <4>2. renewal'[j].signedIn = (renewal[j].signedIn \/ renewal[j].at # "idle")
        BY <3>1
      <4> QED
        BY <4>1, <4>2, Zenon
    <3> QED
      BY <3>2, <3>3 DEF Writes
  <2>3. ASSUME NEW j \in Instances
        PROVE  Reads(j) /\ Keeps(j) /\ Sends(j)
    <3>1. Reads(j)
      BY <1>14 DEF TypeOK, SignIn, Reads
    <3>2. Keeps(j)
      BY <1>14 DEF TypeOK, SignIn, Keeps, Behind
    <3>3. Sends(j)
      BY <1>14 DEF TypeOK, SignIn, Sends, Rotated
    <3> QED
      BY <3>1, <3>2, <3>3
  <2>4. ASSUME NEW j \in Instances
        PROVE  IsRefused(j) /\ Gets(j) /\ Stores(j)
    BY <1>14 DEF TypeOK, SignIn, IsRefused, Gets, Stores
  <2> QED
    BY <2>1, <2>2, <2>3, <2>4 DEF Shape
<1>15. ASSUME NEW i \in Instances, SignOut(i)
       PROVE  Shape
  <2>1. Issues /\ Spends /\ Grows
    BY <1>0, <1>15 DEF TypeOK, SignOut, Issues, Spends, Grows
  <2>2. Writes
    BY <1>15 DEF TypeOK, SignOut, Writes
  <2>3. ASSUME NEW j \in Instances
        PROVE  Reads(j) /\ Keeps(j) /\ Sends(j)
    <3>1. Reads(j)
      BY <1>15 DEF TypeOK, SignOut, Reads
    <3>2. Keeps(j)
      BY <1>15 DEF TypeOK, SignOut, Keeps, Behind
    <3>3. Sends(j)
      BY <1>15 DEF TypeOK, SignOut, Sends, Rotated
    <3> QED
      BY <3>1, <3>2, <3>3
  <2>4. ASSUME NEW j \in Instances
        PROVE  IsRefused(j) /\ Gets(j) /\ Stores(j)
    BY <1>15 DEF TypeOK, SignOut, IsRefused, Gets, Stores
  <2> QED
    BY <2>1, <2>2, <2>3, <2>4 DEF Shape
<1>16. ASSUME NEW i \in Instances, Crash(i)
       PROVE  Shape
  <2>1. Issues /\ Spends /\ Grows
    BY <1>0, <1>16 DEF TypeOK, Crash, NoRenewal, NoEdit, Issues, Spends, Grows
  <2>2. Writes
    BY <1>16 DEF TypeOK, Crash, NoRenewal, NoEdit, Writes
  <2>3. ASSUME NEW j \in Instances
        PROVE  Reads(j) /\ Keeps(j) /\ Sends(j)
    <3>1. Reads(j)
      BY <1>16 DEF TypeOK, Crash, NoRenewal, NoEdit, Reads
    <3>2. Keeps(j)
      BY <1>16 DEF TypeOK, Crash, NoRenewal, NoEdit, Keeps, Behind
    <3>3. Sends(j)
      BY <1>16 DEF TypeOK, Crash, NoRenewal, NoEdit, Sends, Rotated
    <3> QED
      BY <3>1, <3>2, <3>3
  <2>4. ASSUME NEW j \in Instances
        PROVE  IsRefused(j) /\ Gets(j) /\ Stores(j)
    BY <1>16 DEF TypeOK, Crash, NoRenewal, NoEdit, IsRefused, Gets, Stores
  <2> QED
    BY <2>1, <2>2, <2>3, <2>4 DEF Shape
<1>17. CASE UNCHANGED vars
  BY <1>0, <1>17, QuietShape DEF vars, Grows, Reads
<1> QED
  BY <1>1, <1>2, <1>3, <1>4, <1>5, <1>6, <1>7, <1>8, <1>9, <1>10, <1>11, <1>12, <1>13, <1>14,
     <1>15, <1>16, <1>17
  DEF Next, Renewing

-----------------------------------------------------------------------------
\* The section: who is behind the lock is in it, alone while nobody is overtaken.
LEMMA NextSection ==
  ASSUME TypeOK, InSection, [Next]_vars
  PROVE  InSection'
<1>1. ASSUME NEW i \in Instances, EnterLock(i)
      PROVE  InSection'
  BY <1>1 DEF TypeOK, InSection, EnterLock, Step, Lock!Enter
<1>2. ASSUME NEW i \in Instances, LeaveLock(i) \/ Crash(i)
      PROVE  InSection'
  BY <1>2 DEF TypeOK, InSection, LeaveLock, Crash, NoRenewal, Behind
<1>3. ASSUME NEW i \in Instances, Renew(i)
      PROVE  InSection'
  <2>1. [NoRenewal EXCEPT !.at = "waiting", !.tried = vault].at \notin Behind
    BY DEF NoRenewal, Behind
  <2> QED
    BY <1>3, <2>1 DEF TypeOK, InSection, Renew
<1>4. ASSUME inside' = inside,
             \A j \in Instances : renewal'[j].at \in Behind => renewal[j].at \in Behind
      PROVE  InSection'
  BY <1>4 DEF InSection
<1>5. ASSUME NEW i \in Instances,
             \/ Overtake(i) \/ EditRead(i) \/ EditWrite(i) \/ SignOut(i) \/ UNCHANGED vars
      PROVE  InSection'
  BY <1>4, <1>5 DEF Overtake, Lock!Steal, EditRead, EditWrite, SignOut, Unlocked, vars
<1>6. ASSUME NEW i \in Instances, Exchange(i) \/ SignIn(i)
      PROVE  InSection'
  BY <1>4, <1>6 DEF TypeOK, Exchange, SignIn, Unlocked, Behind, RenewalSteps
<1>7. ASSUME NEW i \in Instances,
             \/ ReadAgain(i) \/ Refused(i) \/ AfterRefusal(i) \/ DropRead(i)
             \/ ExchangeFails(i) \/ Store(i) \/ Drop(i)
      PROVE  InSection'
  <2>1. PICK from \in Behind, to \in Behind : Step(i, from, to)
    BY <1>7, MovingSteps
    DEF Moves, ExchangeFails, Store, Drop, Behind, RenewalSteps
  <2>2. inside' = inside
    BY <1>7 DEF ReadAgain, Refused, AfterRefusal, DropRead, ExchangeFails, Store, Drop, Unlocked
  <2> QED
    BY <1>4, <2>1, <2>2 DEF TypeOK, Step
<1>8. CASE UNCHANGED vars
  BY <1>8, <1>4 DEF vars
<1> QED
  BY <1>1, <1>2, <1>3, <1>5, <1>6, <1>7, <1>8 DEF Next, Renewing

\* The Cardinality of the instance is the one of this module.
LEMMA SameCardinality == Cardinality(inside) = Lock!Cardinality(inside)
BY DEF Cardinality, Lock!Cardinality

LEMMA NextExclusive ==
  ASSUME TypeOK, Exclusive, [Next]_vars
  PROVE  Exclusive'
<1>1. stolen \in Nat /\ stolen <= stolen'
  BY NextShape DEF TypeOK, Shape, Grows
<1>2. SUFFICES ASSUME stolen' = 0 PROVE \A i, j \in inside' : i = j
  BY DEF Exclusive
<1>3. stolen = 0
  BY <1>1, <1>2, NextTypeOK DEF TypeOK
<1>4. ASSUME NEW i \in Instances, EnterLock(i)
      PROVE  inside = {} /\ inside' = {i}
  <2>1. inside \in SUBSET Instances
    BY DEF TypeOK
  <2>2. IsFiniteSet(inside)
    BY <2>1, Bounds, FS_Subset
  <2>3. Cardinality(inside) <= 0
    BY <1>3, <1>4, SameCardinality DEF EnterLock, Lock!Enter
  <2>4. inside = {}
    BY <2>2, <2>3, FS_EmptySet, FS_CardinalityType
  <2> QED
    BY <1>4, <2>4 DEF EnterLock, Lock!Enter
<1>5. (\E i \in Instances : EnterLock(i)) \/ inside' \subseteq inside
  BY DEF Next, Renewing, vars, Unlocked, Renew, Overtake, Lock!Steal, ReadAgain, Exchange, Refused,
     ExchangeFails, Store, AfterRefusal, DropRead, Drop, LeaveLock, EditRead, EditWrite, SignIn,
     SignOut, Crash
<1> QED
  BY <1>3, <1>4, <1>5 DEF Exclusive

-----------------------------------------------------------------------------
\* The tokens: what anybody holds was issued, and a new one is seen by nobody else.
LEMMA NextKnown ==
  ASSUME TypeOK, Known, Unseen, [Next]_vars
  PROVE  Known'
<1>1. Shape
  BY NextShape
<1>2. issued \in Nat /\ issued' \in Nat /\ issued <= issued' /\ NoAccount <= issued'
  BY <1>1, TokenTypes DEF Shape, Issues, TypeOK, NoAccount
<1>3. ASSUME NEW t \in Tokens \cup {NoAccount}, t <= issued
      PROVE  t <= issued'
  BY <1>2, <1>3, TokenTypes DEF NoAccount
<1>4. \A t \in redeemable' : t <= issued'
  <2>1. ASSUME NEW t \in redeemable
        PROVE  t <= issued'
    BY <1>3 DEF Known, TypeOK
  <2>2. issued' <= issued'
    BY <1>2
  <2>3. redeemable' \subseteq redeemable \cup {issued'}
    BY <1>1 DEF Shape, Issues
  <2> QED
    BY <2>1, <2>2, <2>3
<1>5. vault <= issued'
  BY <1>3 DEF Known, TypeOK
<1>6. \A i \in Instances : renewal'[i].tried <= issued'
  BY <1>1, <1>2, <1>3, <1>5 DEF Shape, Reads, Known, TypeOK
<1>7. \A i \in Instances : edit'[i].seen <= issued'
  BY <1>1, <1>2, <1>3, <1>5 DEF Shape, Reads, Known, TypeOK
<1>8. vault' <= issued'
  <2>1. CASE vault' \in {NoAccount, vault}
    BY <2>1, <1>2, <1>5
  <2>2. ASSUME NEW i \in Instances, renewal[i].at = "store", vault' = renewal[i].got
        PROVE  vault' <= issued'
    <3>1. vault' \in redeemable
      BY <2>2 DEF Unseen
    <3> QED
      BY <3>1, <1>3 DEF Known, TypeOK
  <2>3. CASE vault' = issued'
    BY <2>3, <1>2
  <2>4. ASSUME NEW i \in Instances, vault' = edit[i].seen
        PROVE  vault' <= issued'
    BY <2>4, <1>3 DEF Known, TypeOK
  <2> QED
    BY <1>1, <2>1, <2>2, <2>3, <2>4 DEF Shape, Writes
<1> QED
  BY <1>4, <1>6, <1>7, <1>8 DEF Known

LEMMA NextUnseen ==
  ASSUME TypeOK, Known, Unseen, [Next]_vars
  PROVE  Unseen'
<1> SUFFICES ASSUME NEW i \in Instances, renewal'[i].at = "store"
             PROVE  /\ renewal'[i].got \in redeemable'
                    /\ vault' # renewal'[i].got
                    /\ \A j \in Instances :
                         /\ renewal'[j].tried # renewal'[i].got
                         /\ edit'[j].seen # renewal'[i].got
                         /\ renewal'[j].at = "store" /\ renewal'[j].got = renewal'[i].got
                              => j = i
  BY DEF Unseen
<1> DEFINE got == renewal'[i].got
<1>1. Shape
  BY NextShape
<1>2. issued \in Nat /\ issued' \in Nat
  BY NextTypeOK, TokenTypes DEF TypeOK
<1>3. CASE renewal[i].at = "store" /\ renewal'[i].got = renewal[i].got
  <2>1. /\ got \in redeemable /\ got # vault
        /\ \A j \in Instances : renewal[j].tried # got /\ edit[j].seen # got
        /\ \A j \in Instances : renewal[j].at = "store" /\ renewal[j].got = got => j = i
    BY <1>3 DEF Unseen
  <2>2. got \in Tokens /\ got <= issued /\ got # NoAccount
    BY <2>1, TokenTypes DEF TypeOK, Known
  <2>3. issued' = issued + 1 => got # issued'
    BY <1>2, <2>2, TokenTypes
  <2>4. got \in redeemable'
    BY <1>1, <2>1 DEF Shape, Spends
  <2>5. vault' # got
    BY <1>1, <2>1, <2>2, <2>3, <1>3 DEF Shape, Writes
  <2>6. \A j \in Instances : renewal'[j].tried # got /\ edit'[j].seen # got
    BY <1>1, <2>1, <2>2 DEF Shape, Reads
  <2>7. \A j \in Instances : renewal'[j].at = "store" /\ renewal'[j].got = got => j = i
    BY <1>1, <2>1, <2>3 DEF Shape, Gets
  <2> QED
    BY <2>4, <2>5, <2>6, <2>7
<1>4. CASE /\ issued' = issued + 1 /\ issued' \in redeemable' /\ got = issued'
           /\ vault' = vault
           /\ \A k \in Instances \ {i} : renewal'[k] = renewal[k]
  <2>1. ASSUME NEW t, t <= issued, t \in Nat
        PROVE  t # got
    BY <1>2, <1>4, <2>1
  <2>2. vault \in Nat /\ vault <= issued /\ NoAccount \in Nat /\ NoAccount <= issued
    BY <1>2, TokenTypes DEF Known, TypeOK
  <2>3. \A j \in Instances : renewal[j].tried # got /\ edit[j].seen # got
    BY <2>1, <2>2, TokenTypes DEF Known, TypeOK
  <2>4. \A j \in Instances : renewal'[j].tried # got /\ edit'[j].seen # got
    BY <1>1, <2>1, <2>2, <2>3 DEF Shape, Reads
  <2>5. ASSUME NEW j \in Instances, j # i, renewal'[j].at = "store"
        PROVE  renewal'[j].got # got
    <3>1. renewal'[j] = renewal[j]
      BY <1>4, <2>5
    <3>2. renewal[j].got \in redeemable
      BY <2>5, <3>1 DEF Unseen
    <3> QED
      BY <3>1, <3>2, <2>1, TokenTypes DEF Known, TypeOK
  <2> QED
    BY <1>4, <2>1, <2>2, <2>4, <2>5
<1> QED
  BY <1>1, <1>3, <1>4 DEF Shape, Gets

-----------------------------------------------------------------------------
\* The vault: its token is redeemable, or about to be replaced.
LEMMA NextSeenAccount ==
  ASSUME TypeOK, SeenAccount, [Next]_vars
  PROVE  SeenAccount'
BY NextShape DEF Shape, Reads, SeenAccount

LEMMA NextVaultGood ==
  ASSUME TypeOK, Unseen, VaultGood, [Next]_vars
  PROVE  VaultGood'
<1>1. Shape
  BY NextShape
<1>2. SUFFICES ASSUME ~harmed', vault' # NoAccount
               PROVE  vault' \in redeemable' \/ BeingReplaced'
  BY DEF VaultGood
<1>3. ~harmed
  BY <1>1, <1>2 DEF Shape, Grows
<1>4. CASE vault' = vault /\ vault \in redeemable
  <2>1. CASE vault \in redeemable'
    BY <2>1, <1>4
  <2>2. CASE vault \notin redeemable'
    <3>1. PICK i \in Instances : renewal'[i].at = "store" /\ renewal'[i].tried = vault
      BY <2>2, <1>1, <1>2, <1>4 DEF Shape, Spends
    <3> QED
      BY <3>1, <1>4 DEF BeingReplaced
  <2> QED
    BY <2>1, <2>2
<1>5. CASE vault' = vault /\ BeingReplaced
  <2>1. PICK i \in Instances : renewal[i].at = "store" /\ renewal[i].tried = vault
    BY <1>5 DEF BeingReplaced
  <2>2. renewal'[i].at = "store"
    BY <1>1, <1>2, <1>5, <2>1 DEF Shape, Stores, Unseen
  <2>3. renewal'[i].tried = vault
    BY <1>1, <2>1, <2>2 DEF Shape, Keeps, Behind, RenewalSteps
  <2> QED
    BY <1>5, <2>2, <2>3 DEF BeingReplaced
<1>6. ASSUME NEW i \in Instances, renewal[i].at = "store", renewal'[i].at = "leave",
             vault' = renewal[i].got
      PROVE  vault' \in redeemable'
  <2>1. vault' \in redeemable /\ \A j \in Instances : renewal[j].tried # vault'
    BY <1>6 DEF Unseen
  <2> QED
    BY <2>1, <1>1 DEF Shape, Spends
<1>7. \/ vault' = vault
      \/ vault' \in redeemable'
      \/ \E i \in Instances : /\ renewal[i].at = "store" /\ renewal'[i].at = "leave"
                              /\ vault' = renewal[i].got
  BY <1>1, <1>2 DEF Shape, Writes
<1>8. vault' = vault => vault \in redeemable \/ BeingReplaced
  BY <1>2, <1>3 DEF VaultGood
<1> QED
  BY <1>4, <1>5, <1>6, <1>7, <1>8

LEMMA NextSpentTried ==
  ASSUME TypeOK, Known, SpentTried, [Next]_vars
  PROVE  SpentTried'
<1> SUFFICES ASSUME NEW i \in Instances, renewal'[i].at = "refused"
             PROVE  renewal'[i].tried \notin redeemable'
  BY DEF SpentTried
<1>1. Shape
  BY NextShape
<1>2. renewal'[i].tried = renewal[i].tried
  BY <1>1 DEF Shape, Keeps, Behind, RenewalSteps
<1>3. renewal[i].tried \notin redeemable
  BY <1>1 DEF Shape, IsRefused, SpentTried
<1>4. CASE redeemable' = redeemable
  BY <1>2, <1>3, <1>4
<1>5. CASE issued' = issued + 1 /\ redeemable' \subseteq redeemable \cup {issued'}
  <2>1. renewal[i].tried <= issued /\ renewal[i].tried \in Nat /\ issued \in Nat
    BY TokenTypes DEF Known, TypeOK
  <2>2. renewal[i].tried # issued'
    BY <1>5, <2>1
  <2> QED
    BY <1>2, <1>3, <1>5, <2>2
<1> QED
  BY <1>1, <1>4, <1>5 DEF Shape, Issues

\* A renewal does not bring back an account that is gone.
LEMMA NextStores ==
  ASSUME TypeOK, [Next]_vars,
         NEW j \in Instances, renewal[j].at = "store", renewal'[j].at = "leave",
         vault = NoAccount
  PROVE  vault' = NoAccount
<1>1. ASSUME NEW i \in Instances, EditRead(i) \/ EditWrite(i) \/ SignIn(i) \/ SignOut(i)
      PROVE  renewal'[j].at = renewal[j].at
  BY <1>1 DEF TypeOK, EditRead, EditWrite, SignIn, SignOut
<1>2. ASSUME NEW i \in Instances, Store(i) \/ Drop(i)
      PROVE  vault' = NoAccount
  BY <1>2 DEF Store, Drop
<1>3. ASSUME NEW i \in Instances,
             \/ Renew(i) \/ EnterLock(i) \/ Overtake(i) \/ ReadAgain(i) \/ Exchange(i)
             \/ Refused(i) \/ AfterRefusal(i) \/ DropRead(i) \/ LeaveLock(i)
             \/ ExchangeFails(i) \/ Crash(i)
      PROVE  vault' = vault
  BY <1>3 DEF Renew, EnterLock, Overtake, ReadAgain, Exchange, Refused, AfterRefusal, DropRead,
     LeaveLock, ExchangeFails, Crash
<1>4. CASE UNCHANGED vars
  BY <1>4 DEF vars
<1> QED
  BY <1>1, <1>2, <1>3, <1>4 DEF Next, Renewing

\* A token comes back into an empty vault, or another one into it, by a sign-in,
\* by a renewal of an account that is there, or at the cost of harm.
LEMMA NewToken ==
  ASSUME TypeOK, [Next]_vars, ~harmed', vault' \notin {NoAccount, vault},
         NEW i \in Instances, renewal'[i].at # "idle", ~renewal'[i].signedIn
  PROVE  /\ vault # NoAccount
         /\ \E j \in Instances : renewal[j].at = "store" /\ renewal'[j].at = "leave"
<1>1. PICK j \in Instances : /\ renewal[j].at = "store" /\ renewal'[j].at = "leave"
                             /\ vault' = renewal[j].got
  BY NextShape DEF Shape, Writes
<1>2. vault = NoAccount => vault' = NoAccount
  BY <1>1, NextStores
<1> QED
  BY <1>1, <1>2

LEMMA NextUndisturbed ==
  ASSUME TypeOK, InSection, Exclusive, Undisturbed, [Next]_vars
  PROVE  Undisturbed'
<1> SUFFICES ASSUME NEW i \in Instances, renewal'[i].at = "exchange", ~renewal'[i].signedIn,
                    vault' # NoAccount, ~(stolen' > 0), ~harmed'
             PROVE  vault' = renewal'[i].tried
  BY DEF Undisturbed
<1>1. Shape
  BY NextShape
<1>2. stolen = 0 /\ ~harmed
  BY <1>1, NextTypeOK DEF Shape, Grows, TypeOK
<1>3. renewal'[i].tried = renewal[i].tried /\ ~renewal[i].signedIn
  BY <1>1 DEF Shape, Keeps, Behind, RenewalSteps
<1>4. CASE ~Rotated(i) /\ vault' = vault
  BY <1>3, <1>4 DEF Rotated
<1>5. CASE renewal[i].at = "exchange"
  <2>1. vault = NoAccount \/ vault = renewal[i].tried
    BY <1>2, <1>3, <1>5 DEF Undisturbed
  <2>2. ASSUME NEW j \in Instances, renewal[j].at = "store"
        PROVE  FALSE
    <3>1. i \in inside /\ j \in inside
      BY <1>5, <2>2 DEF InSection, Behind, RenewalSteps
    <3> QED
      BY <3>1, <1>2, <1>5, <2>2 DEF Exclusive
  <2>3. vault' = vault
    BY <2>2, NewToken
  <2> QED
    BY <2>1, <2>3, <1>3
<1> QED
  BY <1>1, <1>4, <1>5 DEF Shape, Sends

LEMMA NextRefusedForAReason ==
  ASSUME TypeOK, InSection, Exclusive, VaultGood, Undisturbed, RefusedForAReason, [Next]_vars
  PROVE  RefusedForAReason'
<1> SUFFICES ASSUME NEW i \in Instances, renewal'[i].at = "refused", ~renewal'[i].signedIn,
                    vault' # NoAccount, ~(stolen' > 0), ~harmed'
             PROVE  FALSE
  BY DEF RefusedForAReason
<1>1. Shape
  BY NextShape
<1>2. stolen = 0 /\ ~harmed
  BY <1>1, NextTypeOK DEF Shape, Grows, TypeOK
<1>3. ~renewal[i].signedIn
  BY <1>1 DEF Shape, Keeps, Behind, RenewalSteps
<1>4. CASE renewal[i].at = "refused"
  <2>1. vault = NoAccount
    BY <1>2, <1>3, <1>4 DEF RefusedForAReason
  <2> QED
    BY <2>1, NewToken
<1>5. CASE /\ renewal[i].at = "exchange" /\ renewal[i].tried \notin redeemable
           /\ UNCHANGED <<redeemable, vault, stolen, harmed>>
  <2>1. vault = renewal[i].tried
    BY <1>2, <1>3, <1>5 DEF Undisturbed
  <2>2. PICK j \in Instances : renewal[j].at = "store"
    BY <2>1, <1>2, <1>5 DEF VaultGood, BeingReplaced
  <2>3. i \in inside /\ j \in inside
    BY <1>5, <2>2 DEF InSection, Behind, RenewalSteps
  <2> QED
    BY <1>2, <1>5, <2>2, <2>3 DEF Exclusive
<1> QED
  BY <1>1, <1>4, <1>5 DEF Shape, IsRefused

-----------------------------------------------------------------------------
LEMMA InitRenewalInv == Init => RenewalInv
<1> SUFFICES ASSUME Init PROVE RenewalInv
  OBVIOUS
<1>1. \A i \in Instances : /\ renewal[i].at = "idle" /\ renewal[i].tried = NoAccount
                           /\ edit[i].at = "idle" /\ edit[i].seen = NoAccount
  BY DEF Init, NoRenewal, NoEdit
<1>2. redeemable = {1} /\ issued = 1 /\ vault = 1 /\ inside = {}
  BY DEF Init, Lock!LockInit
<1>3. InSection /\ Exclusive
  BY <1>1, <1>2 DEF InSection, Exclusive, Behind
<1>4. Known
  BY <1>1, <1>2 DEF Known, NoAccount
<1>5. Unseen /\ SeenAccount /\ VaultGood /\ SpentTried /\ Undisturbed /\ RefusedForAReason
  BY <1>1, <1>2 DEF Unseen, SeenAccount, VaultGood, SpentTried, Undisturbed, RefusedForAReason
<1> QED
  BY <1>3, <1>4, <1>5, InitTypeOK DEF RenewalInv

LEMMA NextRenewalInv == RenewalInv /\ [Next]_vars => RenewalInv'
BY NextTypeOK, NextSection, NextExclusive, NextKnown, NextUnseen, NextSeenAccount, NextVaultGood,
   NextSpentTried, NextUndisturbed, NextRefusedForAReason
DEF RenewalInv

LEMMA RenewalInvariant == Spec => []RenewalInv
BY InitRenewalInv, NextRenewalInv, PTL DEF Spec

\* Types, for any instances and bounds.
THEOREM CredentialTypes == Spec => []TypeOK
<1>1. RenewalInv => TypeOK
  BY DEF RenewalInv
<1> QED
  BY <1>1, RenewalInvariant, PTL

(***************************************************************************)
(* github-auth-service.ts, renewCredentials: behind the lock, and with the *)
(* vault read again, GitHub refuses the renewal of an account that is      *)
(* still signed in only after a holder was overtaken, or a token was       *)
(* redeemed and lost, or written back spent.                               *)
(***************************************************************************)
THEOREM RefusalsHaveAReason == Spec => []RefusedForAReason
<1>1. RenewalInv => RefusedForAReason
  BY DEF RenewalInv
<1> QED
  BY <1>1, RenewalInvariant, PTL

-----------------------------------------------------------------------------
LEMMA ToDrop ==
  ASSUME TypeOK, [Next]_vars, NEW i \in Instances, renewal'[i].at \in {"drop", "dropping"}
  PROVE  \/ renewal[i].at \in {"drop", "dropping"}
         \/ AfterRefusal(i) /\ renewal[i].at = "refused" /\ ~Rotated(i)
<1>1. ASSUME NEW j \in Instances, AfterRefusal(j)
      PROVE  \/ renewal[i].at \in {"drop", "dropping"}
             \/ AfterRefusal(i) /\ renewal[i].at = "refused" /\ ~Rotated(i)
  BY <1>1 DEF TypeOK, AfterRefusal, Step
<1>2. ASSUME NEW j \in Instances,
             EnterLock(j) \/ ReadAgain(j) \/ Refused(j) \/ ExchangeFails(j) \/ Store(j)
             \/ DropRead(j) \/ Drop(j)
      PROVE  renewal[i].at \in {"drop", "dropping"}
  <2>1. PICK from, to : /\ Step(j, from, to)
                        /\ to \in {"drop", "dropping"} => from = "drop"
    BY <1>2 DEF EnterLock, ReadAgain, Refused, ExchangeFails, Store, DropRead, Drop
  <2> QED
    BY <2>1 DEF TypeOK, Step
<1>3. ASSUME NEW j \in Instances, Exchange(j) \/ SignIn(j) \/ LeaveLock(j) \/ Crash(j)
      PROVE  renewal[i].at \in {"drop", "dropping"}
  <2>1. CASE Exchange(j) \/ SignIn(j)
    BY <2>1 DEF TypeOK, Exchange, SignIn
  <2>2. CASE LeaveLock(j) \/ Crash(j)
    BY <2>2 DEF TypeOK, LeaveLock, Crash, NoRenewal
  <2> QED
    BY <1>3, <2>1, <2>2
<1>4. ASSUME NEW j \in Instances, Renew(j)
      PROVE  renewal[i].at \in {"drop", "dropping"}
  <2>1. [NoRenewal EXCEPT !.at = "waiting", !.tried = vault].at = "waiting"
    BY DEF NoRenewal
  <2> QED
    BY <1>4, <2>1 DEF TypeOK, Renew
<1>5. ASSUME NEW j \in Instances, Overtake(j) \/ EditRead(j) \/ EditWrite(j) \/ SignOut(j)
      PROVE  renewal' = renewal
  BY <1>5 DEF Overtake, EditRead, EditWrite, SignOut
<1>6. CASE UNCHANGED vars
  BY <1>6 DEF vars
<1> QED
  BY <1>1, <1>2, <1>3, <1>4, <1>5, <1>6 DEF Next, Renewing

LEMMA NextNotDropped ==
  ASSUME Prompt, RenewalInv, NotDroppedForARace, [Next]_vars
  PROVE  NotDroppedForARace'
<1> SUFFICES ASSUME NEW i \in Instances, renewal'[i].at \in {"drop", "dropping"},
                    ~renewal'[i].signedIn, vault' # NoAccount, ~harmed'
             PROVE  FALSE
  BY DEF NotDroppedForARace
<1>1. Shape
  BY NextShape DEF RenewalInv
<1>2. ~harmed
  BY <1>1 DEF Shape, Grows
<1>3. ~renewal[i].signedIn
  BY <1>1 DEF Shape, Keeps, Behind, RenewalSteps
<1>4. CASE renewal[i].at \in {"drop", "dropping"}
  <2>1. vault = NoAccount
    BY <1>2, <1>3, <1>4 DEF NotDroppedForARace
  <2> QED
    BY <2>1, NewToken DEF RenewalInv
<1>5. CASE AfterRefusal(i) /\ renewal[i].at = "refused" /\ ~Rotated(i)
  <2>1. vault' = vault /\ vault = renewal[i].tried
    BY <1>5 DEF AfterRefusal, Unlocked, Rotated
  <2>2. \A j \in Instances : renewal[j].at # "store"
    BY <1>5 DEF AfterRefusal
  <2>3. vault \notin redeemable
    BY <1>5, <2>1 DEF SpentTried, RenewalInv
  <2> QED
    BY <1>2, <2>1, <2>2, <2>3 DEF VaultGood, BeingReplaced, RenewalInv
<1> QED
  BY <1>4, <1>5, ToDrop DEF RenewalInv

(***************************************************************************)
(* github-auth-service.ts, credentialAfterRefusal: when an answer is stored *)
(* within the loser's window, losing a race, an overtaken lock included,   *)
(* never signs the user out.  Prompt is that window; without it the code   *)
(* does give the account up while a sibling still stores.                  *)
(***************************************************************************)
THEOREM RacesDoNotSignOut == ASSUME Prompt PROVE Spec => []NotDroppedForARace
<1>1. Init => NotDroppedForARace
  BY DEF Init, NoRenewal, NotDroppedForARace
<1>2. RenewalInv /\ NotDroppedForARace /\ [Next]_vars => NotDroppedForARace'
  BY NextNotDropped
<1> QED
  BY <1>1, <1>2, RenewalInvariant, PTL DEF Spec
=============================================================================
