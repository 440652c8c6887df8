--------------------------- MODULE GitHubCredentials ---------------------------
(***************************************************************************)
(* One signed-in GitHub account in the vault that every instance on a      *)
(* config root shares: renewing its single-use refresh token behind the    *)
(* cross-process lock, next to sign-in, sign-out and the edits that write  *)
(* the whole account file back.                                            *)
(*                                                                         *)
(* A step ends at each await: reading the vault, writing it and GitHub's   *)
(* answer are steps of their own.  A refresh token is a number, GitHub the *)
(* set of numbers it still redeems; the access token a renewal returns is  *)
(* left out, and a token a sibling just stored counts as fresh.  The lock  *)
(* is what CrossProcessMutex implements, LeasedLock.                       *)
(***************************************************************************)
EXTENDS Naturals, FiniteSets

CONSTANTS
    Instances,
    MaxTokens,      \* bound on the refresh tokens GitHub issues
    MaxStolen,      \* bound on the waits that end in overtaking
    Prompt,         \* an answer is stored within the loser's recovery window
    Faults          \* instances crash and answers get lost

ASSUME Bounds ==
    IsFiniteSet(Instances) /\ MaxTokens \in Nat \ {0} /\ MaxStolen \in Nat

VARIABLES
    redeemable,     \* GitHub: the refresh tokens it would exchange
    issued,         \* GitHub: how many it issued
    vault,          \* the refresh token stored for the account, 0 without account
    renewal,        \* each instance's renewal: its step, the token it read, the one it got
    edit,           \* each instance's edit of the account file: its step and snapshot
    fileLock,       \* who is the outermost caller of each instance's withFileLock
    inside, stolen, \* the cross-process lock, see LeasedLock
    harmed          \* history: a token was redeemed and lost, or written back spent

vars == <<redeemable, issued, vault, renewal, edit, fileLock, inside, stolen, harmed>>

Lock == INSTANCE LeasedLock WITH Callers <- Instances

NoAccount == 0
Tokens == 1..MaxTokens
RenewalSteps == {"idle", "waiting", "entered", "exchange", "store", "refused", "drop", "dropping",
                 "leave"}
NoRenewal == [at |-> "idle", tried |-> NoAccount, got |-> NoAccount, signedIn |-> FALSE]
NoEdit == [at |-> "idle", seen |-> NoAccount]

Init ==
    /\ redeemable = {1} /\ issued = 1
    /\ vault = 1
    /\ renewal = [i \in Instances |-> NoRenewal]
    /\ edit = [i \in Instances |-> NoEdit]
    /\ fileLock = [i \in Instances |-> "free"]
    /\ Lock!LockInit
    /\ harmed = FALSE

\* withFileLock: fileDepth is a count of the whole instance, so a call made while
\* another holds the lock runs inline, as if it were nested in that one.
TakeFile(i, who) ==
    fileLock' = IF fileLock[i] = "free" THEN [fileLock EXCEPT ![i] = who] ELSE fileLock
LeaveFile(i, who) ==
    fileLock' = IF fileLock[i] = who THEN [fileLock EXCEPT ![i] = "free"] ELSE fileLock

Step(i, from, to) == renewal[i].at = from /\ renewal' = [renewal EXCEPT ![i].at = to]
Unlocked == UNCHANGED <<fileLock, inside, stolen>>
GitHubIdle == UNCHANGED <<redeemable, issued>>

\* A token is read that is about to expire, or the caller forces a refresh: the
\* renewal of an account is shared, and it takes the file lock.
Renew(i) ==
    /\ renewal[i].at = "idle" /\ vault # NoAccount
    /\ renewal' = [renewal EXCEPT ![i] = [NoRenewal EXCEPT !.at = "waiting", !.tried = vault]]
    /\ TakeFile(i, "renewal")
    /\ GitHubIdle
    /\ UNCHANGED <<vault, edit, inside, stolen, harmed>>

\* The cross-process lock is acquired.
EnterLock(i) ==
    /\ Step(i, "waiting", "entered")
    /\ Lock!Enter(i)
    /\ GitHubIdle
    /\ UNCHANGED <<vault, edit, fileLock, harmed>>

\* REFRESH_LOCK_WAIT_MS passed: the waiter takes the lock away from its holder.
Overtake(i) ==
    /\ renewal[i].at = "waiting" /\ stolen < MaxStolen
    /\ Lock!Steal
    /\ GitHubIdle
    /\ UNCHANGED <<vault, renewal, edit, fileLock, harmed>>

\* The vault holds a token other than the one tried.
Rotated(i) == vault \notin {NoAccount, renewal[i].tried}

\* Mutant: what was read before the lock is still good.
TrustBefore(i) ==
    /\ Step(i, "entered", "exchange")
    /\ GitHubIdle /\ Unlocked
    /\ UNCHANGED <<vault, edit, harmed>>

\* Both locks held, the vault is read again: a token a sibling stored is used as
\* it is, otherwise the one tried is sent.
ReadAgain(i) ==
    /\ Step(i, "entered", IF Rotated(i) THEN "leave" ELSE "exchange")
    /\ GitHubIdle /\ Unlocked
    /\ UNCHANGED <<vault, edit, harmed>>

\* GitHub redeems the token and its answer arrives.
Exchange(i) ==
    /\ renewal[i].at = "exchange" /\ renewal[i].tried \in redeemable /\ issued < MaxTokens
    /\ issued' = issued + 1
    /\ redeemable' = (redeemable \ {renewal[i].tried}) \cup {issued'}
    /\ renewal' = [renewal EXCEPT ![i].at = "store", ![i].got = issued']
    /\ Unlocked
    /\ UNCHANGED <<vault, edit, harmed>>

\* GitHub refuses a token it does not redeem.
Refused(i) ==
    /\ renewal[i].tried \notin redeemable
    /\ Step(i, "exchange", "refused")
    /\ GitHubIdle /\ Unlocked
    /\ UNCHANGED <<vault, edit, harmed>>

\* The request fails on the way there, or on the way back after GitHub redeemed
\* the token: both look the same, and the stored credential is kept.
ExchangeFails(i) ==
    /\ Faults
    /\ Step(i, "exchange", "leave")
    /\ \/ GitHubIdle /\ UNCHANGED harmed
       \/ /\ renewal[i].tried \in redeemable /\ issued < MaxTokens
          /\ issued' = issued + 1
          /\ redeemable' = (redeemable \ {renewal[i].tried}) \cup {issued'}
          /\ harmed' = TRUE
    /\ Unlocked
    /\ UNCHANGED <<vault, edit>>

\* replaceCredentials; an account signed out meanwhile is not brought back, and its
\* new token is lost.
Store(i) ==
    /\ Step(i, "store", "leave")
    /\ vault' = IF vault = NoAccount THEN NoAccount ELSE renewal[i].got
    /\ harmed' = (harmed \/ vault' # renewal[i].got)
    /\ GitHubIdle /\ Unlocked
    /\ UNCHANGED edit

\* Mutant: a refusal is final.
DropAtOnce(i) ==
    /\ Step(i, "refused", "drop")
    /\ GitHubIdle /\ Unlocked
    /\ UNCHANGED <<vault, edit, harmed>>

\* The vault is polled for the token of whoever redeemed the one refused; when the
\* window is over without one the account is given up.
AfterRefusal(i) ==
    /\ \/ Rotated(i) /\ Step(i, "refused", "leave")
       \/ /\ ~Rotated(i)
          /\ Prompt => \A j \in Instances : renewal[j].at # "store"
          /\ Step(i, "refused", "drop")
    /\ GitHubIdle /\ Unlocked
    /\ UNCHANGED <<vault, edit, harmed>>

\* discardAccount reads the file, and then writes it without the account.
DropRead(i) ==
    /\ Step(i, "drop", "dropping")
    /\ GitHubIdle /\ Unlocked
    /\ UNCHANGED <<vault, edit, harmed>>

Drop(i) ==
    /\ Step(i, "dropping", "leave")
    /\ vault' = NoAccount
    /\ GitHubIdle /\ Unlocked
    /\ UNCHANGED <<edit, harmed>>

\* Mutant: the cross-process lock is kept.
LeaveLocked(i) ==
    /\ renewal[i].at = "leave"
    /\ renewal' = [renewal EXCEPT ![i] = NoRenewal]
    /\ LeaveFile(i, "renewal")
    /\ GitHubIdle
    /\ UNCHANGED <<vault, edit, inside, stolen, harmed>>

\* The cross-process lock is released, then the file lock.
LeaveLock(i) ==
    /\ renewal[i].at = "leave"
    /\ renewal' = [renewal EXCEPT ![i] = NoRenewal]
    /\ inside' = inside \ {i}
    /\ LeaveFile(i, "renewal")
    /\ GitHubIdle
    /\ UNCHANGED <<vault, edit, stolen, harmed>>

-----------------------------------------------------------------------------
\* switchAccount and rememberLogin: the file is read, changed elsewhere and written
\* back with the credentials it was read with.
EditRead(i) ==
    /\ edit[i].at = "idle" /\ vault # NoAccount
    /\ edit' = [edit EXCEPT ![i] = [at |-> "write", seen |-> vault]]
    /\ TakeFile(i, "edit")
    /\ GitHubIdle
    /\ UNCHANGED <<vault, renewal, inside, stolen, harmed>>

EditWrite(i) ==
    /\ edit[i].at = "write"
    /\ vault' = edit[i].seen
    /\ edit' = [edit EXCEPT ![i] = NoEdit]
    /\ harmed' = (harmed \/ vault' # vault)
    /\ LeaveFile(i, "edit")
    /\ GitHubIdle
    /\ UNCHANGED <<renewal, inside, stolen>>

\* addAccount: the account is signed in with a token of its own.
SignIn(i) ==
    /\ edit[i].at = "idle" /\ issued < MaxTokens
    /\ issued' = issued + 1
    /\ redeemable' = redeemable \cup {issued'}
    /\ vault' = issued'
    /\ renewal' = [j \in Instances |-> [renewal[j] EXCEPT !.signedIn = @ \/ renewal[j].at # "idle"]]
    /\ Unlocked
    /\ UNCHANGED <<edit, harmed>>

\* logout.
SignOut(i) ==
    /\ edit[i].at = "idle" /\ vault # NoAccount
    /\ vault' = NoAccount
    /\ GitHubIdle /\ Unlocked
    /\ UNCHANGED <<renewal, edit, harmed>>

\* An instance goes away and comes back: a token it got and had not stored is lost.
Crash(i) ==
    /\ Faults
    /\ renewal' = [renewal EXCEPT ![i] = NoRenewal]
    /\ edit' = [edit EXCEPT ![i] = NoEdit]
    /\ fileLock' = [fileLock EXCEPT ![i] = "free"]
    /\ inside' = inside \ {i}
    /\ harmed' = (harmed \/ renewal[i].at = "store")
    /\ GitHubIdle
    /\ UNCHANGED <<vault, stolen>>

Renewing(i) ==
    \/ EnterLock(i) \/ Overtake(i) \/ ReadAgain(i) \/ Exchange(i) \/ Refused(i)
    \/ Store(i) \/ AfterRefusal(i) \/ DropRead(i) \/ Drop(i) \/ LeaveLock(i)

Next ==
    \E i \in Instances :
        \/ Renew(i) \/ Renewing(i) \/ ExchangeFails(i)
        \/ EditRead(i) \/ EditWrite(i) \/ SignIn(i) \/ SignOut(i) \/ Crash(i)

Spec == Init /\ [][Next]_vars

-----------------------------------------------------------------------------
TypeOK ==
    /\ redeemable \subseteq Tokens /\ issued \in Tokens
    /\ vault \in Tokens \cup {NoAccount}
    /\ renewal \in [Instances -> [at : RenewalSteps, tried : Tokens \cup {NoAccount},
                                  got : Tokens \cup {NoAccount}, signedIn : BOOLEAN]]
    /\ edit \in [Instances -> [at : {"idle", "write"}, seen : Tokens \cup {NoAccount}]]
    /\ fileLock \in [Instances -> {"free", "renewal", "edit"}]
    /\ inside \subseteq {i \in Instances : renewal[i].at \notin {"idle", "waiting"}}
    /\ stolen \in 0..MaxStolen
    /\ harmed \in BOOLEAN

\* github-auth-service.ts:551: behind the lock, and with the vault read again, the
\* renewal of an account that is still signed in is refused only after a holder was
\* overtaken, or a token was lost or written back.
RefusedForAReason ==
    \A i \in Instances :
        renewal[i].at = "refused" /\ vault # NoAccount /\ ~renewal[i].signedIn
            => stolen > 0 \/ harmed

\* github-auth-service.ts:641: losing a race, an overtaken lock included, never signs
\* the user out: a signed-in account is given up only after a token was lost or
\* written back.
NotDroppedForARace ==
    \A i \in Instances :
        renewal[i].at \in {"drop", "dropping"} /\ vault # NoAccount /\ ~renewal[i].signedIn
            => harmed

\* github-auth-service.ts:222: no writer restores a token GitHub has already spent.
SpentStaysSpent == [][vault' \notin {NoAccount, vault} => vault' \in redeemable']_vars
=============================================================================
