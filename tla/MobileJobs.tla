----------------------------- MODULE MobileJobs -----------------------------
(***************************************************************************)
(* The jobs of the Seeker app and what it remembers of them:               *)
(* handleJobAssign and the result messages of WebSocketService.ts, and the *)
(* counters and the history of WalletProvider.tsx, which are kept in       *)
(* AsyncStorage.  Every job is one TASK, worth one unit of earnings.       *)
(*                                                                         *)
(* handleJobAssign awaits the signing provider before it sends the answer  *)
(* and counts the job, so the connection may have changed by then.         *)
(***************************************************************************)
EXTENDS MobileLink, Sequences, Functions

CONSTANTS
    Jobs,
    HistoryMax,   \* entries kept of the history (50)
    MaxKills      \* bound: times the app is killed

ASSUME JobsAssumption ==
    /\ IsFiniteSet(Jobs)
    /\ HistoryMax \in Nat \ {0}
    /\ MaxKills \in Nat

VARIABLES
    job,           \* [Jobs -> what became of the job_assign message]
    news,          \* [Jobs -> SUBSET News]: messages about the job that arrived
    \* WebSocketService
    history,       \* _jobHistory: its job ids, latest first
    earnings,      \* _totalEarnings
    \* WalletProvider's state, and what is in storage
    jobHistory, jobsCompleted, totalEarnings,
    shared,        \* jobHistory and _jobHistory are one array
    stored,
    kills

ledgerVars == <<history, earnings, jobHistory, jobsCompleted, totalEarnings, shared, stored>>
linkButKeys == <<serviceVars, provider, coordinatorUrl, calls, conn, screenVars, autoConnect,
                 raced, rekeyed>>
vars == <<linkVars, job, news, ledgerVars, kills>>

News == {"feedback", "payment"}

\* ok: executeTask did not throw; via: the socket of the job_assign, None once it is closed;
\* as: the key that socket was registered under; key: what signed the receipt
JobState == [state: {"new", "signing", "sent", "dropped", "unsigned", "rejected", "killed"},
             ok: BOOLEAN, via: Sockets \cup {None}, as: Keys \cup {None},
             signer: Modes \cup {None}, key: Keys \cup {None}]

NewJob == [state |-> "new", ok |-> FALSE, via |-> None, as |-> None, signer |-> None,
           key |-> None]

InState(S) == {j \in Jobs : job[j].state \in S}
\* jobs handleJobAssign went through with success
Succeeded == {j \in InState({"sent", "dropped"}) : job[j].ok}

JobsInit ==
    /\ Init
    /\ job = [j \in Jobs |-> NewJob]
    /\ news = [j \in Jobs |-> {}]
    /\ history = <<>> /\ earnings = 0
    /\ jobHistory = <<>> /\ jobsCompleted = 0 /\ totalEarnings = 0
    /\ shared = FALSE
    /\ stored = [history |-> <<>>, completed |-> 0, earnings |-> 0]
    /\ kills = 0

(***************************************************************************)
(* Listeners of WalletProvider                                             *)
(***************************************************************************)
Capped(seq) == SubSeq(seq, 1, IF Len(seq) > HistoryMax THEN HistoryMax ELSE Len(seq))

\* jobCompleted: list is the state's array as the listener finds it; the new
\* list is a fresh array.  The write to storage may or may not land before the
\* app is killed, so it is a step of its own (Persist); the writes of one tick
\* are taken to land together.
jobCompletedEvent(j, list, success) ==
    /\ jobHistory' = Capped(<<j>> \o list)
    /\ jobsCompleted' = IF success THEN jobsCompleted + 1 ELSE jobsCompleted
    /\ shared' = FALSE

Persist ==
    LET current == [history |-> jobHistory, completed |-> jobsCompleted,
                    earnings |-> totalEarnings]
    IN  /\ stored # current
        /\ stored' = current
        /\ UNCHANGED <<linkVars, job, news, history, earnings, jobHistory,
                       jobsCompleted, totalEarnings, shared, kills>>

(***************************************************************************)
(* handleJobAssign                                                         *)
(***************************************************************************)
\* Up to the await.  A TASK without an input is rejected.
handleJobAssign(s, j) ==
    /\ conn[s].state = "open" /\ conn[s].registered # None /\ ~conn[s].reply
    /\ job[j] = NewJob
    /\ \/ \E ok \in BOOLEAN :
              job' = [job EXCEPT ![j] = [state |-> "signing", ok |-> ok, via |-> s,
                                         as |-> conn[s].registered, signer |-> provider,
                                         key |-> None]]
       \/ job' = [job EXCEPT ![j].state = "rejected"]
    /\ UNCHANGED <<linkVars, news, ledgerVars, kills>>

\* The rest, once the provider has signed or failed.  unshift changes the array
\* in place: while it is shared, the context's list has the job already when
\* the listener adds it.
Recorded(j, success) ==
    LET added == <<j>> \o history
    IN  /\ history' = Capped(added)
        /\ earnings' = IF success THEN earnings + 1 ELSE earnings
        /\ totalEarnings' = IF success THEN earnings' ELSE totalEarnings
        /\ jobCompletedEvent(j, IF shared THEN added ELSE jobHistory, success)
        /\ UNCHANGED stored

\* The key that signs, once the provider has its key; a wallet may also refuse.
SigningKey(mode) == IF mode = "wallet" THEN mwa_getPublicKeyHex ELSE device

buildJobCompleteWithProvider(mode) ==
    IF mode = "wallet" THEN mwa_getPublicKeyHex # None /\ UNCHANGED keyVars
    ELSE device_getPublicKeyHex /\ UNCHANGED wallet

Signed(j) ==
    \E mode \in {job[j].signer} :
        /\ buildJobCompleteWithProvider(mode)
        /\ job' = [job EXCEPT ![j].state = IF CanSend(conn) THEN "sent" ELSE "dropped",
                              ![j].key = SigningKey(mode)']

\* Faulty variant: a receipt that could not be signed is counted all the same.
receiptBuilt_CountsUnsigned(j) ==
    /\ job[j].state = "signing"
    /\ \/ Signed(j) /\ Recorded(j, job[j].ok)
       \/ /\ job[j].signer = "wallet"
          /\ job' = [job EXCEPT ![j].state = "unsigned"]
          /\ Recorded(j, TRUE)
          /\ UNCHANGED keyVars
    /\ UNCHANGED <<linkButKeys, news, kills>>

receiptBuilt(j) ==
    /\ job[j].state = "signing"
    /\ \/ Signed(j) /\ Recorded(j, job[j].ok)
       \/ /\ job[j].signer = "wallet"
          /\ job' = [job EXCEPT ![j].state = "unsigned"]
          /\ Recorded(j, FALSE)
          /\ UNCHANGED keyVars
    /\ UNCHANGED <<linkButKeys, news, kills>>

(***************************************************************************)
(* feedback_posted, feedback_failed, payment_posted and payment_failed     *)
(* update the entry found in the history and emit jobCompleted for it.     *)
(***************************************************************************)
handleNews(s, j, kind) ==
    /\ conn[s].state = "open"
    /\ job[j].state = "sent" /\ kind \notin news[j]
    /\ news' = [news EXCEPT ![j] = @ \cup {kind}]
    /\ \/ /\ j \in Range(history)
          /\ jobCompletedEvent(j, jobHistory, job[j].ok)
       \/ /\ j \notin Range(history)
          /\ UNCHANGED <<jobHistory, jobsCompleted, shared>>
    /\ UNCHANGED <<linkVars, job, history, earnings, totalEarnings, stored, kills>>

handleMessage(s) ==
    \E j \in Jobs : handleJobAssign(s, j) \/ \E kind \in News : handleNews(s, j, kind)

(***************************************************************************)
(* The app is killed and loads its storage when it starts again.  The      *)
(* restored history is one array for the service and the context.          *)
(***************************************************************************)
setEarnings(amount) == earnings' = amount

setJobHistory(list) == history' = list /\ shared' = (list # <<>>)

restart ==
    /\ kills < MaxKills
    /\ kills' = kills + 1
    /\ relaunch
    /\ job' = [j \in Jobs |->
                  [job[j] EXCEPT !.state = IF @ = "signing" THEN "killed" ELSE @,
                                 !.via = None]]
    /\ setJobHistory(stored.history) /\ jobHistory' = stored.history
    /\ setEarnings(stored.earnings) /\ totalEarnings' = stored.earnings
    /\ jobsCompleted' = stored.completed
    /\ UNCHANGED <<news, stored>>

\* A job's socket is forgotten when it closes.
Follow(next) ==
    [j \in Jobs |-> IF next[j].via # None /\ conn'[next[j].via] = Closed
                    THEN [next[j] EXCEPT !.via = None] ELSE next[j]]

Next ==
    \/ LinkNext /\ job' = Follow(job) /\ UNCHANGED <<news, ledgerVars, kills>>
    \/ \E s \in Sockets : handleMessage(s)
    \/ \E j \in Jobs : receiptBuilt(j)
    \/ Persist
    \/ restart

Spec == JobsInit /\ [][Next]_vars

-----------------------------------------------------------------------------
\* Every variable, of the connection and of the jobs, has its type; no key is
\* made but the ones getOrCreateKeypair may make.
TypeOK ==
    /\ LinkTypeOK
    /\ job \in [Jobs -> JobState]
    /\ news \in [Jobs -> SUBSET News]
    /\ {history, jobHistory, stored.history} \subseteq Seq(Jobs)
    /\ {earnings, totalEarnings, jobsCompleted, stored.completed, stored.earnings} \subseteq Nat
    /\ shared \in BOOLEAN
    /\ kills \in 0..MaxKills

\* While the socket of the job_assign is still there, the answer is signed by
\* the key that socket is registered under - the key the coordinator verifies
\* the receipt with - unless the user changed the signing mode after connect(),
\* which keeps the connection, or connect() calls overlapped.
ReceiptVerifies ==
    \A j \in Jobs :
        job[j].state = "sent" /\ job[j].via # None /\ ~rekeyed /\ ~raced
            => job[j].key = job[j].as

\* send() drops what it cannot deliver without an error, yet a job that was
\* counted is not lost while its connection lives: the answer is dropped only
\* after the socket of the job_assign has closed (or after overlapping calls
\* replaced ws by a socket that is still dialling).
DroppedOnlyIfClosed ==
    \A j \in Jobs : job[j].state = "dropped" /\ job[j].via # None => raced

\* handleJobAssign adds to the earnings, the messages about feedback and
\* payments do not, and a restart restores what the screen showed: the total is
\* never more than the jobs that succeeded, and exact if the app was not killed.
EarnedOncePerJob ==
    /\ earnings <= Cardinality(Succeeded)
    /\ kills = 0 => earnings = Cardinality(Succeeded)
    /\ totalEarnings = earnings

(***************************************************************************)
(* The inductive invariant: LinkInv, and that a job whose socket is there  *)
(* came in on a socket that is open and was acknowledged, for the provider *)
(* that is still the one in use.                                           *)
(***************************************************************************)
SoundJob(j) ==
    job[j].via # None =>
        /\ conn[job[j].via].state = "open" /\ ~conn[job[j].via].reply
        /\ job[j].as # None /\ conn[job[j].via].registered = job[j].as
        /\ ~rekeyed => job[j].signer = provider
        /\ job[j].state # "dropped"
        /\ job[j].state = "sent" /\ ~rekeyed => job[j].key = job[j].as

JobsInv ==
    /\ TypeOK /\ LinkInv
    /\ raced \/ \A j \in Jobs : SoundJob(j)
    /\ EarnedOncePerJob
    /\ stored.earnings <= earnings
=============================================================================
