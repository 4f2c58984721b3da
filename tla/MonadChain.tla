----------------------------- MODULE MonadChain -----------------------------
(***************************************************************************)
(* What a chain coordinator writes to Monad: wrapped BOLT for settled jobs *)
(* (bolt/WrappedBoltDistributor.ts) and ERC-8004 feedback for completed    *)
(* ones (postFeedback in coordinator-monad and coordinator-solana), both   *)
(* through queueMonadTx, a chain of promises that lets one write go at a   *)
(* time.                                                                   *)
(*                                                                         *)
(* WrappedBoltDistributor handles its batches as BoltDistributor does: its *)
(* steps are those of Settlement, with a turn in the queue and a balance   *)
(* per worker added.  The tokens are minted to the coordinator itself, so  *)
(* a transfer of Settlement is a mint here.                                *)
(***************************************************************************)
EXTENDS Settlement, Functions

CONSTANTS
    FeedbackAttempts,  \* of postFeedback: 3 (coordinator-solana) or 1 (-monad)
    None               \* no promise to wait for

ASSUME MonadAssumption ==
    /\ IsFiniteSet(Pubkeys)
    /\ FeedbackAttempts \in Nat \ {0}
    /\ None \notin [kind: {"mint", "feedback"}, jobs: SUBSET Jobs]

VARIABLES
    chain,           \* the writes in queueMonadTx that have not settled
    tail,            \* monadTxQueue: the write a new one has to wait for
    workerBalances,  \* [Pubkeys -> Nat]
    feedback         \* [Jobs -> the postFeedback call for the job]

monadVars == <<chain, tail, workerBalances, feedback>>
allVars == <<vars, monadVars>>

\* A write is known by its kind and its jobs.
Mint(jobIds) == [kind |-> "mint", jobs |-> jobIds]
Note(j)      == [kind |-> "feedback", jobs |-> {j}]

\* A call is queued, sent, in its backoff, posted or failed.  sent counts the
\* transactions of the call that reached the chain, each of which is an entry of
\* the registry now, later (also after the call has given it up) or never (it
\* reverts); givenUp counts those that were not waited for.
NoFeedback == [stage |-> "none", attempt |-> 0, sent |-> 0, givenUp |-> 0]

MonadInit ==
    /\ Init
    /\ chain = {} /\ tail = None
    /\ workerBalances = [pk \in Pubkeys |-> 0]
    /\ feedback = [j \in Jobs |-> NoFeedback]

(***************************************************************************)
(* queueMonadTx.  c and t stand for chain and monadTxQueue at that point   *)
(* of the handler.                                                         *)
(***************************************************************************)
Entry(w, t) == [write |-> w, after |-> t]

\* Faulty variant: the next write is not chained to this one.
queueMonadTx_Unchained(c, t, w) == [chain |-> c \cup {Entry(w, t)}, tail |-> t]

queueMonadTx(c, t, w) == [chain |-> c \cup {Entry(w, t)}, tail |-> w]

\* A write starts when the promise it was chained to has settled.
HasTurn(w) == Entry(w, None) \in chain

\* Faulty variant: a write stays chained to one that has settled.
Settled_NoHandOver(w) ==
    [chain |-> {e \in chain : e.write # w}, tail |-> IF tail = w THEN None ELSE tail]

\* The write has returned or thrown; the swallowed promise lets the next one go.
Settled(w) ==
    [chain |-> {[e EXCEPT !.after = IF @ = w THEN None ELSE @] :
                    e \in {f \in chain : f.write # w}},
     tail  |-> IF tail = w THEN None ELSE tail]

\* settleWorker calls that began in this step join the queue, after the writes
\* in q.
Begins == {Mint(s.payout.jobIds) : s \in settlements'} \ {Mint(s.payout.jobIds) : s \in settlements}

Joined(q) ==
    LET joining == Begins
    IN  IF joining = {} THEN chain' = q.chain /\ tail' = q.tail
        ELSE \E w \in joining :
                 /\ chain' = queueMonadTx(q.chain, q.tail, w).chain
                 /\ tail' = queueMonadTx(q.chain, q.tail, w).tail

TxQueue == [chain |-> chain, tail |-> tail]

(***************************************************************************)
(* The hub reports a completed job: postFeedback, then queuePayout.        *)
(***************************************************************************)
\* WrappedBoltDistributor.queuePayout, as BoltDistributor's.
wbolt_queuePayout(pk, j) == queuePayout(pk, j)

jobCompleted(pk, j) ==
    /\ wbolt_queuePayout(pk, j)
    /\ feedback' = [feedback EXCEPT ![j].stage = "queued", ![j].attempt = 1]
    /\ Joined(queueMonadTx(chain, tail, Note(j)))
    /\ UNCHANGED workerBalances

settleAll ==
    /\ SettleTimer
    /\ Joined(TxQueue)
    /\ UNCHANGED <<workerBalances, feedback>>

(***************************************************************************)
(* executeTx of settleWorker: mint, then wait for the receipt.             *)
(***************************************************************************)
mintSent(s) ==
    /\ HasTurn(Mint(s.payout.jobIds))
    /\ Send(s)
    /\ UNCHANGED monadVars

\* WrappedBolt.mint is executed; the coordinator is the owner.
mintMined(s) == Land(s) /\ UNCHANGED monadVars

\* The callbacks of coordinator-monad, as those of coordinator-solana: the worker
\* is told.
monad_onSettled(jobIds) == onSettled(jobIds)
monad_onFailed(jobIds)  == onFailed(jobIds)

\* Faulty variant: the balance is set to the amount of the batch.
mintConfirmed_Overwrites(s) ==
    /\ Confirm(s)
    /\ Joined(Settled(Mint(s.payout.jobIds)))
    /\ workerBalances' = [workerBalances EXCEPT ![s.worker] = s.payout.totalBolt]
    /\ UNCHANGED feedback

mintConfirmed(s) ==
    /\ Confirm(s)
    /\ monad_onSettled(s.payout.jobIds)
    /\ Joined(Settled(Mint(s.payout.jobIds)))
    /\ workerBalances' = [workerBalances EXCEPT ![s.worker] = @ + s.payout.totalBolt]
    /\ UNCHANGED feedback

\* Faulty variant: the balance is raised whatever the outcome.
mintFails_Credits(s) ==
    /\ HasTurn(Mint(s.payout.jobIds))
    /\ Fail(s)
    /\ Joined(Settled(Mint(s.payout.jobIds)))
    /\ workerBalances' = [workerBalances EXCEPT ![s.worker] = @ + s.payout.totalBolt]
    /\ UNCHANGED feedback

mintFails(s) ==
    /\ HasTurn(Mint(s.payout.jobIds))
    /\ Fail(s)
    /\ s.payout.retryCount + 1 >= MaxRetries => monad_onFailed(s.payout.jobIds)
    /\ Joined(Settled(Mint(s.payout.jobIds)))
    /\ UNCHANGED <<workerBalances, feedback>>

mintMinedLate(batch) == (LandLate(batch) \/ Expire(batch)) /\ UNCHANGED monadVars

(***************************************************************************)
(* postFeedback                                                            *)
(***************************************************************************)
NoteSettled(j) == chain' = Settled(Note(j)).chain /\ tail' = Settled(Note(j)).tail

\* The gas limit is fixed, so that nothing is estimated before the transaction
\* is sent.
feedbackSent(j) ==
    /\ HasTurn(Note(j)) /\ feedback[j].stage = "queued"
    /\ feedback' = [feedback EXCEPT ![j].stage = "sent", ![j].sent = @ + 1]
    /\ UNCHANGED <<vars, chain, tail, workerBalances>>

\* Faulty variant: an attempt that succeeded is made again.
feedbackPosted_Again(j) ==
    /\ feedback[j].stage = "sent"
    /\ feedback' = [feedback EXCEPT ![j].stage =
           IF feedback[j].attempt < FeedbackAttempts THEN "backoff" ELSE "posted"]
    /\ NoteSettled(j)
    /\ UNCHANGED <<vars, workerBalances>>

\* The receipt arrives; its status (executed or reverted) is not looked at.
feedbackPosted(j) ==
    /\ feedback[j].stage = "sent"
    /\ feedback' = [feedback EXCEPT ![j].stage = "posted"]
    /\ NoteSettled(j)
    /\ UNCHANGED <<vars, workerBalances>>

\* giveFeedback throws: nothing was sent, or the receipt did not come in time.
feedbackFails(j) ==
    /\ HasTurn(Note(j))
    /\ NoteSettled(j)
    /\ feedback' = [feedback EXCEPT
           ![j].stage = IF feedback[j].attempt < FeedbackAttempts THEN "backoff" ELSE "failed",
           ![j].givenUp = IF feedback[j].stage = "sent" THEN @ + 1 ELSE @]
    /\ UNCHANGED <<vars, workerBalances>>

\* The delay is over: the next attempt goes to the end of the queue.
feedbackRetried(j) ==
    /\ feedback[j].stage = "backoff"
    /\ feedback' = [feedback EXCEPT ![j].stage = "queued", ![j].attempt = @ + 1]
    /\ chain' = queueMonadTx(chain, tail, Note(j)).chain
    /\ tail' = queueMonadTx(chain, tail, Note(j)).tail
    /\ UNCHANGED <<vars, workerBalances>>

\* Queue, balances and running calls are in memory only.
crash ==
    /\ Crash
    /\ chain' = {} /\ tail' = None
    /\ workerBalances' = [pk \in Pubkeys |-> 0]
    /\ feedback' = [j \in Jobs |->
           CASE feedback[j].stage = "sent" ->
                    [feedback[j] EXCEPT !.stage = "failed", !.givenUp = @ + 1]
             [] feedback[j].stage \in {"queued", "backoff"} ->
                    [feedback[j] EXCEPT !.stage = "failed"]
             [] OTHER -> feedback[j]]

getWorkerBalance(pk) == workerBalances[pk]

MintAnswer(s) == mintConfirmed(s) \/ mintFails(s)
FeedbackAnswer(j) == feedbackPosted(j) \/ feedbackFails(j)

MonadNext ==
    \/ \E pk \in Pubkeys, j \in Jobs : jobCompleted(pk, j)
    \/ settleAll
    \/ \E s \in settlements : mintSent(s) \/ mintMined(s) \/ MintAnswer(s)
    \/ \E batch \in late : mintMinedLate(batch)
    \/ \E j \in Jobs :
           feedbackSent(j) \/ FeedbackAnswer(j) \/ feedbackRetried(j)
    \/ crash

MonadSpec == MonadInit /\ [][MonadNext]_allVars

(***************************************************************************)
(* Fairness.  A write that has its turn returns or throws: the wait for    *)
(* the receipt ends after 60 s.  The timers fire.                          *)
(***************************************************************************)
MonadFairness ==
    /\ WF_allVars(settleAll)
    /\ \A j \in Jobs :
           /\ WF_allVars(\E s \in Running(j) : mintSent(s) \/ MintAnswer(s))
           /\ WF_allVars(feedbackSent(j) \/ FeedbackAnswer(j))
           /\ WF_allVars(feedbackRetried(j))

MonadFairSpec == MonadSpec /\ MonadFairness

-----------------------------------------------------------------------------
(* Properties *)

\* queueMonadTx ("serialize writes to prevent nonce conflicts"): between its
\* sending and its settling, a write, mint or feedback, is the only one.
SerialWrites ==
    Cardinality({s \in settlements : s.stage # "preparing"})
      + Cardinality({j \in Jobs : feedback[j].stage = "sent"}) <= 1

\* getWorkerBalance is the worker's share of every batch that was reported as
\* settled, each counted once, until a crash empties the Map.
CreditedOnce ==
    crashes = 0 =>
        \A pk \in Pubkeys :
            getWorkerBalance(pk) =
                Cardinality({j \in Jobs : owed[j] = pk /\ verdicts[j] = <<"settled">>})

\* Custody: the coordinator holds the tokens of all the balances it keeps, also
\* when batches fail, are merged and are minted again.
Solvent == SumFunction(workerBalances) <= SumFunction(transfers)

\* A job gets a second entry in the registry only after an attempt was given
\* up while its transaction was under way, and the attempts of postFeedback
\* bound the entries.
FeedbackCopies ==
    \A j \in Jobs :
        /\ feedback[j].sent <= FeedbackAttempts
        /\ feedback[j].sent = feedback[j].givenUp
                               + IF feedback[j].stage \in {"sent", "posted"} THEN 1 ELSE 0

(***************************************************************************)
(* The inductive invariant behind the invariants above, next to that of    *)
(* Settlement                                                              *)
(***************************************************************************)
Writes(c) == {e.write : e \in c}

\* c is a chain that ends in t: the writes differ, each waits for another one
\* of them, no two for the same, none for the last, and they do not wait in a
\* circle.
Chained(c, t) ==
    /\ \A e \in c : e = Entry(e.write, e.after)
    /\ \A e, f \in c : e.write = f.write \/ e.after = f.after => e = f
    /\ \A e \in c : e.after \in Writes(c) \cup {None} /\ e.after # t
    /\ t \in Writes(c) \cup {None} /\ (t = None => c = {})
    /\ None \notin Writes(c)
    /\ \A S \in SUBSET c : S # {} => \E e \in S : e.after \notin Writes(S)

Queued == {j \in Jobs : feedback[j].stage \in {"queued", "sent"}}

\* The queue holds the running settlements and the feedback calls that are not
\* in their backoff, and what was sent has its turn.
QueueInv ==
    /\ Chained(chain, tail)
    /\ Writes(chain) = {Mint(s.payout.jobIds) : s \in settlements} \cup {Note(j) : j \in Queued}
    /\ \A s \in settlements : s.stage # "preparing" => HasTurn(Mint(s.payout.jobIds))
    /\ \A j \in Jobs : feedback[j].stage = "sent" => HasTurn(Note(j))

\* settleAll does not come back to a worker whose settlement it waits for.
SweepGoesOn == \A s \in settlements : s.swept => s.worker \notin sweep

Feedback ==
    [stage: {"none", "queued", "sent", "backoff", "posted", "failed"},
     attempt: 0..FeedbackAttempts, sent: Nat, givenUp: Nat]

\* An attempt sends at most one transaction.
AttemptsCounted ==
    /\ feedback \in [Jobs -> Feedback] /\ workerBalances \in [Pubkeys -> Nat]
    /\ \A j \in Jobs :
           /\ owed[j] = NoOne => feedback[j] = NoFeedback
           /\ feedback[j].sent <= feedback[j].attempt
           /\ feedback[j].stage = "queued" => feedback[j].sent < feedback[j].attempt
           /\ feedback[j].stage = "backoff" => feedback[j].attempt < FeedbackAttempts

\* A balance is backed by jobs that were reported as settled, also after a crash.
BalancesBacked ==
    \A pk \in Pubkeys :
        workerBalances[pk] <= Cardinality({j \in Jobs : owed[j] = pk /\ verdicts[j] = <<"settled">>})

MonadInv ==
    /\ QueueInv /\ SweepGoesOn /\ AttemptsCounted
    /\ CreditedOnce /\ BalancesBacked /\ FeedbackCopies

\* The hub gets an answer for every completed job (feedback_posted or
\* feedback_failed): neither a mint nor a failed write blocks the queue.
FeedbackDecided ==
    \A j \in Jobs : []<>(owed[j] # NoOne => feedback[j].stage \in {"posted", "failed"})
=============================================================================
