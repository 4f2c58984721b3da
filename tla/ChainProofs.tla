----------------------------- MODULE ChainProofs -----------------------------
(***************************************************************************)
(* Theorems about what is written to the chains.  MonadChain: queueMonadTx *)
(* lets one write go at a time, balances count every settled job once and  *)
(* are held in custody, and WrappedBoltDistributor implements the batches  *)
(* of Settlement.                                                          *)
(* ChainLibraries: the first anchor of a job stays, and every split of a   *)
(* quote is exact.                                                         *)
(***************************************************************************)
EXTENDS SettlementProofs, ChainLibraries, WellFoundedInduction

\* Leaves are proved by Zenon; those that need arithmetic or the theory of
\* sequences and records name SMT.
USE Zenon

-----------------------------------------------------------------------------
(* Steps of postFeedback, and crashes *)

\* A call of postFeedback goes on: the queue and the counters.
LEMMA FeedbackSteps ==
    ASSUME PayoutInv, MonadInv, NEW j \in Jobs,
           feedbackSent(j) \/ FeedbackAnswer(j) \/ feedbackRetried(j)
    PROVE  QueueInv' /\ AttemptsCounted' /\ FeedbackCopies'
<1> DEFINE F == feedback[j]
<1>1. /\ QueueInv /\ AttemptsCounted /\ FeedbackCopies
      /\ feedback \in [Jobs -> Feedback] /\ workerBalances \in [Pubkeys -> Nat]
  BY DEF MonadInv, AttemptsCounted
<1>2. /\ F \in Feedback /\ F.attempt \in 0..FeedbackAttempts
      /\ F.sent \in Nat /\ F.givenUp \in Nat
  BY <1>1, FeedbackFields
<1>3. /\ F.sent <= F.attempt
      /\ F.stage = "queued" => F.sent < F.attempt
      /\ F.stage = "backoff" => F.attempt < FeedbackAttempts
      /\ F.sent = F.givenUp + IF F.stage \in {"sent", "posted"} THEN 1 ELSE 0
  BY <1>1 DEF AttemptsCounted, FeedbackCopies
<1>4. F.stage # "none" => owed[j] # NoOne
  BY <1>1, SMT DEF AttemptsCounted, NoFeedback
<1>5. UNCHANGED <<settlements, owed, workerBalances>>
  BY DEF feedbackSent, FeedbackAnswer, feedbackPosted, feedbackFails, feedbackRetried,
         vars, queueVars, recordVars
<1>6. HasTurn(Note(j)) => F.stage \in {"queued", "sent"}
  BY <1>1, HasTurnWrite, QueuedNote DEF Queued
<1>7. CASE feedbackSent(j)
  <2> DEFINE f == [F EXCEPT !.stage = "sent", !.sent = @ + 1]
  <2>1. /\ f \in Feedback /\ f.stage = "sent" /\ f.attempt = F.attempt
        /\ f.sent = F.sent + 1 /\ f.givenUp = F.givenUp
    <3>1. F.sent + 1 \in Nat
      BY <1>2, SMT
    <3>2. f \in Feedback
      BY <1>2, <3>1, FeedbackMoves
    <3> QED BY <1>2, <3>2 DEF Feedback
  <2>2. /\ feedback' = [feedback EXCEPT ![j] = f] /\ UNCHANGED <<chain, tail>>
        /\ F.stage = "queued" /\ HasTurn(Note(j))
    BY <1>7 DEF feedbackSent
  <2> HIDE DEF f
  <2>3. feedback'[j] = f /\ \A i \in Jobs \ {j} : feedback'[i] = feedback[i]
    BY <1>1, <2>2
  <2>4. Queued' = Queued
    BY <2>1, <2>2, <2>3 DEF Queued
  <2>5. \A w : HasTurn(w)' <=> HasTurn(w)
    BY <2>2 DEF HasTurn
  <2>6. QueueInv'
    <3>1. Mints(settlements') = Mints(settlements) /\ Notes' = Notes
      BY <1>5, <2>4 DEF Mints, Notes
    <3>2. \A s \in settlements' : s.stage # "preparing" => HasTurn(Mint(s.payout.jobIds))'
      BY <1>1, <1>5, <2>5 DEF QueueInv
    <3>3. \A i \in Jobs : feedback'[i].stage = "sent" => HasTurn(Note(i))'
      BY <1>1, <2>2, <2>3, <2>5 DEF QueueInv
    <3>4. Chained(chain', tail') /\ Writes(chain') = Mints(settlements') \cup Notes'
      BY <1>1, <2>2, <3>1, QueueInvMints
    <3> QED BY <3>2, <3>3, <3>4 DEF QueueInv, Mints, Notes
  <2>7. /\ f.sent <= f.attempt /\ owed'[j] # NoOne
        /\ f.sent = f.givenUp + IF f.stage \in {"sent", "posted"} THEN 1 ELSE 0
    BY <1>2, <1>3, <1>4, <1>5, <2>1, <2>2, SMT
  <2> QED BY <1>1, <1>5, <2>1, <2>2, <2>6, <2>7, FeedbackCounted
<1>8. CASE feedbackPosted(j)
  <2> DEFINE f == [F EXCEPT !.stage = "posted"]
  <2>1. /\ f \in Feedback /\ f.stage = "posted" /\ f.attempt = F.attempt
        /\ f.sent = F.sent /\ f.givenUp = F.givenUp
    BY <1>2 DEF Feedback
  <2>2. /\ feedback' = [feedback EXCEPT ![j] = f] /\ NoteSettled(j) /\ F.stage = "sent"
    BY <1>8 DEF feedbackPosted
  <2> HIDE DEF f
  <2>3. feedback'[j] = f /\ \A i \in Jobs \ {j} : feedback'[i] = feedback[i]
    BY <1>1, <2>2
  <2>4. HasTurn(Note(j))
    BY <1>1, <2>2 DEF QueueInv
  <2>5. QueueInv'
    BY <1>1, <1>5, <2>1, <2>2, <2>3, <2>4, NoteSettledQueue
  <2>6. /\ f.sent <= f.attempt /\ owed'[j] # NoOne
        /\ f.sent = f.givenUp + IF f.stage \in {"sent", "posted"} THEN 1 ELSE 0
    BY <1>3, <1>4, <1>5, <2>1, <2>2
  <2> QED BY <1>1, <1>5, <2>1, <2>2, <2>5, <2>6, FeedbackCounted
<1>9. CASE feedbackFails(j)
  <2> DEFINE st == IF F.attempt < FeedbackAttempts THEN "backoff" ELSE "failed"
             f == [F EXCEPT !.stage = st, !.givenUp = IF F.stage = "sent" THEN @ + 1 ELSE @]
  <2>1. /\ f \in Feedback /\ f.stage = st /\ f.attempt = F.attempt
        /\ f.sent = F.sent /\ f.givenUp = IF F.stage = "sent" THEN F.givenUp + 1 ELSE F.givenUp
    <3> DEFINE n == IF F.stage = "sent" THEN F.givenUp + 1 ELSE F.givenUp
    <3>1. n \in Nat /\ st \in {"backoff", "failed"} /\ f = [F EXCEPT !.stage = st, !.givenUp = n]
      BY <1>2, SMT DEF Feedback
    <3> HIDE DEF n, f, st
    <3>2. f \in Feedback
      BY <1>2, <3>1, FeedbackMoves
    <3>3. f.stage = st /\ f.attempt = F.attempt /\ f.sent = F.sent /\ f.givenUp = n
      BY <1>2, <3>1 DEF Feedback
    <3> QED BY <3>2, <3>3 DEF n
  <2>2. /\ feedback' = [feedback EXCEPT ![j] = f] /\ NoteSettled(j) /\ HasTurn(Note(j))
    BY <1>9 DEF feedbackFails
  <2> HIDE DEF f
  <2>3. feedback'[j] = f /\ \A i \in Jobs \ {j} : feedback'[i] = feedback[i]
    BY <1>1, <2>2
  <2>4. QueueInv'
    BY <1>1, <1>5, <2>1, <2>2, <2>3, NoteSettledQueue
  <2>5. /\ f.sent <= f.attempt /\ owed'[j] # NoOne
        /\ f.stage = "backoff" => f.attempt < FeedbackAttempts
        /\ f.sent = f.givenUp + IF f.stage \in {"sent", "posted"} THEN 1 ELSE 0
    BY <1>2, <1>3, <1>4, <1>5, <1>6, <2>1, <2>2, SMT
  <2>6. f.stage # "queued"
    BY <2>1
  <2> QED BY <1>1, <1>5, <2>1, <2>2, <2>4, <2>5, <2>6, FeedbackCounted
<1>10. CASE feedbackRetried(j)
  <2> DEFINE f == [F EXCEPT !.stage = "queued", !.attempt = @ + 1]
             q == queueMonadTx(chain, tail, Note(j))
  <2>1. F.stage = "backoff" /\ F.attempt < FeedbackAttempts
    BY <1>3, <1>10 DEF feedbackRetried
  <2>2. /\ f \in Feedback /\ f.stage = "queued" /\ f.attempt = F.attempt + 1
        /\ f.sent = F.sent /\ f.givenUp = F.givenUp
    <3>1. F.attempt + 1 \in 0..FeedbackAttempts
      BY <1>2, <2>1, MonadAssumption, SMT
    <3>2. f \in Feedback
      BY <1>2, <3>1, FeedbackMoves
    <3> QED BY <1>2, <3>2 DEF Feedback
  <2>3. feedback' = [feedback EXCEPT ![j] = f] /\ chain' = q.chain /\ tail' = q.tail
    BY <1>10 DEF feedbackRetried
  <2> HIDE DEF f
  <2>4. feedback'[j] = f /\ \A i \in Jobs \ {j} : feedback'[i] = feedback[i]
    BY <1>1, <2>3
  <2>5. Queued' = Queued \cup {j} /\ j \notin Queued
    BY <2>1, <2>2, <2>4 DEF Queued
  <2>6. Note(j) \notin Writes(chain) /\ Note(j) # None
    BY <1>1, <2>5, QueuedNote, WriteNotNone
  <2>7. /\ Chained(chain', tail') /\ Writes(chain') = Writes(chain) \cup {Note(j)}
        /\ chain \subseteq q.chain
    BY <1>1, <2>3, <2>6, QueueLengthens DEF QueueInv
  <2> HIDE DEF q
  <2>8. Writes(chain') = Mints(settlements') \cup Notes'
    <3>1. Mints(settlements') = Mints(settlements) /\ Notes' = Notes \cup {Note(j)}
      BY <1>5, <2>5 DEF Mints, Notes
    <3> QED BY <1>1, <2>7, <3>1, QueueInvMints
  <2>9. \A s \in settlements' : s \in settlements \/ s.stage = "preparing"
    BY <1>5
  <2>10. \A i \in Jobs : feedback'[i].stage = "sent" => feedback[i].stage = "sent"
    BY <2>2, <2>4
  <2>11. QueueInv'
    BY <1>1, <2>3, <2>7, <2>8, <2>9, <2>10, QueueInvJoin
  <2>12. /\ f.sent < f.attempt /\ f.sent <= f.attempt /\ owed'[j] # NoOne
         /\ f.sent = f.givenUp + IF f.stage \in {"sent", "posted"} THEN 1 ELSE 0
    BY <1>2, <1>3, <1>4, <1>5, <2>1, <2>2, SMT
  <2> QED BY <1>1, <1>5, <2>2, <2>3, <2>11, <2>12, FeedbackCounted
<1> QED BY <1>7, <1>8, <1>9, <1>10 DEF FeedbackAnswer

\* A crash empties the queue and the balances.
LEMMA CrashMonad ==
    ASSUME PayoutInv, MonadInv, crash
    PROVE  MonadInv'
<1>1. /\ settlements' = {} /\ sweep' = {} /\ owed' = owed /\ crashes' = crashes + 1
      /\ chain' = {} /\ tail' = None /\ workerBalances' = [pk \in Pubkeys |-> 0]
      /\ crashes \in Nat
  <2>1. crashes \in Nat
    BY SettlementAssumption, SMT DEF PayoutInv, TypeOK
  <2> QED BY <2>1 DEF crash, Crash
<1>2. AttemptsCounted /\ FeedbackCopies /\ feedback \in [Jobs -> Feedback]
  BY DEF MonadInv, AttemptsCounted
<1>3. ASSUME NEW j \in Jobs
      PROVE  /\ feedback'[j] \in Feedback
             /\ feedback'[j].stage \notin {"queued", "sent", "backoff"}
             /\ feedback'[j].attempt = feedback[j].attempt
             /\ feedback'[j].sent = feedback[j].sent
             /\ feedback'[j].givenUp
                  = IF feedback[j].stage = "sent" THEN feedback[j].givenUp + 1
                    ELSE feedback[j].givenUp
             /\ feedback'[j].stage = "posted" <=> feedback[j].stage = "posted"
             /\ feedback[j] = NoFeedback => feedback'[j] = NoFeedback
  <2> DEFINE F == feedback[j]
  <2>1. F \in Feedback /\ F.givenUp \in Nat
    BY <1>2, FeedbackFields
  <2>2. feedback'[j] =
          CASE F.stage = "sent" -> [F EXCEPT !.stage = "failed", !.givenUp = @ + 1]
            [] F.stage \in {"queued", "backoff"} -> [F EXCEPT !.stage = "failed"]
            [] OTHER -> F
    BY DEF crash
  <2>3. CASE F.stage = "sent"
    <3> DEFINE n == F.givenUp + 1
    <3>1. feedback'[j] = [F EXCEPT !.stage = "failed", !.givenUp = n] /\ n \in Nat
      BY <2>1, <2>2, <2>3, SMT
    <3> HIDE DEF n
    <3>2. feedback'[j] \in Feedback
      BY <2>1, <3>1 DEF Feedback
    <3>3. /\ feedback'[j].stage = "failed" /\ feedback'[j].givenUp = n
          /\ feedback'[j].attempt = F.attempt /\ feedback'[j].sent = F.sent
      BY <2>1, <3>1 DEF Feedback
    <3> QED BY <2>3, <3>2, <3>3, SMT DEF NoFeedback, n
  <2>4. CASE F.stage \in {"queued", "backoff"}
    <3>1. feedback'[j] = [F EXCEPT !.stage = "failed"]
      BY <2>2, <2>4
    <3> QED BY <2>1, <2>4, <3>1, SMT DEF Feedback, NoFeedback
  <2>5. CASE F.stage \notin {"sent", "queued", "backoff"}
    <3>1. feedback'[j] = F
      BY <2>2, <2>5
    <3> QED BY <2>1, <2>5, <3>1
  <2> QED BY <2>3, <2>4, <2>5
<1>4. feedback' \in [Jobs -> Feedback]
  <2>1. feedback' = [j \in Jobs |-> feedback'[j]]
    BY DEF crash
  <2> QED BY <1>3, <2>1
<1>5. AttemptsCounted' /\ FeedbackCopies'
  <2>1. \A j \in Jobs : feedback[j].sent \in Nat /\ feedback[j].givenUp \in Nat
    BY <1>2, FeedbackFields
  <2>2. AttemptsCounted'
    BY <1>1, <1>2, <1>3, <1>4 DEF AttemptsCounted
  <2>3. FeedbackCopies'
    BY <1>2, <1>3, <2>1, SMT DEF FeedbackCopies
  <2> QED BY <2>2, <2>3
<1>6. QueueInv'
  <2>1. Queued' = {}
    BY <1>3 DEF Queued
  <2>2. Chained(chain', tail') /\ Writes(chain') = {}
    BY <1>1 DEF Chained, Writes
  <2>3. \A j \in Jobs : feedback'[j].stage # "sent"
    BY <1>3
  <2> QED BY <1>1, <2>1, <2>2, <2>3 DEF QueueInv
<1>7. SweepGoesOn' /\ CreditedOnce'
  BY <1>1, SMT DEF SweepGoesOn, CreditedOnce
<1>8. BalancesBacked'
  <2>1. ASSUME NEW pk \in Pubkeys
        PROVE  Cardinality({j \in Jobs : owed[j] = pk /\ verdicts[j] = <<"settled">>})' \in Nat
    BY JobsFinite
  <2> QED BY <1>1, <2>1, SMT DEF BalancesBacked
<1> QED BY <1>5, <1>6, <1>7, <1>8 DEF MonadInv

-----------------------------------------------------------------------------
(* Balances *)

SettledJobs(pk) == {j \in Jobs : owed[j] = pk /\ verdicts[j] = <<"settled">>}

\* A step that settles no job and leaves the balances alone.
LEMMA SameCredit ==
    ASSUME CreditedOnce, BalancesBacked, workerBalances' = workerBalances, crashes' = crashes,
           \A j \in Jobs :
               /\ verdicts'[j] = <<"settled">> <=> verdicts[j] = <<"settled">>
               /\ verdicts[j] = <<"settled">> => owed'[j] = owed[j]
    PROVE  CreditedOnce' /\ BalancesBacked'
<1>1. ASSUME NEW pk \in Pubkeys PROVE SettledJobs(pk)' = SettledJobs(pk)
  BY DEF SettledJobs
<1>2. ASSUME crashes' = 0, NEW pk \in Pubkeys
      PROVE  workerBalances'[pk] = Cardinality(SettledJobs(pk)')
  BY <1>1, <1>2 DEF CreditedOnce, getWorkerBalance, SettledJobs
<1>3. CreditedOnce'
  BY <1>2 DEF CreditedOnce, getWorkerBalance, SettledJobs
<1>4. ASSUME NEW pk \in Pubkeys PROVE workerBalances'[pk] <= Cardinality(SettledJobs(pk)')
  BY <1>1 DEF BalancesBacked, SettledJobs
<1> QED BY <1>3, <1>4 DEF BalancesBacked, SettledJobs

\* A job of a running call has no verdict yet, and is owed to its worker.
LEMMA UndecidedJobs ==
    ASSUME PayoutInv, NEW s \in settlements, NEW j \in s.payout.jobIds
    PROVE  j \in Jobs /\ verdicts[j] = <<>> /\ owed[j] = s.worker
<1>1. Queue(pendingPayouts, settlements, owed) /\ Recorded(pendingPayouts, settlements)
  BY DEF PayoutInv
<1>2. j \in Jobs /\ owed[j] = s.worker
  BY <1>1 DEF Queue, Settlement, Payout
<1>3. Inside(pendingPayouts, settlements, j)
  BY DEF Inside
<1> QED BY <1>1, <1>2, <1>3 DEF Recorded

\* A confirmed mint raises the balance by the jobs it is reported for, none of
\* which had been reported before.
LEMMA ConfirmCredit ==
    ASSUME PayoutInv, MonadInv, NEW s \in settlements, mintConfirmed(s)
    PROVE  CreditedOnce' /\ BalancesBacked' /\ workerBalances' \in [Pubkeys -> Nat]
<1> DEFINE J == s.payout.jobIds
           w == s.worker
<1>1. /\ CreditedOnce /\ BalancesBacked /\ workerBalances \in [Pubkeys -> Nat]
      /\ verdicts \in [Jobs -> Seq({"settled", "failed"})]
  BY DEF MonadInv, AttemptsCounted, PayoutInv, TypeOK
<1>2. /\ owed' = owed /\ crashes' = crashes
      /\ workerBalances' = [workerBalances EXCEPT ![w] = @ + s.payout.totalBolt]
      /\ verdicts' = [j \in Jobs |-> IF j \in J THEN Append(verdicts[j], "settled") ELSE verdicts[j]]
  BY DEF mintConfirmed, Confirm, onSettled, Tell
<1>3. w \in Pubkeys /\ J \in SUBSET Jobs /\ s.payout.totalBolt = Cardinality(J)
      /\ IsFiniteSet(J) /\ Cardinality(J) \in Nat
  BY JobsFinite DEF PayoutInv, Queue, Exact, Settlement, Payout
<1>4. /\ \A j \in J : verdicts[j] = <<>> /\ owed[j] = w /\ verdicts'[j] = <<"settled">>
      /\ \A j \in Jobs \ J : verdicts'[j] = verdicts[j]
  <2>1. \A j \in J : j \in Jobs /\ verdicts[j] = <<>> /\ owed[j] = w
    BY UndecidedJobs
  <2>2. Append(<<>>, "settled") = <<"settled">>
    BY FirstVerdict
  <2> QED BY <1>2, <2>1, <2>2
<1>5. <<"settled">> # <<>>
  BY FirstVerdict
<1>6. workerBalances' \in [Pubkeys -> Nat]
  BY <1>1, <1>2, <1>3, SMT
<1>7. ASSUME NEW pk \in Pubkeys
      PROVE  /\ Cardinality(SettledJobs(pk)) \in Nat
             /\ Cardinality(SettledJobs(pk)') - Cardinality(SettledJobs(pk))
                  = workerBalances'[pk] - workerBalances[pk]
  <2>1. IsFiniteSet(SettledJobs(pk)) /\ Cardinality(SettledJobs(pk)) \in Nat
    BY JobsFinite DEF SettledJobs
  <2>2. CASE pk # w
    <3>1. SettledJobs(pk)' = SettledJobs(pk)
      BY <1>2, <1>3, <1>4, <2>2 DEF SettledJobs
    <3> QED BY <1>1, <1>2, <2>1, <2>2, <3>1, SMT
  <2>3. CASE pk = w
    <3>1. SettledJobs(pk)' = SettledJobs(pk) \cup J
      BY <1>2, <1>3, <1>4, <2>3 DEF SettledJobs
    <3>2. SettledJobs(pk) \cap J = {}
      BY <1>4, <1>5, SMT DEF SettledJobs
    <3>3. Cardinality(SettledJobs(pk) \cup J)
            = Cardinality(SettledJobs(pk)) + Cardinality(J) - Cardinality(SettledJobs(pk) \cap J)
      BY <1>3, <2>1, FS_Union
    <3>4. Cardinality(SettledJobs(pk) \cap J) = 0
      BY <3>2, FS_EmptySet
    <3>5. workerBalances'[pk] = workerBalances[pk] + Cardinality(J)
      BY <1>1, <1>2, <1>3, <2>3
    <3> QED BY <1>1, <1>3, <2>1, <3>1, <3>3, <3>4, <3>5, SMT
  <2> QED BY <2>2, <2>3
<1>8. ASSUME NEW pk \in Pubkeys PROVE Cardinality(SettledJobs(pk)') \in Nat
  BY JobsFinite DEF SettledJobs
<1>9. CreditedOnce'
  <2>1. ASSUME crashes' = 0, NEW pk \in Pubkeys
        PROVE  workerBalances'[pk] = Cardinality(SettledJobs(pk)')
    <3>1. workerBalances[pk] = Cardinality(SettledJobs(pk))
      BY <1>1, <1>2, <2>1 DEF CreditedOnce, getWorkerBalance, SettledJobs
    <3> QED BY <1>6, <1>7, <1>8, <3>1, SMT
  <2> QED BY <2>1 DEF CreditedOnce, getWorkerBalance, SettledJobs
<1>10. BalancesBacked'
  <2>1. ASSUME NEW pk \in Pubkeys PROVE workerBalances'[pk] <= Cardinality(SettledJobs(pk)')
    <3>1. workerBalances[pk] <= Cardinality(SettledJobs(pk))
      BY <1>1 DEF BalancesBacked, SettledJobs
    <3> QED BY <1>1, <1>6, <1>7, <1>8, <3>1, SMT
  <2> QED BY <2>1 DEF BalancesBacked, SettledJobs
<1> QED BY <1>6, <1>9, <1>10

\* A settlement that failed credits nobody.
LEMMA FailCredit ==
    ASSUME PayoutInv, MonadInv, NEW s \in settlements, mintFails(s)
    PROVE  CreditedOnce' /\ BalancesBacked'
<1>1. CreditedOnce /\ BalancesBacked /\ workerBalances' = workerBalances /\ crashes' = crashes /\ owed' = owed
  BY SMTT(30) DEF MonadInv, mintFails, Fail
<1>2. \A j \in Jobs : verdicts'[j] = <<"settled">> <=> verdicts[j] = <<"settled">>
  <2>1. CASE verdicts' = verdicts
    BY <2>1
  <2>2. CASE Tell(s.payout.jobIds, "failed")
    <3>1. Append(<<>>, "failed") = <<"failed">> /\ <<"settled">> # <<>>
      BY FirstVerdict
    <3>2. <<"failed">> # <<"settled">>
      OBVIOUS
    <3>3. \A j \in s.payout.jobIds : verdicts[j] = <<>>
      BY UndecidedJobs
    <3> QED BY <2>2, <3>1, <3>2, <3>3 DEF Tell
  <2>3. verdicts' = verdicts \/ Tell(s.payout.jobIds, "failed")
    <3>1. s.payout \in Payout
      BY DEF PayoutInv, TypeOK, Settlement
    <3>2. [s.payout EXCEPT !.retryCount = @ + 1].jobIds = s.payout.jobIds
      BY <3>1 DEF Payout
    <3> QED BY <3>2 DEF mintFails, Fail, onFailed
  <2> QED BY <2>1, <2>2, <2>3
<1> QED BY <1>1, <1>2, SameCredit

-----------------------------------------------------------------------------
(* The invariant, and the theorems *)

\* The distributor of wrapped BOLT does what BoltDistributor does.
LEMMA MonadIsSettlement == [MonadNext]_allVars => [Next]_vars
<1> SUFFICES ASSUME [MonadNext]_allVars PROVE [Next]_vars
  OBVIOUS
<1>1. ASSUME NEW pk \in Pubkeys, NEW j \in Jobs, jobCompleted(pk, j) PROVE Next
  BY <1>1 DEF jobCompleted, wbolt_queuePayout, Next
<1>2. CASE settleAll
  BY <1>2 DEF settleAll, Next
<1>3. ASSUME NEW s \in settlements, mintSent(s) \/ mintMined(s) \/ MintAnswer(s) PROVE Next
  BY <1>3 DEF mintSent, mintMined, MintAnswer, mintConfirmed, mintFails, Answer, Next
<1>4. ASSUME NEW b \in late, mintMinedLate(b) PROVE Next
  BY <1>4 DEF mintMinedLate, Next
<1>5. ASSUME NEW j \in Jobs, feedbackSent(j) \/ FeedbackAnswer(j) \/ feedbackRetried(j)
      PROVE  UNCHANGED vars
  BY <1>5 DEF feedbackSent, FeedbackAnswer, feedbackPosted, feedbackFails, feedbackRetried
<1>6. CASE crash
  BY <1>6 DEF crash, Next
<1>7. CASE UNCHANGED allVars
  BY <1>7 DEF allVars
<1> QED BY <1>1, <1>2, <1>3, <1>4, <1>5, <1>6, <1>7 DEF MonadNext

\* The invariant holds initially.
LEMMA MonadInvInit == MonadInit => MonadInv
<1> SUFFICES ASSUME MonadInit PROVE MonadInv
  OBVIOUS
<1>1. /\ settlements = {} /\ sweep = {} /\ owed = [j \in Jobs |-> NoOne]
      /\ verdicts = [j \in Jobs |-> <<>>]
      /\ chain = {} /\ tail = None /\ workerBalances = [pk \in Pubkeys |-> 0]
      /\ feedback = [j \in Jobs |-> NoFeedback]
  BY DEF MonadInit, Init
<1>2. QueueInv
  <2>1. Queued = {}
    BY <1>1 DEF Queued, NoFeedback
  <2>2. Chained(chain, tail) /\ Writes(chain) = {}
    BY <1>1 DEF Chained, Writes
  <2>3. \A j \in Jobs : feedback[j].stage # "sent"
    BY <1>1 DEF NoFeedback
  <2> QED BY <1>1, <2>1, <2>2, <2>3 DEF QueueInv
<1>3. AttemptsCounted /\ FeedbackCopies
  <2>1. NoFeedback \in Feedback /\ 0 <= FeedbackAttempts
    BY MonadAssumption, SMT DEF NoFeedback, Feedback
  <2>2. \A j \in Jobs : feedback[j] = NoFeedback
    BY <1>1
  <2>3. feedback \in [Jobs -> Feedback] /\ workerBalances \in [Pubkeys -> Nat]
    BY <1>1, <2>1
  <2>4. NoFeedback.sent = 0 /\ NoFeedback.attempt = 0 /\ NoFeedback.givenUp = 0
        /\ NoFeedback.stage = "none"
    BY DEF NoFeedback
  <2> QED BY <2>1, <2>2, <2>3, <2>4, SMT DEF AttemptsCounted, FeedbackCopies
<1>4. SweepGoesOn
  BY <1>1 DEF SweepGoesOn
<1>5. CreditedOnce /\ BalancesBacked
  <2>1. ASSUME NEW pk \in Pubkeys
        PROVE  workerBalances[pk] = Cardinality(SettledJobs(pk)) /\ workerBalances[pk] = 0
    <3>1. SettledJobs(pk) = {}
      BY <1>1, FirstVerdict DEF SettledJobs
    <3> QED BY <1>1, <3>1, FS_EmptySet
  <2> QED BY <2>1, SMT DEF CreditedOnce, BalancesBacked, getWorkerBalance, SettledJobs
<1> QED BY <1>2, <1>3, <1>4, <1>5 DEF MonadInv

\* Every step preserves the invariant.
LEMMA MonadInvNext == PayoutInv /\ MonadInv /\ [MonadNext]_allVars => MonadInv'
<1> SUFFICES ASSUME PayoutInv, MonadInv, [MonadNext]_allVars PROVE MonadInv'
  OBVIOUS
<1>0. QueueInv /\ SweepGoesOn /\ AttemptsCounted /\ CreditedOnce /\ BalancesBacked
      /\ FeedbackCopies /\ workerBalances \in [Pubkeys -> Nat]
  BY DEF MonadInv, AttemptsCounted
<1>1. ASSUME NEW pk \in Pubkeys, NEW j \in Jobs, jobCompleted(pk, j) PROVE MonadInv'
  <2>1. queuePayout(pk, j) /\ workerBalances' = workerBalances
    BY <1>1 DEF jobCompleted, wbolt_queuePayout
  <2>2. /\ owed[j] = NoOne /\ owed' = [owed EXCEPT ![j] = pk] /\ verdicts' = verdicts
        /\ crashes' = crashes /\ owed \in [Jobs -> Pubkeys \cup {NoOne}]
    BY <2>1 DEF queuePayout, PayoutInv, TypeOK
  <2>3. verdicts[j] = <<>> /\ <<"settled">> # <<>>
    BY <2>2, NewJobOutside, FirstVerdict
  <2>4. CreditedOnce' /\ BalancesBacked'
    BY <1>0, <2>1, <2>2, <2>3, SameCredit
  <2> QED BY <1>0, <1>1, <2>1, <2>4, JobCompletedQueue, JobCompletedFeedback, QueuePayoutGrows
          DEF MonadInv
<1>2. CASE settleAll
  <2>1. SettleTimer /\ UNCHANGED <<verdicts, owed, crashes, workerBalances, feedback>>
    BY <1>2 DEF settleAll, SettleTimer
  <2> QED BY <1>0, <1>2, <2>1, SettleAllQueue, TimerGrows, SameFeedback, SameCredit DEF MonadInv
<1>3. ASSUME NEW s \in settlements, mintSent(s) \/ mintMined(s) PROVE MonadInv'
  <2>1. /\ HasTurn(Mint(s.payout.jobIds))
        /\ UNCHANGED <<chain, tail, feedback, workerBalances, sweep, verdicts, owed, crashes>>
    BY <1>0, <1>3 DEF mintSent, mintMined, Send, Land, QueueInv, monadVars, recordVars
  <2>2. PICK t \in Stages : settlements' = (settlements \ {s}) \cup {[s EXCEPT !.stage = t]}
    BY <1>3 DEF mintSent, mintMined, Send, Land, Stages
  <2>3. QueueInv'
    BY <1>0, <2>1, <2>2, StageQueue
  <2>4. SweepGoesOn'
    <3> DEFINE c == [s EXCEPT !.stage = t]
    <3>1. s \in Settlement
      BY DEF PayoutInv, TypeOK
    <3>2. c.swept = s.swept /\ c.worker = s.worker
      BY <3>1 DEF Settlement
    <3> HIDE DEF c
    <3>3. settlements' = (settlements \ {s}) \cup {c}
      BY <2>2 DEF c
    <3> QED BY <1>0, <2>1, <3>2, <3>3 DEF SweepGoesOn
  <2> QED BY <1>0, <2>1, <2>3, <2>4, SameFeedback, SameCredit DEF MonadInv
<1>4. ASSUME NEW s \in settlements, mintConfirmed(s) PROVE MonadInv'
  <2>1. /\ Confirm(s) /\ Joined(Settled(Mint(s.payout.jobIds))) /\ s.stage = "landed"
        /\ UNCHANGED <<owed, feedback>>
    BY <1>4 DEF mintConfirmed, Confirm
  <2>2. HasTurn(Mint(s.payout.jobIds))
    BY <1>0, <2>1 DEF QueueInv
  <2>3. Grows(settlements \ {s}) /\ SweepGoesOn'
    BY <1>0, <2>1, ConfirmGrows
  <2>4. QueueInv'
    BY <1>0, <2>1, <2>2, <2>3, AnswerQueue
  <2> QED BY <1>0, <1>4, <2>1, <2>3, <2>4, ConfirmCredit, SameFeedback DEF MonadInv
<1>5. ASSUME NEW s \in settlements, mintFails(s) PROVE MonadInv'
  <2>1. /\ Fail(s) /\ Joined(Settled(Mint(s.payout.jobIds))) /\ HasTurn(Mint(s.payout.jobIds))
        /\ UNCHANGED <<feedback, workerBalances>>
    BY <1>5 DEF mintFails
  <2>2. owed' = owed
    BY <2>1, SMTT(30) DEF Fail
  <2>3. Grows(settlements \ {s}) /\ SweepGoesOn'
    BY <1>0, <2>1, FailGrows
  <2>4. QueueInv'
    BY <1>0, <2>1, <2>3, AnswerQueue
  <2> QED BY <1>0, <1>5, <2>1, <2>2, <2>3, <2>4, FailCredit, SameFeedback DEF MonadInv
<1>6. ASSUME UNCHANGED <<settlements, sweep, verdicts, owed, crashes, monadVars>> PROVE MonadInv'
  <2>1. UNCHANGED <<settlements, sweep, verdicts, owed, crashes, chain, tail, workerBalances, feedback>>
    BY <1>6 DEF monadVars
  <2>2. SweepGoesOn' /\ AttemptsCounted' /\ FeedbackCopies' /\ CreditedOnce' /\ BalancesBacked'
    BY <1>0, <2>1, SameFeedback, SameCredit DEF SweepGoesOn
  <2>3. QueueInv'
    BY <1>0, <2>1 DEF QueueInv, HasTurn, Queued
  <2> QED BY <2>2, <2>3 DEF MonadInv
<1>7. ASSUME NEW b \in late, mintMinedLate(b) PROVE MonadInv'
  <2>1. UNCHANGED <<settlements, sweep, verdicts, owed, crashes, monadVars>>
    BY <1>7 DEF mintMinedLate, LandLate, Expire, queueVars, recordVars
  <2> QED BY <1>6, <2>1
<1>8. ASSUME NEW j \in Jobs, feedbackSent(j) \/ FeedbackAnswer(j) \/ feedbackRetried(j)
      PROVE  MonadInv'
  <2>1. UNCHANGED <<settlements, sweep, verdicts, owed, crashes, workerBalances>>
    BY <1>8 DEF feedbackSent, FeedbackAnswer, feedbackPosted, feedbackFails, feedbackRetried,
                vars, queueVars, recordVars
  <2>2. SweepGoesOn' /\ CreditedOnce' /\ BalancesBacked'
    BY <1>0, <2>1, SameCredit DEF SweepGoesOn
  <2> QED BY <1>8, <2>2, FeedbackSteps DEF MonadInv
<1>9. CASE crash
  BY <1>9, CrashMonad
<1>10. CASE UNCHANGED allVars
  <2>1. UNCHANGED <<settlements, sweep, verdicts, owed, crashes, monadVars>>
    BY <1>10 DEF allVars, vars, queueVars, recordVars
  <2> QED BY <1>6, <2>1
<1> QED BY <1>1, <1>2, <1>3, <1>4, <1>5, <1>7, <1>8, <1>9, <1>10 DEF MonadNext, MintAnswer

\* WrappedBoltDistributor implements BoltDistributor's batches: leaving out the
\* queue, the balances and the feedback, its steps are Settlement's, so what is
\* proved of Settlement holds of it.
THEOREM MonadImplementsSettlement == MonadSpec => Spec
<1>1. MonadInit => Init
  BY DEF MonadInit
<1> QED BY <1>1, MonadIsSettlement, PTL DEF MonadSpec, Spec

\* The inductive invariant of Settlement and that of the queue hold together.
THEOREM MonadInvariant == MonadSpec => [](PayoutInv /\ MonadInv)
<1>1. MonadInit => PayoutInv /\ MonadInv
  BY PayoutInvInit, MonadInvInit DEF MonadInit
<1>2. (PayoutInv /\ MonadInv) /\ [MonadNext]_allVars => (PayoutInv /\ MonadInv)'
  BY MonadIsSettlement, PayoutInvNext, MonadInvNext
<1> QED BY <1>1, <1>2, PTL DEF MonadSpec

\* Only one write has the turn, and what was sent has it.
LEMMA TurnIsSerial == PayoutInv /\ QueueInv => SerialWrites
<1> SUFFICES ASSUME PayoutInv, QueueInv PROVE SerialWrites
  OBVIOUS
<1> DEFINE A == {s \in settlements : s.stage # "preparing"}
           B == {j \in Jobs : feedback[j].stage = "sent"}
<1>1. Cardinality({}) = 0 /\ \A x : Cardinality({x}) = 1
  BY FS_EmptySet, FS_Singleton
<1>2. /\ Chained(chain, tail)
      /\ \A s \in A : HasTurn(Mint(s.payout.jobIds))
      /\ \A j \in B : HasTurn(Note(j))
  BY DEF QueueInv
<1>3. ASSUME NEW s \in A PROVE A = {s} /\ B = {}
  <2>1. \A t \in A : t = s
    <3> SUFFICES ASSUME NEW t \in A PROVE t = s
      OBVIOUS
    <3>1. Mint(t.payout.jobIds) = Mint(s.payout.jobIds)
      BY <1>2, <1>3, OneTurn
    <3> QED BY <3>1, MintsDiffer
  <2>2. \A j \in B : FALSE
    BY <1>2, <1>3, OneTurn, WriteNotNone, SMT
  <2> QED BY <2>1, <2>2
<1>4. ASSUME NEW j \in B PROVE B = {j}
  BY <1>2, <1>4, OneTurn, WriteNotNone, SMT
<1>5. CASE A = {}
  <2>1. B = {} \/ \E j \in B : B = {j}
    BY <1>4
  <2>2. Cardinality(A) = 0 /\ Cardinality(B) \in {0, 1}
    BY <1>1, <1>5, <2>1
  <2> QED BY <2>2, SMT DEF SerialWrites
<1>6. CASE A # {}
  <2>1. PICK s \in A : TRUE
    BY <1>6
  <2>2. A = {s} /\ B = {}
    BY <1>3, <2>1
  <2>3. Cardinality(A) = 1 /\ Cardinality(B) = 0
    BY <1>1, <2>2
  <2> QED BY <2>3, SMT DEF SerialWrites
<1> QED BY <1>5, <1>6

\* queueMonadTx serializes the writes: between its sending and its settling, a
\* mint or a feedback is the only one, with any number of them in the queue.
THEOREM WritesAreSerial == MonadSpec => []SerialWrites
  BY MonadInvariant, TurnIsSerial, PTL DEF MonadInv

\* The balance of a worker counts each of its settled jobs once, until a crash.
THEOREM BalancesCountSettledJobs == MonadSpec => []CreditedOnce
  BY MonadInvariant, PTL DEF MonadInv

\* postFeedback sends at most one transaction per attempt, and a second one
\* only after it gave one up.
THEOREM FeedbackIsBounded == MonadSpec => []FeedbackCopies
  BY MonadInvariant, PTL DEF MonadInv

-----------------------------------------------------------------------------
(* Sums of the values of a function, as SumFunction computes them *)

\* Among subsets of a finite set there is a smallest one.
LEMMA SmallestSubset ==
    ASSUME NEW D, IsFiniteSet(D), NEW B \in SUBSET (SUBSET D), B # {}
    PROVE  \E T \in B : \A U \in B : Cardinality(T) <= Cardinality(U)
<1> DEFINE Sizes == {Cardinality(T) : T \in B}
<1>1. \A T \in B : Cardinality(T) \in Nat
  BY FS_Subset, FS_CardinalityType
<1>2. Sizes \subseteq Nat /\ Sizes # {}
  BY <1>1
<1> HIDE DEF Sizes
<1>3. PICK x \in Sizes : \A y \in Sizes : <<y, x>> \notin OpToRel(<, Nat)
  BY <1>2, NatLessThanWellFounded, WFMin
<1>4. \A a, b \in Nat : a < b => <<a, b>> \in OpToRel(<, Nat)
  BY DEF OpToRel
<1>5. \A y \in Sizes : ~(y < x)
  BY <1>2, <1>3, <1>4
<1>6. \A y \in Sizes : x <= y
  BY <1>2, <1>5, SMT
<1> QED BY <1>6 DEF Sizes

\* The element that is summed next.
Pick(T) == CHOOSE x \in T : TRUE

\* g[T] is the sum of f over T.
Sums(f, D, g) == g = [T \in SUBSET D |-> IF T = {} THEN 0 ELSE f[Pick(T)] + g[T \ {Pick(T)}]]

\* A set without one of its elements.
LEMMA Smaller ==
    ASSUME NEW D, IsFiniteSet(D), NEW T \in SUBSET D, T # {}
    PROVE  /\ Pick(T) \in T /\ T \ {Pick(T)} \in SUBSET D
           /\ Cardinality(T) \in Nat /\ Cardinality(T \ {Pick(T)}) = Cardinality(T) - 1
<1>1. Pick(T) \in T
  BY DEF Pick
<1>2. IsFiniteSet(T)
  BY FS_Subset
<1> QED BY <1>1, <1>2, FS_RemoveElement, FS_CardinalityType

\* The recursion of SumFunction has a solution.
LEMMA SumsExist ==
    ASSUME NEW D, IsFiniteSet(D), NEW f
    PROVE  \E g : Sums(f, D, g)
<1> DEFINE Unfold(g) == [T \in SUBSET D |-> IF T = {} THEN 0 ELSE f[Pick(T)] + g[T \ {Pick(T)}]]
           Upto(g, T) == \A U \in SUBSET D : Cardinality(U) <= Cardinality(T) => g[U] = Unfold(g)[U]
           Bad == {T \in SUBSET D : ~\E g : Upto(g, T)}
<1>1. \A U \in SUBSET D : Cardinality(U) \in Nat /\ IsFiniteSet(U)
  BY FS_Subset, FS_CardinalityType
<1>2. Bad = {}
  <2> SUFFICES ASSUME Bad # {} PROVE FALSE
    OBVIOUS
  <2>1. PICK T \in Bad : \A U \in Bad : Cardinality(T) <= Cardinality(U)
    <3> HIDE DEF Bad
    <3>1. Bad \in SUBSET (SUBSET D)
      BY DEF Bad
    <3> QED BY <3>1, SmallestSubset
  <2>2. CASE T = {}
    <3> DEFINE g == [U \in SUBSET D |-> 0]
    <3>1. ASSUME NEW U \in SUBSET D, Cardinality(U) <= Cardinality(T) PROVE g[U] = Unfold(g)[U]
      <4>1. U = {}
        BY <1>1, <2>2, <3>1, FS_EmptySet, SMT
      <4> QED BY <4>1
    <3> QED BY <2>1, <3>1
  <2>3. CASE T # {}
    <3> DEFINE V == T \ {Pick(T)}
    <3>1. V \in SUBSET D /\ Cardinality(V) = Cardinality(T) - 1 /\ Cardinality(T) \in Nat
      BY <2>3, Smaller
    <3>2. V \notin Bad
      <4> HIDE DEF V, Bad
      <4>1. V \in Bad => Cardinality(T) <= Cardinality(V)
        BY <2>1
      <4> QED BY <3>1, <4>1, SMT
    <3>3. PICK g : Upto(g, V)
      BY <3>1, <3>2
    <3> DEFINE h == Unfold(g)
    <3>4. ASSUME NEW U \in SUBSET D, Cardinality(U) <= Cardinality(T) PROVE h[U] = Unfold(h)[U]
      <4>1. CASE U = {}
        BY <4>1
      <4>2. CASE U # {}
        <5> DEFINE W == U \ {Pick(U)}
        <5>1. W \in SUBSET D /\ Cardinality(W) = Cardinality(U) - 1 /\ Cardinality(U) \in Nat
          BY <4>2, Smaller
        <5>2. Cardinality(W) <= Cardinality(V)
          BY <3>1, <3>4, <5>1, SMT
        <5>3. g[W] = Unfold(g)[W]
          <6> HIDE DEF W, V, Unfold
          <6> QED BY <3>3, <5>1, <5>2
        <5>4. h[U] = f[Pick(U)] + g[W] /\ Unfold(h)[U] = f[Pick(U)] + h[W]
          BY <4>2
        <5> QED BY <5>3, <5>4
      <4> QED BY <4>1, <4>2
    <3>5. Upto(h, T)
      <4> HIDE DEF h, Unfold
      <4> QED BY <3>4
    <3> HIDE DEF h, Upto
    <3> QED BY <2>1, <3>5
  <2> QED BY <2>2, <2>3
<1>3. PICK g : Upto(g, D)
  BY <1>2
<1>4. \A U \in SUBSET D : Cardinality(U) <= Cardinality(D)
  BY FS_Subset
<1>5. \A U \in SUBSET D : g[U] = Unfold(g)[U]
  <2> HIDE DEF Unfold
  <2> QED BY <1>3, <1>4
<1> DEFINE h == [U \in SUBSET D |-> g[U]]
<1>6. Unfold(h) = Unfold(g)
  <2>1. \A T \in SUBSET D : h[T \ {Pick(T)}] = g[T \ {Pick(T)}]
    OBVIOUS
  <2> QED BY <2>1
<1>7. h = Unfold(g)
  BY <1>5
<1> QED BY <1>6, <1>7 DEF Sums

\* SumFunction is such a solution.
LEMMA SumIs ==
    ASSUME NEW D, IsFiniteSet(D), NEW f, DOMAIN f = D
    PROVE  \E g : Sums(f, D, g) /\ SumFunction(f) = g[D]
<1> DEFINE it == CHOOSE g : Sums(f, D, g)
<1>1. Sums(f, D, it)
  BY SumsExist
<1>2. SumFunction(f) = it[D]
  BY DEF SumFunction, SumFunctionOnSet, FoldFunctionOnSet, MapThenFoldSet, Sums, Pick
<1> QED BY <1>1, <1>2

\* A function that is at most the number of members of S that o takes to it
\* sums up to at most the size of S.
LEMMA SumAtMost ==
    ASSUME NEW D, IsFiniteSet(D), NEW f \in [D -> Nat], NEW S, IsFiniteSet(S), NEW o,
           \A d \in D : f[d] <= Cardinality({j \in S : o[j] = d})
    PROVE  SumFunction(f) \in Nat /\ SumFunction(f) <= Cardinality(S)
<1>1. PICK g : Sums(f, D, g) /\ SumFunction(f) = g[D]
  BY SumIs
<1> DEFINE Over(T) == {j \in S : o[j] \in T}
           Bad == {T \in SUBSET D : ~(g[T] \in Nat /\ g[T] <= Cardinality(Over(T)))}
<1>2. \A T : IsFiniteSet(Over(T)) /\ Cardinality(Over(T)) \in Nat /\ Cardinality(Over(T)) <= Cardinality(S)
  BY FS_Subset, FS_CardinalityType
<1>3. Bad = {}
  <2> SUFFICES ASSUME Bad # {} PROVE FALSE
    OBVIOUS
  <2>1. PICK T \in Bad : \A U \in Bad : Cardinality(T) <= Cardinality(U)
    <3> HIDE DEF Bad
    <3>1. Bad \in SUBSET (SUBSET D)
      BY DEF Bad
    <3> QED BY <3>1, SmallestSubset
  <2>2. T \in SUBSET D /\ ~(g[T] \in Nat /\ g[T] <= Cardinality(Over(T)))
    OBVIOUS
  <2>3. CASE T = {}
    <3>1. g[T] = 0
      BY <1>1, <2>2, <2>3 DEF Sums
    <3> HIDE DEF Over
    <3> QED BY <1>2, <2>2, <3>1, SMT
  <2>4. CASE T # {}
    <3> DEFINE x == Pick(T)
               V == T \ {x}
    <3>1. x \in T /\ V \in SUBSET D /\ Cardinality(V) = Cardinality(T) - 1 /\ Cardinality(T) \in Nat
      BY <2>2, <2>4, Smaller
    <3>2. V \notin Bad
      <4> HIDE DEF V, Bad
      <4>1. V \in Bad => Cardinality(T) <= Cardinality(V)
        BY <2>1
      <4> QED BY <3>1, <4>1, SMT
    <3>3. g[V] \in Nat /\ g[V] <= Cardinality(Over(V))
      <4> HIDE DEF V
      <4> QED BY <3>1, <3>2
    <3>4. g[T] = f[x] + g[V]
      BY <1>1, <2>2, <2>4 DEF Sums
    <3>5. Over(T) = Over(V) \cup {j \in S : o[j] = x} /\ Over(V) \cap {j \in S : o[j] = x} = {}
      BY <3>1
    <3>6. IsFiniteSet({j \in S : o[j] = x}) /\ Cardinality({j \in S : o[j] = x}) \in Nat
      BY FS_Subset, FS_CardinalityType
    <3> HIDE DEF Over, V, x
    <3>7. Cardinality(Over(T)) = Cardinality(Over(V)) + Cardinality({j \in S : o[j] = x})
      <4>1. Cardinality(Over(V) \cap {j \in S : o[j] = x}) = 0
        BY <3>5, FS_EmptySet
      <4>2. Cardinality(Over(V) \cup {j \in S : o[j] = x})
              = Cardinality(Over(V)) + Cardinality({j \in S : o[j] = x})
                - Cardinality(Over(V) \cap {j \in S : o[j] = x})
        BY <1>2, <3>6, FS_Union
      <4> QED BY <1>2, <3>5, <3>6, <4>1, <4>2, SMT
    <3>8. f[x] \in Nat /\ f[x] <= Cardinality({j \in S : o[j] = x})
      BY <2>2, <3>1
    <3> QED BY <1>2, <2>2, <3>3, <3>4, <3>6, <3>7, <3>8, SMT
  <2> QED BY <2>3, <2>4
<1>4. g[D] \in Nat /\ g[D] <= Cardinality(Over(D))
  BY <1>3
<1>5. Cardinality(S) \in Nat
  BY FS_CardinalityType
<1> HIDE DEF Over
<1> QED BY <1>1, <1>2, <1>4, <1>5, SMT

\* A function that is at least 1 on S sums up to at least the size of S.
LEMMA SumAtLeast ==
    ASSUME NEW D, IsFiniteSet(D), NEW f \in [D -> Nat], NEW S \in SUBSET D, \A d \in S : f[d] >= 1
    PROVE  SumFunction(f) \in Nat /\ Cardinality(S) <= SumFunction(f)
<1>1. PICK g : Sums(f, D, g) /\ SumFunction(f) = g[D]
  BY SumIs
<1> DEFINE Bad == {T \in SUBSET D : ~(g[T] \in Nat /\ Cardinality(S \cap T) <= g[T])}
<1>2. \A T : IsFiniteSet(S \cap T) /\ Cardinality(S \cap T) \in Nat
  BY FS_Subset, FS_CardinalityType
<1>3. Bad = {}
  <2> SUFFICES ASSUME Bad # {} PROVE FALSE
    OBVIOUS
  <2>1. PICK T \in Bad : \A U \in Bad : Cardinality(T) <= Cardinality(U)
    <3> HIDE DEF Bad
    <3>1. Bad \in SUBSET (SUBSET D)
      BY DEF Bad
    <3> QED BY <3>1, SmallestSubset
  <2>2. T \in SUBSET D /\ ~(g[T] \in Nat /\ Cardinality(S \cap T) <= g[T])
    OBVIOUS
  <2>3. CASE T = {}
    <3>1. g[T] = 0
      BY <1>1, <2>2, <2>3 DEF Sums
    <3>2. S \cap T = {}
      BY <2>3
    <3> QED BY <2>2, <3>1, <3>2, FS_EmptySet, SMT
  <2>4. CASE T # {}
    <3> DEFINE x == Pick(T)
               V == T \ {x}
    <3>1. x \in T /\ V \in SUBSET D /\ Cardinality(V) = Cardinality(T) - 1 /\ Cardinality(T) \in Nat
      BY <2>2, <2>4, Smaller
    <3>2. V \notin Bad
      <4> HIDE DEF V, Bad
      <4>1. V \in Bad => Cardinality(T) <= Cardinality(V)
        BY <2>1
      <4> QED BY <3>1, <4>1, SMT
    <3>3. g[V] \in Nat /\ Cardinality(S \cap V) <= g[V]
      <4> HIDE DEF V
      <4> QED BY <3>1, <3>2
    <3>4. g[T] = f[x] + g[V]
      BY <1>1, <2>2, <2>4 DEF Sums
    <3>5. f[x] \in Nat
      BY <2>2, <3>1
    <3>6. CASE x \in S
      <4>1. S \cap T = (S \cap V) \cup {x} /\ x \notin S \cap V
        BY <3>1, <3>6
      <4> HIDE DEF V, x
      <4>2. Cardinality(S \cap T) = Cardinality(S \cap V) + 1
        BY <1>2, <4>1, FS_AddElement
      <4> QED BY <1>2, <2>2, <3>3, <3>4, <3>5, <3>6, <4>2, SMT
    <3>7. CASE x \notin S
      <4>1. S \cap T = S \cap V
        BY <3>1, <3>7
      <4> HIDE DEF V, x
      <4>2. Cardinality(S \cap T) = Cardinality(S \cap V)
        BY <4>1
      <4>3. g[T] \in Nat /\ Cardinality(S \cap V) <= g[T]
        BY <1>2, <3>3, <3>4, <3>5, SMT
      <4> QED BY <2>2, <4>2, <4>3
    <3> QED BY <3>6, <3>7
  <2> QED BY <2>3, <2>4
<1>4. g[D] \in Nat /\ Cardinality(S \cap D) <= g[D] /\ S \cap D = S
  BY <1>3
<1> QED BY <1>1, <1>4

-----------------------------------------------------------------------------
(* The custody of the balances *)

\* Every balance is backed by jobs settled for its worker, and every settled job
\* by a transfer of its own.
LEMMA BackedBalances ==
    ASSUME PayoutInv, MonadInv
    PROVE  Solvent
<1> DEFINE S == {j \in Jobs : verdicts[j] = <<"settled">>}
<1>1. /\ BalancesBacked /\ workerBalances \in [Pubkeys -> Nat]
      /\ transfers \in [Jobs -> Nat]
  BY DEF MonadInv, AttemptsCounted, PayoutInv, TypeOK
<1>2. IsFiniteSet(Pubkeys) /\ IsFiniteSet(S) /\ Cardinality(S) \in Nat
  BY JobsFinite, MonadAssumption, FS_Subset, FS_CardinalityType
<1>3. \A pk \in Pubkeys : workerBalances[pk] <= Cardinality({j \in S : owed[j] = pk})
  <2>1. ASSUME NEW pk \in Pubkeys
        PROVE  {j \in S : owed[j] = pk} = {j \in Jobs : owed[j] = pk /\ verdicts[j] = <<"settled">>}
    OBVIOUS
  <2> HIDE DEF S
  <2> QED BY <1>1, <2>1 DEF BalancesBacked
<1>4. \A j \in S : transfers[j] >= 1
  BY DEF PayoutInv, SettledWasPaid
<1>5. S \in SUBSET Jobs
  OBVIOUS
<1> HIDE DEF S
<1>6. SumFunction(workerBalances) \in Nat /\ SumFunction(workerBalances) <= Cardinality(S)
  BY <1>1, <1>2, <1>3, SumAtMost, SMT
<1>7. SumFunction(transfers) \in Nat /\ Cardinality(S) <= SumFunction(transfers)
  BY <1>1, <1>4, <1>5, JobsFinite, SumAtLeast
<1> QED BY <1>2, <1>6, <1>7, SMT DEF Solvent

\* Custody: the coordinator holds the tokens of all the balances it keeps,
\* whatever batches fail, are merged, are minted again or are lost in a crash.
THEOREM CustodySolvent == MonadSpec => []Solvent
  BY MonadInvariant, BackedBalances, PTL

-----------------------------------------------------------------------------
(* ChainLibraries *)

\* A call as it is remembered.
AnchorCalls ==
    [on: {"solana", "monad"}, params: AnchorReceiptParams, keypair: BOOLEAN, sent: Sends,
     txSig: BOOLEAN]

\* The types of the calls, the accounts of the program and the ledger of the contract.
LibTypeOK ==
    /\ calls \in Seq(AnchorCalls)
    /\ accounts \in [DOMAIN JobIds -> AnchorReceiptParams \cup {NoRecord}]
    /\ ledger \in [anchored: SUBSET DOMAIN Hashes, events: Seq(DOMAIN Hashes)]

\* What the calls so far have left in the accounts of the program, for a job.
AccountOf(j) ==
    \/ accounts[j] = NoRecord /\ \A i \in DOMAIN calls : ~SoundFor(j, calls[i])
    \/ \E i \in DOMAIN calls :
           /\ SoundFor(j, calls[i]) /\ \A k \in 1..(i - 1) : ~SoundFor(j, calls[k])
           /\ accounts[j] = calls[i].params

\* The contract has a hash if and only if it was anchored, and one event for it.
LedgerOf ==
    /\ \A h \in DOMAIN Hashes :
         isAnchored(h) <=> \E i \in DOMAIN calls :
                               calls[i].on = "monad" /\ calls[i].params.receiptHash = h
    /\ \A m \in DOMAIN ledger.events :
         /\ isAnchored(ledger.events[m])
         /\ \A n \in DOMAIN ledger.events : ledger.events[m] = ledger.events[n] => m = n

\* A call that was answered with a signature wrote the record of its job.
SignatureOf ==
    \A i \in DOMAIN calls : calls[i].txSig => accounts[calls[i].params.jobId] = calls[i].params

\* The inductive invariant of the anchors.
AnchorInv == LibTypeOK /\ (\A j \in DOMAIN JobIds : AccountOf(j)) /\ SignatureOf /\ LedgerOf

\* The sample of job ids and hashes, and their lengths.
LEMMA LibData ==
    /\ DOMAIN JobIds = {"short", "full", "uuid", "long"}
    /\ DOMAIN Hashes = {"sha256", "other", "prefixed"}
    /\ JobIds["short"] = 8 /\ JobIds["full"] = 32 /\ JobIds["uuid"] = 36 /\ JobIds["long"] = 65
    /\ Hashes["sha256"] = 64 /\ Hashes["other"] = 64 /\ Hashes["prefixed"] = 66
BY DEF JobIds, Hashes

\* Lengths are numbers.
LEMMA LibSizes ==
    /\ \A j \in DOMAIN JobIds : JobIds[j] \in Nat
    /\ \A h \in DOMAIN Hashes : Hashes[h] \in Nat
BY LibData, SMT

\* A call that is added: what it adds at the end, and what stays.
LEMMA CallAdded ==
    ASSUME NEW s \in Seq(AnchorCalls), NEW c \in AnchorCalls
    PROVE  /\ Append(s, c) \in Seq(AnchorCalls)
           /\ DOMAIN Append(s, c) = DOMAIN s \cup {Len(s) + 1}
           /\ Len(s) + 1 \notin DOMAIN s
           /\ \A i \in DOMAIN s : Append(s, c)[i] = s[i]
           /\ \A i \in DOMAIN s : i \in Nat \ {0} /\ \A k \in 1..(i - 1) : k \in DOMAIN s
           /\ \A k \in 1..Len(s) : k \in DOMAIN s
           /\ Append(s, c)[Len(s) + 1] = c
           /\ Len(s) \in Nat
BY SMT

\* A call to Solana keeps the invariant: the account it writes was empty, and
\* no earlier call could have written it.
LEMMA SolanaKeeps ==
    ASSUME AnchorInv, NEW call \in AnchorReceiptParams, NEW hasKeypair \in BOOLEAN,
           NEW sent \in Sends, AnchorOnSolana(call, hasKeypair, sent)
    PROVE  AnchorInv'
<1> DEFINE answer == anchorReceipt(accounts, call, hasKeypair, sent)
           c == [on |-> "solana", params |-> call, keypair |-> hasKeypair, sent |-> sent,
                 txSig |-> answer.txSig]
<1>0. answer.txSig \in BOOLEAN
  BY DEF anchorReceipt
<1>1. c \in AnchorCalls /\ calls' = Append(calls, c) /\ calls \in Seq(AnchorCalls)
  BY <1>0 DEF AnchorOnSolana, AnchorInv, LibTypeOK, AnchorCalls
<1>2. call.jobId \in DOMAIN JobIds /\ call.receiptHash \in DOMAIN Hashes
  BY DEF AnchorReceiptParams
<1>3. accounts' = IF SoundFor(call.jobId, c) /\ accounts[call.jobId] = NoRecord
                  THEN [accounts EXCEPT ![call.jobId] = call] ELSE accounts
  <2>1. JobIds[call.jobId] <= MaxSeed => JobIds[call.jobId] <= 64
    BY <1>2, LibSizes, SMT DEF MaxSeed
  <2> QED BY <2>1 DEF AnchorOnSolana, anchorReceipt, anchor_receipt, Accepts, SoundFor
<1>4. ledger' = ledger
  BY DEF AnchorOnSolana
<1>9. c.txSig => SoundFor(call.jobId, c) /\ accounts[call.jobId] = NoRecord
  BY DEF anchorReceipt, Accepts, SoundFor
<1>10. c.params = call
  OBVIOUS
<1> HIDE DEF c
<1>5. LibTypeOK'
  BY <1>1, <1>2, <1>3, <1>4, CallAdded DEF AnchorInv, LibTypeOK
<1>6. ASSUME NEW j \in DOMAIN JobIds PROVE AccountOf(j)'
  <2>1. AccountOf(j)
    BY DEF AnchorInv
  <2>2. CASE accounts[j] = NoRecord /\ \A i \in DOMAIN calls : ~SoundFor(j, calls[i])
    <3>1. CASE SoundFor(j, c)
      <4>1. j = call.jobId
        BY <3>1 DEF SoundFor, c
      <4>2. accounts'[j] = c.params
        BY <1>2, <1>3, <2>2, <3>1, <4>1 DEF c, AnchorInv, LibTypeOK
      <4>3. /\ Len(calls) + 1 \in DOMAIN calls'
            /\ calls'[Len(calls) + 1] = c
            /\ \A k \in 1..Len(calls) : ~SoundFor(j, calls'[k])
        BY <1>1, <2>2, CallAdded, SMT
      <4>4. (Len(calls) + 1) - 1 = Len(calls)
        BY <1>1, CallAdded, SMT
      <4> QED BY <3>1, <4>2, <4>3, <4>4 DEF AccountOf, SoundFor
    <3>2. CASE ~SoundFor(j, c)
      <4>1. accounts'[j] = NoRecord
        BY <1>3, <2>2, <3>2 DEF AnchorInv, LibTypeOK
      <4>2. \A i \in DOMAIN calls' : ~SoundFor(j, calls'[i])
        BY <1>1, <2>2, <3>2, CallAdded, SMT
      <4> QED BY <4>1, <4>2 DEF AccountOf, SoundFor
    <3> QED BY <3>1, <3>2
  <2>3. CASE \E i \in DOMAIN calls :
                /\ SoundFor(j, calls[i]) /\ \A k \in 1..(i - 1) : ~SoundFor(j, calls[k])
                /\ accounts[j] = calls[i].params
    <3>1. PICK i \in DOMAIN calls :
                /\ SoundFor(j, calls[i]) /\ \A k \in 1..(i - 1) : ~SoundFor(j, calls[k])
                /\ accounts[j] = calls[i].params
      BY <2>3
    <3>2. accounts[j] # NoRecord
      <4>1. calls[i] \in AnchorCalls /\ calls[i].params \in AnchorReceiptParams
        <5>1. calls[i] \in AnchorCalls
          BY <1>1, SMT
        <5> QED BY <5>1 DEF AnchorCalls
      <4>2. calls[i].params.jobId # "none"
        BY <4>1, LibData DEF AnchorReceiptParams
      <4> QED BY <3>1, <4>2, SMT DEF NoRecord
    <3>3. accounts'[j] = accounts[j]
      BY <1>3, <3>2 DEF AnchorInv, LibTypeOK
    <3>4. i \in DOMAIN calls' /\ calls'[i] = calls[i] /\ \A k \in 1..(i - 1) : calls'[k] = calls[k]
      BY <1>1, CallAdded, SMT
    <3>5. /\ SoundFor(j, calls'[i]) /\ \A k \in 1..(i - 1) : ~SoundFor(j, calls'[k])
          /\ accounts'[j] = calls'[i].params
      BY <3>1, <3>3, <3>4
    <3> QED BY <3>4, <3>5 DEF AccountOf, SoundFor
  <2> QED BY <2>1, <2>2, <2>3 DEF AccountOf
<1>7. LedgerOf'
  <2>1. \A i \in DOMAIN calls : calls'[i] = calls[i]
    BY <1>1, CallAdded, SMT
  <2>2. DOMAIN calls' = DOMAIN calls \cup {Len(calls) + 1} /\ calls'[Len(calls) + 1].on = "solana"
    BY <1>1, CallAdded, SMT DEF c
  <2> QED BY <1>4, <2>1, <2>2, SMT DEF LedgerOf, isAnchored, AnchorInv
<1>8. ASSUME NEW i \in DOMAIN calls', calls'[i].txSig
      PROVE  accounts'[calls'[i].params.jobId] = calls'[i].params
  <2>1. \/ i \in DOMAIN calls /\ calls'[i] = calls[i]
        \/ calls'[i] = c
    BY <1>1, CallAdded, SMT
  <2>2. CASE i \in DOMAIN calls /\ calls'[i] = calls[i]
    <3>1. accounts[calls[i].params.jobId] = calls[i].params
      BY <1>8, <2>2 DEF AnchorInv, SignatureOf
    <3>2. calls[i] \in AnchorCalls
      BY <1>1, <2>2, SMT
    <3>3. calls[i].params.jobId \in DOMAIN JobIds /\ calls[i].params.jobId # "none"
      BY <3>2, LibData DEF AnchorCalls, AnchorReceiptParams
    <3>4. accounts[calls[i].params.jobId] # NoRecord
      BY <3>1, <3>3, SMT DEF NoRecord
    <3>5. accounts'[calls[i].params.jobId] = accounts[calls[i].params.jobId]
      BY <1>3, <3>3, <3>4 DEF AnchorInv, LibTypeOK
    <3> QED BY <2>2, <3>1, <3>5
  <2>3. CASE calls'[i] = c
    <3>1. accounts' = [accounts EXCEPT ![call.jobId] = call]
      BY <1>3, <1>8, <1>9, <2>3
    <3> QED BY <1>2, <1>10, <2>3, <3>1 DEF AnchorInv, LibTypeOK
  <2> QED BY <2>1, <2>2, <2>3
<1> QED BY <1>5, <1>6, <1>7, <1>8 DEF AnchorInv, SignatureOf

\* A call to Monad keeps the invariant: it adds its hash, and an event for it,
\* unless the hash is there.
LEMMA MonadKeeps ==
    ASSUME AnchorInv, NEW call \in AnchorReceiptParams, AnchorOnMonad(call)
    PROVE  AnchorInv'
<1> DEFINE c == [on |-> "monad", params |-> call, keypair |-> TRUE, sent |-> "confirmed",
                 txSig |-> FALSE]
<1> DEFINE h == call.receiptHash
<1>1. c \in AnchorCalls /\ calls' = Append(calls, c) /\ calls \in Seq(AnchorCalls)
  BY DEF AnchorOnMonad, AnchorInv, LibTypeOK, AnchorCalls, Sends
<1>2. c.on = "monad" /\ c.params = call /\ ~c.txSig /\ h \in DOMAIN Hashes
  BY DEF AnchorReceiptParams
<1>3. accounts' = accounts /\ ledger' = anchor(ledger, h)
  BY DEF AnchorOnMonad
<1>4. ledger \in [anchored: SUBSET DOMAIN Hashes, events: Seq(DOMAIN Hashes)]
  BY DEF AnchorInv, LibTypeOK
<1> HIDE DEF c, h
<1>5. ledger' \in [anchored: SUBSET DOMAIN Hashes, events: Seq(DOMAIN Hashes)]
  BY <1>2, <1>3, <1>4, SMT DEF anchor
<1>6. LibTypeOK'
  BY <1>1, <1>3, <1>5, CallAdded DEF AnchorInv, LibTypeOK
<1>7. /\ DOMAIN calls' = DOMAIN calls \cup {Len(calls) + 1}
      /\ \A i \in DOMAIN calls : calls'[i] = calls[i] /\ \A k \in 1..(i - 1) : calls'[k] = calls[k]
      /\ calls'[Len(calls) + 1] = c
  BY <1>1, CallAdded, SMT
<1>8. ASSUME NEW j \in DOMAIN JobIds PROVE AccountOf(j)'
  <2>1. AccountOf(j) /\ ~SoundFor(j, c)
    BY <1>2 DEF AnchorInv, SoundFor
  <2>2. accounts'[j] = accounts[j]
    BY <1>3
  <2>3. CASE accounts[j] = NoRecord /\ \A i \in DOMAIN calls : ~SoundFor(j, calls[i])
    <3>1. \A i \in DOMAIN calls' : ~SoundFor(j, calls'[i])
      BY <1>7, <2>1, <2>3
    <3> QED BY <2>2, <2>3, <3>1 DEF AccountOf, SoundFor
  <2>4. CASE \E i \in DOMAIN calls :
                /\ SoundFor(j, calls[i]) /\ \A k \in 1..(i - 1) : ~SoundFor(j, calls[k])
                /\ accounts[j] = calls[i].params
    <3>1. PICK i \in DOMAIN calls :
                /\ SoundFor(j, calls[i]) /\ \A k \in 1..(i - 1) : ~SoundFor(j, calls[k])
                /\ accounts[j] = calls[i].params
      BY <2>4
    <3>2. i \in DOMAIN calls' /\ calls'[i] = calls[i] /\ \A k \in 1..(i - 1) : calls'[k] = calls[k]
      BY <1>7
    <3>3. /\ SoundFor(j, calls'[i]) /\ \A k \in 1..(i - 1) : ~SoundFor(j, calls'[k])
          /\ accounts'[j] = calls'[i].params
      BY <2>2, <3>1, <3>2
    <3> QED BY <3>2, <3>3 DEF AccountOf, SoundFor
  <2> QED BY <2>1, <2>3, <2>4 DEF AccountOf
<1>9. ledger'.anchored = ledger.anchored \cup {h}
  BY <1>3, <1>4 DEF anchor
<1>10. \A g \in DOMAIN Hashes :
         isAnchored(g)' <=> \E i \in DOMAIN calls' :
                               calls'[i].on = "monad" /\ calls'[i].params.receiptHash = g
  <2>1. calls'[Len(calls) + 1].params.receiptHash = h
    BY <1>2, <1>7 DEF h
  <2> QED BY <1>2, <1>7, <1>9, <2>1, SMT DEF AnchorInv, LedgerOf, isAnchored
<1>11. \A m \in DOMAIN ledger'.events :
         /\ ledger'.events[m] \in ledger'.anchored
         /\ \A n \in DOMAIN ledger'.events : ledger'.events[m] = ledger'.events[n] => m = n
  <2>1. CASE h \in ledger.anchored
    BY <1>3, <2>1 DEF anchor, AnchorInv, LedgerOf, isAnchored
  <2>2. CASE h \notin ledger.anchored
    <3>1. ledger'.events = Append(ledger.events, h) /\ ledger.events \in Seq(DOMAIN Hashes)
      BY <1>3, <1>4, <2>2 DEF anchor
    <3>2. /\ DOMAIN ledger'.events = DOMAIN ledger.events \cup {Len(ledger.events) + 1}
          /\ \A m \in DOMAIN ledger.events : ledger'.events[m] = ledger.events[m]
          /\ ledger'.events[Len(ledger.events) + 1] = h
      BY <1>2, <3>1, SMT
    <3> QED BY <1>9, <2>2, <3>2, SMT DEF AnchorInv, LedgerOf, isAnchored
  <2> QED BY <2>1, <2>2
<1>12. SignatureOf'
  BY <1>2, <1>3, <1>7 DEF AnchorInv, SignatureOf
<1> QED BY <1>6, <1>8, <1>10, <1>11, <1>12 DEF AnchorInv, LedgerOf, isAnchored

\* Nothing is anchored at first.
LEMMA AnchorInvInit == LibInit => AnchorInv
<1> SUFFICES ASSUME LibInit PROVE AnchorInv
  BY SMT
<1>1. LibTypeOK
  BY SMT DEF LibInit, LibTypeOK
<1>2. calls = <<>> /\ ledger.anchored = {} /\ ledger.events = <<>>
  BY DEF LibInit
<1>3. \A j \in DOMAIN JobIds : AccountOf(j)
  BY <1>2, SMT DEF LibInit, AccountOf
<1>4. SignatureOf
  BY <1>2, SMT DEF SignatureOf
<1> QED BY <1>1, <1>2, <1>3, <1>4, SMT DEF AnchorInv, LedgerOf, isAnchored

\* Anchoring and one-off settlement preserve the invariant.
LEMMA AnchorInvNext == AnchorInv /\ [LibNext]_libVars => AnchorInv'
<1> SUFFICES ASSUME AnchorInv, [LibNext]_libVars PROVE AnchorInv'
  OBVIOUS
<1>1. CASE AnchorStep
  BY <1>1, SolanaKeeps, MonadKeeps DEF AnchorStep
<1>2. CASE SettleStep \/ UNCHANGED libVars
  <2>1. UNCHANGED <<calls, accounts, ledger>>
    BY <1>2 DEF SettleStep, SettleOnce, libVars
  <2> QED BY <2>1 DEF AnchorInv, LibTypeOK, AccountOf, SignatureOf, LedgerOf, isAnchored
<1> QED BY <1>1, <1>2 DEF LibNext

\* The record an account holds is short enough for the space it was given.
LEMMA RecordFits ==
    ASSUME NEW call \in AnchorReceiptParams, JobIds[call.jobId] <= MaxSeed,
           Hashes[call.receiptHash] <= 64
    PROVE  Space(call) <= SIZE
<1>1. call.jobId \in DOMAIN JobIds /\ call.receiptHash \in DOMAIN Hashes
  BY DEF AnchorReceiptParams
<1> QED BY <1>1, LibSizes, SMT DEF Space, SIZE, MaxSeed

\* What the invariant says of the records.
LEMMA AnchorInvStays == AnchorInv => FirstAnchorStays
<1> SUFFICES ASSUME AnchorInv PROVE FirstAnchorStays
  OBVIOUS
<1>1. ASSUME NEW j \in DOMAIN JobIds, accounts[j] # NoRecord
      PROVE  \E i \in DOMAIN calls :
                /\ SoundFor(j, calls[i]) /\ \A k \in 1..(i - 1) : ~SoundFor(j, calls[k])
                /\ accounts[j] = calls[i].params /\ Space(accounts[j]) <= SIZE
  <2>1. PICK i \in DOMAIN calls :
                /\ SoundFor(j, calls[i]) /\ \A k \in 1..(i - 1) : ~SoundFor(j, calls[k])
                /\ accounts[j] = calls[i].params
    BY <1>1 DEF AnchorInv, AccountOf
  <2>2. calls[i] \in AnchorCalls
    BY SMT DEF AnchorInv, LibTypeOK
  <2>3. calls[i].params \in AnchorReceiptParams
    BY <2>2 DEF AnchorCalls
  <2>4. Space(calls[i].params) <= SIZE
    BY <2>1, <2>3, RecordFits DEF SoundFor
  <2> QED BY <2>1, <2>4
<1>2. \A j \in DOMAIN JobIds : accounts[j] = NoRecord => \A i \in DOMAIN calls : ~SoundFor(j, calls[i])
  <2> SUFFICES ASSUME NEW j \in DOMAIN JobIds, accounts[j] = NoRecord,
                      NEW i \in DOMAIN calls, SoundFor(j, calls[i]), accounts[j] = calls[i].params
               PROVE  FALSE
    BY DEF AnchorInv, AccountOf
  <2>1. calls[i] \in AnchorCalls
    BY SMT DEF AnchorInv, LibTypeOK
  <2>2. calls[i].params.jobId \in DOMAIN JobIds
    BY <2>1 DEF AnchorCalls, AnchorReceiptParams
  <2> QED BY <2>2, LibData, SMT DEF NoRecord
<1> QED BY <1>1, <1>2 DEF FirstAnchorStays, AnchorInv, SignatureOf, LedgerOf

\* Whatever is submitted to the two chains, and whether or not it is confirmed, a
\* job keeps its first record, who got a signature finds the record that was
\* sent, and each hash is reported once.
THEOREM AnchorsStay == LibSpec => []FirstAnchorStays
<1>1. LibSpec => []AnchorInv
  BY AnchorInvInit, AnchorInvNext, PTL DEF LibSpec
<1> QED BY <1>1, AnchorInvStays, PTL

\* The fee of settleBolt, of swapUsdcToBolt and of distributeBolt is the same.
LEMMA SameFee ==
    ASSUME NEW total \in Nat
    PROVE  LET fee == (total * 500) \div 10000
           IN  /\ fee \in Nat /\ fee = (total * 5) \div 100
               /\ 20 * fee <= total /\ total < 20 * (fee + 1)
BY SMT

\* One settlement: what settleBolt, swapUsdcToBolt and distributeBolt made of a quote.
LEMMA SettleOnceExact ==
    ASSUME NEW quote \in Quotes, NEW hasKeypair \in BOOLEAN, NEW swap \in Swaps,
           SettleOnce(quote, hasKeypair, swap)
    PROVE  BoltSplitExact'
<1> DEFINE total == IF quote = NoQuote THEN 0 ELSE quote
           fee   == (total * 500) \div 10000
           sign  == hasKeypair /\ quote # NoQuote /\ swap = "confirmed"
<1>1. total \in Nat
  BY LibrariesAssumption, SMT DEF Quotes, NoQuote
<1>2. fee \in Nat /\ fee = (total * 5) \div 100 /\ 20 * fee <= total /\ total < 20 * (fee + 1)
  BY <1>1, SameFee, SMT
<1>3. oneOff'.quote = quote
  BY SMT DEF SettleOnce
<1>4. oneOff'.settled = [bolt_amount |-> total - fee, protocol_fee |-> fee, signed |-> sign]
  BY SMT DEF SettleOnce, settleBolt, PROTOCOL_FEE_BPS
<1>5. oneOff'.shared = [fee |-> fee, workerAmount |-> total - fee]
  BY SMT DEF SettleOnce, distributeBolt, PROTOCOL_FEE_BPS
<1>6. oneOff'.swapped = IF quote = NoQuote \/ (hasKeypair /\ swap # "confirmed") THEN Threw
                        ELSE [outputAmount |-> quote, protocolFee |-> (quote * 5) \div 100,
                              signed |-> hasKeypair]
  BY SMT DEF SettleOnce, swapUsdcToBolt
<1>7. IF oneOff'.swapped = Threw THEN ~sign
      ELSE oneOff'.swapped.protocolFee = fee /\ oneOff'.swapped.signed = sign
  <2>1. CASE quote = NoQuote \/ (hasKeypair /\ swap # "confirmed")
    BY <1>6, <2>1, SMT
  <2>2. CASE ~(quote = NoQuote \/ (hasKeypair /\ swap # "confirmed"))
    <3>1. total = quote
      BY <2>2
    <3>2. sign = hasKeypair
      BY <2>2
    <3>3. oneOff'.swapped = [outputAmount |-> quote, protocolFee |-> (quote * 5) \div 100,
                             signed |-> hasKeypair]
      BY <1>6, <2>2
    <3>4. DOMAIN oneOff'.swapped # DOMAIN Threw
      <4>1. "signed" \in DOMAIN oneOff'.swapped
        BY <3>3, SMT
      <4> QED BY <4>1, SMT DEF Threw
    <3>5. oneOff'.swapped.protocolFee = (total * 5) \div 100 /\ oneOff'.swapped.signed = hasKeypair
      BY <3>1, <3>3, SMT
    <3> QED BY <1>2, <3>2, <3>4, <3>5, SMT
  <2> QED BY <2>1, <2>2, SMT
<1>8. (IF oneOff'.quote = NoQuote THEN 0 ELSE oneOff'.quote) = total
  BY <1>3
<1> HIDE DEF fee, total, sign
<1>9. /\ oneOff'.settled.bolt_amount = total - fee /\ oneOff'.settled.protocol_fee = fee
      /\ oneOff'.settled.signed = sign
  BY <1>4, SMT
<1>10. (total - fee) + fee = total
  BY <1>1, <1>2, SMT
<1> QED BY <1>2, <1>5, <1>7, <1>8, <1>9, <1>10 DEF BoltSplitExact

\* For every quote, the three libraries split it alike, and exactly.
THEOREM SplitsExact == LibSpec => []BoltSplitExact
<1>1. LibInit => BoltSplitExact
  BY DEF LibInit, BoltSplitExact
<1>2. BoltSplitExact /\ [LibNext]_libVars => BoltSplitExact'
  <2> SUFFICES ASSUME BoltSplitExact, [LibNext]_libVars PROVE BoltSplitExact'
    BY SMT
  <2>1. CASE SettleStep
    BY <2>1, SettleOnceExact DEF SettleStep
  <2>2. CASE AnchorStep \/ UNCHANGED libVars
    <3>1. oneOff' = oneOff
      BY <2>2 DEF AnchorStep, AnchorOnSolana, AnchorOnMonad, libVars
    <3> QED BY <3>1 DEF BoltSplitExact
  <2> QED BY <2>1, <2>2, SMT DEF LibNext
<1> QED BY <1>1, <1>2, PTL DEF LibSpec
=============================================================================
