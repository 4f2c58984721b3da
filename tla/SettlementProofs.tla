-------------------------- MODULE SettlementProofs --------------------------
(***************************************************************************)
(* The payouts of Settlement, for any workers, any finite set of jobs and  *)
(* any number of settlements under way: every queued payout is in one      *)
(* place, for its own worker and with its own amount, payment_posted is    *)
(* only sent for what a transfer paid, and one sweep runs at a time.  A    *)
(* lemma on Visit carries PayoutInv over the second half of a step.        *)
(*                                                                         *)
(* Then the queue of writes to Monad (queueMonadTx in MonadChain): that it *)
(* is one line, and that it holds the running settlements and the feedback *)
(* calls, step by step.  The queue is a set of entries that name the write *)
(* each one waits for.  Its invariant, Chained, says that this is one line *)
(* without a circle; what the queue holds is then read off the running     *)
(* settlements and the feedback calls (QueueInv).  ChainProofs draws the   *)
(* conclusions.                                                            *)
(***************************************************************************)
EXTENDS MonadChain, FiniteSetTheorems, TLAPS

\* Leaves are proved by Zenon; those that need arithmetic or the theory of
\* sequences and records name SMT.
USE Zenon

-----------------------------------------------------------------------------
(* Batches *)

\* NoPayout is a batch without jobs.
LEMMA EmptyBatch == Exact(NoPayout) /\ NoPayout.jobIds = {}
  BY FS_EmptySet, SettlementAssumption, SMT DEF Exact, NoPayout, Payout

\* A set of jobs is finite, and its cardinality a number.
LEMMA JobsFinite ==
    ASSUME NEW S \in SUBSET Jobs
    PROVE  IsFiniteSet(S) /\ Cardinality(S) \in Nat
  BY FS_Subset, FS_CardinalityType, SettlementAssumption

\* queuePayout adds one job and one reward to a batch.
LEMMA WithJobExact ==
    ASSUME NEW b, Exact(b), NEW j \in Jobs, j \notin b.jobIds
    PROVE  Exact(WithJob(b, j)) /\ WithJob(b, j).jobIds = b.jobIds \cup {j}
  <1>1. b \in Payout /\ b.totalBolt = Cardinality(b.jobIds) BY DEF Exact
  <1>2. /\ WithJob(b, j) \in Payout
        /\ WithJob(b, j).jobIds = b.jobIds \cup {j}
        /\ WithJob(b, j).totalBolt = b.totalBolt + 1
    <2>1. b.jobIds \in SUBSET Jobs /\ b.totalBolt \in Nat /\ b.retryCount \in 0..MaxRetries
      BY <1>1 DEF Payout
    <2> QED BY <2>1, SMT DEF WithJob, Payout
  <1>3. b.jobIds \in SUBSET Jobs BY <1>1 DEF Payout
  <1>4. Cardinality(b.jobIds \cup {j}) = Cardinality(b.jobIds) + 1
    BY <1>3, JobsFinite, FS_AddElement
  <1> QED BY <1>1, <1>2, <1>4 DEF Exact

\* Two batches without a common job merge into one of both amounts.
LEMMA MergedExact ==
    ASSUME NEW b, Exact(b), NEW c, Exact(c), b.jobIds \cap c.jobIds = {}
    PROVE  Exact(Merged(b, c)) /\ Merged(b, c).jobIds = b.jobIds \cup c.jobIds
  <1>1. /\ b \in Payout /\ b.totalBolt = Cardinality(b.jobIds)
        /\ c \in Payout /\ c.totalBolt = Cardinality(c.jobIds)
    BY DEF Exact
  <1>2. /\ Merged(b, c) \in Payout
        /\ Merged(b, c).jobIds = b.jobIds \cup c.jobIds
        /\ Merged(b, c).totalBolt = b.totalBolt + c.totalBolt
    <2>1. /\ b.jobIds \in SUBSET Jobs /\ b.totalBolt \in Nat /\ b.retryCount \in 0..MaxRetries
          /\ c.jobIds \in SUBSET Jobs /\ c.totalBolt \in Nat
      BY <1>1 DEF Payout
    <2> QED BY <2>1, SMT DEF Merged, Payout
  <1>3. b.jobIds \in SUBSET Jobs /\ c.jobIds \in SUBSET Jobs BY <1>1 DEF Payout
  <1>4. Cardinality(b.jobIds \cup c.jobIds) = Cardinality(b.jobIds) + Cardinality(c.jobIds)
    <2>1. /\ IsFiniteSet(b.jobIds) /\ Cardinality(b.jobIds) \in Nat
          /\ IsFiniteSet(c.jobIds) /\ Cardinality(c.jobIds) \in Nat
      BY <1>3, JobsFinite
    <2>2. Cardinality(b.jobIds \cup c.jobIds)
            = Cardinality(b.jobIds) + Cardinality(c.jobIds) - Cardinality(b.jobIds \cap c.jobIds)
      BY <2>1, FS_Union
    <2>3. Cardinality(b.jobIds \cap c.jobIds) = 0
      BY FS_EmptySet
    <2> QED BY <2>1, <2>2, <2>3, SMT
  <1> QED BY <1>1, <1>2, <1>4 DEF Exact

-----------------------------------------------------------------------------
(* The Map and the calls *)

\* The synchronous part of settleWorker: the batch of pk leaves the Map for a
\* new call, and no job changes sides.
Taken(p, pk) == [p EXCEPT ![pk] = NoPayout]

\* The settlement of a batch, as settleWorker begins it.
LEMMA BegunFields ==
    ASSUME NEW pk \in Pubkeys, NEW b \in Payout, NEW swept \in BOOLEAN
    PROVE  /\ Begun(pk, b, swept) \in Settlement
           /\ Begun(pk, b, swept).worker = pk
           /\ Begun(pk, b, swept).payout = b
           /\ Begun(pk, b, swept).stage = "preparing"
           /\ Begun(pk, b, swept).swept = swept
  BY DEF Begun, Settlement, Stages

\* A batch that is taken out of the pending ones to be settled stays exact, and
\* in one place.
LEMMA TakenQueue ==
    ASSUME NEW p, NEW r, NEW o, Queue(p, r, o), NEW pk \in Pubkeys, NEW b, Exact(b), b.jobIds # {},
           \A j \in b.jobIds : o[j] = pk,
           \A s \in r : \A j \in s.payout.jobIds : j \notin b.jobIds,
           NEW swept \in BOOLEAN
    PROVE  Queue(Taken(p, pk), r \cup {Begun(pk, b, swept)}, o)
  <1> DEFINE q == Taken(p, pk)
             c == Begun(pk, b, swept)
  <1>1. p \in [Pubkeys -> Payout] /\ r \subseteq Settlement BY DEF Queue
  <1>2. b \in Payout /\ NoPayout \in Payout BY EmptyBatch DEF Exact
  <1>3. c \in Settlement /\ c.worker = pk /\ c.payout = b BY <1>2, BegunFields, SMT
  <1>4. /\ q \in [Pubkeys -> Payout]
        /\ q[pk] = NoPayout
        /\ \A x \in Pubkeys \ {pk} : q[x] = p[x]
    BY <1>1, <1>2 DEF Taken
  <1>5. ASSUME NEW x \in Pubkeys
        PROVE  /\ Exact(q[x])
               /\ q[x].jobIds = {} => q[x] = NoPayout
               /\ \A j \in q[x].jobIds : o[j] = x /\ j \in p[x].jobIds
    <2>1. CASE x = pk BY <2>1, <1>4, EmptyBatch
    <2>2. CASE x # pk BY <2>2, <1>4 DEF Queue
    <2> QED BY <2>1, <2>2
  <1>6. ASSUME NEW s \in r
        PROVE  /\ Exact(s.payout)
               /\ s.payout.jobIds # {}
               /\ \A j \in s.payout.jobIds : o[j] = s.worker /\ j \notin q[s.worker].jobIds
    <2>1. s.worker \in Pubkeys BY <1>1 DEF Settlement
    <2>2. /\ Exact(s.payout) /\ s.payout.jobIds # {}
          /\ \A j \in s.payout.jobIds : o[j] = s.worker /\ j \notin p[s.worker].jobIds
      BY DEF Queue
    <2> QED BY <2>1, <2>2, <1>5
  <1>7. ASSUME NEW s \in r \cup {c}, NEW t \in r \cup {c}, NEW j \in Jobs,
               j \in s.payout.jobIds, j \in t.payout.jobIds
        PROVE  s = t
    <2>1. CASE s \in r /\ t \in r BY <2>1, <1>7 DEF Queue
    <2>2. CASE s = c /\ t = c BY <2>2
    <2>3. CASE s \in r /\ t = c BY <2>3, <1>3, <1>7
    <2>4. CASE s = c /\ t \in r BY <2>4, <1>3, <1>7
    <2> QED BY <2>1, <2>2, <2>3, <2>4
  <1>8. \A j \in c.payout.jobIds : o[j] = c.worker /\ j \notin q[c.worker].jobIds
    BY <1>3, <1>4, EmptyBatch
  <1>9. \A s \in r \cup {c} :
           /\ Exact(s.payout)
           /\ s.payout.jobIds # {}
           /\ \A j \in s.payout.jobIds : o[j] = s.worker /\ j \notin q[s.worker].jobIds
    BY <1>3, <1>6, <1>8
  <1>10. r \cup {c} \subseteq Settlement BY <1>1, <1>3
  <1> HIDE DEF q, c
  <1>11. Queue(q, r \cup {c}, o)
    BY <1>4, <1>5, <1>7, <1>9, <1>10, SMT DEF Queue
  <1> QED BY <1>11 DEF q, c

\* Where the jobs are after a batch was taken out.
LEMMA TakenInside ==
    ASSUME NEW p \in [Pubkeys -> Payout], NEW r, NEW pk \in Pubkeys, NEW b \in Payout,
           NEW swept \in BOOLEAN, NEW j
    PROVE  Inside(Taken(p, pk), r \cup {Begun(pk, b, swept)}, j)
             <=> \/ j \in b.jobIds
                 \/ \E x \in Pubkeys \ {pk} : j \in p[x].jobIds
                 \/ \E s \in r : j \in s.payout.jobIds
  <1> DEFINE q == Taken(p, pk)
             c == Begun(pk, b, swept)
  <1>1. c.payout = b BY BegunFields
  <1>2. NoPayout \in Payout /\ j \notin NoPayout.jobIds BY EmptyBatch DEF Exact
  <1>3. q[pk] = NoPayout /\ \A x \in Pubkeys \ {pk} : q[x] = p[x] BY DEF Taken
  <1> HIDE DEF q, c
  <1>4. (\E x \in Pubkeys : j \in q[x].jobIds) <=> \E x \in Pubkeys \ {pk} : j \in p[x].jobIds
    BY <1>2, <1>3
  <1>5. (\E s \in r \cup {c} : j \in s.payout.jobIds)
          <=> j \in b.jobIds \/ \E s \in r : j \in s.payout.jobIds
    BY <1>1
  <1>6. Inside(q, r \cup {c}, j)
          <=> \/ j \in b.jobIds
              \/ \E x \in Pubkeys \ {pk} : j \in p[x].jobIds
              \/ \E s \in r : j \in s.payout.jobIds
    BY <1>4, <1>5 DEF Inside
  <1> QED BY <1>6 DEF q, c

-----------------------------------------------------------------------------
(* The loop of settleAll *)

\* The Map and the calls after a step hold what p and r hold, and calls that
\* are not in r have just begun.
Kept(p, r) ==
    /\ Queue(pendingPayouts', settlements', owed)
    /\ \A j \in Jobs : Inside(pendingPayouts', settlements', j) <=> Inside(p, r, j)
    /\ \A s \in settlements' : s \in r \/ s.stage = "preparing"
    /\ settling' \in BOOLEAN /\ sweep' \subseteq Pubkeys
    /\ OneSweep'

\* The rest of a sweep, from the workers it still has to visit.
LEMMA VisitKeeps ==
    ASSUME NEW p, NEW r, NEW todo \in SUBSET Pubkeys, Queue(p, r, owed),
           \A s \in r : ~s.swept, Visit(p, r, todo)
    PROVE  Kept(p, r)
  <1>1. CASE /\ settling' = FALSE /\ sweep' = {}
             /\ pendingPayouts' = p /\ settlements' = r
    BY <1>1 DEF Kept, OneSweep
  <1>2. ASSUME NEW pk \in todo \cap Pending(p), NEW skipped,
               settling' = TRUE, sweep' = todo \ ({pk} \cup skipped),
               pendingPayouts' = Taken(p, pk),
               settlements' = r \cup {Begun(pk, p[pk], TRUE)}
        PROVE  Kept(p, r)
    <2> DEFINE c == Begun(pk, p[pk], TRUE)
    <2>1. pk \in Pubkeys /\ p[pk] # NoPayout BY <1>2 DEF Pending
    <2>2. p \in [Pubkeys -> Payout] /\ r \subseteq Settlement BY DEF Queue
    <2>3. /\ Exact(p[pk]) /\ p[pk].jobIds # {} /\ p[pk] \in Payout
          /\ \A j \in p[pk].jobIds : owed[j] = pk
      BY <2>1, <2>2 DEF Queue
    <2>4. ASSUME NEW s \in r, NEW j \in s.payout.jobIds PROVE j \notin p[pk].jobIds
      <3>1. owed[j] = s.worker /\ j \notin p[s.worker].jobIds BY DEF Queue
      <3> QED BY <3>1, <2>3
    <2>5. Queue(pendingPayouts', settlements', owed) BY <1>2, <2>1, <2>3, <2>4, TakenQueue
    <2>6. ASSUME NEW j \in Jobs
          PROVE  Inside(pendingPayouts', settlements', j) <=> Inside(p, r, j)
      <3>1. Inside(pendingPayouts', settlements', j)
              <=> \/ j \in p[pk].jobIds
                  \/ \E x \in Pubkeys \ {pk} : j \in p[x].jobIds
                  \/ \E s \in r : j \in s.payout.jobIds
        BY <1>2, <2>1, <2>2, <2>3, TakenInside
      <3> QED BY <3>1, <2>1 DEF Inside
    <2>7. c.stage = "preparing" /\ c.swept = TRUE BY DEF Begun
    <2>8. OneSweep'
      <3>1. settlements' = r \cup {c} BY <1>2
      <3> HIDE DEF c
      <3>2. \A s \in settlements' : s.swept => s = c BY <3>1
      <3>3. c \in settlements' /\ c.swept BY <3>1, <2>7
      <3> QED BY <1>2, <3>2, <3>3 DEF OneSweep
    <2>9. \A s \in settlements' : s \in r \/ s.stage = "preparing" BY <1>2, <2>7
    <2>10. settling' \in BOOLEAN /\ sweep' \subseteq Pubkeys BY <1>2
    <2> QED BY <2>5, <2>6, <2>8, <2>9, <2>10 DEF Kept
  <1> QED BY <1>1, <1>2 DEF Visit, Taken

\* The call s ends with the Map p.
LEMMA ReturnKeeps ==
    ASSUME PayoutInv, NEW s \in settlements, NEW p, Queue(p, settlements \ {s}, owed), Return(s, p)
    PROVE  Kept(p, settlements \ {s})
  <1>0. OneSweep /\ sweep \in SUBSET Pubkeys /\ settling \in BOOLEAN BY DEF PayoutInv, TypeOK
  <1>1. CASE s.swept
    <2>1. \A t \in settlements \ {s} : ~t.swept BY <1>0, <1>1 DEF OneSweep
    <2>2. Visit(p, settlements \ {s}, sweep) BY <1>1 DEF Return
    <2> QED BY <1>0, <2>1, <2>2, VisitKeeps
  <1>2. CASE ~s.swept
    <2>1. /\ pendingPayouts' = p /\ settlements' = settlements \ {s}
          /\ settling' = settling /\ sweep' = sweep
      BY <1>2 DEF Return
    <2>2. OneSweep'
      <3>1. \A t \in settlements : t.swept => t \in settlements' BY <2>1, <1>2
      <3>2. \A t \in settlements' : t \in settlements BY <2>1
      <3> QED BY <1>0, <2>1, <3>1, <3>2 DEF OneSweep
    <2> QED BY <1>0, <2>1, <2>2 DEF Kept
  <1> QED BY <1>1, <1>2

\* A step that keeps what p and r hold, and decides nothing wrongly, preserves
\* the invariant.
LEMMA KeptInv ==
    ASSUME PayoutInv, NEW p, NEW r \in SUBSET settlements, Kept(p, r),
           UNCHANGED <<transfers, owed, lost, crashes>>, late' \subseteq Payout,
           verdicts' \in [Jobs -> Seq({"settled", "failed"})],
           \A j \in Jobs :
               /\ verdicts'[j] \in {<<>>, <<"settled">>, <<"failed">>}
               /\ Inside(p, r, j) => verdicts'[j] = <<>> /\ j \notin lost
               /\ owed[j] # NoOne => Inside(p, r, j) \/ verdicts'[j] # <<>> \/ j \in lost
               /\ owed[j] = NoOne => verdicts'[j] = <<>> /\ j \notin lost
               /\ j \in lost => verdicts'[j] = <<>>
               /\ verdicts'[j] = <<"settled">> => transfers[j] >= 1
    PROVE  PayoutInv'
  <1>1. Queue(pendingPayouts', settlements', owed) /\ OneSweep' BY DEF Kept
  <1>2. Queue(pendingPayouts, settlements, owed)'
    BY <1>1
  <1>3. TypeOK'
    <2>1. pendingPayouts' \in [Pubkeys -> Payout] /\ settlements' \subseteq Settlement
      BY <1>1 DEF Queue
    <2>2. settling' \in BOOLEAN /\ sweep' \subseteq Pubkeys BY DEF Kept
    <2>3. TypeOK BY DEF PayoutInv
    <2> QED BY <2>1, <2>2, <2>3 DEF TypeOK
  <1>4. Recorded(pendingPayouts, settlements)'
    <2>1. \A j \in Jobs : Inside(pendingPayouts, settlements, j)' <=> Inside(p, r, j)
      BY DEF Kept, Inside
    <2> QED BY <2>1 DEF Recorded
  <1>5. Landed(settlements)'
    <2>1. Landed(settlements) BY DEF PayoutInv
    <2>2. \A s \in settlements' : s \in settlements \/ s.stage = "preparing" BY DEF Kept
    <2> QED BY <2>1, <2>2 DEF Landed
  <1>6. SettledWasPaid' BY DEF SettledWasPaid
  <1> QED BY <1>1, <1>2, <1>3, <1>4, <1>5, <1>6 DEF PayoutInv

\* Without the call s, its jobs are nowhere.
LEMMA WithoutCall ==
    ASSUME PayoutInv, NEW s \in settlements
    PROVE  /\ Queue(pendingPayouts, settlements \ {s}, owed)
           /\ \A j \in Jobs :
                  Inside(pendingPayouts, settlements \ {s}, j)
                    <=> Inside(pendingPayouts, settlements, j) /\ j \notin s.payout.jobIds
           /\ \A j \in s.payout.jobIds : Inside(pendingPayouts, settlements, j)
  <1>1. Queue(pendingPayouts, settlements, owed) BY DEF PayoutInv
  <1>2. Queue(pendingPayouts, settlements \ {s}, owed) BY <1>1 DEF Queue
  <1>3. ASSUME NEW j \in s.payout.jobIds
        PROVE  Inside(pendingPayouts, settlements, j)
    BY DEF Inside
  <1>4. ASSUME NEW j \in Jobs, j \in s.payout.jobIds
        PROVE  ~Inside(pendingPayouts, settlements \ {s}, j)
    <2>1. owed[j] = s.worker /\ j \notin pendingPayouts[s.worker].jobIds BY <1>1, <1>4 DEF Queue
    <2>2. \A pk \in Pubkeys : j \notin pendingPayouts[pk].jobIds BY <1>1, <2>1 DEF Queue
    <2>3. \A t \in settlements \ {s} : j \notin t.payout.jobIds BY <1>1, <1>4 DEF Queue
    <2> QED BY <2>2, <2>3 DEF Inside
  <1>5. ASSUME NEW j \in Jobs, j \notin s.payout.jobIds
        PROVE  Inside(pendingPayouts, settlements \ {s}, j)
                 <=> Inside(pendingPayouts, settlements, j)
    BY <1>5 DEF Inside
  <1> QED BY <1>2, <1>3, <1>4, <1>5

\* One verdict after none.
LEMMA FirstVerdict ==
    ASSUME NEW v \in {"settled", "failed"}
    PROVE  Append(<<>>, v) = <<v>> /\ <<v>> # <<>> /\ <<v>> \in Seq({"settled", "failed"})
  <1>1. Append(<<>>, v) = <<v>> BY SMT
  <1>2. Len(<<v>>) = 1 /\ Len(<<>>) = 0 OBVIOUS
  <1>3. <<v>> # <<>> BY <1>2
  <1> QED BY <1>1, <1>3, SMT

\* A tick of the settlement timer.
LEMMA SettleTimerKeeps == PayoutInv /\ SettleTimer => PayoutInv'
  <1> SUFFICES ASSUME PayoutInv, SettleTimer PROVE PayoutInv'
    OBVIOUS
  <1>1. TypeOK /\ OneSweep /\ Queue(pendingPayouts, settlements, owed) BY DEF PayoutInv
  <1>2. \A s \in settlements : ~s.swept BY <1>1 DEF SettleTimer, OneSweep
  <1>3. Kept(pendingPayouts, settlements)
    <2>1. Visit(pendingPayouts, settlements, Pending(pendingPayouts)) BY DEF SettleTimer
    <2>2. Pending(pendingPayouts) \in SUBSET Pubkeys BY DEF Pending
    <2> QED BY <1>1, <1>2, <2>1, <2>2, VisitKeeps
  <1>4. UNCHANGED <<transfers, verdicts, owed, lost, crashes, late>>
    BY DEF SettleTimer, chainVars
  <1>5. Recorded(pendingPayouts, settlements) /\ SettledWasPaid BY DEF PayoutInv
  <1>6. late' \subseteq Payout /\ verdicts' \in [Jobs -> Seq({"settled", "failed"})]
    BY <1>1, <1>4 DEF TypeOK
  <1> QED BY <1>3, <1>4, <1>5, <1>6, KeptInv DEF Recorded, SettledWasPaid

\* The call s decides about its jobs: each is told once, and it is in no batch
\* any more.
LEMMA VerdictKeeps ==
    ASSUME PayoutInv, NEW s \in settlements, NEW v \in {"settled", "failed"},
           Tell(s.payout.jobIds, v), Return(s, pendingPayouts),
           UNCHANGED <<transfers, owed, lost, crashes>>, late' \subseteq Payout,
           v = "settled" => \A j \in s.payout.jobIds : transfers[j] >= 1
    PROVE  PayoutInv'
  <1> DEFINE r == settlements \ {s}
  <1>1. TypeOK /\ Queue(pendingPayouts, settlements, owed) /\ SettledWasPaid
        /\ Recorded(pendingPayouts, settlements)
    BY DEF PayoutInv
  <1>2. Kept(pendingPayouts, r) BY WithoutCall, ReturnKeeps
  <1>3. s.worker \in Pubkeys BY <1>1 DEF Queue, Settlement
  <1>4. ASSUME NEW j \in Jobs, j \in s.payout.jobIds
        PROVE  /\ verdicts'[j] = <<v>> /\ verdicts'[j] # <<>>
               /\ verdicts'[j] \in Seq({"settled", "failed"})
               /\ owed[j] # NoOne /\ j \notin lost /\ ~Inside(pendingPayouts, r, j)
               /\ v = "settled" => transfers[j] >= 1
    <2>1. verdicts[j] = <<>> /\ j \notin lost BY <1>1, <1>4, WithoutCall DEF Recorded
    <2>2. owed[j] = s.worker BY <1>1, <1>4 DEF Queue
    <2>3. owed[j] # NoOne BY <1>3, <2>2, NoOneAssumption
    <2>4. verdicts'[j] = Append(verdicts[j], v) BY <1>4 DEF Tell
    <2>5. ~Inside(pendingPayouts, r, j) BY <1>4, WithoutCall
    <2> QED BY <2>1, <2>3, <2>4, <2>5, <1>4, FirstVerdict
  <1>5. ASSUME NEW j \in Jobs, j \notin s.payout.jobIds
        PROVE  /\ verdicts'[j] = verdicts[j]
               /\ Inside(pendingPayouts, r, j) <=> Inside(pendingPayouts, settlements, j)
    BY <1>5, WithoutCall DEF Tell
  <1>6. verdicts' \in [Jobs -> Seq({"settled", "failed"})]
    <2>1. DOMAIN verdicts' = Jobs /\ verdicts' = [j \in Jobs |-> verdicts'[j]] BY DEF Tell
    <2>2. \A j \in Jobs : verdicts'[j] \in Seq({"settled", "failed"})
      BY <1>1, <1>4, <1>5 DEF TypeOK
    <2> QED BY <2>1, <2>2
  <1>7. ASSUME NEW j \in Jobs
        PROVE  /\ verdicts'[j] \in {<<>>, <<"settled">>, <<"failed">>}
               /\ Inside(pendingPayouts, r, j) => verdicts'[j] = <<>> /\ j \notin lost
               /\ owed[j] # NoOne
                    => Inside(pendingPayouts, r, j) \/ verdicts'[j] # <<>> \/ j \in lost
               /\ owed[j] = NoOne => verdicts'[j] = <<>> /\ j \notin lost
               /\ j \in lost => verdicts'[j] = <<>>
               /\ verdicts'[j] = <<"settled">> => transfers[j] >= 1
    <2>1. CASE j \in s.payout.jobIds
      <3>1. <<"failed">> # <<"settled">>
        <4>1. <<"failed">>[1] # <<"settled">>[1] OBVIOUS
        <4> QED BY <4>1
      <3> QED BY <1>4, <2>1, <3>1
    <2>2. CASE j \notin s.payout.jobIds BY <1>1, <1>5, <2>2 DEF Recorded, SettledWasPaid
    <2> QED BY <2>1, <2>2
  <1>8. r \in SUBSET settlements OBVIOUS
  <1> HIDE DEF r
  <1> QED BY <1>2, <1>6, <1>7, <1>8, KeptInv

\* A settlement whose transfer was confirmed.
LEMMA ConfirmKeeps ==
    ASSUME PayoutInv, NEW s \in settlements, Confirm(s)
    PROVE  PayoutInv'
  <1>1. /\ Tell(s.payout.jobIds, "settled") /\ Return(s, pendingPayouts)
        /\ UNCHANGED <<transfers, owed, lost, crashes, late>>
    BY DEF Confirm, onSettled, chainVars
  <1>2. late' \subseteq Payout BY <1>1 DEF PayoutInv, TypeOK
  <1>3. \A j \in s.payout.jobIds : transfers[j] >= 1 BY DEF Confirm, PayoutInv, Landed
  <1> QED BY <1>1, <1>2, <1>3, VerdictKeeps

\* A batch that comes back is in the Map again, by itself or merged.
LEMMA RequeuedQueue ==
    ASSUME PayoutInv, NEW s \in settlements, NEW b, Exact(b), b.jobIds = s.payout.jobIds
    PROVE  /\ Queue(Requeued(s.worker, b), settlements \ {s}, owed)
           /\ \A j \in Jobs : Inside(Requeued(s.worker, b), settlements \ {s}, j)
                               <=> Inside(pendingPayouts, settlements, j)
  <1> DEFINE p == pendingPayouts
             q == Requeued(s.worker, b)
             w == s.worker
             r == settlements \ {s}
  <1>1. Queue(p, settlements, owed) BY DEF PayoutInv
  <1>2. p \in [Pubkeys -> Payout] /\ w \in Pubkeys /\ r \subseteq Settlement
    BY <1>1 DEF Queue, Settlement
  <1>3. /\ b.jobIds # {} /\ Exact(p[w])
        /\ \A j \in b.jobIds : owed[j] = w /\ j \notin p[w].jobIds
    BY <1>1, <1>2 DEF Queue
  <1>4. Exact(q[w]) /\ q[w].jobIds = p[w].jobIds \cup b.jobIds
    <2>1. CASE p[w] = NoPayout
      <3>1. q[w] = b BY <2>1, <1>2 DEF Requeued
      <3>2. p[w].jobIds = {} BY <2>1, EmptyBatch
      <3> QED BY <3>1, <3>2
    <2>2. CASE p[w] # NoPayout
      <3>1. q[w] = Merged(p[w], b) BY <2>2, <1>2 DEF Requeued
      <3>2. p[w].jobIds \cap b.jobIds = {} BY <1>3
      <3> QED BY <3>1, <3>2, <1>3, MergedExact, SMT
    <2> QED BY <2>1, <2>2
  <1>5. q \in [Pubkeys -> Payout] /\ \A x \in Pubkeys \ {w} : q[x] = p[x]
    <2>1. q[w] \in Payout BY <1>4 DEF Exact
    <2>2. DOMAIN q = Pubkeys /\ q = [x \in Pubkeys |-> q[x]] BY <1>2 DEF Requeued
    <2>3. \A x \in Pubkeys \ {w} : q[x] = p[x] BY <1>2 DEF Requeued
    <2> HIDE DEF q
    <2> QED BY <1>2, <2>1, <2>2, <2>3
  <1> HIDE DEF q
  <1>6. ASSUME NEW x \in Pubkeys
        PROVE  /\ Exact(q[x])
               /\ q[x].jobIds = {} => q[x] = NoPayout
               /\ \A j \in q[x].jobIds : owed[j] = x
    <2>1. CASE x = w
      <3>1. \A j \in p[w].jobIds : owed[j] = w BY <1>1, <1>2 DEF Queue
      <3> QED BY <2>1, <3>1, <1>3, <1>4
    <2>2. CASE x # w BY <2>2, <1>1, <1>5 DEF Queue
    <2> QED BY <2>1, <2>2
  <1>7. ASSUME NEW t \in r
        PROVE  /\ Exact(t.payout) /\ t.payout.jobIds # {}
               /\ \A j \in t.payout.jobIds : owed[j] = t.worker /\ j \notin q[t.worker].jobIds
    <2>1. t.worker \in Pubkeys /\ t.payout.jobIds \subseteq Jobs
      BY <1>2 DEF Settlement, Payout
    <2>2. /\ Exact(t.payout) /\ t.payout.jobIds # {}
          /\ \A j \in t.payout.jobIds : owed[j] = t.worker /\ j \notin p[t.worker].jobIds
      BY <1>1 DEF Queue
    <2>3. \A j \in t.payout.jobIds : j \notin b.jobIds BY <1>1, <2>1 DEF Queue
    <2> QED BY <2>1, <2>2, <2>3, <1>4, <1>5
  <1>8. \A t, u \in r : \A j \in Jobs : j \in t.payout.jobIds /\ j \in u.payout.jobIds => t = u
    BY <1>1 DEF Queue
  <1>9. ASSUME NEW j \in Jobs
        PROVE  Inside(q, r, j) <=> Inside(p, settlements, j)
    <2>1. (\E x \in Pubkeys : j \in q[x].jobIds)
            <=> (\E x \in Pubkeys : j \in p[x].jobIds) \/ j \in b.jobIds
      BY <1>2, <1>4, <1>5
    <2>2. (\E t \in settlements : j \in t.payout.jobIds)
            <=> (\E t \in r : j \in t.payout.jobIds) \/ j \in b.jobIds
      OBVIOUS
    <2> QED BY <2>1, <2>2 DEF Inside
  <1> HIDE DEF r, w
  <1>10. Queue(q, r, owed) BY <1>2, <1>5, <1>6, <1>7, <1>8 DEF Queue
  <1> QED BY <1>9, <1>10 DEF q, r

\* A settlement that failed: its batch is queued again, merged with what came
\* in since, or given up.
LEMMA FailKeeps ==
    ASSUME PayoutInv, NEW s \in settlements, Fail(s)
    PROVE  PayoutInv'
  <1> DEFINE b == [s.payout EXCEPT !.retryCount = @ + 1]
  <1>1. TypeOK /\ Queue(pendingPayouts, settlements, owed) /\ SettledWasPaid
        /\ Recorded(pendingPayouts, settlements)
    BY DEF PayoutInv
  <1>2. s.payout \in Payout /\ Exact(s.payout) BY <1>1 DEF Queue, Settlement
  <1>3. b.jobIds = s.payout.jobIds /\ b.totalBolt = s.payout.totalBolt
        /\ b.retryCount = s.payout.retryCount + 1
    BY <1>2 DEF Payout
  <1>4. late' \subseteq Payout BY <1>1, <1>2 DEF Fail, TypeOK
  <1>5. UNCHANGED <<transfers, owed, lost, crashes>> BY SMTT(30) DEF Fail
  <1>6. CASE b.retryCount < MaxRetries
    <2>1. b \in Payout
      <3>1. s.payout.retryCount \in Nat BY <1>2, SMT DEF Payout
      <3>2. b.retryCount \in 0..MaxRetries BY <1>3, <1>6, <3>1, SettlementAssumption, SMT
      <3> QED BY <1>2, <3>2 DEF Payout
    <2>2. Exact(b) BY <1>2, <1>3, <2>1 DEF Exact
    <2>3. Return(s, Requeued(s.worker, b)) /\ UNCHANGED verdicts BY <1>6 DEF Fail
    <2> HIDE DEF b
    <2>4. Kept(Requeued(s.worker, b), settlements \ {s})
      BY <2>2, <2>3, <1>3, RequeuedQueue, ReturnKeeps
    <2>5. \A j \in Jobs : Inside(Requeued(s.worker, b), settlements \ {s}, j)
                           <=> Inside(pendingPayouts, settlements, j)
      BY <2>2, <1>3, RequeuedQueue
    <2>6. verdicts' \in [Jobs -> Seq({"settled", "failed"})] BY <1>1, <2>3 DEF TypeOK
    <2>7. settlements \ {s} \in SUBSET settlements OBVIOUS
    <2> QED BY <1>1, <1>4, <1>5, <2>3, <2>4, <2>5, <2>6, <2>7, KeptInv
            DEF Recorded, SettledWasPaid
  <1>7. CASE ~(b.retryCount < MaxRetries)
    <2>1. Return(s, pendingPayouts) /\ Tell(s.payout.jobIds, "failed")
      BY <1>3, <1>7 DEF Fail, onFailed
    <2> QED BY <2>1, <1>4, <1>5, VerdictKeeps
  <1> QED BY <1>6, <1>7

\* A call that goes on to its next stage holds what it held.
LEMMA StageKeeps ==
    ASSUME PayoutInv, NEW s \in settlements, NEW st \in Stages,
           pendingPayouts' = pendingPayouts,
           settlements' = (settlements \ {s}) \cup {[s EXCEPT !.stage = st]},
           UNCHANGED <<settling, sweep, recordVars, late>>,
           transfers' \in [Jobs -> Nat], \A j \in Jobs : transfers'[j] >= transfers[j],
           st = "landed" => \A j \in s.payout.jobIds : transfers'[j] >= 1
    PROVE  PayoutInv'
  <1> DEFINE c == [s EXCEPT !.stage = st]
             p == pendingPayouts
  <1>1. TypeOK /\ Queue(p, settlements, owed) /\ SettledWasPaid
        /\ Recorded(p, settlements) /\ Landed(settlements) /\ OneSweep
    BY DEF PayoutInv
  <1>2. settlements \subseteq Settlement /\ s \in Settlement BY <1>1 DEF Queue
  <1>3. /\ c \in Settlement /\ c.worker = s.worker /\ c.payout = s.payout
        /\ c.stage = st /\ c.swept = s.swept
    BY <1>2 DEF Settlement
  <1>4. UNCHANGED <<verdicts, owed, lost, crashes>> BY DEF recordVars
  <1>5. settlements' = (settlements \ {s}) \cup {c} OBVIOUS
  <1> HIDE DEF c
  <1>6. Queue(p, settlements', owed)
    <2>1. settlements' \subseteq Settlement BY <1>2, <1>3, <1>5
    <2>2. \A t \in settlements' :
             /\ Exact(t.payout) /\ t.payout.jobIds # {}
             /\ \A j \in t.payout.jobIds : owed[j] = t.worker /\ j \notin p[t.worker].jobIds
      BY <1>1, <1>3, <1>5, SMT DEF Queue
    <2>3. ASSUME NEW t \in settlements', NEW u \in settlements', NEW j \in Jobs,
                 j \in t.payout.jobIds, j \in u.payout.jobIds
          PROVE  t = u
      <3>1. CASE t # c /\ u # c BY <3>1, <2>3, <1>1, <1>5 DEF Queue
      <3>2. CASE t = c /\ u # c BY <3>2, <2>3, <1>1, <1>3, <1>5 DEF Queue
      <3>3. CASE t # c /\ u = c BY <3>3, <2>3, <1>1, <1>3, <1>5 DEF Queue
      <3> QED BY <3>1, <3>2, <3>3
    <2> QED BY <1>1, <2>1, <2>2, <2>3 DEF Queue
  <1>7. \A j \in Jobs : Inside(p, settlements', j) <=> Inside(p, settlements, j)
    BY <1>3, <1>5 DEF Inside
  <1>8. Recorded(p, settlements)' BY <1>1, <1>4, <1>7 DEF Recorded
  <1>9. Landed(settlements)'
    <2>1. \A t \in settlements \ {s} : t.stage = "landed" => \A j \in t.payout.jobIds : transfers'[j] >= 1
      <3>1. \A t \in settlements : t.payout.jobIds \subseteq Jobs BY <1>2 DEF Settlement, Payout
      <3>2. \A j \in Jobs : transfers[j] >= 1 => transfers'[j] >= 1 BY <1>1, SMT DEF TypeOK
      <3> QED BY <1>1, <3>1, <3>2 DEF Landed
    <2> QED BY <2>1, <1>3, <1>5 DEF Landed
  <1>10. SettledWasPaid'
    <2>1. \A j \in Jobs : transfers[j] >= 1 => transfers'[j] >= 1 BY <1>1, SMT DEF TypeOK
    <2> QED BY <1>1, <1>4, <2>1 DEF SettledWasPaid
  <1>11. OneSweep'
    <2>1. (\E t \in settlements' : t.swept) <=> \E t \in settlements : t.swept BY <1>3, <1>5
    <2>2. \A t, u \in settlements' : t.swept /\ u.swept => t = u BY <1>1, <1>3, <1>5 DEF OneSweep
    <2> QED BY <1>1, <2>1, <2>2 DEF OneSweep
  <1>12. TypeOK'
    <2>1. settlements' \subseteq Settlement BY <1>6 DEF Queue
    <2> QED BY <1>1, <1>4, <2>1 DEF TypeOK
  <1> QED BY <1>4, <1>6, <1>8, <1>9, <1>10, <1>11, <1>12 DEF PayoutInv

\* Transfers only add to what is paid.
LEMMA PaidForGrows ==
    ASSUME TypeOK, NEW S \in SUBSET Jobs, PaidFor(S)
    PROVE  /\ transfers' \in [Jobs -> Nat]
           /\ \A j \in Jobs : transfers'[j] >= transfers[j]
           /\ \A j \in S : transfers'[j] >= 1
  BY SMT DEF TypeOK, PaidFor

\* A transfer is sent, or lands.
LEMMA SendKeeps ==
    ASSUME PayoutInv, NEW s \in settlements, Send(s) \/ Land(s)
    PROVE  PayoutInv'
  <1>1. TypeOK /\ s.payout.jobIds \in SUBSET Jobs
    BY DEF PayoutInv, TypeOK, Settlement, Payout
  <1>2. CASE Send(s)
    <2>1. transfers' = transfers /\ transfers \in [Jobs -> Nat] BY <1>1, <1>2 DEF Send, chainVars, TypeOK
    <2>2. \A j \in Jobs : transfers'[j] >= transfers[j] BY <2>1, SMT
    <2> QED BY <1>2, <2>1, <2>2, StageKeeps DEF Send, chainVars, Stages
  <1>3. CASE Land(s)
    <2>1. PaidFor(s.payout.jobIds) BY <1>3 DEF Land
    <2> QED BY <1>1, <1>3, <2>1, PaidForGrows, StageKeeps DEF Land, Stages
  <1> QED BY <1>2, <1>3

\* A transfer that was given up lands after all, or expires.
LEMMA LateKeeps ==
    ASSUME PayoutInv, NEW b \in late, LandLate(b) \/ Expire(b)
    PROVE  PayoutInv'
  <1>1. /\ TypeOK /\ Queue(pendingPayouts, settlements, owed)
        /\ Recorded(pendingPayouts, settlements)
        /\ Landed(settlements) /\ SettledWasPaid /\ OneSweep
    BY DEF PayoutInv
  <1>2. UNCHANGED <<pendingPayouts, settlements, settling, sweep, verdicts, owed, lost, crashes>>
    BY DEF LandLate, Expire, queueVars, recordVars
  <1>3. b.jobIds \in SUBSET Jobs BY <1>1 DEF TypeOK, Payout
  <1>4. /\ transfers' \in [Jobs -> Nat]
        /\ \A j \in Jobs : transfers[j] >= 1 => transfers'[j] >= 1
    <2>1. CASE LandLate(b)
      <3>1. transfers' \in [Jobs -> Nat] /\ \A j \in Jobs : transfers'[j] >= transfers[j]
        BY <1>1, <1>3, <2>1, PaidForGrows DEF LandLate
      <3> QED BY <1>1, <3>1, SMT DEF TypeOK
    <2>2. CASE Expire(b) BY <1>1, <2>2 DEF Expire, TypeOK
    <2> QED BY <2>1, <2>2
  <1>5. late' \subseteq Payout BY <1>1 DEF LandLate, Expire, TypeOK
  <1>6. TypeOK' BY <1>1, <1>2, <1>4, <1>5 DEF TypeOK
  <1>7. Queue(pendingPayouts, settlements, owed)' BY <1>1, <1>2
  <1>8. Recorded(pendingPayouts, settlements)' BY <1>1, <1>2 DEF Recorded, Inside
  <1>9. Landed(settlements)'
    <2>1. \A s \in settlements : s.payout.jobIds \subseteq Jobs
      BY <1>1 DEF TypeOK, Settlement, Payout
    <2> QED BY <1>1, <1>2, <1>4, <2>1 DEF Landed
  <1>10. SettledWasPaid' BY <1>1, <1>2, <1>4 DEF SettledWasPaid
  <1>11. OneSweep' BY <1>1, <1>2 DEF OneSweep
  <1> QED BY <1>6, <1>7, <1>8, <1>9, <1>10, <1>11 DEF PayoutInv

\* A crash loses what was not settled.
LEMMA CrashKeeps == PayoutInv /\ Crash => PayoutInv'
  <1> SUFFICES ASSUME PayoutInv, Crash PROVE PayoutInv'
    BY SMT
  <1>1. /\ TypeOK /\ Queue(pendingPayouts, settlements, owed)
        /\ Recorded(pendingPayouts, settlements) /\ SettledWasPaid
    BY DEF PayoutInv
  <1>2. /\ pendingPayouts' = [pk \in Pubkeys |-> NoPayout] /\ settlements' = {}
        /\ settling' = FALSE /\ sweep' = {}
        /\ UNCHANGED <<transfers, verdicts, owed>>
    BY DEF Crash
  <1>3. \A j : j \in lost' <=> j \in lost \/ Inside(pendingPayouts, settlements, j)
    <2> DEFINE waiting == UNION {pendingPayouts[pk].jobIds : pk \in Pubkeys}
               running == UNION {s.payout.jobIds : s \in settlements}
    <2>1. lost' = (lost \cup waiting) \cup running BY DEF Crash
    <2>2. \A j : j \in waiting <=> \E pk \in Pubkeys : j \in pendingPayouts[pk].jobIds
      OBVIOUS
    <2>3. \A j : j \in running <=> \E s \in settlements : j \in s.payout.jobIds
      OBVIOUS
    <2> HIDE DEF waiting, running
    <2>4. \A j : j \in lost' <=> j \in lost \/ j \in waiting \/ j \in running
      BY <2>1
    <2> QED BY <2>2, <2>3, <2>4 DEF Inside
  <1>4. NoPayout \in Payout /\ NoPayout.jobIds = {} /\ Exact(NoPayout)
    BY EmptyBatch DEF Exact
  <1>5. Queue(pendingPayouts, settlements, owed)' BY <1>2, <1>4 DEF Queue
  <1>6. \A j : ~Inside(pendingPayouts, settlements, j)' BY <1>2, <1>4 DEF Inside
  <1>7. Recorded(pendingPayouts, settlements)'
    <2>1. ASSUME NEW j \in Jobs
          PROVE  owed[j] = NoOne => ~Inside(pendingPayouts, settlements, j)
      <3>1. \A pk \in Pubkeys : j \in pendingPayouts[pk].jobIds => owed[j] \in Pubkeys
        BY <1>1 DEF Queue
      <3>2. \A s \in settlements : j \in s.payout.jobIds => owed[j] \in Pubkeys
        BY <1>1, SMT DEF Queue, Settlement
      <3> QED BY <3>1, <3>2, NoOneAssumption DEF Inside
    <2> QED BY <1>1, <1>2, <1>3, <1>6, <2>1 DEF Recorded
  <1>8. TypeOK'
    <2>1. lost' \subseteq Jobs
      <3>1. \A pk \in Pubkeys : pendingPayouts[pk].jobIds \subseteq Jobs
        BY <1>1 DEF TypeOK, Payout
      <3>2. \A s \in settlements : s.payout.jobIds \subseteq Jobs
        BY <1>1 DEF TypeOK, Settlement, Payout
      <3>3. \A j : Inside(pendingPayouts, settlements, j) => j \in Jobs BY <3>1, <3>2 DEF Inside
      <3>4. lost \subseteq Jobs BY <1>1 DEF TypeOK
      <3> QED BY <1>3, <3>3, <3>4
    <2>2. late' \subseteq Payout BY <1>1 DEF Crash, TypeOK, Settlement
    <2>3. crashes' \in 0..MaxCrashes BY <1>1, SettlementAssumption, SMT DEF Crash, TypeOK
    <2>4. pendingPayouts' \in [Pubkeys -> Payout] BY <1>2, <1>4
    <2> QED BY <1>1, <1>2, <2>1, <2>2, <2>3, <2>4 DEF TypeOK
  <1>9. Landed(settlements)' /\ OneSweep' BY <1>2 DEF Landed, OneSweep
  <1>10. SettledWasPaid' BY <1>1, <1>2 DEF SettledWasPaid
  <1> QED BY <1>5, <1>7, <1>8, <1>9, <1>10 DEF PayoutInv

\* A new job is in no batch yet.
LEMMA NewJobOutside ==
    ASSUME PayoutInv, NEW j \in Jobs, owed[j] = NoOne
    PROVE  /\ \A pk \in Pubkeys : j \notin pendingPayouts[pk].jobIds
           /\ \A s \in settlements : j \notin s.payout.jobIds
           /\ verdicts[j] = <<>> /\ j \notin lost
  <1>1. Queue(pendingPayouts, settlements, owed) /\ Recorded(pendingPayouts, settlements)
    BY DEF PayoutInv
  <1>2. \A s \in settlements : s.worker \in Pubkeys BY <1>1 DEF Queue, Settlement
  <1> QED BY <1>1, <1>2, NoOneAssumption DEF Queue, Recorded

\* A payout is queued; it may start a settlement.
LEMMA QueuePayoutKeeps ==
    ASSUME PayoutInv, NEW pk \in Pubkeys, NEW j \in Jobs, queuePayout(pk, j)
    PROVE  PayoutInv'
  <1> DEFINE p == pendingPayouts
             r == settlements
             b == WithJob(p[pk], j)
             o == [owed EXCEPT ![j] = pk]
  <1>1. /\ TypeOK /\ Queue(p, r, owed) /\ Recorded(p, r)
        /\ Landed(r) /\ SettledWasPaid /\ OneSweep
    BY DEF PayoutInv
  <1>2. /\ owed[j] = NoOne /\ owed' = o
        /\ UNCHANGED <<settling, sweep, late, transfers, verdicts, lost, crashes>>
    BY DEF queuePayout, chainVars
  <1>3. /\ p \in [Pubkeys -> Payout] /\ r \subseteq Settlement
        /\ o \in [Jobs -> Pubkeys \cup {NoOne}]
        /\ o[j] = pk /\ \A i \in Jobs \ {j} : o[i] = owed[i]
    BY <1>1 DEF TypeOK
  <1>4. /\ \A x \in Pubkeys : j \notin p[x].jobIds
        /\ \A s \in r : j \notin s.payout.jobIds
        /\ verdicts[j] = <<>> /\ j \notin lost
    BY <1>2, NewJobOutside
  <1>5. /\ \A x \in Pubkeys : p[x].jobIds \subseteq Jobs
        /\ \A s \in r : s.payout.jobIds \subseteq Jobs
    BY <1>3 DEF Payout, Settlement
  <1>6. Exact(b) /\ b.jobIds = p[pk].jobIds \cup {j}
    <2>1. Exact(p[pk]) BY <1>1, ZenonT(30) DEF Queue
    <2> QED BY <2>1, <1>4, WithJobExact, SMTT(30)
  <1> HIDE DEF b, o
  <1>7. Queue(p, r, o)
    <2>1. \A x \in Pubkeys : \A i \in p[x].jobIds : o[i] = owed[i] BY <1>3, <1>4, <1>5
    <2>2. \A s \in r : \A i \in s.payout.jobIds : o[i] = owed[i] BY <1>3, <1>4, <1>5, SMTT(30)
    <2> QED BY <1>1, <2>1, <2>2 DEF Queue
  <1>8. \A i \in b.jobIds : o[i] = pk BY <1>1, <1>3, <1>4, <1>5, <1>6, SMTT(30) DEF Queue
  <1>9. ASSUME NEW s \in r, NEW i \in s.payout.jobIds PROVE i \notin b.jobIds
    <2>1. \A x \in Pubkeys : \A k \in p[x].jobIds : owed[k] = x BY <1>1 DEF Queue
    <2>2. owed[i] = s.worker /\ i \notin p[s.worker].jobIds BY <1>1 DEF Queue
    <2> QED BY <2>1, <2>2, <1>4, <1>6, SMTT(30)
  \* The rest is the same whether or not the threshold is reached.
  <1>10. SUFFICES
           /\ Queue(pendingPayouts', settlements', o)
           /\ \A i \in Jobs : Inside(pendingPayouts', settlements', i) <=> i = j \/ Inside(p, r, i)
           /\ \A s \in settlements' : s \in r \/ (s.stage = "preparing" /\ ~s.swept)
           /\ r \subseteq settlements'
    <2>1. Queue(pendingPayouts, settlements, owed)' BY <1>2, <1>10, ZenonT(30)
    <2>2. Recorded(pendingPayouts, settlements)'
      <3>1. \A i \in Jobs : Inside(pendingPayouts, settlements, i)' <=> i = j \/ Inside(p, r, i)
        BY <1>10 DEF Inside
      <3>2. pk # NoOne BY NoOneAssumption
      <3> DEFINE Row(i) == /\ verdicts[i] \in {<<>>, <<"settled">>, <<"failed">>}
                           /\ Inside(pendingPayouts, settlements, i)
                                => verdicts[i] = <<>> /\ i \notin lost
                           /\ owed[i] # NoOne => \/ Inside(pendingPayouts, settlements, i)
                                                \/ verdicts[i] # <<>> \/ i \in lost
                           /\ owed[i] = NoOne => verdicts[i] = <<>> /\ i \notin lost
                           /\ i \in lost => verdicts[i] = <<>>
      <3>3. ASSUME NEW i \in Jobs \ {j} PROVE Row(i)'
        <4>1. Row(i) BY <1>1 DEF Recorded
        <4>2. owed'[i] = owed[i] /\ verdicts' = verdicts /\ lost' = lost BY <1>2, <1>3
        <4>3. Inside(pendingPayouts, settlements, i)' <=> Inside(pendingPayouts, settlements, i)
          BY <3>1
        <4> QED BY <4>1, <4>2, <4>3
      <3>4. Row(j)'
        <4>1. owed'[j] = pk /\ verdicts' = verdicts /\ lost' = lost BY <1>2, <1>3
        <4>2. Inside(pendingPayouts, settlements, j)' BY <3>1
        <4> QED BY <1>4, <3>2, <4>1, <4>2
      <3> QED BY <3>3, <3>4 DEF Recorded
    <2>3. Landed(settlements)' BY <1>1, <1>2, <1>10 DEF Landed
    <2>4. OneSweep'
      <3>1. \A s \in settlements' : s.swept => s \in r BY <1>10
      <3>2. \A s \in r : s \in settlements' BY <1>10, SMTT(30)
      <3> QED BY <1>1, <1>2, <3>1, <3>2 DEF OneSweep
    <2>5. SettledWasPaid' BY <1>1, <1>2 DEF SettledWasPaid
    <2>6. TypeOK'
      <3>1. pendingPayouts' \in [Pubkeys -> Payout] /\ settlements' \subseteq Settlement
        BY <1>10 DEF Queue
      <3> QED BY <1>1, <1>2, <1>3, <3>1, SMTT(30) DEF TypeOK
    <2> QED BY <2>1, <2>2, <2>3, <2>4, <2>5, <2>6 DEF PayoutInv
  <1>11. CASE ReachesThreshold(pk, j)
    <2>1. pendingPayouts' = Taken(p, pk) /\ settlements' = r \cup {Begun(pk, b, FALSE)}
      BY <1>11 DEF queuePayout, Taken, b
    <2>2. b \in Payout /\ b.jobIds # {} BY <1>6 DEF Exact
    <2>3. Queue(pendingPayouts', settlements', o)
      BY <2>1, <2>2, <1>6, <1>7, <1>8, <1>9, TakenQueue
    <2>4. ASSUME NEW i \in Jobs
          PROVE  Inside(pendingPayouts', settlements', i) <=> i = j \/ Inside(p, r, i)
      <3>1. Inside(pendingPayouts', settlements', i)
              <=> \/ i \in b.jobIds
                  \/ \E x \in Pubkeys \ {pk} : i \in p[x].jobIds
                  \/ \E s \in r : i \in s.payout.jobIds
        BY <2>1, <2>2, <1>3, TakenInside
      <3> QED BY <3>1, <1>6 DEF Inside
    <2>5. Begun(pk, b, FALSE).stage = "preparing" /\ ~Begun(pk, b, FALSE).swept
      BY <2>2, BegunFields
    <2>6. \A s \in settlements' : s \in r \/ (s.stage = "preparing" /\ ~s.swept) BY <2>1, <2>5
    <2>7. r \subseteq settlements' BY <2>1
    <2> QED BY <2>3, <2>4, <2>6, <2>7
  <1>12. CASE ~ReachesThreshold(pk, j)
    <2> DEFINE q == [p EXCEPT ![pk] = b]
    <2>1. pendingPayouts' = q /\ settlements' = r BY <1>12 DEF queuePayout, b
    <2>2. /\ q \in [Pubkeys -> Payout] /\ q[pk] = b
          /\ \A x \in Pubkeys \ {pk} : q[x] = p[x]
      BY <1>3, <1>6, SMTT(30) DEF Exact
    <2> HIDE DEF q
    <2>3. Queue(q, r, o)
      <3>1. ASSUME NEW x \in Pubkeys
            PROVE  /\ Exact(q[x])
                   /\ q[x].jobIds = {} => q[x] = NoPayout
                   /\ \A i \in q[x].jobIds : o[i] = x
        <4>1. CASE x = pk BY <4>1, <2>2, <1>6, <1>8, SMTT(30)
        <4>2. CASE x # pk BY <4>2, <2>2, <1>7, SMTT(30) DEF Queue
        <4> QED BY <4>1, <4>2
      <3>2. ASSUME NEW s \in r
            PROVE  /\ Exact(s.payout) /\ s.payout.jobIds # {}
                   /\ \A i \in s.payout.jobIds : o[i] = s.worker /\ i \notin q[s.worker].jobIds
        <4>1. s.worker \in Pubkeys BY <1>3 DEF Settlement
        <4>2. /\ Exact(s.payout) /\ s.payout.jobIds # {}
              /\ \A i \in s.payout.jobIds : o[i] = s.worker /\ i \notin p[s.worker].jobIds
          BY <1>7 DEF Queue
        <4> QED BY <4>1, <4>2, <2>2, <1>9
      <3> QED BY <1>3, <1>7, <2>2, <3>1, <3>2, SMTT(30) DEF Queue
    <2>4. ASSUME NEW i \in Jobs
          PROVE  Inside(q, r, i) <=> i = j \/ Inside(p, r, i)
      BY <2>2, <1>6 DEF Inside
    <2>5. Queue(pendingPayouts', settlements', o) BY <2>1, <2>3
    <2>6. \A i \in Jobs : Inside(pendingPayouts', settlements', i) <=> i = j \/ Inside(p, r, i)
      BY <2>1, <2>4
    <2>7. \A s \in settlements' : s \in r BY <2>1
    <2>8. r \subseteq settlements' BY <2>1
    <2> QED BY <2>5, <2>6, <2>7, <2>8
  <1> QED BY <1>11, <1>12

-----------------------------------------------------------------------------
(* Theorems *)

\* The invariant holds initially.
LEMMA PayoutInvInit == Init => PayoutInv
  <1> SUFFICES ASSUME Init PROVE PayoutInv
    OBVIOUS
  <1>1. NoPayout \in Payout /\ NoPayout.jobIds = {} /\ Exact(NoPayout)
    BY EmptyBatch DEF Exact
  <1>2. TypeOK
    <2>1. verdicts \in [Jobs -> Seq({"settled", "failed"})]
      <3>1. <<>> \in Seq({"settled", "failed"}) BY SMT
      <3> QED BY <3>1 DEF Init
    <2>2. pendingPayouts \in [Pubkeys -> Payout] BY <1>1 DEF Init
    <2>3. transfers \in [Jobs -> Nat] /\ owed \in [Jobs -> Pubkeys \cup {NoOne}] BY DEF Init
    <2>4. crashes \in 0..MaxCrashes BY SettlementAssumption, SMT DEF Init
    <2> QED BY <2>1, <2>2, <2>3, <2>4 DEF Init, TypeOK
  <1>3. Queue(pendingPayouts, settlements, owed) BY <1>1 DEF Init, Queue
  <1>4. Recorded(pendingPayouts, settlements) BY <1>1 DEF Init, Recorded, Inside
  <1>5. Landed(settlements) /\ OneSweep BY DEF Init, Landed, OneSweep
  <1>6. SettledWasPaid
    <2>1. <<>> # <<"settled">> BY FirstVerdict
    <2> QED BY <2>1 DEF Init, SettledWasPaid
  <1> QED BY <1>2, <1>3, <1>4, <1>5, <1>6 DEF PayoutInv

\* Every step preserves the invariant.
LEMMA PayoutInvNext == PayoutInv /\ [Next]_vars => PayoutInv'
  <1> SUFFICES ASSUME PayoutInv, [Next]_vars PROVE PayoutInv'
    OBVIOUS
  <1>1. ASSUME NEW pk \in Pubkeys, NEW j \in Jobs, queuePayout(pk, j) PROVE PayoutInv'
    BY <1>1, QueuePayoutKeeps
  <1>2. CASE SettleTimer BY <1>2, SettleTimerKeeps
  <1>3. ASSUME NEW s \in settlements, Send(s) \/ Land(s) PROVE PayoutInv'
    BY <1>3, SendKeeps
  <1>4. ASSUME NEW s \in settlements, Answer(s) PROVE PayoutInv'
    BY <1>4, ConfirmKeeps, FailKeeps, SMTT(30) DEF Answer
  <1>5. ASSUME NEW b \in late, LandLate(b) \/ Expire(b) PROVE PayoutInv'
    BY <1>5, LateKeeps, SMT
  <1>6. CASE Crash BY <1>6, CrashKeeps, SMT
  <1>7. CASE UNCHANGED vars
    BY <1>7 DEF vars, queueVars, chainVars, recordVars, PayoutInv, TypeOK, Queue, Recorded,
                Inside, Landed, SettledWasPaid, OneSweep
  <1> QED BY <1>1, <1>2, <1>3, <1>4, <1>5, <1>6, <1>7 DEF Next

\* The invariant of the distributor.
THEOREM PayoutInvariant == Spec => []PayoutInv
  BY PayoutInvInit, PayoutInvNext, PTL DEF Spec

\* A queued payout is in exactly one place: Accounted counts the places, and
\* the invariant says which they are.
LEMMA InvAccounted == PayoutInv => Accounted
  <1> SUFFICES ASSUME PayoutInv PROVE Accounted
    OBVIOUS
  <1>1. /\ TypeOK /\ Queue(pendingPayouts, settlements, owed)
        /\ Recorded(pendingPayouts, settlements)
    BY DEF PayoutInv
  <1>2. SUFFICES ASSUME NEW j \in Jobs
        PROVE  /\ Cardinality(Waits(j)) + Cardinality(Running(j)) + Len(verdicts[j])
                     + (IF j \in lost THEN 1 ELSE 0) = IF owed[j] = NoOne THEN 0 ELSE 1
               /\ \A pk \in Waits(j) : pk = owed[j]
               /\ \A s \in Running(j) : s.worker = owed[j]
    BY SMTT(30) DEF Accounted
  <1>3. /\ \A pk \in Waits(j) : pk \in Pubkeys /\ pk = owed[j]
        /\ \A s \in Running(j) : s.worker \in Pubkeys /\ s.worker = owed[j]
                                 /\ j \notin pendingPayouts[s.worker].jobIds
        /\ \A s, t \in Running(j) : s = t
    BY <1>1 DEF Queue, Waits, Running, Settlement
  <1>4. Waits(j) = {} \/ Waits(j) = {owed[j]} BY <1>3
  <1>5. Running(j) = {} \/ \E s : Running(j) = {s} BY <1>3
  <1>6. Running(j) # {} => Waits(j) = {} BY <1>3 DEF Waits
  <1>7. Inside(pendingPayouts, settlements, j) <=> Waits(j) # {} \/ Running(j) # {}
    BY DEF Inside, Waits, Running
  <1>8. /\ Cardinality(Waits(j)) = IF Waits(j) = {} THEN 0 ELSE 1
        /\ Cardinality(Running(j)) = IF Running(j) = {} THEN 0 ELSE 1
    BY <1>4, <1>5, FS_EmptySet, FS_Singleton
  <1>9. Inside(pendingPayouts, settlements, j) => owed[j] # NoOne
    BY <1>3, <1>7, NoOneAssumption
  <1>10. Len(verdicts[j]) = IF verdicts[j] = <<>> THEN 0 ELSE 1
    <2>1. Len(<<>>) = 0 /\ Len(<<"settled">>) = 1 /\ Len(<<"failed">>) = 1 OBVIOUS
    <2>2. verdicts[j] \in {<<>>, <<"settled">>, <<"failed">>} BY <1>1 DEF Recorded
    <2>3. <<>> # <<"settled">> /\ <<>> # <<"failed">> BY FirstVerdict, SMTT(30)
    <2> QED BY <2>1, <2>2, <2>3
  <1>11. /\ Waits(j) # {} \/ Running(j) # {} => verdicts[j] = <<>> /\ j \notin lost
         /\ owed[j] # NoOne => \/ Waits(j) # {} \/ Running(j) # {}
                               \/ verdicts[j] # <<>> \/ j \in lost
         /\ owed[j] = NoOne => verdicts[j] = <<>> /\ j \notin lost
         /\ j \in lost => verdicts[j] = <<>>
    BY <1>1, <1>7 DEF Recorded
  <1> QED BY <1>3, <1>6, <1>7, <1>8, <1>9, <1>10, <1>11, SMT

\* BoltDistributor neither drops nor doubles a payout: for any workers and
\* jobs, any threshold and any number of retries, a queued payout is in the Map,
\* in one running settlement, told once, or lost in a crash.
THEOREM PayoutsAccounted == Spec => []Accounted
  BY PayoutInvariant, InvAccounted, PTL

\* The amount of every batch is the reward of its jobs, also after a failed
\* batch was merged with one that was queued meanwhile.
THEOREM PayoutAmounts == Spec => []AmountsMatch
  <1>1. PayoutInv => AmountsMatch
    BY SMT DEF PayoutInv, Queue, Exact, AmountsMatch, Batches
  <1> QED BY <1>1, PayoutInvariant, PTL

\* onSettled is called only for jobs that a transfer on chain has paid.
THEOREM SettledJobsPaid == Spec => []SettledWasPaid
  <1>1. PayoutInv => SettledWasPaid BY DEF PayoutInv
  <1> QED BY <1>1, PayoutInvariant, PTL

\* One sweep of settleAll runs at a time, and its flag is set exactly then.
THEOREM SweepsAlone == Spec => []OneSweep
  <1>1. PayoutInv => OneSweep BY DEF PayoutInv
  <1> QED BY <1>1, PayoutInvariant, PTL

-----------------------------------------------------------------------------
(* The queue of writes *)

\* The fields of an entry of the queue.
LEMMA EntryFields ==
    ASSUME NEW w, NEW t
    PROVE  Entry(w, t).write = w /\ Entry(w, t).after = t
BY DEF Entry

\* Different jobs have different writes, and none of them is None.
LEMMA WriteNotNone ==
    /\ \A jobIds \in SUBSET Jobs : Mint(jobIds) # None
    /\ \A j \in Jobs : Note(j) # None
    /\ \A i, j \in Jobs : Note(i) = Note(j) => i = j
    /\ \A jobIds, J : Mint(jobIds) = Mint(J) => jobIds = J
    /\ \A jobIds, j : Mint(jobIds) # Note(j)
<1>1. ASSUME NEW jobIds \in SUBSET Jobs PROVE Mint(jobIds) # None
  BY MonadAssumption, SMT DEF Mint
<1>2. ASSUME NEW j \in Jobs PROVE Note(j) # None
  BY MonadAssumption, SMT DEF Note
<1>3. ASSUME NEW i \in Jobs, NEW j \in Jobs, Note(i) = Note(j) PROVE i = j
  <2>1. {i} = {j}
    BY <1>3 DEF Note
  <2> QED BY <2>1
<1>4. ASSUME NEW jobIds, NEW J, Mint(jobIds) = Mint(J) PROVE jobIds = J
  BY <1>4 DEF Mint
<1>5. ASSUME NEW jobIds, NEW j PROVE Mint(jobIds) # Note(j)
  BY DEF Mint, Note
<1> QED BY <1>1, <1>2, <1>3, <1>4, <1>5

\* A write that is added waits for the one that was last, and is last.
LEMMA QueueLengthens ==
    ASSUME NEW c, NEW t, Chained(c, t), NEW w, w \notin Writes(c), w # None
    PROVE  LET q == queueMonadTx(c, t, w)
           IN  /\ Chained(q.chain, q.tail)
               /\ Writes(q.chain) = Writes(c) \cup {w}
               /\ c \subseteq q.chain
<1> DEFINE n == Entry(w, t)
           d == c \cup {n}
<1>1. queueMonadTx(c, t, w).chain = d /\ queueMonadTx(c, t, w).tail = w
  BY DEF queueMonadTx
<1>2. n.write = w /\ n.after = t
  BY EntryFields
<1>3. Writes(d) = Writes(c) \cup {w}
  BY <1>2 DEF Writes
<1>4. \A e \in c : e.write \in Writes(c)
  BY DEF Writes
<1>5. \A e \in c : e.after # t /\ e.after # w
  BY DEF Chained
<1>6. \A e \in d : e = Entry(e.write, e.after)
  BY <1>2 DEF Chained
<1>7. \A e, f \in d : e.write = f.write \/ e.after = f.after => e = f
  BY <1>2, <1>4, <1>5, SMT DEF Chained
<1>8. \A e \in d : e.after \in Writes(d) \cup {None} /\ e.after # w
  BY <1>2, <1>3, <1>5 DEF Chained
<1>9. ASSUME NEW S \in SUBSET d, S # {} PROVE \E e \in S : e.after \notin Writes(S)
  <2>1. CASE S = {n}
    <3>1. Writes(S) = {w}
      BY <1>2, <2>1 DEF Writes
    <3>2. t # w
      BY DEF Chained
    <3> QED BY <1>2, <2>1, <3>1, <3>2
  <2>2. CASE S # {n}
    <3> DEFINE T == S \ {n}
    <3>1. PICK e \in T : e.after \notin Writes(T)
      <4>1. T \in SUBSET c /\ T # {}
        BY <1>9, <2>2
      <4> QED BY <4>1 DEF Chained
    <3>2. e \in c /\ e.after # w
      BY <1>5
    <3>3. Writes(S) \subseteq Writes(T) \cup {w}
      BY <1>2 DEF Writes
    <3> QED BY <3>1, <3>2, <3>3
  <2> QED BY <2>1, <2>2
<1>10. None \notin Writes(d)
  BY <1>3 DEF Chained
<1> QED BY <1>1, <1>3, <1>6, <1>7, <1>8, <1>9, <1>10 DEF Chained

\* A write that had its turn leaves; the one that waited for it has its turn.
LEMMA QueueMovesOn ==
    ASSUME NEW w, Chained(chain, tail), HasTurn(w)
    PROVE  /\ Chained(Settled(w).chain, Settled(w).tail)
           /\ Writes(Settled(w).chain) = Writes(chain) \ {w}
<1> DEFINE rest == {f \in chain : f.write # w}
           Next1(e) == [e EXCEPT !.after = IF @ = w THEN None ELSE @]
           d == {Next1(e) : e \in rest}
           t == IF tail = w THEN None ELSE tail
<1>1. Settled(w).chain = d /\ Settled(w).tail = t
  BY DEF Settled
<1>2. ASSUME NEW e \in chain
      PROVE  /\ e = Entry(e.write, e.after)
             /\ Next1(e) = Entry(e.write, IF e.after = w THEN None ELSE e.after)
             /\ Next1(e).write = e.write
             /\ Next1(e).after = IF e.after = w THEN None ELSE e.after
             /\ e.after = None => e.write = w
  <2>1. e = Entry(e.write, e.after)
    BY DEF Chained
  <2>2. Next1(e) = Entry(e.write, IF e.after = w THEN None ELSE e.after)
    BY <2>1, SMT DEF Entry
  <2>3. e.after = None => e.write = w
    <3>1. Entry(w, None) \in chain /\ Entry(w, None).after = None /\ Entry(w, None).write = w
      BY EntryFields DEF HasTurn
    <3> QED BY <3>1 DEF Chained
  <2> QED BY <2>1, <2>2, <2>3, EntryFields, SMT
<1> HIDE DEF Next1
<1>3. Writes(d) = Writes(chain) \ {w}
  BY <1>2 DEF Writes
<1>4. \A e \in d : e = Entry(e.write, e.after)
  BY <1>2, SMT
<1>5. ASSUME NEW e \in rest, NEW f \in rest,
             Next1(e).write = Next1(f).write \/ Next1(e).after = Next1(f).after
      PROVE  e = f
  <2>1. e.after # None /\ f.after # None
    BY <1>2
  <2>2. e.write = f.write \/ e.after = f.after
    BY <1>2, <1>5, <2>1
  <2> QED BY <2>2 DEF Chained
<1>6. ASSUME NEW e \in rest
      PROVE  Next1(e).after \in Writes(d) \cup {None} /\ Next1(e).after # t
  <2>1. e.after # None /\ e.after \in Writes(chain) /\ e.after # tail
    BY <1>2 DEF Chained
  <2>2. CASE e.after = w
    <3>1. tail # w
      BY <2>1, <2>2
    <3>2. tail # None
      BY DEF Chained
    <3> QED BY <1>2, <2>2, <3>1, <3>2
  <2>3. CASE e.after # w
    BY <1>2, <1>3, <2>1, <2>3
  <2> QED BY <2>2, <2>3
<1>7. t \in Writes(d) \cup {None}
  BY <1>3 DEF Chained
<1>8. ASSUME t = None PROVE d = {}
  <2>1. tail = w \/ tail = None
    BY <1>8
  <2>2. CASE tail = None
    BY <2>2 DEF Chained
  <2>3. CASE tail = w
    <3> SUFFICES ASSUME rest # {} PROVE FALSE
      OBVIOUS
    <3>1. PICK e \in rest : e.after \notin Writes(rest)
      BY DEF Chained
    <3>2. e.after \in Writes(chain) /\ e.after # w
      BY <1>2, <2>3 DEF Chained
    <3>3. Writes(chain) \subseteq Writes(rest) \cup {w}
      BY DEF Writes
    <3> QED BY <3>1, <3>2, <3>3
  <2> QED BY <2>1, <2>2, <2>3
<1>9. None \notin Writes(d)
  BY <1>3 DEF Chained
<1>10. ASSUME NEW S \in SUBSET d, S # {} PROVE \E e \in S : e.after \notin Writes(S)
  <2> DEFINE T == {e \in rest : Next1(e) \in S}
  <2>1. PICK e \in T : e.after \notin Writes(T)
    <3>1. T \in SUBSET chain /\ T # {}
      BY <1>10
    <3> QED BY <3>1 DEF Chained
  <2>2. Writes(S) = Writes(T)
    BY <1>2, SMT DEF Writes
  <2>3. Next1(e).after \in {e.after, None} /\ None \notin Writes(S)
    BY <1>2, <1>9 DEF Writes
  <2> QED BY <2>1, <2>2, <2>3
<1>11. /\ \A e \in d : e.after \in Writes(d) \cup {None} /\ e.after # t
       /\ \A e, f \in d : e.write = f.write \/ e.after = f.after => e = f
  BY <1>5, <1>6
<1> HIDE DEF d, t, rest, Next1
<1>12. Chained(d, t)
  BY <1>4, <1>7, <1>8, <1>9, <1>10, <1>11 DEF Chained
<1> QED BY <1>1, <1>3, <1>12

-----------------------------------------------------------------------------
(* The settlements that join the queue *)

Mints(r) == {Mint(s.payout.jobIds) : s \in r}
Notes == {Note(j) : j \in Queued}

\* The calls after a step: those of r, and at most one that begins, with a batch
\* no call had.
Grows(r) ==
    \/ settlements' = r
    \/ \E b \in Settlement :
           /\ settlements' = r \cup {b} /\ b.stage = "preparing"
           /\ \A s \in settlements : s.payout.jobIds # b.payout.jobIds

\* The queue after the settlements that begin in a step have joined it.
LEMMA JoinedQueue ==
    ASSUME NEW r \in SUBSET settlements, settlements \subseteq Settlement, Grows(r),
           NEW q, Joined(q), Chained(q.chain, q.tail),
           NEW X, \A x \in X : \E j \in Jobs : x = Note(j),
           Writes(q.chain) = Mints(r) \cup X
    PROVE  /\ Chained(chain', tail')
           /\ Writes(chain') = Mints(settlements') \cup X
           /\ q.chain \subseteq chain'
<1>1. CASE settlements' = r
  <2>1. Begins = {}
    BY <1>1 DEF Begins
  <2>2. chain' = q.chain /\ tail' = q.tail
    BY <2>1 DEF Joined
  <2> QED BY <1>1, <2>2
<1>2. ASSUME NEW b \in Settlement, settlements' = r \cup {b},
             \A s \in settlements : s.payout.jobIds # b.payout.jobIds
      PROVE  /\ Chained(chain', tail')
             /\ Writes(chain') = Mints(settlements') \cup X
             /\ q.chain \subseteq chain'
  <2> DEFINE w == Mint(b.payout.jobIds)
  <2>1. \A s \in settlements : Mint(s.payout.jobIds) # w
    BY <1>2, WriteNotNone
  <2>2. Mints(settlements') = Mints(r) \cup {w}
    BY <1>2 DEF Mints
  <2>3. Begins = {w}
    BY <1>2, <2>1, <2>2 DEF Begins, Mints
  <2>4. w \notin Writes(q.chain) /\ w # None
    <3>1. b.payout.jobIds \in SUBSET Jobs
      BY DEF Settlement, Payout
    <3>2. w \notin Mints(r) /\ w \notin X
      BY <2>1, WriteNotNone DEF Mints
    <3> QED BY <3>1, <3>2, WriteNotNone
  <2>5. /\ chain' = queueMonadTx(q.chain, q.tail, w).chain
        /\ tail' = queueMonadTx(q.chain, q.tail, w).tail
    BY <2>3 DEF Joined
  <2>6. /\ Chained(chain', tail') /\ Writes(chain') = Writes(q.chain) \cup {w}
        /\ q.chain \subseteq chain'
    BY <2>4, <2>5, QueueLengthens
  <2> QED BY <2>2, <2>6
<1> QED BY <1>1, <1>2 DEF Grows

\* settleAll begins a call for one worker, which it does not visit again.
LEMMA VisitGrows ==
    ASSUME NEW p \in [Pubkeys -> Payout], NEW r, NEW todo \in SUBSET Pubkeys, Visit(p, r, todo),
           \A s \in r : ~s.swept,
           \A pk \in todo \cap Pending(p) : \A s \in settlements : s.payout.jobIds # p[pk].jobIds
    PROVE  Grows(r) /\ SweepGoesOn'
<1>1. CASE sweep' = {} /\ settlements' = r
  BY <1>1 DEF Grows, SweepGoesOn
<1>2. ASSUME NEW pk \in todo \cap Pending(p), NEW skipped,
             sweep' = todo \ ({pk} \cup skipped),
             settlements' = r \cup {Begun(pk, p[pk], TRUE)}
      PROVE  Grows(r) /\ SweepGoesOn'
  <2> DEFINE b == Begun(pk, p[pk], TRUE)
  <2>1. pk \in Pubkeys /\ p[pk] \in Payout
    OBVIOUS
  <2>2. b \in Settlement /\ b.worker = pk /\ b.payout = p[pk] /\ b.stage = "preparing"
    BY <2>1 DEF Begun, Settlement, Stages
  <2> HIDE DEF b
  <2>3. settlements' = r \cup {b}
    BY <1>2 DEF b
  <2>4. \A s \in settlements : s.payout.jobIds # b.payout.jobIds
    BY <2>2
  <2>5. Grows(r)
    BY <2>2, <2>3, <2>4 DEF Grows
  <2>6. SweepGoesOn'
    BY <1>2, <2>2, <2>3 DEF SweepGoesOn
  <2> QED BY <2>5, <2>6
<1> QED BY <1>1, <1>2 DEF Visit

\* A tick of the timer begins at most one settlement.
LEMMA TimerGrows ==
    ASSUME PayoutInv, SettleTimer
    PROVE  Grows(settlements) /\ SweepGoesOn'
<1>1. /\ OneSweep /\ Queue(pendingPayouts, settlements, owed)
      /\ pendingPayouts \in [Pubkeys -> Payout]
  BY DEF PayoutInv, TypeOK
<1>2. \A s \in settlements : ~s.swept
  BY <1>1 DEF SettleTimer, OneSweep
<1>3. Visit(pendingPayouts, settlements, Pending(pendingPayouts))
      /\ Pending(pendingPayouts) \subseteq Pubkeys
  BY DEF SettleTimer, Pending
<1>4. ASSUME NEW pk \in Pubkeys, NEW s \in settlements,
             s.payout.jobIds = pendingPayouts[pk].jobIds
      PROVE  FALSE
  <2>1. PICK j \in s.payout.jobIds : TRUE
    BY <1>1 DEF Queue
  <2> QED BY <1>1, <1>4, <2>1, SMT DEF Queue
<1> QED BY <1>1, <1>2, <1>3, <1>4, VisitGrows

\* A call returns, with the Map p: what settleAll begins then is not the batch
\* that came back.
LEMMA ReturnGrows ==
    ASSUME PayoutInv, SweepGoesOn, NEW s \in settlements, NEW p,
           Queue(p, settlements \ {s}, owed), Return(s, p)
    PROVE  Grows(settlements \ {s}) /\ SweepGoesOn'
<1>1. /\ OneSweep /\ Queue(pendingPayouts, settlements, owed) /\ sweep \subseteq Pubkeys
      /\ p \in [Pubkeys -> Payout]
  BY DEF PayoutInv, TypeOK, Queue
<1>2. CASE ~s.swept
  BY <1>2, SMT DEF Return, Grows, SweepGoesOn
<1>3. CASE s.swept
  <2>1. Visit(p, settlements \ {s}, sweep)
    BY <1>3 DEF Return
  <2>2. \A t \in settlements \ {s} : ~t.swept
    BY <1>1, <1>3 DEF OneSweep
  <2>3. ASSUME NEW pk \in sweep, NEW t \in settlements, t.payout.jobIds = p[pk].jobIds
        PROVE  FALSE
    <3>1. PICK j \in t.payout.jobIds : TRUE
      BY <1>1, SMT DEF Queue
    <3>2. owed[j] = t.worker /\ owed[j] = pk /\ pk \in Pubkeys
      BY <1>1, <2>3, <3>1 DEF Queue
    <3>3. t # s
      BY <1>3, <3>2 DEF SweepGoesOn
    <3>4. j \notin p[t.worker].jobIds
      BY <3>1, <3>3 DEF Queue
    <3> QED BY <2>3, <3>1, <3>2, <3>4
  <2> QED BY <1>1, <2>1, <2>2, <2>3, VisitGrows
<1> QED BY <1>2, <1>3

\* So does the return of a settlement that was confirmed,
LEMMA ConfirmGrows ==
    ASSUME PayoutInv, SweepGoesOn, NEW s \in settlements, Confirm(s)
    PROVE  Grows(settlements \ {s}) /\ SweepGoesOn'
BY WithoutCall, ReturnGrows DEF Confirm

\* of one that failed,
LEMMA FailGrows ==
    ASSUME PayoutInv, SweepGoesOn, NEW s \in settlements, Fail(s)
    PROVE  Grows(settlements \ {s}) /\ SweepGoesOn'
<1> DEFINE b == [s.payout EXCEPT !.retryCount = @ + 1]
<1>1. CASE b.retryCount < MaxRetries
  <2>1. s.payout \in Payout /\ Exact(s.payout)
    BY DEF PayoutInv, Queue, Settlement
  <2>2. /\ b.jobIds = s.payout.jobIds /\ b.totalBolt = s.payout.totalBolt
        /\ b.retryCount = s.payout.retryCount + 1
    BY <2>1 DEF Payout
  <2>3. b \in Payout
    BY <1>1, <2>1, <2>2, SettlementAssumption, SMT DEF Payout
  <2>4. Exact(b)
    BY <2>1, <2>2, <2>3 DEF Exact
  <2>5. Return(s, Requeued(s.worker, b))
    BY <1>1 DEF Fail
  <2> HIDE DEF b
  <2> QED BY <2>2, <2>4, <2>5, RequeuedQueue, ReturnGrows
<1>2. CASE ~(b.retryCount < MaxRetries)
  <2>1. Return(s, pendingPayouts)
    BY <1>2 DEF Fail
  <2> QED BY <2>1, WithoutCall, ReturnGrows
<1> QED BY <1>1, <1>2

\* and a payout that reaches the threshold.
LEMMA QueuePayoutGrows ==
    ASSUME PayoutInv, SweepGoesOn, NEW pk \in Pubkeys, NEW j \in Jobs, queuePayout(pk, j)
    PROVE  Grows(settlements) /\ SweepGoesOn'
<1> DEFINE w == WithJob(pendingPayouts[pk], j)
           b == Begun(pk, w, FALSE)
<1>1. owed[j] = NoOne /\ sweep' = sweep
  BY DEF queuePayout
<1>2. CASE settlements' = settlements
  BY <1>1, <1>2 DEF Grows, SweepGoesOn
<1>3. CASE settlements' = settlements \cup {b}
  <2>1. Exact(pendingPayouts[pk]) /\ j \notin pendingPayouts[pk].jobIds
        /\ \A s \in settlements : j \notin s.payout.jobIds
    BY <1>1, NewJobOutside DEF PayoutInv, Queue
  <2>2. w \in Payout /\ j \in w.jobIds
    BY <2>1, WithJobExact, SMT DEF Exact
  <2> HIDE DEF w
  <2>3. b \in Settlement /\ b.payout = w /\ b.stage = "preparing" /\ ~b.swept
    BY <2>2, BegunFields
  <2> HIDE DEF b
  <2>4. Grows(settlements)
    BY <1>3, <2>1, <2>2, <2>3 DEF Grows
  <2> QED BY <1>1, <1>3, <2>3, <2>4 DEF SweepGoesOn
<1> QED BY <1>2, <1>3 DEF queuePayout

-----------------------------------------------------------------------------
(* One step of the queue *)

\* One write has its turn.
LEMMA OneTurn ==
    ASSUME Chained(chain, tail), NEW v, HasTurn(v), NEW w, HasTurn(w)
    PROVE  v = w
<1>1. Entry(v, None) \in chain /\ Entry(w, None) \in chain
  BY DEF HasTurn
<1>2. Entry(v, None) = Entry(w, None)
  BY <1>1, EntryFields, SMT DEF Chained
<1> QED BY <1>2, EntryFields, SMT

\* Running calls have different batches, and the queue holds the mint of each.
LEMMA MintsDiffer ==
    ASSUME PayoutInv, NEW s \in settlements
    PROVE  /\ s.payout.jobIds \in SUBSET Jobs
           /\ \A t \in settlements : Mint(t.payout.jobIds) = Mint(s.payout.jobIds) => t = s
           /\ Mints(settlements \ {s}) = Mints(settlements) \ {Mint(s.payout.jobIds)}
<1>1. Queue(pendingPayouts, settlements, owed)
  BY SMT DEF PayoutInv
<1>2. \A t \in settlements : t.payout.jobIds \in SUBSET Jobs /\ t.payout.jobIds # {}
  BY <1>1 DEF Queue, Settlement, Payout
<1>3. ASSUME NEW t \in settlements, Mint(t.payout.jobIds) = Mint(s.payout.jobIds)
      PROVE  t = s
  <2>1. t.payout.jobIds = s.payout.jobIds
    BY <1>3, WriteNotNone
  <2>2. PICK j \in Jobs : j \in s.payout.jobIds
    BY <1>2
  <2> QED BY <1>1, <2>1, <2>2 DEF Queue
<1>4. Mints(settlements \ {s}) = Mints(settlements) \ {Mint(s.payout.jobIds)}
  BY <1>3 DEF Mints
<1> QED BY <1>2, <1>3, <1>4

\* The same queue, in the words of this module.
LEMMA QueueInvMints ==
    QueueInv <=>
        /\ Chained(chain, tail)
        /\ Writes(chain) = Mints(settlements) \cup Notes
        /\ \A s \in settlements : s.stage # "preparing" => HasTurn(Mint(s.payout.jobIds))
        /\ \A j \in Jobs : feedback[j].stage = "sent" => HasTurn(Note(j))
BY DEF QueueInv, Mints, Notes

\* The feedback calls in the queue are those of Queued.
LEMMA QueuedNote ==
    ASSUME QueueInv, NEW j \in Jobs
    PROVE  Note(j) \in Writes(chain) <=> j \in Queued
<1>1. Writes(chain) = Mints(settlements) \cup Notes
  BY QueueInvMints
<1>2. Note(j) \notin Mints(settlements)
  BY WriteNotNone DEF Mints
<1>3. Note(j) \in Notes <=> j \in Queued
  BY WriteNotNone DEF Notes, Queued
<1> QED BY <1>1, <1>2, <1>3

\* What has its turn is in the queue.
LEMMA HasTurnWrite == ASSUME NEW w, HasTurn(w) PROVE w \in Writes(chain)
BY EntryFields DEF HasTurn, Writes

\* A write that goes to the end of the queue takes nobody's turn.
LEMMA QueueInvJoin ==
    ASSUME NEW q, q.chain \subseteq chain', Chained(chain', tail'), chain \subseteq q.chain,
           Writes(chain') = Mints(settlements') \cup Notes',
           QueueInv,
           \A s \in settlements' : s \in settlements \/ s.stage = "preparing",
           \A j \in Jobs : feedback'[j].stage = "sent" => feedback[j].stage = "sent"
    PROVE  QueueInv'
<1>1. \A w : HasTurn(w) => HasTurn(w)'
  BY DEF HasTurn
<1>2. \A s \in settlements' : s.stage # "preparing" => HasTurn(Mint(s.payout.jobIds))'
  BY <1>1 DEF QueueInv
<1>3. \A j \in Jobs : feedback'[j].stage = "sent" => HasTurn(Note(j))'
  BY <1>1 DEF QueueInv
<1> QED BY <1>2, <1>3 DEF QueueInv, Mints, Notes

\* A completed job: its feedback call joins the queue, then its settlement if the
\* threshold is reached.
LEMMA JobCompletedQueue ==
    ASSUME PayoutInv, MonadInv, NEW pk \in Pubkeys, NEW j \in Jobs, jobCompleted(pk, j)
    PROVE  QueueInv'
<1> DEFINE q == queueMonadTx(chain, tail, Note(j))
           X == Notes \cup {Note(j)}
<1>1. /\ QueueInv /\ Chained(chain, tail) /\ Writes(chain) = Mints(settlements) \cup Notes
      /\ feedback \in [Jobs -> Feedback]
      /\ feedback[j] = NoFeedback
  BY QueueInvMints DEF MonadInv, AttemptsCounted, jobCompleted, wbolt_queuePayout, queuePayout
<1>2. j \notin Queued
  BY <1>1, SMT DEF Queued, NoFeedback
<1>3. Note(j) \notin Writes(chain) /\ Note(j) # None
  BY <1>1, <1>2, QueuedNote, WriteNotNone
<1>4. /\ Chained(q.chain, q.tail) /\ Writes(q.chain) = Writes(chain) \cup {Note(j)}
      /\ chain \subseteq q.chain
  BY <1>1, <1>3, QueueLengthens
<1>5. Joined(q) /\ queuePayout(pk, j)
      /\ feedback' = [feedback EXCEPT ![j].stage = "queued", ![j].attempt = 1]
  BY DEF jobCompleted, wbolt_queuePayout
<1> HIDE DEF q
<1>6. Grows(settlements) /\ settlements \subseteq Settlement
  BY <1>5, QueuePayoutGrows DEF MonadInv, PayoutInv, TypeOK
<1>7. \A x \in X : \E i \in Jobs : x = Note(i)
  BY DEF Notes, Queued
<1>8. Writes(q.chain) = Mints(settlements) \cup X
  BY <1>1, <1>4
<1>9. /\ Chained(chain', tail') /\ Writes(chain') = Mints(settlements') \cup X
      /\ q.chain \subseteq chain'
  BY <1>4, <1>5, <1>6, <1>7, <1>8, JoinedQueue
<1>10. /\ feedback'[j].stage = "queued"
       /\ \A i \in Jobs \ {j} : feedback'[i] = feedback[i]
  BY <1>1, <1>5 DEF Feedback
<1>11. Queued' = Queued \cup {j}
  BY <1>10 DEF Queued
<1>12. Notes' = X
  BY <1>11 DEF Notes
<1>13. \A s \in settlements' : s \in settlements \/ s.stage = "preparing"
  BY <1>6 DEF Grows
<1>14. \A i \in Jobs : feedback'[i].stage = "sent" => feedback[i].stage = "sent"
  BY <1>10
<1> QED BY <1>1, <1>4, <1>9, <1>12, <1>13, <1>14, QueueInvJoin

\* A tick of the settlement timer, and the queue.
LEMMA SettleAllQueue ==
    ASSUME PayoutInv, MonadInv, settleAll
    PROVE  QueueInv'
<1> DEFINE q == TxQueue
<1>1. /\ QueueInv /\ Chained(chain, tail) /\ Writes(chain) = Mints(settlements) \cup Notes
  BY QueueInvMints DEF MonadInv
<1>2. q.chain = chain /\ q.tail = tail
  BY DEF TxQueue
<1>3. Joined(q) /\ SettleTimer /\ feedback' = feedback
  BY DEF settleAll
<1> HIDE DEF q
<1>4. Grows(settlements) /\ settlements \subseteq Settlement
  BY <1>3, TimerGrows DEF PayoutInv, TypeOK
<1>5. \A x \in Notes : \E i \in Jobs : x = Note(i)
  BY DEF Notes, Queued
<1>6. /\ Chained(chain', tail') /\ Writes(chain') = Mints(settlements') \cup Notes
      /\ q.chain \subseteq chain'
  BY <1>1, <1>2, <1>3, <1>4, <1>5, JoinedQueue
<1>7. Notes' = Notes
  BY <1>3 DEF Notes, Queued
<1>8. \A s \in settlements' : s \in settlements \/ s.stage = "preparing"
  BY <1>4 DEF Grows
<1> QED BY <1>1, <1>2, <1>3, <1>6, <1>7, <1>8, QueueInvJoin

\* A call that goes on to its next stage has its turn, and keeps its place.
LEMMA StageQueue ==
    ASSUME PayoutInv, QueueInv, NEW s \in settlements, NEW st \in Stages,
           settlements' = (settlements \ {s}) \cup {[s EXCEPT !.stage = st]},
           UNCHANGED <<chain, tail, feedback>>, HasTurn(Mint(s.payout.jobIds))
    PROVE  QueueInv'
<1> DEFINE c == [s EXCEPT !.stage = st]
<1>1. s \in Settlement
  BY DEF PayoutInv, TypeOK
<1>2. c.payout = s.payout
  BY <1>1 DEF Settlement
<1> HIDE DEF c
<1>3. settlements' = (settlements \ {s}) \cup {c}
  BY DEF c
<1>4. Mints(settlements') = Mints(settlements)
  BY <1>2, <1>3 DEF Mints
<1>5. Notes' = Notes /\ \A w : HasTurn(w)' <=> HasTurn(w)
  BY DEF Notes, Queued, HasTurn
<1>6. \A t \in settlements' : t.stage # "preparing" => HasTurn(Mint(t.payout.jobIds))'
  BY <1>2, <1>3, <1>5 DEF QueueInv
<1>7. \A j \in Jobs : feedback'[j].stage = "sent" => HasTurn(Note(j))'
  BY <1>5 DEF QueueInv
<1>8. Chained(chain', tail') /\ Writes(chain') = Mints(settlements') \cup Notes'
  BY <1>4, <1>5, QueueInvMints
<1> QED BY <1>6, <1>7, <1>8 DEF QueueInv, Mints, Notes

\* The call s is over: the mint leaves the queue, and a call that settleAll begins
\* goes to its end.
LEMMA AnswerQueue ==
    ASSUME PayoutInv, QueueInv, NEW s \in settlements, HasTurn(Mint(s.payout.jobIds)),
           Grows(settlements \ {s}), Joined(Settled(Mint(s.payout.jobIds))), feedback' = feedback
    PROVE  QueueInv'
<1> DEFINE w == Mint(s.payout.jobIds)
           q == Settled(w)
           r == settlements \ {s}
<1>1. Chained(chain, tail) /\ Writes(chain) = Mints(settlements) \cup Notes
  BY QueueInvMints
<1>2. Chained(q.chain, q.tail) /\ Writes(q.chain) = Writes(chain) \ {w}
  BY <1>1, QueueMovesOn
<1>3. w \notin Notes /\ \A x \in Notes : \E i \in Jobs : x = Note(i)
  BY WriteNotNone, SMT DEF Notes, Queued
<1>4. Writes(q.chain) = Mints(r) \cup Notes
  BY <1>1, <1>2, <1>3, MintsDiffer
<1> HIDE DEF q
<1>5. Chained(chain', tail') /\ Writes(chain') = Mints(settlements') \cup Notes
  <2>1. Joined(q)
    BY DEF q
  <2>2. settlements \subseteq Settlement
    BY DEF PayoutInv, TypeOK
  <2> QED BY <1>2, <1>3, <1>4, <2>1, <2>2, JoinedQueue
<1>6. Notes' = Notes
  BY DEF Notes, Queued
<1>7. \A t \in settlements' : t.stage = "preparing"
  <2>1. ASSUME NEW t \in r PROVE t.stage = "preparing"
    <3>1. Mint(t.payout.jobIds) # w
      BY <2>1, MintsDiffer
    <3> QED BY <1>1, <3>1, OneTurn DEF QueueInv
  <2> QED BY <2>1 DEF Grows
<1>8. \A j \in Jobs : feedback'[j].stage # "sent"
  <2>1. ASSUME NEW j \in Jobs, feedback[j].stage = "sent" PROVE FALSE
    <3>1. HasTurn(Note(j))
      BY <2>1 DEF QueueInv
    <3> QED BY <1>1, <3>1, OneTurn, WriteNotNone, SMT
  <2> QED BY <2>1
<1> QED BY <1>5, <1>6, <1>7, <1>8 DEF QueueInv, Mints, Notes

-----------------------------------------------------------------------------
(* Feedback *)

\* A feedback call that has its turn is over for now: it leaves the queue, and
\* nothing of it is under way.
LEMMA NoteSettledQueue ==
    ASSUME PayoutInv, QueueInv, NEW j \in Jobs, HasTurn(Note(j)), NoteSettled(j),
           settlements' = settlements,
           feedback'[j].stage \notin {"queued", "sent"},
           \A i \in Jobs \ {j} : feedback'[i] = feedback[i]
    PROVE  QueueInv'
<1> DEFINE q == Settled(Note(j))
<1>1. Chained(chain, tail) /\ Writes(chain) = Mints(settlements) \cup Notes
  BY QueueInvMints
<1>2. Chained(q.chain, q.tail) /\ Writes(q.chain) = Writes(chain) \ {Note(j)}
  BY <1>1, QueueMovesOn
<1>3. chain' = q.chain /\ tail' = q.tail
  BY DEF NoteSettled
<1> HIDE DEF q
<1>4. Queued' = Queued \ {j}
  BY DEF Queued
<1>5. Notes' = Notes \ {Note(j)}
  BY <1>4, WriteNotNone, SMT DEF Notes, Queued
<1>6. Mints(settlements') = Mints(settlements) /\ Note(j) \notin Mints(settlements)
  BY WriteNotNone DEF Mints
<1>7. Chained(chain', tail') /\ Writes(chain') = Mints(settlements') \cup Notes'
  BY <1>1, <1>2, <1>3, <1>5, <1>6
<1>8. \A s \in settlements' : s.stage = "preparing"
  <2>1. ASSUME NEW s \in settlements, s.stage # "preparing" PROVE FALSE
    <3>1. HasTurn(Mint(s.payout.jobIds))
      BY <2>1 DEF QueueInv
    <3> QED BY <1>1, <3>1, OneTurn, WriteNotNone, SMT
  <2> QED BY <2>1
<1>9. \A i \in Jobs : feedback'[i].stage # "sent"
  <2>1. ASSUME NEW i \in Jobs \ {j}, feedback[i].stage = "sent" PROVE FALSE
    <3>1. HasTurn(Note(i))
      BY <2>1 DEF QueueInv
    <3> QED BY <1>1, <2>1, <3>1, OneTurn, WriteNotNone
  <2> QED BY <2>1
<1> QED BY <1>7, <1>8, <1>9 DEF QueueInv, Mints, Notes

\* The counters of postFeedback are kept when the call for j goes on.
LEMMA FeedbackCounted ==
    ASSUME AttemptsCounted, FeedbackCopies, NEW j \in Jobs, NEW f \in Feedback,
           feedback' = [feedback EXCEPT ![j] = f], workerBalances' \in [Pubkeys -> Nat],
           \A i \in Jobs \ {j} : owed'[i] = owed[i], owed'[j] # NoOne,
           f.sent <= f.attempt,
           f.stage = "queued" => f.sent < f.attempt,
           f.stage = "backoff" => f.attempt < FeedbackAttempts,
           f.sent = f.givenUp + IF f.stage \in {"sent", "posted"} THEN 1 ELSE 0
    PROVE  AttemptsCounted' /\ FeedbackCopies'
<1>1. /\ feedback \in [Jobs -> Feedback] /\ feedback' \in [Jobs -> Feedback]
      /\ feedback'[j] = f /\ \A i \in Jobs \ {j} : feedback'[i] = feedback[i]
  BY DEF AttemptsCounted
<1>2. AttemptsCounted'
  BY <1>1 DEF AttemptsCounted
<1>3. f.sent <= FeedbackAttempts
  BY MonadAssumption, SMT DEF Feedback
<1>4. FeedbackCopies'
  BY <1>1, <1>3 DEF FeedbackCopies
<1> QED BY <1>2, <1>4

\* The fields of a feedback call.
LEMMA FeedbackFields ==
    ASSUME NEW j \in Jobs, feedback \in [Jobs -> Feedback]
    PROVE  /\ feedback[j] \in Feedback
           /\ feedback[j].attempt \in 0..FeedbackAttempts
           /\ feedback[j].sent \in Nat /\ feedback[j].givenUp \in Nat
BY DEF Feedback

\* A feedback record whose stage changes, and one of its counters.
LEMMA FeedbackMoves ==
    ASSUME NEW F \in Feedback, NEW st \in {"none", "queued", "sent", "backoff", "posted", "failed"},
           NEW a \in 0..FeedbackAttempts, NEW n \in Nat
    PROVE  /\ [F EXCEPT !.stage = st] \in Feedback
           /\ [F EXCEPT !.stage = st, !.attempt = a] \in Feedback
           /\ [F EXCEPT !.stage = st, !.sent = n] \in Feedback
           /\ [F EXCEPT !.stage = st, !.givenUp = n] \in Feedback
<1>1. [F EXCEPT !.stage = st] \in Feedback
  BY DEF Feedback
<1>2. [F EXCEPT !.stage = st, !.attempt = a] \in Feedback
  BY DEF Feedback
<1>3. [F EXCEPT !.stage = st, !.sent = n] \in Feedback
  BY DEF Feedback
<1>4. [F EXCEPT !.stage = st, !.givenUp = n] \in Feedback
  BY DEF Feedback
<1> QED BY <1>1, <1>2, <1>3, <1>4

\* A step without feedback calls.
LEMMA SameFeedback ==
    ASSUME AttemptsCounted, FeedbackCopies, feedback' = feedback, owed' = owed,
           workerBalances' \in [Pubkeys -> Nat]
    PROVE  AttemptsCounted' /\ FeedbackCopies'
BY DEF AttemptsCounted, FeedbackCopies

\* A completed job gets its first attempt.
LEMMA JobCompletedFeedback ==
    ASSUME PayoutInv, MonadInv, NEW pk \in Pubkeys, NEW j \in Jobs, jobCompleted(pk, j)
    PROVE  AttemptsCounted' /\ FeedbackCopies'
<1> DEFINE f == [feedback[j] EXCEPT !.stage = "queued", !.attempt = 1]
<1>1. /\ AttemptsCounted /\ FeedbackCopies /\ feedback \in [Jobs -> Feedback]
      /\ workerBalances' \in [Pubkeys -> Nat]
  BY DEF MonadInv, AttemptsCounted, jobCompleted
<1>2. owed[j] = NoOne /\ owed' = [owed EXCEPT ![j] = pk] /\ owed \in [Jobs -> Pubkeys \cup {NoOne}]
  BY DEF jobCompleted, wbolt_queuePayout, queuePayout, PayoutInv, TypeOK
<1>3. feedback[j] = NoFeedback
  BY <1>1, <1>2 DEF AttemptsCounted
<1>4. f \in Feedback /\ f.stage = "queued" /\ f.attempt = 1 /\ f.sent = 0 /\ f.givenUp = 0
  <2>1. feedback[j] \in Feedback /\ 1 \in 0..FeedbackAttempts
    BY <1>1, FeedbackFields, MonadAssumption, SMT
  <2>2. f \in Feedback
    BY <2>1, FeedbackMoves
  <2> QED BY <1>3, <2>2, SMT DEF NoFeedback
<1>5. feedback' = [feedback EXCEPT ![j] = f]
  BY DEF jobCompleted
<1>6. (\A i \in Jobs \ {j} : owed'[i] = owed[i]) /\ owed'[j] # NoOne
  BY <1>2, NoOneAssumption
<1>7. /\ f.sent <= f.attempt /\ f.sent < f.attempt
      /\ f.sent = f.givenUp + IF f.stage \in {"sent", "posted"} THEN 1 ELSE 0
      /\ f.stage # "backoff"
  BY <1>4, SMT
<1> HIDE DEF f
<1> QED BY <1>1, <1>4, <1>5, <1>6, <1>7, FeedbackCounted
=============================================================================
