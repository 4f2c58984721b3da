----------------------------- MODULE Settlement -----------------------------
(***************************************************************************)
(* bolt/BoltDistributor.ts: completed jobs are queued per worker, and a    *)
(* batch is settled by one transfer on chain, when a further job reaches   *)
(* the threshold or when the interval timer sweeps all workers.            *)
(*                                                                         *)
(* settleWorker awaits the chain, so several settlements may be under way  *)
(* at once, and queuePayout runs between any two of their steps.  Job ids  *)
(* are unique and each is queued once, for one worker: the hub's side of   *)
(* this is PaidOncePerCompletion and DemoPaidOnce in Coordinator.          *)
(***************************************************************************)
EXTENDS Integers, Sequences, FiniteSets

CONSTANTS
    Pubkeys,         \* workers
    Jobs,            \* completed jobs
    JOBS_THRESHOLD,  \* jobs of a worker that are settled at once
    MaxRetries,      \* failed attempts after which a batch is given up (3)
    MaxCrashes       \* bound: crashes of the process

ASSUME SettlementAssumption ==
    /\ IsFiniteSet(Jobs)
    /\ JOBS_THRESHOLD \in Nat
    /\ MaxRetries \in Nat \ {0}
    /\ MaxCrashes \in Nat

VARIABLES
    pendingPayouts,  \* the Map, by worker
    settlements,     \* calls of settleWorker that are waiting for the chain
    settling,        \* the flag of settleAll
    sweep,           \* workers the running settleAll has still to visit
    \* the chain
    late,            \* transfers sent by an attempt that was given up since
    transfers,       \* [Jobs -> Nat]: transfers on chain that pay for the job
    \* what the worker is told (onSettled, onFailed), and history
    verdicts,        \* [Jobs -> Seq({"settled", "failed"})]
    owed,            \* [Jobs -> Pubkeys or none]: queuePayout calls so far
    lost,            \* jobs whose payout was in memory at a crash
    crashes

queueVars  == <<pendingPayouts, settlements, settling, sweep>>
chainVars  == <<late, transfers>>
recordVars == <<verdicts, owed, lost, crashes>>
vars == <<queueVars, chainVars, recordVars>>

NoOne    == "none"

ASSUME NoOneAssumption == NoOne \notin Pubkeys

NoPayout == [jobIds |-> {}, totalBolt |-> 0, retryCount |-> 0]

\* Amounts are in units of the fixed reward per job.
Payout == [jobIds: SUBSET Jobs, totalBolt: Nat, retryCount: 0..MaxRetries]

\* A running settleWorker call: it prepares (token accounts), then its
\* transfer is sent, and may land on chain.
Stages == {"preparing", "sent", "landed"}
Settlement == [worker: Pubkeys, payout: Payout, stage: Stages, swept: BOOLEAN]

Init ==
    /\ pendingPayouts = [pk \in Pubkeys |-> NoPayout]
    /\ settlements = {}
    /\ settling = FALSE
    /\ sweep = {}
    /\ late = {}
    /\ transfers = [j \in Jobs |-> 0]
    /\ verdicts = [j \in Jobs |-> <<>>]
    /\ owed = [j \in Jobs |-> NoOne]
    /\ lost = {}
    /\ crashes = 0

(***************************************************************************)
(* The synchronous part of settleWorker: the batch leaves the Map.         *)
(***************************************************************************)
Begun(pk, payout, swept) ==
    [worker |-> pk, payout |-> payout, stage |-> "preparing", swept |-> swept]

(***************************************************************************)
(* queuePayout                                                             *)
(***************************************************************************)
WithJob(payout, j) ==
    [jobIds |-> payout.jobIds \cup {j}, totalBolt |-> payout.totalBolt + 1,
     retryCount |-> payout.retryCount]

\* The threshold is looked at only when the worker already has an entry.
ReachesThreshold(pk, j) ==
    /\ pendingPayouts[pk] # NoPayout
    /\ Cardinality(WithJob(pendingPayouts[pk], j).jobIds) >= JOBS_THRESHOLD

queuePayout(pk, j) ==
    LET payout == WithJob(pendingPayouts[pk], j)
    IN  /\ owed[j] = NoOne
        /\ owed' = [owed EXCEPT ![j] = pk]
        /\ IF ReachesThreshold(pk, j)
           THEN /\ pendingPayouts' = [pendingPayouts EXCEPT ![pk] = NoPayout]
                /\ settlements' = settlements \cup {Begun(pk, payout, FALSE)}
           ELSE /\ pendingPayouts' = [pendingPayouts EXCEPT ![pk] = payout]
                /\ UNCHANGED settlements
        /\ UNCHANGED <<settling, sweep, chainVars, verdicts, lost, crashes>>

(***************************************************************************)
(* settleAll visits the workers that were in the Map when the timer fired, *)
(* one after the other; a worker whose entry is gone by then is skipped.   *)
(* pending and running are the Map and the calls as the loop finds them.   *)
(***************************************************************************)
Pending(pending) == {pk \in Pubkeys : pending[pk] # NoPayout}

\* Faulty variant: the flag is not cleared at the end.
Visit_KeepsFlag(pending, running, todo) ==
    \/ /\ todo \cap Pending(pending) = {}
       /\ UNCHANGED settling
       /\ sweep' = {}
       /\ pendingPayouts' = pending
       /\ settlements' = running
    \/ \E pk \in todo \cap Pending(pending) :
           /\ settling' = TRUE
           /\ sweep' = todo \ {pk}
           /\ pendingPayouts' = [pending EXCEPT ![pk] = NoPayout]
           /\ settlements' = running \cup {Begun(pk, pending[pk], TRUE)}

Visit(pending, running, todo) ==
    \/ /\ todo \cap Pending(pending) = {}
       /\ settling' = FALSE
       /\ sweep' = {}
       /\ pendingPayouts' = pending
       /\ settlements' = running
    \/ \E pk \in todo \cap Pending(pending) :
       \E skipped \in SUBSET (todo \ Pending(pending)) :
           /\ settling' = TRUE
           /\ sweep' = todo \ ({pk} \cup skipped)
           /\ pendingPayouts' = [pending EXCEPT ![pk] = NoPayout]
           /\ settlements' = running \cup {Begun(pk, pending[pk], TRUE)}

\* The interval timer fires.  It does nothing while a sweep is running, or if
\* there is nothing to settle.
SettleTimer ==
    /\ ~settling
    /\ Pending(pendingPayouts) # {}
    /\ Visit(pendingPayouts, settlements, Pending(pendingPayouts))
    /\ UNCHANGED <<chainVars, verdicts, owed, lost, crashes>>

(***************************************************************************)
(* The rest of settleWorker, for a call s, and the chain                   *)
(***************************************************************************)
\* The token accounts are there: the transfer is signed and sent.
Send(s) ==
    /\ s.stage = "preparing"
    /\ settlements' = (settlements \ {s}) \cup {[s EXCEPT !.stage = "sent"]}
    /\ UNCHANGED <<pendingPayouts, settling, sweep, chainVars, recordVars>>

PaidFor(jobIds) ==
    transfers' = [j \in Jobs |-> IF j \in jobIds THEN transfers[j] + 1 ELSE transfers[j]]

\* The chain executes the transfer of s, or one whose sender gave up waiting.
Land(s) ==
    /\ s.stage = "sent"
    /\ settlements' = (settlements \ {s}) \cup {[s EXCEPT !.stage = "landed"]}
    /\ PaidFor(s.payout.jobIds)
    /\ UNCHANGED <<pendingPayouts, settling, sweep, late, recordVars>>

LandLate(batch) ==
    /\ late' = late \ {batch}
    /\ PaidFor(batch.jobIds)
    /\ UNCHANGED <<queueVars, recordVars>>

\* A transfer that is not executed in time never is.
Expire(batch) ==
    /\ late' = late \ {batch}
    /\ UNCHANGED <<queueVars, transfers, recordVars>>

\* The call s is over; if settleAll was waiting for it, its loop goes on.
Return(s, pending) ==
    IF s.swept THEN Visit(pending, settlements \ {s}, sweep)
    ELSE /\ pendingPayouts' = pending
         /\ settlements' = settlements \ {s}
         /\ UNCHANGED <<settling, sweep>>

Tell(jobIds, verdict) ==
    verdicts' = [j \in Jobs |-> IF j \in jobIds THEN Append(verdicts[j], verdict)
                                ELSE verdicts[j]]

\* The callbacks of the distributor: the worker is told.
onSettled(jobIds) == Tell(jobIds, "settled")
onFailed(jobIds)  == Tell(jobIds, "failed")

\* Faulty variant: the answer of the chain is not awaited.
Confirm_Early(s) ==
    /\ s.stage \in {"sent", "landed"}
    /\ onSettled(s.payout.jobIds)
    /\ Return(s, pendingPayouts)
    /\ UNCHANGED <<chainVars, owed, lost, crashes>>

\* sendAndConfirmTransaction returns.
Confirm(s) ==
    /\ s.stage = "landed"
    /\ onSettled(s.payout.jobIds)
    /\ Return(s, pendingPayouts)
    /\ UNCHANGED <<chainVars, owed, lost, crashes>>

\* Faulty variant: a batch that was queued meanwhile is overwritten.
Requeued_Overwrites(pk, payout) == [pendingPayouts EXCEPT ![pk] = payout]

\* A batch that was queued meanwhile absorbs the failed one, and keeps its own
\* retryCount.
Merged(queued, payout) ==
    [jobIds |-> queued.jobIds \cup payout.jobIds,
     totalBolt |-> queued.totalBolt + payout.totalBolt,
     retryCount |-> queued.retryCount]

Requeued(pk, payout) ==
    [pendingPayouts EXCEPT ![pk] = IF @ = NoPayout THEN payout ELSE Merged(@, payout)]

\* Faulty variant: a batch is never given up.
Fail_Forever(s) ==
    /\ Return(s, Requeued(s.worker, [s.payout EXCEPT !.retryCount = @ + 1]))
    /\ late' = IF s.stage = "sent" THEN late \cup {s.payout} ELSE late
    /\ UNCHANGED <<transfers, verdicts, owed, lost, crashes>>

\* One of the awaited calls throws: the accounts cannot be read, the transfer
\* is refused, or its confirmation does not arrive, whether or not it lands.
Fail(s) ==
    LET payout == [s.payout EXCEPT !.retryCount = @ + 1]
    IN  /\ IF payout.retryCount < MaxRetries
           THEN Return(s, Requeued(s.worker, payout)) /\ UNCHANGED verdicts
           ELSE Return(s, pendingPayouts) /\ onFailed(payout.jobIds)
        /\ late' = IF s.stage = "sent" THEN late \cup {s.payout} ELSE late
        /\ UNCHANGED <<transfers, owed, lost, crashes>>

\* The Map and the running calls are in memory only.
Crash ==
    /\ crashes < MaxCrashes
    /\ crashes' = crashes + 1
    /\ lost' = lost \cup (UNION {pendingPayouts[pk].jobIds : pk \in Pubkeys})
                    \cup (UNION {s.payout.jobIds : s \in settlements})
    /\ pendingPayouts' = [pk \in Pubkeys |-> NoPayout]
    /\ settlements' = {}
    /\ settling' = FALSE
    /\ sweep' = {}
    /\ late' = late \cup {s.payout : s \in {t \in settlements : t.stage = "sent"}}
    /\ UNCHANGED <<transfers, verdicts, owed>>

Answer(s) == Confirm(s) \/ Fail(s)

Waits(j)   == {pk \in Pubkeys : j \in pendingPayouts[pk].jobIds}
Running(j) == {s \in settlements : j \in s.payout.jobIds}

Next ==
    \/ \E pk \in Pubkeys, j \in Jobs : queuePayout(pk, j)
    \/ SettleTimer
    \/ \E s \in settlements : Send(s) \/ Land(s) \/ Answer(s)
    \/ \E batch \in late : LandLate(batch) \/ Expire(batch)
    \/ Crash

Spec == Init /\ [][Next]_vars

(***************************************************************************)
(* Fairness.  The interval fires, and every call to the chain returns or   *)
(* throws in the end (sendAndConfirmTransaction gives up when the block    *)
(* height of its transaction has passed).                                  *)
(***************************************************************************)
Fairness ==
    /\ WF_vars(SettleTimer)
    /\ \A j \in Jobs : WF_vars(\E s \in Running(j) : Send(s) \/ Answer(s))

FairSpec == Spec /\ Fairness

-----------------------------------------------------------------------------
(* Properties *)

\* Every variable has its type.
TypeOK ==
    /\ pendingPayouts \in [Pubkeys -> Payout]
    /\ settlements \subseteq Settlement
    /\ settling \in BOOLEAN
    /\ sweep \subseteq Pubkeys
    /\ late \subseteq Payout
    /\ transfers \in [Jobs -> Nat]
    /\ verdicts \in [Jobs -> Seq({"settled", "failed"})]
    /\ owed \in [Jobs -> Pubkeys \cup {NoOne}]
    /\ lost \subseteq Jobs
    /\ crashes \in 0..MaxCrashes

Batches == {pendingPayouts[pk] : pk \in Pubkeys} \cup {s.payout : s \in settlements}

\* A queued payout is, for its own worker, in exactly one place: the Map, one
\* running settlement, or the past (told once, or lost in a crash).  Merging a
\* failed batch with one queued meanwhile neither drops nor doubles a job.
Accounted ==
    \A j \in Jobs :
        LET places == Cardinality(Waits(j)) + Cardinality(Running(j)) + Len(verdicts[j])
                        + (IF j \in lost THEN 1 ELSE 0)
        IN  /\ places = IF owed[j] = NoOne THEN 0 ELSE 1
            /\ \A pk \in Waits(j) : pk = owed[j]
            /\ \A s \in Running(j) : s.worker = owed[j]

\* The amount of a transfer is the reward of the jobs it pays for.
AmountsMatch == \A b \in Batches : b.totalBolt = Cardinality(b.jobIds)

\* payment_posted is sent only for jobs that a transfer on chain paid.
SettledWasPaid ==
    \A j \in Jobs : verdicts[j] = <<"settled">> => transfers[j] >= 1

\* The flag of settleAll is set exactly while one settlement of a sweep runs,
\* so it neither lets two sweeps run nor blocks the next one for ever.
OneSweep ==
    /\ settling <=> \E s \in settlements : s.swept
    /\ \A s, t \in settlements : s.swept /\ t.swept => s = t

\* Every queued payout is settled or reported as failed, unless a crash loses it.
PayoutsDecided ==
    \A j \in Jobs : []<>(owed[j] # NoOne => verdicts[j] # <<>> \/ j \in lost)

(***************************************************************************)
(* The inductive invariant behind the invariants above.  A step of         *)
(* settleAll first changes the Map (a batch comes back) and then visits    *)
(* the next worker, within one action: the invariant is therefore stated   *)
(* of a Map p and a set r of calls, not of the variables.                  *)
(***************************************************************************)
\* The amount of a batch is that of its jobs.
Exact(b) == b \in Payout /\ b.totalBolt = Cardinality(b.jobIds)

\* The batches of the Map p and of the calls r hold different jobs, each for
\* the worker the job is owed to, by o.
Queue(p, r, o) ==
    /\ p \in [Pubkeys -> Payout]
    /\ r \subseteq Settlement
    /\ \A pk \in Pubkeys :
           /\ Exact(p[pk])
           /\ p[pk].jobIds = {} => p[pk] = NoPayout
           /\ \A j \in p[pk].jobIds : o[j] = pk
    /\ \A s \in r :
           /\ Exact(s.payout)
           /\ s.payout.jobIds # {}
           /\ \A j \in s.payout.jobIds : o[j] = s.worker /\ j \notin p[s.worker].jobIds
    /\ \A s, t \in r : \A j \in Jobs :
           j \in s.payout.jobIds /\ j \in t.payout.jobIds => s = t

\* The payout of j is still to be decided.
Inside(p, r, j) ==
    \/ \E pk \in Pubkeys : j \in p[pk].jobIds
    \/ \E s \in r : j \in s.payout.jobIds

\* What became of each job, next to where its payout is.
Recorded(p, r) ==
    \A j \in Jobs :
        /\ verdicts[j] \in {<<>>, <<"settled">>, <<"failed">>}
        /\ Inside(p, r, j) => verdicts[j] = <<>> /\ j \notin lost
        /\ owed[j] # NoOne => Inside(p, r, j) \/ verdicts[j] # <<>> \/ j \in lost
        /\ owed[j] = NoOne => verdicts[j] = <<>> /\ j \notin lost
        /\ j \in lost => verdicts[j] = <<>>

\* A landed transfer has paid for its jobs.
Landed(r) ==
    \A s \in r : s.stage = "landed" => \A j \in s.payout.jobIds : transfers[j] >= 1

\* The inductive invariant of the distributor: every payout that was queued is
\* in one batch or decided, batches are for one worker and exact, calls that
\* landed have paid, and the flag of settleAll is right.
PayoutInv ==
    /\ TypeOK
    /\ Queue(pendingPayouts, settlements, owed)
    /\ Recorded(pendingPayouts, settlements)
    /\ Landed(settlements)
    /\ SettledWasPaid
    /\ OneSweep

(***************************************************************************)
(* What the comments in the code say                                       *)
(***************************************************************************)
\* "Remove from pending immediately to prevent double-settlement": no job is
\* paid by two transfers.
NoDoubleSettlement == \A j \in Jobs : transfers[j] <= 1
=============================================================================
