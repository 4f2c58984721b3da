------------------------- MODULE CoordinatorProofs --------------------------
(***************************************************************************)
(* The inductive invariant of Coordinator survives the answers of the      *)
(* workers (job_complete and job_reject, in time and late), and so always  *)
(* holds; the invariants that follow from it.  HubProofs has one lemma for *)
(* each of the other steps.  The coordinator implements JobLifecycle, and  *)
(* the action properties of Coordinator hold.  Both rest on a list of what *)
(* a step may do to the rows of the jobs table (RowChange).                *)
(***************************************************************************)
EXTENDS HubProofs

\* Leaves are proved by Zenon; those that need arithmetic or the theory of
\* sequences and records name SMT.
USE Zenon

(***************************************************************************)
(* A worker answers                                                        *)
(***************************************************************************)
\* What freeing the holder of a job does to the holders.
LEMMA FreeWorker ==
    ASSUME IndInv, NEW w \in WorkerIds, NEW j \in AnyJob, Holds(w, j), workers' = freeWorker(w)
    PROVE  /\ workers' \in [WorkerIds -> TrackedWorker \cup {NoWorker}]
           /\ \A v \in WorkerIds : v \in Online' <=> v \in Online
           /\ \A v \in WorkerIds : workers'[v].ws = workers[v].ws
           /\ \A v \in Online : workers'[v].status = "busy" <=> workers'[v].activeJobId # None
           /\ \A v \in WorkerIds, k \in AnyJob : Holds(v, k)' <=> Holds(v, k) /\ k # j
<1> USE DEF IndInv
<1> DEFINE entry == [workers[w] EXCEPT !.status = "idle", !.activeJobId = None]
<1>1. w \in Online /\ workers[w] \in TrackedWorker
  BY WorkerEntry DEF Holds
<1>2. entry \in TrackedWorker /\ entry.status = "idle" /\ entry.activeJobId = None
      /\ entry.ws = workers[w].ws
  BY <1>1 DEF TrackedWorker
<1>3. entry # NoWorker
  BY <1>2 DEF NoWorker
<1> HIDE DEF entry
<1>4. workers' = [workers EXCEPT ![w] = entry]
  BY DEF freeWorker, entry
<1>5. /\ workers' \in [WorkerIds -> TrackedWorker \cup {NoWorker}]
      /\ workers'[w] = entry
      /\ \A v \in WorkerIds : v # w => workers'[v] = workers[v]
  BY <1>2, <1>4 DEF TypeOK
<1>6. \A v \in WorkerIds : v \in Online' <=> v \in Online
  BY <1>1, <1>3, <1>5 DEF Online
<1>7. \A v \in WorkerIds : workers'[v].ws = workers[v].ws
  BY <1>2, <1>5
<1>8. \A v \in Online : workers'[v].status = "busy" <=> workers'[v].activeJobId # None
  <2>1. \A v \in Online : v \in WorkerIds
    BY DEF Online
  <2>2. \A v \in Online : workers[v].status = "busy" <=> workers[v].activeJobId # None
    BY DEF NoDoubleBooking
  <2> QED BY <1>2, <1>5, <2>1, <2>2
<1>9. \A v \in WorkerIds, k \in AnyJob : Holds(v, k)' <=> Holds(v, k) /\ k # j
  <2>1. \A v \in WorkerIds : Holds(v, j) => v = w
    BY DEF NoDoubleBooking
  <2>2. \A k \in AnyJob : Holds(w, k) => k = j
    BY DEF Holds
  <2> QED BY <1>2, <1>5, <1>6, <2>1, <2>2, NoneAssumption DEF Holds
<1> QED BY <1>5, <1>6, <1>7, <1>8, <1>9

\* What an answer of w for j does to the row, to the payouts and to the feedback:
\* completed with one of each, or back to pending with no pubkey.
RowAnswered(w, j) ==
    j \in Jobs =>
        \/ /\ jobs'[j].status = "completed" /\ jobs'[j].req = jobs[j].req
           /\ jobs'[j].worker_pubkey = jobs[j].worker_pubkey
           /\ payouts'[j] = <<Pubkey(w)>> /\ feedback'[j] = <<TRUE>>
        \/ /\ jobs'[j].status = "pending" /\ jobs'[j].worker_pubkey = None
           /\ payouts'[j] = payouts[j] /\ feedback'[j] = feedback[j]

\* And a job of demo mode.
DemoAnswered(w, j) ==
    j \in DemoJobs => payouts'[j] = <<Pubkey(w)>> \/ payouts'[j] = payouts[j]

\* What an answer leaves alone.
OthersKept(j) ==
    /\ \A k \in Jobs : k # j => jobs'[k] = jobs[k]
    /\ \A k \in AnyJob : k # j => payouts'[k] = payouts[k] /\ feedback'[k] = feedback[k]

\* An answer for j that frees its holder preserves the invariant.
LEMMA AnsweredInv ==
    ASSUME IndInv, TypeOK', NEW w \in WorkerIds, NEW j \in AnyJob, Holds(w, j),
           workers' = freeWorker(w), RowAnswered(w, j), DemoAnswered(w, j), OthersKept(j),
           \A pk \in Pubkeys : unanswered'[pk] \subseteq unanswered[pk],
           UNCHANGED <<lastId, pairings, retry, demoVars, offers, crashVars>>
    PROVE  IndInv'
<1> USE DEF IndInv, demoVars, crashVars
<1>1. \A v \in WorkerIds, k \in AnyJob : Holds(v, k)' <=> Holds(v, k) /\ k # j
  BY FreeWorker
<1>2. \A v \in WorkerIds : workers'[v].ws = workers[v].ws /\ Pubkey(v)' = Pubkey(v)
  BY FreeWorker DEF Pubkey
<1>3. j \in Jobs => /\ jobs[j].status = "assigned" /\ jobs[j].worker_pubkey = Pubkey(w)
                    /\ offers[j] = 1 /\ retry[j] = None /\ payouts[j] = <<>> /\ feedback[j] = <<>>
  BY ZenonT(40) DEF NoDoubleBooking, OffersMatchRows, OpenJobsAttended, Looping, PaidOncePerCompletion
<1>4. IdsInOrder'
  BY FreeWorker DEF IdsInOrder, Online
<1>5. \A k \in Jobs : k # j => jobs'[k] = jobs[k] /\ k \in AnyJob
  BY DEF OthersKept, AnyJob
<1>6. j \in Jobs => /\ jobs'[j].status \in {"completed", "pending"}
                    /\ jobs'[j].status = "completed" => jobs'[j].req = jobs[j].req
                    /\ jobs'[j].worker_pubkey \in {None, jobs[j].worker_pubkey}
                    /\ jobs'[j].status = "pending" => jobs'[j].worker_pubkey = None
                    /\ jobs'[j].status = "completed" => jobs'[j].worker_pubkey = jobs[j].worker_pubkey
  BY DEF RowAnswered
<1>7. NoDoubleBooking'
  <2>1. \A v \in Online' : workers'[v].status = "busy" <=> workers'[v].activeJobId # None
    BY FreeWorker DEF Online
  <2>2. ASSUME NEW v \in WorkerIds, NEW k \in Jobs, Holds(v, k)'
        PROVE  jobs'[k].status = "assigned" /\ jobs'[k].worker_pubkey = Pubkey(v)'
    <3>1. Holds(v, k) /\ k # j
      BY <1>1, <2>2 DEF AnyJob
    <3> QED BY <1>2, <1>5, <3>1, SMT DEF NoDoubleBooking
  <2>3. \A u, v \in WorkerIds, k \in AnyJob : Holds(u, k)' /\ Holds(v, k)' => u = v
    BY <1>1 DEF NoDoubleBooking
  <2> QED BY <2>1, <2>2, <2>3 DEF NoDoubleBooking
<1>8. OpenJobsAttended'
  <2> SUFFICES ASSUME NEW k \in Jobs
               PROVE  /\ jobs'[k].status = "assigned" /\ k \notin orphaned'
                           => \E v \in WorkerIds : Holds(v, k)'
                      /\ jobs'[k].status = "pending" /\ k \notin orphaned'
                           => Looping(k)' \/ Rejected(k)'
                      /\ Looping(k)' => jobs'[k].status = "pending" /\ ~Rejected(k)'
    BY DEF OpenJobsAttended
  <2>1. CASE k = j
    <3>1. jobs'[k].status \in {"completed", "pending"} /\ retry'[k] = None /\ offers'[k] = 1
      BY <1>3, <1>6, <2>1
    <3>2. jobs'[k].status # "assigned" /\ offers'[k] > 0
      BY <3>1, SMT
    <3> QED BY <3>1, <3>2 DEF Looping, Rejected
  <2>2. CASE k # j
    <3>1. jobs'[k] = jobs[k] /\ (Looping(k)' <=> Looping(k)) /\ (Rejected(k)' <=> Rejected(k))
          /\ orphaned' = orphaned
      BY <1>5, <2>2 DEF Looping, Rejected
    <3>2. \A v \in WorkerIds : Holds(v, k)' <=> Holds(v, k)
      BY <1>1, <2>2 DEF AnyJob
    <3> QED BY <3>1, <3>2 DEF OpenJobsAttended
  <2> QED BY <2>1, <2>2
<1>9. OffersMatchRows'
  BY <1>3, <1>5, <1>6 DEF OffersMatchRows
<1>10. PaidOncePerCompletion'
  <2>1. ASSUME NEW k \in Jobs
        PROVE  /\ payouts'[k] = IF jobs'[k].status = "completed"
                                THEN <<jobs'[k].worker_pubkey>> ELSE <<>>
               /\ jobs'[k].status = "completed" => feedback'[k] = <<TRUE>>
               /\ jobs'[k].status \in {"none", "pending", "assigned"} => feedback'[k] = <<>>
               /\ jobs'[k].status = "failed" => NoPraise(k)'
    <3>1. CASE k = j
      BY <1>3, <3>1 DEF RowAnswered
    <3>2. CASE k # j
      <4>1. /\ jobs'[k] = jobs[k]
            /\ payouts'[k] = payouts[k] /\ feedback'[k] = feedback[k]
        BY <3>2 DEF OthersKept, AnyJob
      <4>2. NoPraise(k)' <=> NoPraise(k)
        BY <4>1 DEF NoPraise
      <4> QED BY <4>1, <4>2 DEF PaidOncePerCompletion
    <3> QED BY <3>1, <3>2
  <2> QED BY <2>1 DEF PaidOncePerCompletion
<1>11. DemoPaidOnce' /\ DemoFresh'
  <2>1. \A d \in DemoJobs : d \in AnyJob
    BY DEF AnyJob
  <2>2. Len(<<Pubkey(w)>>) = 1
    OBVIOUS
  <2>3. j \in DemoJobs => j \in demoUsed
    BY DEF DemoFresh
  <2>4. \A d \in DemoJobs : payouts'[d] = payouts[d] \/ (d = j /\ payouts'[d] = <<Pubkey(w)>>)
    BY <2>1 DEF OthersKept, DemoAnswered
  <2>5. \A d \in DemoJobs : d # j => payouts'[d] = payouts[d]
    BY <2>1 DEF OthersKept
  <2>6. DemoPaidOnce'
    <3> SUFFICES ASSUME NEW d \in DemoJobs
                 PROVE  /\ Len(payouts'[d]) <= 1
                        /\ (\E v \in WorkerIds : Holds(v, d)') => payouts'[d] = <<>>
      BY DEF DemoPaidOnce
    <3>1. Len(payouts'[d]) <= 1
      <4>1. CASE payouts'[d] = payouts[d]
        <5>1. Len(payouts[d]) <= 1
          BY DEF DemoPaidOnce
        <5> QED BY ONLY <4>1, <5>1
      <4>2. CASE payouts'[d] = <<Pubkey(w)>>
        BY ONLY <4>2, SMT
      <4> QED BY <2>4, <4>1, <4>2
    <3>2. ASSUME NEW v \in WorkerIds, Holds(v, d)' PROVE payouts'[d] = <<>>
      BY <1>1, <2>1, <2>5, <3>2 DEF DemoPaidOnce
    <3> QED BY <3>1, <3>2
  <2>7. DemoFresh'
    <3> SUFFICES ASSUME NEW d \in DemoJobs, d \notin demoUsed
                 PROVE  offers[d] = 0 /\ payouts'[d] = <<>> /\ \A v \in WorkerIds : ~Holds(v, d)'
      BY DEF DemoFresh
    <3> QED BY <1>1, <2>1, <2>3, <2>5 DEF DemoFresh
  <2> QED BY <2>6, <2>7
<1>12. PrivateOnlyTrusted'
  <2> SUFFICES ASSUME NEW k \in Jobs, jobs'[k].status # "none", jobs'[k].worker_pubkey # None,
                      jobs'[k].req.privacy = "PRIVATE"
               PROVE  jobs'[k].worker_pubkey \in trustList(jobs[k].req.user)'
    BY DEF PrivateOnlyTrusted, trustList
  <2>1. /\ jobs'[k].worker_pubkey = jobs[k].worker_pubkey /\ jobs'[k].req = jobs[k].req
        /\ jobs[k].status # "none"
    BY <1>3, <1>5, <1>6
  <2>2. jobs[k].worker_pubkey \in trustList(jobs[k].req.user)
    BY <2>1 DEF PrivateOnlyTrusted
  <2> QED BY <2>1, <2>2 DEF trustList
<1>13. OfferedOnce' /\ AnsweredIfOffered' /\ SingleDemoChain'
  BY DEF OfferedOnce, AnsweredIfOffered, SingleDemoChain
<1>14. AnswerFreesItsSender'
  <2> SUFFICES ASSUME NEW pk \in Pubkeys, NEW k \in AnyJob, NEW v \in WorkerIds,
                      k \in unanswered'[pk], Holds(v, k)'
               PROVE  Pubkey(v)' = pk
    BY DEF AnswerFreesItsSender
  <2>1. k \in unanswered[pk] /\ Holds(v, k)
    BY <1>1
  <2> QED BY <1>2, <2>1 DEF AnswerFreesItsSender
<1> QED BY <1>4, <1>7, <1>8, <1>9, <1>10, <1>11, <1>12, <1>13, <1>14

\* A job_complete or job_reject that finds no worker changes no row.
LEMMA LateAnswerInv ==
    ASSUME IndInv, NEW s \in Sockets, NEW j \in AnyJob, unanswered' = answered(s, j),
           UNCHANGED <<readyState, workerId, peer, hubVars, dbVars, retry, demoVars, callVars,
                       offers, crashVars>>
    PROVE  IndInv'
<1>1. TypeOK' /\ \A pk \in Pubkeys : unanswered'[pk] \subseteq unanswered[pk]
  BY IdentityAssumption DEF IndInv, TypeOK, answered, hubVars, dbVars, demoVars, callVars, crashVars
<1> QED BY <1>1, SocketOnlyInv

\* The type of the receipts table after storeCompletion.
LEMMA StoredReceipt ==
    ASSUME TypeOK, NEW j \in Jobs, NEW w \in Online, NEW output \in Outputs,
           NEW receipt \in SentReceipts, storeCompletion(j, w, output, receipt)
    PROVE  receipts' \subseteq Receipt
<1>1. CASE receipt = None
  BY <1>1 DEF storeCompletion, TypeOK
<1>2. CASE receipt # None
  <2>1. ReceiptRow(receipt, Pubkey(w), j) \in Receipt
    BY <1>2, RowTyped
  <2> QED BY <1>2, <2>1 DEF storeCompletion, TypeOK
<1> QED BY <1>1, <1>2

\* The row storeCompletion writes.
LEMMA CompletedRow ==
    ASSUME TypeOK, NEW j \in Jobs, jobs[j].status # "none", NEW output \in Outputs,
           jobs' = [jobs EXCEPT ![j].status = "completed", ![j].result = output]
    PROVE  /\ jobs' \in [Jobs -> JobRow \cup {NoRow}]
           /\ jobs'[j].status = "completed" /\ jobs'[j].req = jobs[j].req
           /\ jobs'[j].worker_pubkey = jobs[j].worker_pubkey
           /\ \A k \in Jobs : k # j => jobs'[k] = jobs[k]
<1> DEFINE row == [jobs[j] EXCEPT !.status = "completed", !.result = output]
<1>1. jobs[j] \in JobRow
  BY JobEntry
<1>2. /\ row \in JobRow /\ row.status = "completed" /\ row.req = jobs[j].req
      /\ row.worker_pubkey = jobs[j].worker_pubkey
  BY <1>1 DEF JobRow, JobStatus
<1>3. jobs' = [jobs EXCEPT ![j] = row]
  OBVIOUS
<1> HIDE DEF row
<1> QED BY <1>2, <1>3, ZenonT(40) DEF TypeOK

\* The row handleJobReject writes.
LEMMA RejectedRow ==
    ASSUME TypeOK, NEW j \in Jobs, jobs[j].status # "none",
           jobs' = [jobs EXCEPT ![j].status = "pending", ![j].worker_pubkey = None]
    PROVE  /\ jobs' \in [Jobs -> JobRow \cup {NoRow}]
           /\ jobs'[j].status = "pending" /\ jobs'[j].worker_pubkey = None
           /\ \A k \in Jobs : k # j => jobs'[k] = jobs[k]
<1> DEFINE row == [jobs[j] EXCEPT !.status = "pending", !.worker_pubkey = None]
<1>1. jobs[j] \in JobRow
  BY JobEntry
<1>2. row \in JobRow /\ row.status = "pending" /\ row.worker_pubkey = None
  BY <1>1 DEF JobRow, JobStatus
<1>3. jobs' = [jobs EXCEPT ![j] = row]
  OBVIOUS
<1> HIDE DEF row
<1> QED BY <1>2, <1>3, ZenonT(40) DEF TypeOK

\* The calls a completion makes: nothing was paid for the job before.
LEMMA CompletionCalls ==
    ASSUME IndInv, NEW w \in WorkerIds, NEW j \in AnyJob, Holds(w, j),
           feedback' = [feedback EXCEPT ![j] = Append(@, TRUE)],
           payouts' = [payouts EXCEPT ![j] = Append(@, Pubkey(w))]
    PROVE  /\ payouts' \in [AnyJob -> Seq(Pubkeys)]
           /\ feedback' \in [AnyJob -> Seq(BOOLEAN)]
           /\ payouts'[j] = <<Pubkey(w)>>
           /\ j \in Jobs => feedback'[j] = <<TRUE>>
           /\ \A k \in AnyJob : k # j => payouts'[k] = payouts[k] /\ feedback'[k] = feedback[k]
<1> USE DEF IndInv
<1>1. Pubkey(w) \in Pubkeys
  BY WorkerEntry DEF Holds
<1>2. payouts \in [AnyJob -> Seq(Pubkeys)] /\ feedback \in [AnyJob -> Seq(BOOLEAN)]
  BY DEF TypeOK
<1>3. payouts[j] = <<>>
  BY DEF NoDoubleBooking, PaidOncePerCompletion, DemoPaidOnce, AnyJob
<1>4. j \in Jobs => feedback[j] = <<>>
  BY DEF NoDoubleBooking, PaidOncePerCompletion
<1>5. Append(payouts[j], Pubkey(w)) \in Seq(Pubkeys)
  BY <1>1, <1>2, SMT
<1>6. Append(feedback[j], TRUE) \in Seq(BOOLEAN)
  <2>1. feedback[j] \in Seq(BOOLEAN) /\ TRUE \in BOOLEAN
    BY <1>2
  <2> QED BY <2>1, SMT
<1>7. Append(<<>>, Pubkey(w)) = <<Pubkey(w)>>
  BY SMT
<1>8. Append(<<>>, TRUE) = <<TRUE>>
  BY SMT
<1>9. payouts' \in [AnyJob -> Seq(Pubkeys)] /\ payouts'[j] = <<Pubkey(w)>>
  BY <1>2, <1>3, <1>5, <1>7
<1>10. feedback' \in [AnyJob -> Seq(BOOLEAN)]
  BY <1>2, <1>6
<1>11. j \in Jobs => feedback'[j] = <<TRUE>>
  BY <1>2, <1>4, <1>8, ZenonT(40)
<1>12. \A k \in AnyJob : k # j => payouts'[k] = payouts[k] /\ feedback'[k] = feedback[k]
  BY <1>2
<1> QED BY <1>9, <1>10, <1>11, <1>12

\* What an answer leaves of the sockets: the worker program has one job less.
LEMMA AnsweredSockets ==
    ASSUME TypeOK, NEW s \in Sockets, NEW j \in AnyJob, unanswered' = answered(s, j)
    PROVE  /\ unanswered' \in [Pubkeys -> SUBSET AnyJob]
           /\ \A pk \in Pubkeys : unanswered'[pk] \subseteq unanswered[pk]
  BY IdentityAssumption DEF TypeOK, answered

\* job_complete: late, with a receipt that cannot be stored, for a demo job, or
\* for a committed job.
LEMMA JobCompleteInv ==
    ASSUME IndInv, NEW s \in Sockets, NEW j \in AnyJob, NEW output \in Outputs,
           NEW receipt \in SentReceipts, JobComplete(s, j, output, receipt)
    PROVE  IndInv'
<1> DEFINE w == findByActiveJob(j)
<1>1. CASE w = None \/ (j \in Jobs /\ ~Insertable(receipt))
  BY <1>1, LateAnswerInv DEF JobComplete, handleJobComplete, hubVars, dbVars
<1>2. CASE ~(w = None \/ (j \in Jobs /\ ~Insertable(receipt)))
  <2>1. w \in WorkerIds /\ w \in Online /\ Holds(w, j)
    BY <1>2, FindByActiveJob DEF Holds
  <2>2. /\ feedback' = [feedback EXCEPT ![j] = Append(@, TRUE)]
        /\ payouts' = [payouts EXCEPT ![j] = Append(@, Pubkey(w))]
        /\ workers' = freeWorker(w)
        /\ unanswered' = answered(s, j)
        /\ IF j \in DemoJobs THEN UNCHANGED <<jobs, receipts>>
           ELSE storeCompletion(j, w, output, receipt)
        /\ UNCHANGED <<readyState, workerId, peer, lastId, pairings, retry, demoVars,
                       offers, crashVars>>
    BY <1>2 DEF JobComplete, handleJobComplete
  <2> HIDE DEF w
  <2>3. j \in Jobs => jobs[j].status # "none" /\ j \notin DemoJobs
    BY <2>1, DataAssumption DEF IndInv, NoDoubleBooking
  <2>4. \/ j \in Jobs
        \/ j \in DemoJobs /\ j \notin Jobs
    BY DataAssumption DEF AnyJob
  <2>5. /\ jobs' \in [Jobs -> JobRow \cup {NoRow}]
        /\ j \in Jobs => /\ jobs'[j].status = "completed" /\ jobs'[j].req = jobs[j].req
                         /\ jobs'[j].worker_pubkey = jobs[j].worker_pubkey
        /\ \A k \in Jobs : k # j => jobs'[k] = jobs[k]
        /\ receipts' \subseteq Receipt
    <3>1. CASE j \in Jobs
      <4>1. storeCompletion(j, w, output, receipt)
        BY <2>2, <2>3, <3>1
      <4>2. jobs' = [jobs EXCEPT ![j].status = "completed", ![j].result = output]
        BY <4>1 DEF storeCompletion
      <4> QED BY <2>1, <2>3, <3>1, <4>1, <4>2, StoredReceipt, CompletedRow DEF IndInv
    <3>2. CASE j \in DemoJobs /\ j \notin Jobs
      BY <2>2, <3>2 DEF IndInv, TypeOK
    <3> QED BY <2>4, <3>1, <3>2
  <2>6. /\ payouts' \in [AnyJob -> Seq(Pubkeys)]
        /\ feedback' \in [AnyJob -> Seq(BOOLEAN)]
        /\ payouts'[j] = <<Pubkey(w)>>
        /\ j \in Jobs => feedback'[j] = <<TRUE>>
        /\ \A k \in AnyJob : k # j => payouts'[k] = payouts[k] /\ feedback'[k] = feedback[k]
    BY <2>1, <2>2, CompletionCalls, ZenonT(40)
  <2>7. TypeOK'
    BY <2>1, <2>2, <2>5, <2>6, FreeWorker, AnsweredSockets
    DEF IndInv, TypeOK, demoVars, crashVars
  <2>8. RowAnswered(w, j) /\ DemoAnswered(w, j) /\ OthersKept(j)
    BY <2>5, <2>6 DEF RowAnswered, DemoAnswered, OthersKept
  <2> QED BY <2>1, <2>2, <2>7, <2>8, AnsweredSockets, AnsweredInv, ZenonT(40) DEF IndInv
<1> QED BY <1>1, <1>2

\* job_reject: late, for a demo job, or for a committed job.
LEMMA JobRejectInv ==
    ASSUME IndInv, NEW s \in Sockets, NEW j \in AnyJob, JobReject(s, j) PROVE IndInv'
<1> DEFINE w == findByActiveJob(j)
<1>1. CASE w = None
  BY <1>1, LateAnswerInv DEF JobReject, handleJobReject, hubVars, dbVars
<1>2. CASE w # None
  <2>1. w \in WorkerIds /\ w \in Online /\ Holds(w, j)
    BY <1>2, FindByActiveJob DEF Holds
  <2>2. /\ workers' = freeWorker(w)
        /\ unanswered' = answered(s, j)
        /\ jobs' = IF j \in DemoJobs THEN jobs
                   ELSE [jobs EXCEPT ![j].status = "pending", ![j].worker_pubkey = None]
        /\ UNCHANGED <<readyState, workerId, peer, lastId, receipts, pairings, retry,
                       demoVars, callVars, offers, crashVars>>
    BY <1>2 DEF JobReject, handleJobReject
  <2> HIDE DEF w
  <2>3. \/ j \in Jobs /\ j \notin DemoJobs /\ jobs[j].status # "none"
        \/ j \in DemoJobs /\ j \notin Jobs
    BY <2>1, DataAssumption, ZenonT(40) DEF AnyJob, IndInv, NoDoubleBooking
  <2>4. /\ jobs' \in [Jobs -> JobRow \cup {NoRow}]
        /\ j \in Jobs => jobs'[j].status = "pending" /\ jobs'[j].worker_pubkey = None
        /\ \A k \in Jobs : k # j => jobs'[k] = jobs[k]
    BY <2>2, <2>3, RejectedRow, ZenonT(40) DEF IndInv, TypeOK
  <2>5. TypeOK'
    BY <2>1, <2>2, <2>4, FreeWorker, AnsweredSockets
    DEF IndInv, TypeOK, demoVars, callVars, crashVars
  <2>6. RowAnswered(w, j) /\ DemoAnswered(w, j) /\ OthersKept(j)
    BY <2>2, <2>4 DEF RowAnswered, DemoAnswered, OthersKept, callVars
  <2> QED BY <2>1, <2>2, <2>5, <2>6, AnsweredSockets, AnsweredInv DEF IndInv
<1> QED BY <1>1, <1>2

(***************************************************************************)
(* The theorems                                                            *)
(***************************************************************************)
\* Every handler, timer and crash preserves the invariant.
LEMMA NextInv == ASSUME IndInv, [Next]_vars PROVE IndInv'
<1>1. ASSUME NEW s \in Sockets, SocketStep(s) PROVE IndInv'
  <2>1. ASSUME NEW j \in AnyJob, JobAnswer(s, j) PROVE IndInv'
    BY <2>1, JobCompleteInv, JobRejectInv DEF JobAnswer
  <2>2. ASSUME NEW receipt \in SentReceipts \ {None}, ReceiptSubmit(s, receipt) PROVE IndInv'
    BY <2>2, ReceiptSubmitInv
  <2>3. ASSUME NEW j \in AnyJob, JobDropped(s, j) PROVE IndInv'
    BY <2>3, LateAnswerInv DEF JobDropped
  <2> QED BY <1>1, <2>1, <2>2, <2>3, ConnectInv, PeerGoneInv, SocketCloseInv, RegisterInv,
             HeartbeatInv DEF SocketStep
<1>2. ASSUME NEW w \in WorkerIds, WorkerStep(w) PROVE IndInv'
  BY <1>2, ReputationReadInv, StakeReadInv DEF WorkerStep
<1>3. CASE RouteStep
  BY <1>3, HandleCommitInv, RetryTimerInv, TrustInv DEF RouteStep
<1>4. CASE DemoStep
  BY <1>4, DemoSwitchInv, DemoTickInv DEF DemoStep, demoStart, demoStop
<1>5. CASE PruneTimer
  BY <1>5, PruneTimerInv
<1>6. CASE Crash
  BY <1>6, CrashInv
<1>7. CASE UNCHANGED vars
  BY <1>7, StutterInv
<1> QED BY <1>1, <1>2, <1>3, <1>4, <1>5, <1>6, <1>7 DEF Next

\* The inductive invariant holds in every state the coordinator reaches.
THEOREM Invariance == Spec => []IndInv
<1>1. Init => IndInv
  BY InitInv
<1>2. IndInv /\ [Next]_vars => IndInv'
  BY NextInv
<1> QED BY <1>1, <1>2, PTL DEF Spec

\* Every variable keeps its type.
THEOREM TypeCorrect == Spec => []TypeOK
  BY Invariance, PTL DEF IndInv

\* However registrations, answers, disconnects, prunes and crashes interleave,
\* no two entries of the Map have the same job, and the row agrees with its holder.
THEOREM NeverDoubleBooked == Spec => []NoDoubleBooking
  BY Invariance, PTL DEF IndInv

\* No open job is forgotten, except by a rejection or a crash.
THEOREM AllOpenJobsAttended == Spec => []OpenJobsAttended
  BY Invariance, PTL DEF IndInv

\* No job is sent to workers twice.
THEOREM NeverOfferedTwice == Spec => []OfferedOnce
  BY Invariance, PTL DEF IndInv

\* Payout and feedback are issued once for each completed job, to its worker.
THEOREM PaidOnce == Spec => [](PaidOncePerCompletion /\ DemoPaidOnce)
  BY Invariance, PTL DEF IndInv

\* A PRIVATE job is only ever assigned to a worker its user has paired with.
THEOREM PrivacyKept == Spec => []PrivateOnlyTrusted
  BY Invariance, PTL DEF IndInv

\* The entry an answer frees belongs to the worker that sent the answer.
THEOREM AnswersFreeTheirSender == Spec => []AnswerFreesItsSender
  BY Invariance, PTL DEF IndInv

\* Demo mode has one chain of timeouts while it is on, and none otherwise.
THEOREM OneDemoChain == Spec => []SingleDemoChain
  BY Invariance, PTL DEF IndInv

(***************************************************************************)
(* Matching                                                                *)
(***************************************************************************)
\* The parts of a score: at most four periods of silence cost 80, less than
\* the 100 between two stake tiers or the 200 of the device type.
LEMMA ScoreParts ==
  ASSUME TypeOK, HeartbeatTimeout <= 4, NEW req \in Request, NEW w \in Online
  PROVE  /\ HeartbeatBonus(w) \in 20..100
         /\ PolicyBonus(w, req) \in Nat
         /\ Reputation(w) \in Nat
         /\ Rank(workers[w].stakeLevel) \in 0..2
         /\ StakeBonus(workers[w].stakeLevel) = 100 * Rank(workers[w].stakeLevel)
         /\ RepMultiplier(workers[w].stakeLevel) = 2 + Rank(workers[w].stakeLevel)
         /\ ReputationBonus(w) = Reputation(w) * (2 + Rank(workers[w].stakeLevel))
<1>1. workers[w] \in TrackedWorker /\ w \in WorkerIds
  BY DEF TypeOK, Online
<1>2. HeartbeatBonus(w) \in 20..100
  BY <1>1, BoundAssumption, SMT DEF HeartbeatBonus, TrackedWorker
<1>3. PolicyBonus(w, req) \in Nat
  BY SMT DEF PolicyBonus
<1>4. Reputation(w) \in Nat
  <2>1. workers[w].reputationScore \in Scores \cup {None}
    BY <1>1 DEF TrackedWorker
  <2>2. Scores \subseteq Nat
    <3>1. Scores \subseteq 0..100
      BY DataAssumption
    <3> QED BY <3>1, SMT
  <2> QED BY <2>1, <2>2 DEF Reputation
<1>5. /\ Rank(workers[w].stakeLevel) \in 0..2
      /\ StakeBonus(workers[w].stakeLevel) = 100 * Rank(workers[w].stakeLevel)
      /\ RepMultiplier(workers[w].stakeLevel) = 2 + Rank(workers[w].stakeLevel)
  BY SMT DEF Rank, StakeBonus, RepMultiplier
<1>6. ReputationBonus(w) = Reputation(w) * (2 + Rank(workers[w].stakeLevel))
  BY <1>5, SMT DEF ReputationBonus, Reputation
<1> QED BY <1>2, <1>3, <1>4, <1>5, <1>6

\* Where device types matter, those that suit get the points.
LEMMA PolicyPoints ==
  ASSUME NEW req, NEW v, NEW w, SuitsPolicy(v, req), ~SuitsPolicy(w, req)
  PROVE  PolicyBonus(v, req) = 200 /\ PolicyBonus(w, req) = 0
<1>1. CASE req.policy = "FAST" /\ req.type = "LLM_INFER"
  BY <1>1 DEF PolicyBonus, SuitsPolicy
<1>2. CASE req.policy = "CHEAP" /\ req.type = "TASK"
  BY <1>2 DEF PolicyBonus, SuitsPolicy
<1> QED BY <1>1, <1>2 DEF SuitsPolicy

\* The reputation part grows with the reputation and with the tier.
LEMMA ProductGrows ==
  ASSUME NEW a \in Nat, NEW b \in Nat, NEW m \in 0..2, NEW n \in 0..2, a >= b, m >= n
  PROVE  a * (2 + m) >= b * (2 + n)
<1>1. CASE m = 0
  <2>1. n = 0
    BY <1>1, SMT
  <2> QED BY <1>1, <2>1, SMT
<1>2. CASE m = 1
  <2>1. CASE n = 0
    BY <1>2, <2>1, SMT
  <2>2. CASE n = 1
    BY <1>2, <2>2, SMT
  <2> QED BY <1>2, <2>1, <2>2, SMT
<1>3. CASE m = 2
  <2>1. CASE n = 0
    BY <1>3, <2>1, SMT
  <2>2. CASE n = 1
    BY <1>3, <2>2, SMT
  <2>3. CASE n = 2
    BY <1>3, <2>3, SMT
  <2> QED BY <1>3, <2>1, <2>2, <2>3, SMT
<1> QED BY <1>1, <1>2, <1>3, SMT

\* The ranking of the candidates is that of device type, tier and reputation.
LEMMA TypeOKRank == ASSUME TypeOK, HeartbeatTimeout <= 4 PROVE RankRespected
<1> SUFFICES ASSUME NEW v \in Online, NEW w \in Online, v # w, NoWorse(v, w), NEW req \in Request,
                    Better(v, w, req), v \in Candidates(req), w \in Claimable(req)
             PROVE  FALSE
  BY DEF RankRespected
<1> DEFINE rv == Rank(workers[v].stakeLevel)
           rw == Rank(workers[w].stakeLevel)
<1>1. rv >= rw /\ Reputation(v) >= Reputation(w)
  BY DEF NoWorse
<1>2. \/ SuitsPolicy(v, req) /\ ~SuitsPolicy(w, req)
      \/ rv > rw /\ PolicyBonus(v, req) >= PolicyBonus(w, req)
  BY DEF Better
<1>3. workerScore(w, req) + 20 > workerScore(v, req)
  BY DEF Claimable, HeartbeatSlack
<1>4. ReputationBonus(v) >= ReputationBonus(w)
  BY <1>1, ScoreParts, ProductGrows
<1>5. ReputationBonus(v) \in Nat /\ ReputationBonus(w) \in Nat
  <2>1. /\ Reputation(v) \in Nat /\ Reputation(w) \in Nat
        /\ rv \in 0..2 /\ rw \in 0..2
        /\ ReputationBonus(v) = Reputation(v) * (2 + rv)
        /\ ReputationBonus(w) = Reputation(w) * (2 + rw)
    BY ScoreParts
  <2> QED BY <2>1, SMT
<1>6. /\ HeartbeatBonus(v) \in 20..100 /\ HeartbeatBonus(w) \in 20..100
      /\ PolicyBonus(v, req) \in Nat /\ PolicyBonus(w, req) \in Nat
      /\ rv \in 0..2 /\ rw \in 0..2
      /\ StakeBonus(workers[v].stakeLevel) = 100 * rv
      /\ StakeBonus(workers[w].stakeLevel) = 100 * rw
  BY ScoreParts
<1>7. PolicyBonus(v, req) + StakeBonus(workers[v].stakeLevel)
        >= PolicyBonus(w, req) + StakeBonus(workers[w].stakeLevel) + 100
  <2>1. CASE SuitsPolicy(v, req) /\ ~SuitsPolicy(w, req)
    <3>1. PolicyBonus(v, req) = 200 /\ PolicyBonus(w, req) = 0
      BY <2>1, PolicyPoints
    <3> QED BY <1>1, <1>6, <3>1, SMT
  <2>2. CASE rv > rw /\ PolicyBonus(v, req) >= PolicyBonus(w, req)
    BY <1>6, <2>2, SMT
  <2> QED BY <1>2, <2>1, <2>2
<1>8. PolicyBonus(v, req) \in Nat /\ PolicyBonus(w, req) \in Nat
      /\ StakeBonus(workers[v].stakeLevel) \in Nat /\ StakeBonus(workers[w].stakeLevel) \in Nat
  BY <1>6, SMT
<1>9. \A pv, pw, hv, hw, bv, bw, sv, sw \in Nat :
        hv >= 20 /\ hw <= 100 /\ bv >= bw /\ pv + sv >= pw + sw + 100
          => ~(pw + hw + bw + sw + 20 > pv + hv + bv + sv)
  BY SMT
<1>10. HeartbeatBonus(v) \in Nat /\ HeartbeatBonus(w) \in Nat
       /\ HeartbeatBonus(v) >= 20 /\ HeartbeatBonus(w) <= 100
  BY <1>6, SMT
<1> QED BY <1>3, <1>4, <1>5, <1>7, <1>8, <1>9, <1>10 DEF workerScore

\* claimWorker ranks the candidates by device type, stake tier and reputation
\* before freshness, for any number of workers and requests, as long as
\* entries are pruned after at most four periods (three in the code).
THEOREM RankIsRespected == ASSUME HeartbeatTimeout <= 4 PROVE Spec => []RankRespected
<1>1. TypeOK => RankRespected
  BY TypeOKRank
<1> QED BY <1>1, TypeCorrect, PTL

(***************************************************************************)
(* What a step may do to the rows                                          *)
(***************************************************************************)
\* No row changes, and no committed job is offered or paid.
RowsKept ==
    jobs' = jobs /\ \A k \in Jobs : payouts'[k] = payouts[k] /\ offers'[k] = offers[k]

\* The row of j becomes row, and nothing happens to the other jobs.
RowSet(j, row) ==
    /\ row \in JobRow
    /\ jobs' = [jobs EXCEPT ![j] = row]
    /\ \A k \in Jobs : k # j => payouts'[k] = payouts[k] /\ offers'[k] = offers[k]

\* j is committed and waits, or fails at once.
RowCommitted(j, row) ==
    /\ jobs[j].status = "none"
    /\ row.status \in {"pending", "failed"} /\ row.worker_pubkey = jobs[j].worker_pubkey
    /\ payouts'[j] = payouts[j] /\ offers'[j] = offers[j]

\* j gets its worker.
RowAssigned(j, row) ==
    /\ jobs[j].status \in {"none", "pending"} /\ offers[j] = 0
    /\ row.status = "assigned" /\ row.worker_pubkey \in Pubkeys
    /\ payouts'[j] = payouts[j] /\ offers'[j] = 1

\* The retry loop of j gives up.
RowGivenUp(j, row) ==
    /\ jobs[j].status = "pending" /\ offers[j] = 0
    /\ row.status = "failed" /\ row.worker_pubkey = jobs[j].worker_pubkey
    /\ payouts'[j] = payouts[j] /\ offers'[j] = offers[j]

\* The worker of j completes it, and is paid.
RowCompleted(j, row) ==
    /\ jobs[j].status = "assigned"
    /\ row.status = "completed" /\ row.worker_pubkey = jobs[j].worker_pubkey
    /\ payouts'[j] = <<jobs[j].worker_pubkey>> /\ offers'[j] = offers[j]

\* The worker of j rejects it.
RowRejected(j, row) ==
    /\ jobs[j].status = "assigned"
    /\ row.status = "pending" /\ row.worker_pubkey = None
    /\ payouts'[j] = payouts[j] /\ offers'[j] = offers[j]

\* All that a step may do to the rows.
RowChange(j) ==
    \E row \in JobRow :
        /\ RowSet(j, row)
        /\ \/ RowCommitted(j, row) \/ RowAssigned(j, row) \/ RowGivenUp(j, row)
           \/ RowCompleted(j, row) \/ RowRejected(j, row)

\* The jobs of workers that left the Map fail.
RowsLost ==
    \E lost \in SUBSET Jobs :
        /\ \A j \in lost : jobs[j].status = "assigned"
        /\ jobs' = failRows(lost, "worker_disconnected")
        /\ \A k \in Jobs : payouts'[k] = payouts[k] /\ offers'[k] = offers[k]

\* The commit handler inserts the row and, if it finds a worker, assigns it.
LEMMA CommitRow ==
    ASSUME IndInv, NEW j \in Jobs, NEW req \in Requests, handleCommit(j, req) PROVE RowChange(j)
<1> USE DEF IndInv, callVars
<1>1. /\ jobs[j].status = "none" /\ jobs[j].worker_pubkey = None /\ offers[j] = 0
      /\ payouts' = payouts /\ j \in AnyJob
  BY SMT DEF handleCommit, NoRow, OffersMatchRows, AnyJob
<1>2. CASE CommitMatched(j, req)
  <2>1. PICK w \in Claimable(req) :
          jobs' = [jobs EXCEPT ![j] = assignedRow(pendingRow(req), w)] /\ assignJob(w, j)
    BY <1>2 DEF CommitMatched
  <2>2. w \in Online /\ w \in WorkerIds /\ workers[w].status = "idle" /\ Pubkey(w) \in Pubkeys
    BY WorkerEntry DEF Claimable, Candidates, Online
  <2> DEFINE row == assignedRow(pendingRow(req), w)
  <2>3. row \in JobRow /\ row.status = "assigned" /\ row.worker_pubkey = Pubkey(w)
    BY <2>2, PendingRow, AssignedRow
  <2>4. \A k \in AnyJob : offers'[k] = IF k = j THEN offers[j] + 1 ELSE offers[k]
    BY <1>1, <2>1, <2>2, AssignJob
  <2> HIDE DEF row
  <2>5. RowSet(j, row)
    BY <1>1, <2>1, <2>3, <2>4 DEF RowSet, AnyJob, row
  <2>6. RowAssigned(j, row)
    BY <1>1, <2>2, <2>3, <2>4, SMT DEF RowAssigned
  <2> QED BY <2>3, <2>5, <2>6 DEF RowChange
<1>3. CASE CommitUnmatched(j, req)
  <2>1. offers' = offers
    BY <1>3 DEF CommitUnmatched
  <2> DEFINE failed == failedRow(pendingRow(req), "no_trusted_worker")
  <2>2. /\ failed \in JobRow /\ failed.status = "failed" /\ failed.worker_pubkey = None
        /\ pendingRow(req) \in JobRow /\ pendingRow(req).status = "pending"
        /\ pendingRow(req).worker_pubkey = None
    BY PendingRow, FailedRow, SMT DEF JobErrors
  <2> HIDE DEF failed
  <2>3. jobs' = [jobs EXCEPT ![j] = failed] \/ jobs' = [jobs EXCEPT ![j] = pendingRow(req)]
    BY <1>3 DEF CommitUnmatched, failed
  <2>4. CASE jobs' = [jobs EXCEPT ![j] = failed]
    BY <1>1, <2>1, <2>2, <2>4 DEF RowChange, RowSet, RowCommitted
  <2>5. CASE jobs' = [jobs EXCEPT ![j] = pendingRow(req)]
    BY <1>1, <2>1, <2>2, <2>5, ZenonT(40) DEF RowChange, RowSet, RowCommitted
  <2> QED BY <2>3, <2>4, <2>5
<1> QED BY <1>2, <1>3 DEF handleCommit

\* A firing of the retry loop assigns the job, gives up or waits.
LEMMA RetryRow ==
    ASSUME IndInv, NEW j \in Jobs, RetryTimer(j) PROVE RowChange(j) \/ RowsKept
<1> USE DEF IndInv, callVars
<1>1. /\ jobs[j].status = "pending" /\ jobs[j] \in JobRow /\ offers[j] = 0 /\ j \in AnyJob
      /\ payouts' = payouts
  BY JobEntry, SMT DEF RetryTimer, OpenJobsAttended, Looping, Rejected, TypeOK, AnyJob
<1>2. CASE RetryMatched(j)
  <2>1. PICK w \in Claimable(jobs[j].req) :
          jobs' = [jobs EXCEPT ![j] = assignedRow(@, w)] /\ assignJob(w, j)
    BY <1>2 DEF RetryMatched
  <2>2. w \in Online /\ w \in WorkerIds /\ workers[w].status = "idle" /\ Pubkey(w) \in Pubkeys
    BY WorkerEntry DEF Claimable, Candidates, Online
  <2> DEFINE row == assignedRow(jobs[j], w)
  <2>3. row \in JobRow /\ row.status = "assigned" /\ row.worker_pubkey = Pubkey(w)
    BY <1>1, <2>2, AssignedRow
  <2>4. \A k \in AnyJob : offers'[k] = IF k = j THEN offers[j] + 1 ELSE offers[k]
    BY <1>1, <2>1, <2>2, AssignJob
  <2> HIDE DEF row
  <2>5. RowSet(j, row)
    BY <1>1, <2>1, <2>3, <2>4 DEF RowSet, AnyJob, row
  <2>6. RowAssigned(j, row)
    BY <1>1, <2>2, <2>3, <2>4, SMT DEF RowAssigned
  <2> QED BY <2>3, <2>5, <2>6 DEF RowChange
<1>3. CASE RetryUnmatched(j)
  <2>1. offers' = offers
    BY <1>3 DEF RetryUnmatched
  <2> DEFINE row == failedRow(jobs[j], "no_eligible_worker")
  <2>2. row \in JobRow /\ row.status = "failed" /\ row.worker_pubkey = jobs[j].worker_pubkey
    BY <1>1, FailedRow DEF JobErrors
  <2> HIDE DEF row
  <2>3. jobs' = [jobs EXCEPT ![j] = row] \/ jobs' = jobs
    BY <1>3 DEF RetryUnmatched, row
  <2>4. CASE jobs' = [jobs EXCEPT ![j] = row]
    BY <1>1, <2>1, <2>2, <2>4 DEF RowChange, RowSet, RowGivenUp
  <2>5. CASE jobs' = jobs
    BY <1>1, <2>1, <2>5 DEF RowsKept
  <2> QED BY <2>3, <2>4, <2>5
<1> QED BY <1>1, <1>2, <1>3 DEF RetryTimer

\* job_complete completes the row of a committed job and pays its holder, or
\* changes no row.
LEMMA CompleteRow ==
    ASSUME IndInv, NEW s \in Sockets, NEW j \in AnyJob, NEW output \in Outputs,
           NEW receipt \in SentReceipts, JobComplete(s, j, output, receipt)
    PROVE  RowsKept \/ (j \in Jobs /\ RowChange(j))
<1> DEFINE w == findByActiveJob(j)
<1>0. offers' = offers
  BY DEF JobComplete
<1>1. CASE w = None \/ (j \in Jobs /\ ~Insertable(receipt))
  BY <1>0, <1>1 DEF JobComplete, handleJobComplete, RowsKept, callVars
<1>2. CASE ~(w = None \/ (j \in Jobs /\ ~Insertable(receipt)))
  <2>1. w \in WorkerIds /\ w \in Online /\ Holds(w, j)
    BY <1>2, FindByActiveJob DEF Holds
  <2>2. /\ feedback' = [feedback EXCEPT ![j] = Append(@, TRUE)]
        /\ payouts' = [payouts EXCEPT ![j] = Append(@, Pubkey(w))]
        /\ IF j \in DemoJobs THEN UNCHANGED <<jobs, receipts>>
           ELSE storeCompletion(j, w, output, receipt)
    BY <1>2 DEF JobComplete, handleJobComplete
  <2> HIDE DEF w
  <2>3. /\ payouts'[j] = <<Pubkey(w)>>
        /\ \A k \in Jobs : k # j => payouts'[k] = payouts[k]
    BY <2>1, <2>2, CompletionCalls, ZenonT(40) DEF AnyJob
  <2>4. CASE j \in DemoJobs
    BY <1>0, <2>2, <2>3, <2>4, DataAssumption DEF RowsKept
  <2>5. CASE j \notin DemoJobs
    <3>1. /\ j \in Jobs /\ jobs[j].status = "assigned" /\ jobs[j].worker_pubkey = Pubkey(w)
          /\ jobs[j] \in JobRow
      BY <2>1, <2>5, JobEntry DEF AnyJob, IndInv, NoDoubleBooking
    <3> DEFINE row == [jobs[j] EXCEPT !.status = "completed", !.result = output]
    <3>2. /\ row \in JobRow /\ row.status = "completed"
          /\ row.worker_pubkey = jobs[j].worker_pubkey
      BY <3>1 DEF JobRow, JobStatus
    <3>3. jobs' = [jobs EXCEPT ![j] = row]
      BY <2>2, <2>5 DEF storeCompletion
    <3> HIDE DEF row
    <3> QED BY <1>0, <2>3, <3>1, <3>2, <3>3 DEF RowChange, RowSet, RowCompleted
  <2> QED BY <2>4, <2>5
<1> QED BY <1>1, <1>2

\* job_reject makes the row of a committed job pending again, or changes no row.
LEMMA RejectRow ==
    ASSUME IndInv, NEW s \in Sockets, NEW j \in AnyJob, JobReject(s, j)
    PROVE  RowsKept \/ (j \in Jobs /\ RowChange(j))
<1> DEFINE w == findByActiveJob(j)
<1>0. offers' = offers /\ payouts' = payouts
  BY DEF JobReject, callVars
<1>1. CASE w = None \/ j \in DemoJobs
  BY <1>0, <1>1 DEF JobReject, handleJobReject, RowsKept
<1>2. CASE w # None /\ j \notin DemoJobs
  <2>1. w \in WorkerIds /\ Holds(w, j)
    BY <1>2, FindByActiveJob
  <2>2. jobs' = [jobs EXCEPT ![j].status = "pending", ![j].worker_pubkey = None]
    BY <1>2 DEF JobReject, handleJobReject
  <2>3. j \in Jobs /\ jobs[j].status = "assigned" /\ jobs[j] \in JobRow
    BY <1>2, <2>1, JobEntry DEF AnyJob, IndInv, NoDoubleBooking
  <2> DEFINE row == [jobs[j] EXCEPT !.status = "pending", !.worker_pubkey = None]
  <2>4. row \in JobRow /\ row.status = "pending" /\ row.worker_pubkey = None
    BY <2>3 DEF JobRow, JobStatus
  <2>5. jobs' = [jobs EXCEPT ![j] = row]
    BY <2>2
  <2> HIDE DEF row
  <2> QED BY <1>0, <2>3, <2>4, <2>5 DEF RowChange, RowSet, RowRejected
<1> QED BY <1>1, <1>2

\* The jobs that the entries of gone have are assigned.
LEMMA ActiveJobsAssigned ==
    ASSUME IndInv, NEW gone \in SUBSET Online
    PROVE  ActiveJobs(gone) \in SUBSET Jobs
           /\ \A j \in ActiveJobs(gone) : jobs[j].status = "assigned"
  BY DEF IndInv, NoDoubleBooking, ActiveJobs, Holds, Online

\* A demo job is offered without touching a committed job.
LEMMA DemoRows == ASSUME IndInv, demoTick PROVE RowsKept
<1>1. PICK w \in getIdleWorkers, d \in DemoJobs \ demoUsed : injectDemoJob(w, d)
  BY DEF demoTick
<1>2. w \in Online /\ workers[w].status = "idle" /\ assignJob(w, d) /\ d \in AnyJob
  BY <1>1 DEF getIdleWorkers, injectDemoJob, AnyJob
<1>3. \A k \in AnyJob : offers'[k] = IF k = d THEN offers[d] + 1 ELSE offers[k]
  BY <1>2, AssignJob, SMT
<1>4. \A k \in Jobs : k # d /\ k \in AnyJob
  BY DataAssumption DEF AnyJob
<1> QED BY <1>3, <1>4 DEF RowsKept, demoTick, dbVars, callVars

\* Every step of the coordinator does one of these things to the rows.
LEMMA RowStep ==
    ASSUME IndInv, [Next]_vars PROVE RowsKept \/ RowsLost \/ \E j \in Jobs : RowChange(j)
<1> USE DEF dbVars, callVars
<1>1. ASSUME NEW s \in Sockets, SocketStep(s)
      PROVE  RowsKept \/ RowsLost \/ \E j \in Jobs : RowChange(j)
  <2>1. ASSUME NEW j \in AnyJob, JobAnswer(s, j) PROVE RowsKept \/ (j \in Jobs /\ RowChange(j))
    BY <2>1, CompleteRow, RejectRow DEF JobAnswer
  <2>2. CASE SocketClose(s)
    <3>1. {workerId[s]} \cap Online \in SUBSET Online
      OBVIOUS
    <3> QED BY <2>2, <3>1, ActiveJobsAssigned DEF SocketClose, handleDisconnect, RowsLost
  <2>3. CASE Connect(s) \/ PeerLost(s) \/ PeerCloses(s) \/ Register(s) \/ Heartbeat(s)
    BY <2>3 DEF Connect, PeerLost, PeerCloses, Register, Heartbeat, RowsKept
  <2>4. ASSUME NEW receipt, ReceiptSubmit(s, receipt) PROVE RowsKept
    BY <2>4 DEF ReceiptSubmit, RowsKept
  <2>5. ASSUME NEW j, JobDropped(s, j) PROVE RowsKept
    BY <2>5 DEF JobDropped, RowsKept
  <2> QED BY <1>1, <2>1, <2>2, <2>3, <2>4, <2>5 DEF SocketStep
<1>2. ASSUME NEW w \in WorkerIds, WorkerStep(w) PROVE RowsKept
  BY <1>2 DEF WorkerStep, ReputationRead, StakeRead, RowsKept
<1>3. CASE RouteStep
  <2>1. ASSUME NEW c \in Codes, \/ \E user \in Users : TrustCreate(c, user)
                                \/ \E pk \in Pubkeys : TrustClaim(c, pk)
                                \/ TrustExpire(c)
        PROVE  RowsKept
    BY <2>1 DEF TrustCreate, TrustClaim, TrustExpire, RowsKept
  <2> QED BY <1>3, <2>1, CommitRow, RetryRow DEF RouteStep
<1>4. CASE DemoStep
  BY <1>4, DemoRows DEF DemoStep, demoStart, demoStop, startDemoMode, stopDemoMode, RowsKept
<1>5. CASE PruneTimer
  <2>1. Stale \in SUBSET Online
    BY DEF Stale
  <2> QED BY <1>5, <2>1, ActiveJobsAssigned DEF PruneTimer, pruneStale, RowsLost
<1>6. CASE Crash \/ UNCHANGED vars
  BY <1>6 DEF Crash, vars, RowsKept
<1> QED BY <1>1, <1>2, <1>3, <1>4, <1>5, <1>6 DEF Next

(***************************************************************************)
(* Action properties                                                       *)
(***************************************************************************)
\* A row in a final state stays as it is.
LEMMA TerminalKept ==
    ASSUME IndInv, [Next]_vars, NEW j \in Jobs, jobs[j].status \in {"completed", "failed"}
    PROVE  jobs'[j] = jobs[j]
<1>1. CASE RowsKept
  BY <1>1 DEF RowsKept
<1>2. CASE RowsLost
  BY <1>2 DEF RowsLost, failRows
<1>3. ASSUME NEW k \in Jobs, RowChange(k) PROVE jobs'[j] = jobs[j]
  <2>1. PICK row \in JobRow : /\ jobs' = [jobs EXCEPT ![k] = row]
                              /\ jobs[k].status \in {"none", "pending", "assigned"}
    BY <1>3 DEF RowChange, RowSet, RowCommitted, RowAssigned, RowGivenUp, RowCompleted,
       RowRejected
  <2>2. j # k
    BY <2>1
  <2> QED BY <2>1, <2>2 DEF IndInv, TypeOK
<1> QED BY <1>1, <1>2, <1>3, RowStep

\* A completed or failed row never changes again, whatever arrives late.
THEOREM TerminalFinal == Spec => TerminalIsFinal
<1>1. IndInv /\ [Next]_vars
        => [\A j \in Jobs : jobs[j].status \in {"completed", "failed"} => jobs'[j] = jobs[j]]_vars
  BY TerminalKept
<1> QED BY <1>1, Invariance, PTL DEF Spec, TerminalIsFinal

\* An entry leaves the Map by a close, a prune or a crash only.
LEMMA EntryLeaves ==
    ASSUME IndInv, [Next]_vars, NEW w \in Online, w \notin Online'
    PROVE  (\E s \in Sockets : SocketClose(s)) \/ PruneTimer \/ Crash
<1> USE DEF hubVars
<1>0. w \in WorkerIds
  BY DEF Online
<1>1. workers' # workers
  BY DEF Online
<1>2. ASSUME NEW s \in Sockets, Register(s) PROVE FALSE
  <2>1. lastId + 1 # w
    BY <1>2, SMT DEF Register, IndInv, TypeOK, IdsInOrder, Online, WorkerIds
  <2>2. workers'[w] = workers[w]
    BY <1>0, <1>2, <2>1 DEF Register, IndInv, TypeOK
  <2> QED BY <1>0, <2>2 DEF Online
<1>3. ASSUME NEW v \in Online, NEW entry \in TrackedWorker, workers' = [workers EXCEPT ![v] = entry]
      PROVE  FALSE
  <2>1. entry # NoWorker
    BY SMT DEF TrackedWorker, NoWorker
  <2> QED BY <1>0, <1>3, <2>1 DEF IndInv, TypeOK, Online
<1>4. ASSUME NEW v \in WorkerIds, WorkerStep(v) PROVE FALSE
  <2>1. v \in Online /\ workers[v] \in TrackedWorker
    BY <1>4, WorkerEntry DEF WorkerStep, ReputationRead, StakeRead, IndInv
  <2>2. ASSUME NEW score \in Scores, ReputationRead(v, score) PROVE FALSE
    <3> DEFINE entry == [workers[v] EXCEPT !.reputationScore = score]
    <3>1. entry \in TrackedWorker /\ workers' = [workers EXCEPT ![v] = entry]
      BY <2>1, <2>2 DEF TrackedWorker, ReputationRead
    <3> QED BY <1>3, <2>1, <3>1
  <2>3. ASSUME NEW tier \in Tiers, StakeRead(v, tier) PROVE FALSE
    <3> DEFINE entry == [workers[v] EXCEPT !.stakeLevel = tier]
    <3>1. entry \in TrackedWorker /\ workers' = [workers EXCEPT ![v] = entry]
      BY <2>1, <2>3 DEF TrackedWorker, StakeRead
    <3> QED BY <1>3, <2>1, <3>1
  <2> QED BY <1>4, <2>2, <2>3 DEF WorkerStep
<1>5. ASSUME NEW s \in Sockets, Heartbeat(s) PROVE FALSE
  <2> DEFINE v == findByPubkey(Owner[s])
             entry == [workers[v] EXCEPT !.age = 0]
             S == {u \in Online : Pubkey(u) = Owner[s]}
  <2>1. S \in SUBSET WorkerIds /\ v = First(S)
    BY DEF Online, findByPubkey
  <2>2. v # None /\ workers' = [workers EXCEPT ![v] = entry]
    BY <1>1, <1>5 DEF Heartbeat, handleHeartbeat
  <2>3. v \in Online
    BY <2>1, <2>2, FirstFacts
  <2>4. workers[v] \in TrackedWorker
    BY <2>3, WorkerEntry DEF Online, IndInv
  <2>5. entry \in TrackedWorker
    BY <2>4, BoundAssumption, SMT DEF TrackedWorker
  <2> HIDE DEF v, entry
  <2> QED BY <1>3, <2>2, <2>3, <2>5
<1>6. ASSUME NEW v \in Online, NEW j \in AnyJob, workers[v].status = "idle", assignJob(v, j)
      PROVE  FALSE
  BY <1>0, <1>6, AssignJob
<1>7. ASSUME NEW s \in Sockets, NEW j \in AnyJob, JobAnswer(s, j) PROVE FALSE
  <2> DEFINE v == findByActiveJob(j)
  <2>1. v # None /\ workers' = freeWorker(v)
    BY <1>1, <1>7 DEF JobAnswer, JobComplete, JobReject, handleJobComplete, handleJobReject
  <2>2. v \in WorkerIds /\ Holds(v, j)
    BY <2>1, FindByActiveJob
  <2> HIDE DEF v
  <2> QED BY <1>0, <2>1, <2>2, FreeWorker
<1>8. ASSUME RouteStep PROVE FALSE
  <2>1. ASSUME NEW j \in Jobs, NEW req \in Requests, handleCommit(j, req) PROVE FALSE
    BY <1>1, <1>6, <2>1 DEF handleCommit, CommitMatched, CommitUnmatched, Claimable, Candidates,
       AnyJob
  <2>2. ASSUME NEW j \in Jobs, RetryTimer(j) PROVE FALSE
    BY <1>1, <1>6, <2>2 DEF RetryTimer, RetryMatched, RetryUnmatched, Claimable, Candidates,
       AnyJob
  <2> QED BY <1>1, <1>8, <2>1, <2>2, ZenonT(40) DEF RouteStep, TrustCreate, TrustClaim, TrustExpire
<1>9. ASSUME DemoStep PROVE FALSE
  BY <1>1, <1>6, <1>9 DEF DemoStep, demoStart, demoStop, startDemoMode, stopDemoMode, demoTick, injectDemoJob,
     getIdleWorkers, AnyJob
<1>10. ASSUME NEW s \in Sockets, SocketStep(s) PROVE SocketClose(s)
  BY <1>1, <1>2, <1>5, <1>7, <1>10 DEF SocketStep, Connect, PeerLost, PeerCloses, JobDropped,
     ReceiptSubmit
<1> QED BY <1>1, <1>4, <1>8, <1>9, <1>10 DEF Next, vars

\* A step that takes the holder of a job out of the Map fails the job, or is a crash.
LEMMA RemovedFails ==
    ASSUME IndInv, [Next]_vars, NEW w \in WorkerIds, NEW j \in Jobs,
           Holds(w, j), w \notin Online', crashes' = crashes
    PROVE  jobs'[j].status = "failed"
<1>1. w \in Online /\ workers[w].activeJobId = j
  BY DEF Holds
<1>2. ASSUME NEW gone \in SUBSET Online, w \in gone,
             jobs' = failRows(ActiveJobs(gone), "worker_disconnected")
      PROVE  jobs'[j].status = "failed"
  <2>1. j \in ActiveJobs(gone)
    BY <1>1, <1>2 DEF ActiveJobs
  <2>2. jobs[j] \in JobRow
    BY JobEntry DEF IndInv, NoDoubleBooking
  <2> QED BY <1>2, <2>1, <2>2 DEF failRows, JobRow
<1>3. ASSUME NEW s \in Sockets, SocketClose(s) PROVE jobs'[j].status = "failed"
  <2> DEFINE gone == {workerId[s]} \cap Online
  <2>1. w \in gone
    BY <1>1, <1>3 DEF SocketClose, handleDisconnect, Online
  <2> QED BY <1>2, <1>3, <2>1 DEF SocketClose, handleDisconnect
<1>4. CASE PruneTimer
  <2>1. w \in Stale
    <3>1. ASSUME w \notin Stale PROVE FALSE
      <4> DEFINE entry == [workers[w] EXCEPT !.age = @ + 1]
      <4>1. workers'[w] = entry
        BY <1>1, <1>4, <3>1 DEF PruneTimer, pruneStale
      <4>2. entry.status \in {"idle", "busy"}
        BY <1>1, WorkerEntry DEF IndInv, TrackedWorker
      <4>3. entry # NoWorker
        BY <4>2 DEF NoWorker
      <4> QED BY <4>1, <4>3 DEF Online
    <3> QED BY <3>1
  <2>2. Stale \in SUBSET Online
    BY DEF Stale
  <2> QED BY <1>2, <1>4, <2>1, <2>2 DEF PruneTimer, pruneStale
<1>5. CASE Crash
  <2>1. crashes' = crashes + 1
    BY <1>5 DEF Crash
  <2>2. crashes \in Int
    BY BoundAssumption, SMT DEF IndInv, TypeOK
  <2> QED BY <1>1, <2>1, <2>2, SMT
<1> QED BY <1>1, <1>3, <1>4, <1>5, EntryLeaves

\* A worker that leaves the Map while the process runs leaves no job assigned.
THEOREM RemovalFreesJob == Spec => RemovedFreesJob
<1>1. IndInv /\ [Next]_vars
        => [\A w \in WorkerIds, j \in Jobs :
               Holds(w, j) /\ w \notin Online' /\ crashes' = crashes
                 => jobs'[j].status = "failed"]_vars
  BY RemovedFails
<1> QED BY <1>1, Invariance, PTL DEF Spec, RemovedFreesJob

(***************************************************************************)
(* Refinement                                                              *)
(***************************************************************************)
\* The empty tables are an initial state of JobLifecycle.
LEMMA LifecycleInit == Init => Lifecycle!Init
<1> SUFFICES ASSUME Init PROVE Lifecycle!Init
  OBVIOUS
<1>1. \A j \in Jobs : /\ jobs[j].status = "none" /\ jobs[j].worker_pubkey = None
                      /\ offers[j] = 0 /\ payouts[j] = <<>>
  BY DEF Init, NoRow, AnyJob
<1> QED BY <1>1, SMT DEF Lifecycle!Init

\* Every step of the coordinator is a step of JobLifecycle or leaves its variables alone.
LEMMA LifecycleStep == IndInv /\ [Next]_vars => [Lifecycle!Next]_(Lifecycle!vars)
<1> SUFFICES ASSUME IndInv, [Next]_vars PROVE [Lifecycle!Next]_(Lifecycle!vars)
  OBVIOUS
<1>0. TypeOK /\ \A k \in Jobs : offers[k] \in Nat
  BY DEF IndInv, TypeOK, AnyJob
<1> USE <1>0
<1>1. CASE RowsKept
  BY <1>1 DEF RowsKept, Lifecycle!vars
<1>2. CASE RowsLost
  <2>1. PICK lost \in SUBSET Jobs :
          /\ \A j \in lost : jobs[j].status = "assigned"
          /\ jobs' = failRows(lost, "worker_disconnected")
          /\ \A k \in Jobs : payouts'[k] = payouts[k] /\ offers'[k] = offers[k]
    BY <1>2 DEF RowsLost
  <2>2. \A j \in Jobs : /\ jobs'[j].status = IF j \in lost THEN "failed" ELSE jobs[j].status
                        /\ jobs'[j].worker_pubkey = jobs[j].worker_pubkey
    BY <2>1, JobEntry, ZenonT(40) DEF failRows, JobRow
  <2>3. Lifecycle!Lose(lost)
    BY <2>1, <2>2 DEF Lifecycle!Lose
  <2> QED BY <2>3 DEF Lifecycle!Next
<1>3. ASSUME NEW j \in Jobs, RowChange(j) PROVE Lifecycle!Next
  <2>1. PICK row \in JobRow :
          /\ RowSet(j, row)
          /\ \/ RowCommitted(j, row) \/ RowAssigned(j, row) \/ RowGivenUp(j, row)
             \/ RowCompleted(j, row) \/ RowRejected(j, row)
    BY <1>3 DEF RowChange
  <2>2. jobs'[j] = row /\ \A k \in Jobs : k # j => /\ jobs'[k] = jobs[k]
                                                   /\ payouts'[k] = payouts[k]
                                                   /\ offers'[k] = offers[k]
    BY <2>1 DEF RowSet, TypeOK
  <2>3. CASE RowCommitted(j, row)
    <3>1. Lifecycle!Commit(j)
      BY <2>2, <2>3, ZenonT(40) DEF RowCommitted, Lifecycle!Commit
    <3> QED BY <3>1 DEF Lifecycle!Next
  <2>4. CASE RowAssigned(j, row)
    <3>1. Lifecycle!Assign(j, row.worker_pubkey)
      <4>1. /\ jobs[j].status \in {"none", "pending"} /\ offers[j] = 0 /\ offers'[j] = 1
            /\ jobs'[j].status = "assigned" /\ payouts'[j] = payouts[j]
        BY <2>2, <2>4 DEF RowAssigned
      <4>2. j \notin {k \in Jobs : offers[k] > 0}
        BY <4>1, SMT
      <4>3. {k \in Jobs : offers'[k] > 0} = {k \in Jobs : offers[k] > 0} \cup {j}
        BY <2>2, <4>1, SMT
      <4>4. [k \in Jobs |-> jobs'[k].status]
              = [[k \in Jobs |-> jobs[k].status] EXCEPT ![j] = "assigned"]
        BY <2>2, <4>1
      <4>5. [k \in Jobs |-> jobs'[k].worker_pubkey]
              = [[k \in Jobs |-> jobs[k].worker_pubkey] EXCEPT ![j] = row.worker_pubkey]
        BY <2>2, ZenonT(40)
      <4>6. [k \in Jobs |-> payouts'[k]] = [k \in Jobs |-> payouts[k]]
        BY <2>2, <4>1
      <4> QED BY <4>1, <4>2, <4>3, <4>4, <4>5, <4>6, ZenonT(40) DEF Lifecycle!Assign
    <3> QED BY <2>4, <3>1 DEF Lifecycle!Next, RowAssigned
  <2>5. CASE RowGivenUp(j, row)
    <3>1. Lifecycle!GiveUp(j)
      <4>1. /\ jobs[j].status = "pending" /\ offers[j] = 0 /\ offers'[j] = offers[j]
            /\ jobs'[j].status = "failed" /\ payouts'[j] = payouts[j]
            /\ jobs'[j].worker_pubkey = jobs[j].worker_pubkey
        BY <2>2, <2>5 DEF RowGivenUp
      <4>2. j \notin {k \in Jobs : offers[k] > 0}
        BY <4>1, SMT
      <4>3. {k \in Jobs : offers'[k] > 0} = {k \in Jobs : offers[k] > 0}
        BY <2>2, <4>1
      <4>4. [k \in Jobs |-> jobs'[k].status]
              = [[k \in Jobs |-> jobs[k].status] EXCEPT ![j] = "failed"]
        BY <2>2, <4>1
      <4>5. [k \in Jobs |-> jobs'[k].worker_pubkey] = [k \in Jobs |-> jobs[k].worker_pubkey]
        BY <2>2, <4>1, ZenonT(40)
      <4>6. [k \in Jobs |-> payouts'[k]] = [k \in Jobs |-> payouts[k]]
        BY <2>2, <4>1
      <4> QED BY <4>1, <4>2, <4>3, <4>4, <4>5, <4>6, ZenonT(40) DEF Lifecycle!GiveUp
    <3> QED BY <3>1 DEF Lifecycle!Next
  <2>6. CASE RowCompleted(j, row)
    <3>1. Lifecycle!Complete(j)
      BY <2>2, <2>6, ZenonT(40) DEF RowCompleted, Lifecycle!Complete
    <3> QED BY <3>1 DEF Lifecycle!Next
  <2>7. CASE RowRejected(j, row)
    <3>1. Lifecycle!HandBack(j)
      BY <2>2, <2>7 DEF RowRejected, Lifecycle!HandBack
    <3> QED BY <3>1 DEF Lifecycle!Next
  <2> QED BY <2>1, <2>3, <2>4, <2>5, <2>6, <2>7
<1> QED BY <1>1, <1>2, <1>3, RowStep

\* The coordinator, with all its sockets, timers and crashes, implements the
\* life of a job that JobLifecycle describes.
THEOREM Refinement == Spec => LifecycleSpec
<1>1. Init => Lifecycle!Init
  BY LifecycleInit, SMT
<1>2. IndInv /\ [Next]_vars => [Lifecycle!Next]_(Lifecycle!vars)
  BY LifecycleStep
<1> QED BY <1>1, <1>2, Invariance, PTL DEF Spec, LifecycleSpec, Lifecycle!Spec
=============================================================================
