----------------------------- MODULE JobRoutes -----------------------------
(***************************************************************************)
(* routes/jobs.ts: committing a job, and the background loop that retries  *)
(* the match.  Requests that fail validation create no row and are not     *)
(* steps; polling only reads.                                              *)
(***************************************************************************)
EXTENDS WorkerHub

\* Faulty variant: the pubkey of the first worker in the Map.
assignedRow_First(row, w) ==
    [row EXCEPT !.status = "assigned", !.worker_pubkey = Pubkey(First(Online))]

assignedRow(row, w) ==
    [row EXCEPT !.status = "assigned", !.worker_pubkey = Pubkey(w)]

failedRow(row, error) == [row EXCEPT !.status = "failed", !.result = error]

pendingRow(req) ==
    [status |-> "pending", req |-> req, worker_pubkey |-> None, result |-> None]

\* The INSERT of the pending row and the first match are one handler.
CommitMatched(j, req) ==
    \E w \in Claimable(req) :
        /\ jobs' = [jobs EXCEPT ![j] = assignedRow(pendingRow(req), w)]
        /\ assignJob(w, j)
        /\ UNCHANGED retry

CommitUnmatched(j, req) ==
    /\ Candidates(req) = {}
    /\ IF req.privacy = "PRIVATE"
       THEN /\ jobs' = [jobs EXCEPT ![j] = failedRow(pendingRow(req), "no_trusted_worker")]
            /\ UNCHANGED retry
       ELSE /\ jobs' = [jobs EXCEPT ![j] = pendingRow(req)]
            /\ retry' = [retry EXCEPT ![j] = 0]
    /\ UNCHANGED <<workers, unanswered, offers>>

handleCommit(j, req) ==
    /\ jobs[j] = NoRow
    /\ CommitMatched(j, req) \/ CommitUnmatched(j, req)
    /\ UNCHANGED <<readyState, workerId, peer, lastId, receipts, pairings, demoVars,
                   callVars, crashVars>>

(***************************************************************************)
(* One firing of the interval startRetryLoop sets for j.                   *)
(***************************************************************************)
stopLoop(j) == retry' = [retry EXCEPT ![j] = None]

\* Faulty variant: the interval is not cleared after a match.
RetryMatched_KeepsLoop(j) ==
    \E w \in Claimable(jobs[j].req) :
        /\ jobs' = [jobs EXCEPT ![j] = assignedRow(@, w)]
        /\ assignJob(w, j)
        /\ UNCHANGED retry

RetryMatched(j) ==
    \E w \in Claimable(jobs[j].req) :
        /\ jobs' = [jobs EXCEPT ![j] = assignedRow(@, w)]
        /\ assignJob(w, j)
        /\ stopLoop(j)

RetryUnmatched(j) ==
    /\ Candidates(jobs[j].req) = {}
    /\ IF retry[j] + 1 >= MaxAttempts
       THEN /\ jobs' = [jobs EXCEPT ![j] = failedRow(@, "no_eligible_worker")]
            /\ stopLoop(j)
       ELSE /\ retry' = [retry EXCEPT ![j] = @ + 1]
            /\ UNCHANGED jobs
    /\ UNCHANGED <<workers, unanswered, offers>>

RetryTimer(j) ==
    /\ retry[j] # None
    /\ IF jobs[j].status # "pending"
       THEN stopLoop(j) /\ UNCHANGED <<jobs, workers, unanswered, offers>>
       ELSE RetryMatched(j) \/ RetryUnmatched(j)
    /\ UNCHANGED <<readyState, workerId, peer, lastId, receipts, pairings, demoVars,
                   callVars, crashVars>>
=============================================================================
