----------------------------- MODULE WorkerHub -----------------------------
(***************************************************************************)
(* ws/workerHub.ts: the registry of connected workers.  One action per     *)
(* WebSocket event or message (Connect, Register, Heartbeat, JobComplete,  *)
(* JobReject, ReceiptSubmit, SocketClose), per asynchronous answer          *)
(* (ReputationRead, StakeRead) and for the prune timer; claimWorker and    *)
(* assignJob are the operators the job routes use.                         *)
(***************************************************************************)
EXTENDS CoordinatorState, FiniteSetsExt

(***************************************************************************)
(* Look-ups over the Map, in its insertion order                           *)
(***************************************************************************)
First(S) == IF S = {} THEN None ELSE Min(S)

findByPubkey(pk) == First({w \in Online : Pubkey(w) = pk})

findByActiveJob(j) == First({w \in Online : workers[w].activeJobId = j})

(***************************************************************************)
(* handleDisconnect for every entry of gone: an active committed job fails *)
(* (a demo job has no row), and the entry leaves the Map.                  *)
(***************************************************************************)
ActiveJobs(gone) == {workers[w].activeJobId : w \in gone} \cap Jobs

failRows(failed, error) ==
    [j \in Jobs |-> IF j \in failed
                    THEN [jobs[j] EXCEPT !.status = "failed", !.result = error]
                    ELSE jobs[j]]

handleDisconnect(gone) ==
    /\ jobs' = failRows(ActiveJobs(gone), "worker_disconnected")
    /\ workers' = [w \in WorkerIds |-> IF w \in gone THEN NoWorker ELSE workers[w]]
    /\ UNCHANGED <<lastId, receipts, pairings>>

(***************************************************************************)
(* Sockets.  A socket is readable as long as the peer is there and the     *)
(* close has not been completed: messages still arrive after ws.close().   *)
(***************************************************************************)
Readable(s) == peer[s] /\ readyState[s] \in {"open", "closing"}

\* The program that loses the connection exits (desktop and simulator workers),
\* or finishes its jobs and answers on its next connection (the mobile worker,
\* which sends on whichever socket it has by then).  Two programs may run under
\* one pubkey, so jobs may be forgotten while another of its sockets is open.
programAfterLoss(s) ==
    unanswered' \in {unanswered, [unanswered EXCEPT ![Owner[s]] = {}]}

\* A worker program dials in and handleConnection sets the listeners.
Connect(s) ==
    /\ readyState[s] = "unused"
    /\ readyState' = [readyState EXCEPT ![s] = "open"]
    /\ peer' = [peer EXCEPT ![s] = TRUE]
    /\ UNCHANGED <<workerId, unanswered, hubVars, dbVars, retry, demoVars,
                   callVars, offers, crashVars>>

\* The peer vanishes without a close frame: the coordinator is not told.
PeerLost(s) ==
    /\ Readable(s)
    /\ peer' = [peer EXCEPT ![s] = FALSE]
    /\ programAfterLoss(s)
    /\ UNCHANGED <<readyState, workerId, hubVars, dbVars, retry, demoVars,
                   callVars, offers, crashVars>>

\* The peer's close frame arrives: the socket is closing, and the hub is told
\* only by the close event that follows.
PeerCloses(s) ==
    /\ Readable(s)
    /\ readyState' = [readyState EXCEPT ![s] = "closing"]
    /\ peer' = [peer EXCEPT ![s] = FALSE]
    /\ programAfterLoss(s)
    /\ UNCHANGED <<workerId, hubVars, dbVars, retry, demoVars, callVars, offers, crashVars>>

\* The "close" event of a socket, whoever closed it.
SocketClose(s) ==
    /\ readyState[s] \in {"open", "closing"}
    /\ readyState' = [readyState EXCEPT ![s] = "closed"]
    /\ peer' = [peer EXCEPT ![s] = FALSE]
    /\ programAfterLoss(s)
    /\ handleDisconnect({workerId[s]} \cap Online)
    /\ UNCHANGED <<workerId, retry, demoVars, callVars, offers, crashVars>>

(***************************************************************************)
(* Messages of a worker                                                    *)
(***************************************************************************)
\* Every register message makes a new entry: neither the pubkey nor an earlier
\* registration of the socket is looked up.
Register(s) ==
    /\ Readable(s)
    /\ lastId < MaxRegistrations
    /\ lastId' = lastId + 1
    /\ workers' = [workers EXCEPT ![lastId + 1] =
                     [ws |-> s, status |-> "idle", activeJobId |-> None, age |-> 0,
                      reputationScore |-> None, stakeLevel |-> None]]
    /\ workerId' = [workerId EXCEPT ![s] = lastId + 1]
    /\ UNCHANGED <<readyState, peer, unanswered, dbVars, retry, demoVars,
                   callVars, offers, crashVars>>

\* The answers of the two look-ups handleRegister starts; they may come late,
\* or never.  An answer for an entry that has left the Map is dropped.
ReputationRead(w, score) ==
    /\ w \in Online
    /\ workers[w].reputationScore = None
    /\ workers' = [workers EXCEPT ![w].reputationScore = score]
    /\ UNCHANGED <<socketVars, lastId, dbVars, retry, demoVars, callVars, offers,
                   crashVars>>

StakeRead(w, tier) ==
    /\ w \in Online
    /\ workers[w].stakeLevel = None
    /\ workers' = [workers EXCEPT ![w].stakeLevel = tier]
    /\ UNCHANGED <<socketVars, lastId, dbVars, retry, demoVars, callVars, offers,
                   crashVars>>

\* The entry that is refreshed is the first one with the sender's pubkey,
\* whichever socket the heartbeat came in on.
handleHeartbeat(pk) ==
    LET w == findByPubkey(pk)
    IN  workers' = IF w = None THEN workers ELSE [workers EXCEPT ![w].age = 0]

Heartbeat(s) ==
    /\ Readable(s)
    /\ handleHeartbeat(Owner[s])
    /\ UNCHANGED <<socketVars, lastId, dbVars, retry, demoVars, callVars, offers,
                   crashVars>>

\* Faulty variant: the job is not cleared.
freeWorker_KeepsJob(w) == [workers EXCEPT ![w].status = "idle"]

freeWorker(w) == [workers EXCEPT ![w].status = "idle", ![w].activeJobId = None]

answered(s, j) == [unanswered EXCEPT ![Owner[s]] = @ \ {j}]

\* A new row of receipts.  What the receipt says is stored as it is.
ReceiptRow(receipt, pubkey, answer) ==
    [job_id |-> receipt.job_id, provider_pubkey |-> receipt.provider_pubkey,
     signer |-> receipt.signer, verified |-> receipt.signer = pubkey, answer |-> answer]

\* job_id REFERENCES jobs(id): an insert for an unknown job throws.
Insertable(receipt) == receipt # None => receipt.job_id \in Stored

\* Faulty variant: the signature is checked against the key the receipt names.
storeCompletion_NamedKey(j, w, output, receipt) ==
    /\ jobs' = [jobs EXCEPT ![j].status = "completed", ![j].result = output]
    /\ receipts' = IF receipt = None THEN receipts
                   ELSE receipts \cup {ReceiptRow(receipt, receipt.provider_pubkey, j)}

storeCompletion(j, w, output, receipt) ==
    /\ jobs' = [jobs EXCEPT ![j].status = "completed", ![j].result = output]
    /\ receipts' = IF receipt = None THEN receipts
                   ELSE receipts \cup {ReceiptRow(receipt, Pubkey(w), j)}

\* The program never answers a job it was sent: job_assign was there before its
\* listener (desktop and CLI workers), or the receipt could not be signed (the
\* mobile worker).
JobDropped(s, j) ==
    /\ j \in unanswered[Owner[s]]
    /\ unanswered' = answered(s, j)
    /\ UNCHANGED <<readyState, workerId, peer, hubVars, dbVars, retry, demoVars,
                   callVars, offers, crashVars>>

\* job_complete, from a worker program that received job_assign for j.  If the
\* receipt cannot be inserted, the transaction is rolled back and the handler
\* ends there.
handleJobComplete(j, output, receipt) ==
    LET w == findByActiveJob(j)
    IN  IF w = None \/ (j \in Jobs /\ ~Insertable(receipt))
        THEN UNCHANGED <<workers, jobs, receipts, callVars>>
        ELSE /\ IF j \in DemoJobs THEN UNCHANGED <<jobs, receipts>>
                ELSE storeCompletion(j, w, output, receipt)
             /\ feedback' = [feedback EXCEPT ![j] = Append(@, TRUE)]
             /\ payouts' = [payouts EXCEPT ![j] = Append(@, Pubkey(w))]
             /\ workers' = freeWorker(w)

JobComplete(s, j, output, receipt) ==
    /\ Readable(s)
    /\ j \in unanswered[Owner[s]]
    /\ unanswered' = answered(s, j)
    /\ handleJobComplete(j, output, receipt)
    /\ UNCHANGED <<readyState, workerId, peer, lastId, pairings, retry, demoVars,
                   offers, crashVars>>

handleJobReject(j) ==
    LET w == findByActiveJob(j)
    IN  IF w = None THEN UNCHANGED <<workers, jobs>>
        ELSE /\ jobs' = IF j \in DemoJobs THEN jobs
                        ELSE [jobs EXCEPT ![j].status = "pending",
                                          ![j].worker_pubkey = None]
             /\ workers' = freeWorker(w)

JobReject(s, j) ==
    /\ Readable(s)
    /\ j \in unanswered[Owner[s]]
    /\ unanswered' = answered(s, j)
    /\ handleJobReject(j)
    /\ UNCHANGED <<readyState, workerId, peer, lastId, receipts, pairings, retry,
                   demoVars, callVars, offers, crashVars>>

\* A receipt sent on its own.  It is verified with the key it names, whether or
\* not that worker is connected, and neither the sender nor the job is looked at.
ReceiptSubmit(s, receipt) ==
    /\ Readable(s)
    /\ Insertable(receipt)
    /\ receipts' = receipts \cup {ReceiptRow(receipt, receipt.provider_pubkey, None)}
    /\ UNCHANGED <<socketVars, hubVars, jobs, pairings, retry, demoVars, callVars,
                   offers, crashVars>>

(***************************************************************************)
(* Matching.  Scores are scaled by 20 to stay integers.  lastHeartbeat is  *)
(* known to within one prune period (10 s, worth one point): w may come    *)
(* out best when no candidate beats it by a full point on the known part.  *)
(***************************************************************************)
StakeBonus(tier) ==
    CASE tier = "SENTINEL" -> 200 [] tier = "VERIFIED" -> 100 [] OTHER -> 0

\* twice the multiplier: 2.0, 1.5 and 1.0
RepMultiplier(tier) ==
    CASE tier = "SENTINEL" -> 4 [] tier = "VERIFIED" -> 3 [] OTHER -> 2

PolicyBonus(w, req) ==
    LET type == ProviderType[Pubkey(w)]
    IN  IF \/ req.policy = "FAST" /\ type = "DESKTOP"
           \/ req.policy = "CHEAP" /\ req.type = "TASK" /\ type = "SEEKER"
        THEN 200 ELSE 0

\* Faulty variant: a period counts as much as the device type.
HeartbeatBonus_Heavy(w) == IF workers[w].age < 5 THEN 200 * (5 - workers[w].age) ELSE 0

HeartbeatBonus(w) == IF workers[w].age < 5 THEN 20 * (5 - workers[w].age) ELSE 0

ReputationBonus(w) ==
    IF workers[w].reputationScore = None THEN 0
    ELSE workers[w].reputationScore * RepMultiplier(workers[w].stakeLevel)

workerScore(w, req) ==
    PolicyBonus(w, req) + HeartbeatBonus(w) + ReputationBonus(w)
      + StakeBonus(workers[w].stakeLevel)

HeartbeatSlack == 20

trustedPubkeys(user) ==
    {pairings[c].provider_pubkey :
        c \in {d \in Codes : pairings[d].claimed /\ pairings[d].user = user}}

\* Faulty variants: busy workers are not skipped, or untrusted ones are not.
Candidates_BusyToo(req) ==
    {w \in Online :
        /\ req.type \in Capabilities[Pubkey(w)]
        /\ req.privacy = "PRIVATE" => Pubkey(w) \in trustedPubkeys(req.user)}

Candidates_Untrusted(req) ==
    {w \in Online :
        /\ workers[w].status = "idle"
        /\ req.type \in Capabilities[Pubkey(w)]
        /\ req.privacy = "PRIVATE" => trustedPubkeys(req.user) # {}}

Candidates(req) ==
    {w \in Online :
        /\ workers[w].status = "idle"
        /\ req.type \in Capabilities[Pubkey(w)]
        /\ req.privacy = "PRIVATE" => Pubkey(w) \in trustedPubkeys(req.user)}

\* The workers claimWorker may return.
Claimable(req) ==
    {w \in Candidates(req) :
        \A v \in Candidates(req) :
            v # w => workerScore(w, req) + HeartbeatSlack > workerScore(v, req)}

\* Faulty variant: the message goes to every open socket.
deliver_Broadcast(s, j) ==
    unanswered' = [pk \in Pubkeys |->
                     IF \E t \in Sockets : Owner[t] = pk /\ readyState[t] = "open" /\ peer[t]
                     THEN unanswered[pk] \cup {j} ELSE unanswered[pk]]

\* send drops the message unless the socket is open; a lost peer never sees it.
deliver(s, j) ==
    unanswered' = IF readyState[s] = "open" /\ peer[s]
                  THEN [unanswered EXCEPT ![Owner[s]] = @ \cup {j}]
                  ELSE unanswered

\* claimWorker marks the worker busy and assignJob gives it the job: no await
\* separates the two.
assignJob(w, j) ==
    /\ workers' = [workers EXCEPT ![w].status = "busy", ![w].activeJobId = j]
    /\ deliver(workers[w].ws, j)
    /\ offers' = [offers EXCEPT ![j] = @ + 1]

(***************************************************************************)
(* The prune timer (every 10 s): entries without a heartbeat for more than *)
(* HeartbeatTimeout periods have their socket closed and are disconnected. *)
(***************************************************************************)
Stale == {w \in Online : workers[w].age >= HeartbeatTimeout}

\* Faulty variant: stale entries are deleted without failing their job.
pruneStale_KeepsRow ==
    /\ UNCHANGED jobs
    /\ workers' = [w \in WorkerIds |->
                     IF w \in Stale \/ w \notin Online THEN NoWorker
                     ELSE [workers[w] EXCEPT !.age = @ + 1]]
    /\ readyState' = [s \in Sockets |->
                        IF readyState[s] = "open" /\ \E w \in Stale : workers[w].ws = s
                        THEN "closing" ELSE readyState[s]]

pruneStale ==
    /\ jobs' = failRows(ActiveJobs(Stale), "worker_disconnected")
    /\ workers' = [w \in WorkerIds |->
                     IF w \in Stale \/ w \notin Online THEN NoWorker
                     ELSE [workers[w] EXCEPT !.age = @ + 1]]
    /\ readyState' = [s \in Sockets |->
                        IF readyState[s] = "open" /\ \E w \in Stale : workers[w].ws = s
                        THEN "closing" ELSE readyState[s]]

PruneTimer ==
    /\ pruneStale
    /\ UNCHANGED <<workerId, peer, unanswered, lastId, receipts, pairings, retry,
                   demoVars, callVars, offers, crashVars>>
=============================================================================
