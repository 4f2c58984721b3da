----------------------------- MODULE DocClaims -----------------------------
(***************************************************************************)
(* Statements of the repository's documents about the coordinator that the *)
(* code does not keep: for each, a run finds a behaviour against it.       *)
(***************************************************************************)
EXTENDS Coordinator

\* "poll until status is completed or failed" (job-lifecycle.mdx): every
\* committed job ends, setting aside workers that stay connected without it.  A
\* job its worker rejects does not: handleJobReject makes the row pending again,
\* and no retry loop is running for it any more.
JobsAlwaysEnd ==
    \A j \in Jobs :
        []<>(jobs[j].status # "none" => agentStatusReturns(j)) \/ <>[]Forgotten(j)

\* "Failed jobs trigger negative ERC-8004 feedback" (litepaper-full.md): a job
\* that fails with a worker is rated.  handleDisconnect, the only way it can
\* fail, does not call postFeedback.
FailedJobsRated ==
    \A j \in Jobs :
        jobs[j].status = "failed" /\ jobs[j].worker_pubkey # None
            ~> \E i \in DOMAIN feedback[j] : ~feedback[j][i]

SameStanding(v, w) ==
    /\ workers[v].age = workers[w].age
    /\ workers[v].stakeLevel = workers[w].stakeLevel
    /\ workers[v].reputationScore = workers[w].reputationScore

\* "The coordinator does not prefer desktop over seeker for TASK jobs"
\* (worker-types.mdx): when a desktop may get a TASK, so may a seeker that differs
\* in nothing else.  workerScore gives the desktop ten points for FAST.
TaskForEither ==
    \A req \in Requests : req.type = "TASK" =>
        \A v \in Candidates(req), w \in Claimable(req) :
            ProviderType[Pubkey(v)] = "SEEKER" /\ ProviderType[Pubkey(w)] = "DESKTOP"
              /\ SameStanding(v, w)
                => v \in Claimable(req)
=============================================================================
