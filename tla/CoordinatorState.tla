------------------------- MODULE CoordinatorState -------------------------
(***************************************************************************)
(* The state of a Dispatch coordinator process and of the database and     *)
(* sockets it works with.  The handlers that change it are in WorkerHub    *)
(* (sockets and worker messages), JobRoutes (commit and retry loops),      *)
(* TrustRoutes (pairing codes) and DemoMode; Coordinator composes them.    *)
(*                                                                         *)
(* The process is one Node event loop over a synchronous SQLite database:  *)
(* a handler or timer callback runs to its end before the next one, so     *)
(* each is one step here.                                                  *)
(***************************************************************************)
EXTENDS Integers, Sequences

CONSTANTS
    Pubkeys,          \* identities of workers (provider_pubkey)
    Sockets,          \* WebSocket connections, each used once
    Owner,            \* [Sockets -> Pubkeys]: whose worker program dials it
    ProviderType,     \* [Pubkeys -> ProviderTypes]: what the program registers as
    Capabilities,     \* [Pubkeys -> SUBSET JobTypes]
    Jobs,             \* ids of committed jobs (uuid)
    DemoJobs,         \* ids of injected demo jobs ("demo-" + uuid)
    Users,            \* user ids
    Requests,         \* the commit requests that may arrive
    Codes,            \* pairing codes
    Scores,           \* what ERC-8004 may answer; {} if it is not configured
    Tiers,            \* what the stake reader may answer; {} if not configured
    Outputs,          \* what a worker may put into job_complete
    SentReceipts,     \* the signed receipts worker programs may send; None: no receipt
    MaxRegistrations, \* bound: register messages handled
    MaxCrashes,       \* bound: crashes of the process
    HeartbeatTimeout, \* prune-timer periods without a heartbeat that are allowed
    MaxAttempts,      \* firings of a retry loop (15 in the code)
    None              \* null

JobTypes      == {"LLM_INFER", "TASK"}
Policies      == {"FAST", "CHEAP"}
PrivacyClass  == {"PUBLIC", "PRIVATE"}
ProviderTypes == {"DESKTOP", "SEEKER"}
StakeTier     == {"OPEN", "VERIFIED", "SENTINEL"}
\* a worker reports a failed execution as an output with an error field
WorkerOutputs == {"output", "error_output"}
JobErrors     == {"no_trusted_worker", "no_eligible_worker", "worker_disconnected"}

AnyJob    == Jobs \cup DemoJobs
\* uuids are handed out in registration order, so Map order is numeric order
WorkerIds == 1..MaxRegistrations

Request == [type: JobTypes, policy: Policies, privacy: PrivacyClass, user: Users]

\* A receipt and its signature: signer is the key that made it, None if it is
\* nobody's.
ReceiptMsg == [job_id: Jobs, provider_pubkey: Pubkeys, signer: Pubkeys \cup {None}]

ASSUME IdentityAssumption ==
    /\ Owner \in [Sockets -> Pubkeys]
    /\ ProviderType \in [Pubkeys -> ProviderTypes]
    /\ Capabilities \in [Pubkeys -> SUBSET JobTypes]

ASSUME DataAssumption ==
    /\ Requests \subseteq Request
    /\ Jobs \cap DemoJobs = {}
    /\ Scores \subseteq 0..100
    /\ Tiers \subseteq StakeTier
    /\ Outputs \subseteq WorkerOutputs
    /\ SentReceipts \subseteq ReceiptMsg \cup {None}

ASSUME NoneAssumption ==
    /\ None \notin AnyJob
    /\ None \notin Pubkeys
    /\ None \notin Sockets
    /\ None \notin Nat

ASSUME BoundAssumption ==
    /\ MaxRegistrations \in Nat
    /\ MaxCrashes \in Nat
    /\ HeartbeatTimeout \in Nat
    /\ MaxAttempts \in Nat \ {0}

VARIABLES
    \* sockets, as the coordinator's side sees them
    readyState,   \* [Sockets -> {"unused", "open", "closing", "closed"}]
    workerId,     \* handleConnection's closure variable of each socket
    \* the other end
    peer,         \* [Sockets -> BOOLEAN]: the worker program is still reachable
    unanswered,   \* [Pubkeys -> SUBSET AnyJob]: job_assign received, not answered
    \* WorkerHub
    workers,      \* the Map of TrackedWorkers
    lastId,       \* the last worker id handed out
    \* the database
    jobs,         \* table jobs
    receipts,     \* table receipts
    pairings,     \* table trust_pairings, by pairing_code
    \* retry loops of the commit route
    retry,        \* [Jobs -> attempts so far, or None when no loop runs]
    \* demo mode
    demoActive,
    demoTimers,   \* armed demo timeouts
    demoUsed,     \* demo job ids already injected
    \* calls the hub makes to other components, and history
    payouts,      \* [AnyJob -> Seq(Pubkeys)]: queuePayout calls
    feedback,     \* [AnyJob -> Seq(BOOLEAN)]: postFeedback calls (success flag)
    offers,       \* [AnyJob -> Nat]: job_assign messages issued for the job
    orphaned,     \* jobs that were open when the process crashed
    crashes

socketVars == <<readyState, workerId, peer, unanswered>>
hubVars    == <<workers, lastId>>
dbVars     == <<jobs, receipts, pairings>>
demoVars   == <<demoActive, demoTimers, demoUsed>>
callVars   == <<payouts, feedback>>
crashVars  == <<orphaned, crashes>>
vars == <<socketVars, hubVars, dbVars, retry, demoVars, callVars, offers, crashVars>>

(***************************************************************************)
(* Records                                                                 *)
(***************************************************************************)
\* An entry of the workers Map.  pubkey, type and capabilities follow from ws
\* (see Pubkey); age counts the prune-timer firings since lastHeartbeat.
TrackedWorker ==
    [ws: Sockets, status: {"idle", "busy"}, activeJobId: AnyJob \cup {None},
     age: 0..HeartbeatTimeout, reputationScore: Scores \cup {None},
     stakeLevel: Tiers \cup {None}]

\* an id that is not in the Map
NoWorker ==
    [ws |-> None, status |-> "gone", activeJobId |-> None, age |-> 0,
     reputationScore |-> None, stakeLevel |-> None]

JobStatus == {"pending", "assigned", "completed", "failed"}

JobRow ==
    [status: JobStatus, req: Requests, worker_pubkey: Pubkeys \cup {None},
     result: {None} \cup Outputs \cup JobErrors]

\* an id that is not in the table
NoRow == [status |-> "none", req |-> None, worker_pubkey |-> None, result |-> None]

\* The job id and the provider are the receipt's own.  answer is history: the job
\* whose job_complete brought the receipt, None for a receipt_submit.
Receipt ==
    [job_id: Jobs, provider_pubkey: Pubkeys, signer: Pubkeys \cup {None},
     verified: BOOLEAN, answer: Jobs \cup {None}]

Pairing == [user: Users, provider_pubkey: Pubkeys \cup {None},
            claimed: BOOLEAN, expired: BOOLEAN]

NoPairing == [user |-> None, provider_pubkey |-> None, claimed |-> FALSE,
              expired |-> FALSE]

Online    == {w \in WorkerIds : workers[w] # NoWorker}
Pubkey(w) == Owner[workers[w].ws]
Stored    == {j \in Jobs : jobs[j] # NoRow}

Init ==
    /\ readyState = [s \in Sockets |-> "unused"]
    /\ workerId = [s \in Sockets |-> None]
    /\ peer = [s \in Sockets |-> FALSE]
    /\ unanswered = [pk \in Pubkeys |-> {}]
    /\ workers = [w \in WorkerIds |-> NoWorker]
    /\ lastId = 0
    /\ jobs = [j \in Jobs |-> NoRow]
    /\ receipts = {}
    /\ pairings = [c \in Codes |-> NoPairing]
    /\ retry = [j \in Jobs |-> None]
    /\ demoActive = FALSE
    /\ demoTimers = 0
    /\ demoUsed = {}
    /\ payouts = [j \in AnyJob |-> <<>>]
    /\ feedback = [j \in AnyJob |-> <<>>]
    /\ offers = [j \in AnyJob |-> 0]
    /\ orphaned = {}
    /\ crashes = 0
=============================================================================
