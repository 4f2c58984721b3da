---------------------------- MODULE Coordinator ----------------------------
(***************************************************************************)
(* The coordinator: the WorkerHub, the job and trust routes and demo mode  *)
(* over one database, with the sockets of the workers, and crashes of the  *)
(* process (the database survives, everything else is lost and nothing in  *)
(* the start-up code rebuilds it).                                         *)
(***************************************************************************)
EXTENDS JobRoutes, TrustRoutes, DemoMode

OpenJobs == {j \in Jobs : jobs[j].status \in {"pending", "assigned"}}

Crash ==
    /\ crashes < MaxCrashes
    /\ crashes' = crashes + 1
    /\ orphaned' = orphaned \cup OpenJobs
    /\ workerId' = [s \in Sockets |-> None]
    /\ readyState' = [s \in Sockets |->
                        IF readyState[s] = "unused" THEN "unused" ELSE "closed"]
    /\ peer' = [s \in Sockets |-> FALSE]
    /\ \E exit \in SUBSET Pubkeys :
           unanswered' = [pk \in Pubkeys |-> IF pk \in exit THEN {} ELSE unanswered[pk]]
    /\ workers' = [w \in WorkerIds |-> NoWorker]
    /\ retry' = [j \in Jobs |-> None]
    /\ demoActive' = FALSE
    /\ demoTimers' = 0
    /\ UNCHANGED <<lastId, dbVars, demoUsed, callVars, offers>>

JobAnswer(s, j) ==
    \/ \E output \in Outputs, receipt \in SentReceipts : JobComplete(s, j, output, receipt)
    \/ JobReject(s, j)

SocketStep(s) ==
    \/ Connect(s)
    \/ PeerLost(s)
    \/ PeerCloses(s)
    \/ SocketClose(s)
    \/ Register(s)
    \/ Heartbeat(s)
    \/ \E j \in AnyJob : JobAnswer(s, j) \/ JobDropped(s, j)
    \/ \E receipt \in SentReceipts \ {None} : ReceiptSubmit(s, receipt)

WorkerStep(w) ==
    \/ \E score \in Scores : ReputationRead(w, score)
    \/ \E tier \in Tiers : StakeRead(w, tier)

RouteStep ==
    \/ \E j \in Jobs, req \in Requests : handleCommit(j, req)
    \/ \E j \in Jobs : RetryTimer(j)
    \/ \E c \in Codes, user \in Users : TrustCreate(c, user)
    \/ \E c \in Codes, pk \in Pubkeys : TrustClaim(c, pk)
    \/ \E c \in Codes : TrustExpire(c)

DemoStep == demoStart \/ demoStop \/ demoTick

Next ==
    \/ \E s \in Sockets : SocketStep(s)
    \/ \E w \in WorkerIds : WorkerStep(w)
    \/ RouteStep
    \/ DemoStep
    \/ PruneTimer
    \/ Crash

Spec == Init /\ [][Next]_vars

(***************************************************************************)
(* Fairness.  The timers of the process fire (a job's retry interval, the  *)
(* prune interval); a socket that is being closed gets its close event;    *)
(* and a worker program that still has a job does not keep it for ever     *)
(* while it is connected: executeTask and executeLLM are in try blocks and *)
(* the answer is sent after them.  A program need not have the job it was  *)
(* sent (JobDropped), and then nothing is assumed of it.                   *)
(***************************************************************************)
TimersFair ==
    /\ WF_vars(PruneTimer)
    /\ \A j \in Jobs : WF_vars(RetryTimer(j))
    /\ \A s \in Sockets : WF_vars(readyState[s] = "closing" /\ SocketClose(s))

WorkersAnswer == \A s \in Sockets, j \in AnyJob : WF_vars(JobAnswer(s, j))

Fairness == TimersFair /\ WorkersAnswer

FairSpec == Spec /\ Fairness

-----------------------------------------------------------------------------
(* Properties *)

\* Every variable has its type.
TypeOK ==
    /\ readyState \in [Sockets -> {"unused", "open", "closing", "closed"}]
    /\ workerId \in [Sockets -> WorkerIds \cup {None}]
    /\ peer \in [Sockets -> BOOLEAN]
    /\ unanswered \in [Pubkeys -> SUBSET AnyJob]
    /\ workers \in [WorkerIds -> TrackedWorker \cup {NoWorker}]
    /\ lastId \in 0..MaxRegistrations
    /\ jobs \in [Jobs -> JobRow \cup {NoRow}]
    /\ receipts \subseteq Receipt
    /\ pairings \in [Codes -> Pairing \cup {NoPairing}]
    /\ retry \in [Jobs -> (0..MaxAttempts) \cup {None}]
    /\ demoActive \in BOOLEAN
    /\ demoTimers \in Nat
    /\ demoUsed \subseteq DemoJobs
    /\ payouts \in [AnyJob -> Seq(Pubkeys)]
    /\ feedback \in [AnyJob -> Seq(BOOLEAN)]
    /\ offers \in [AnyJob -> Nat]
    /\ orphaned \subseteq Jobs
    /\ crashes \in 0..MaxCrashes

Holds(w, j) == w \in Online /\ workers[w].activeJobId = j

\* A worker works on a committed job only while the row says so, under the
\* row's worker_pubkey; a worker is busy exactly when it has a job; and no two
\* entries have the same job: what claimWorker's "one synchronous tick" is for.
NoDoubleBooking ==
    /\ \A w \in Online : workers[w].status = "busy" <=> workers[w].activeJobId # None
    /\ \A w \in WorkerIds, j \in Jobs :
           Holds(w, j) => /\ jobs[j].status = "assigned"
                          /\ jobs[j].worker_pubkey = Pubkey(w)
    /\ \A v, w \in WorkerIds, j \in AnyJob : Holds(v, j) /\ Holds(w, j) => v = w

Looping(j)  == retry[j] # None
Rejected(j) == jobs[j].status = "pending" /\ offers[j] > 0

\* Somebody is responsible for every open job: an assigned job has a worker in
\* the Map, a pending one a retry loop, unless a worker rejected it or the
\* process crashed while it was open.  A loop runs for pending jobs only.
OpenJobsAttended ==
    \A j \in Jobs :
        /\ jobs[j].status = "assigned" /\ j \notin orphaned
             => \E w \in WorkerIds : Holds(w, j)
        /\ jobs[j].status = "pending" /\ j \notin orphaned
             => Looping(j) \/ Rejected(j)
        /\ Looping(j) => jobs[j].status = "pending" /\ ~Rejected(j)

\* job_assign goes out at most once for a job, across the first match, the
\* retry loop and rejections: no job is executed twice.
OfferedOnce == \A j \in AnyJob : offers[j] <= 1

\* Nobody was told that j was a success.
NoPraise(j) == \A i \in DOMAIN feedback[j] : ~feedback[j][i]

\* A completed job is paid and rated once: queuePayout was called for the worker
\* the row names, and postFeedback with success.  No other job is paid, an open
\* one is not rated, and a failed one never counts as a success.
PaidOncePerCompletion ==
    \A j \in Jobs :
        /\ payouts[j] = IF jobs[j].status = "completed"
                        THEN <<jobs[j].worker_pubkey>> ELSE <<>>
        /\ jobs[j].status = "completed" => feedback[j] = <<TRUE>>
        /\ jobs[j].status \in {"none", "pending", "assigned"} => feedback[j] = <<>>
        /\ jobs[j].status = "failed" => NoPraise(j)

\* A demo job is paid at most once too, though no row remembers it.
DemoPaidOnce ==
    \A d \in DemoJobs :
        /\ Len(payouts[d]) <= 1
        /\ (\E w \in WorkerIds : Holds(w, d)) => payouts[d] = <<>>

\* The pubkey a PRIVATE job is assigned to has claimed a pairing of the user, and
\* the user's list of trusted providers shows it for as long as the row exists.
PrivateOnlyTrusted ==
    \A j \in Jobs :
        jobs[j].status # "none" /\ jobs[j].worker_pubkey # None
          /\ jobs[j].req.privacy = "PRIVATE"
            => jobs[j].worker_pubkey \in trustList(jobs[j].req.user)

Rank(tier) == CASE tier = "SENTINEL" -> 2 [] tier = "VERIFIED" -> 1 [] OTHER -> 0
Reputation(w) == IF workers[w].reputationScore = None THEN 0 ELSE workers[w].reputationScore

\* a FAST LLM_INFER is for a DESKTOP and a CHEAP TASK for a SEEKER
SuitsPolicy(w, req) ==
    \/ req.policy = "FAST" /\ req.type = "LLM_INFER" /\ ProviderType[Pubkey(w)] = "DESKTOP"
    \/ req.policy = "CHEAP" /\ req.type = "TASK" /\ ProviderType[Pubkey(w)] = "SEEKER"

NoWorse(v, w) ==
    /\ Rank(workers[v].stakeLevel) >= Rank(workers[w].stakeLevel)
    /\ Reputation(v) >= Reputation(w)

Better(v, w, req) ==
    \/ SuitsPolicy(v, req) /\ ~SuitsPolicy(w, req)
    \/ /\ Rank(workers[v].stakeLevel) > Rank(workers[w].stakeLevel)
       /\ PolicyBonus(v, req) >= PolicyBonus(w, req)

\* claimWorker never passes over a worker that is as good on stake tier and
\* reputation and better on device type, for a worker with fresher heartbeats;
\* nor, among workers with the same points for their device, one that is as good
\* on reputation and better on stake tier.
RankRespected ==
    \A v, w \in Online : v # w /\ NoWorse(v, w) =>
        \A req \in Request :
            Better(v, w, req) /\ v \in Candidates(req) => w \notin Claimable(req)

\* The hub finds the worker of an answer by job id alone, and the answer may
\* come late, on another socket than the job went out on, or after a restart:
\* the entry it finds is nevertheless one of the answering worker.
AnswerFreesItsSender ==
    \A pk \in Pubkeys, j \in AnyJob, w \in WorkerIds :
        j \in unanswered[pk] /\ Holds(w, j) => Pubkey(w) = pk

\* A receipt that came with an answer is marked as verified if and only if the
\* worker that the answered job names, and that is paid for it, signed it: on
\* whichever socket the answer came and whatever happened to that worker since.
\* (The job id and the provider of the row are what the receipt says: a phone
\* that changed its key names another one.)
ReceiptsMatchJobs ==
    \A r \in receipts :
        r.answer # None => /\ jobs[r.answer].status = "completed"
                           /\ payouts[r.answer] = <<jobs[r.answer].worker_pubkey>>
                           /\ r.verified <=> r.signer = jobs[r.answer].worker_pubkey

\* Demo mode never has two timeout chains running.
SingleDemoChain == demoTimers = IF demoActive THEN 1 ELSE 0

\* completed and failed are final: a late job_complete, a disconnect of the
\* worker, a retry firing or a restart never changes such a row again.
TerminalIsFinal ==
    [][\A j \in Jobs : jobs[j].status \in {"completed", "failed"} => jobs'[j] = jobs[j]]_vars

\* When an entry leaves the Map, its job has failed, unless the process crashed.
RemovedFreesJob ==
    [][\A w \in WorkerIds, j \in Jobs :
          Holds(w, j) /\ w \notin Online' /\ crashes' = crashes
            => jobs'[j].status = "failed"]_vars

(***************************************************************************)
(* The inductive invariant behind the invariants above                     *)
(***************************************************************************)
\* The Map holds only ids that were handed out.
IdsInOrder == \A w \in WorkerIds : w > lastId => workers[w] = NoWorker

\* What the offers made so far say about a committed job.
OffersMatchRows ==
    \A j \in Jobs :
        /\ jobs[j].status = "none" => jobs[j] = NoRow /\ offers[j] = 0 /\ j \notin orphaned
        /\ jobs[j].status = "pending" => jobs[j].worker_pubkey = None
        /\ jobs[j].status \in {"assigned", "completed"} => offers[j] = 1

\* A demo job id that was not drawn yet has left no trace.
DemoFresh ==
    \A d \in DemoJobs \ demoUsed :
        offers[d] = 0 /\ payouts[d] = <<>> /\ \A w \in WorkerIds : ~Holds(w, d)

\* A worker program has a job only if it was offered.
AnsweredIfOffered == \A pk \in Pubkeys : \A j \in unanswered[pk] : offers[j] = 1

IndInv ==
    /\ TypeOK
    /\ IdsInOrder
    /\ NoDoubleBooking
    /\ OpenJobsAttended
    /\ OfferedOnce
    /\ OffersMatchRows
    /\ PaidOncePerCompletion
    /\ DemoPaidOnce
    /\ DemoFresh
    /\ PrivateOnlyTrusted
    /\ AnsweredIfOffered
    /\ AnswerFreesItsSender
    /\ SingleDemoChain

(***************************************************************************)
(* The life of the jobs, as JobLifecycle describes it                      *)
(***************************************************************************)
Lifecycle == INSTANCE JobLifecycle WITH
    status   <- [j \in Jobs |-> jobs[j].status],
    assignee <- [j \in Jobs |-> jobs[j].worker_pubkey],
    offered  <- {j \in Jobs : offers[j] > 0},
    paid     <- [j \in Jobs |-> payouts[j]]

\* Whatever sockets, timers, rejections, disconnects and crashes do, each job
\* goes through the life JobLifecycle allows: one offer, one end, one payment.
LifecycleSpec == Lifecycle!Spec

\* `dispatch agent status --poll` reads the row every second until this holds;
\* it has no deadline of its own.
agentStatusReturns(j) == jobs[j].status \in {"completed", "failed"}

\* The job's worker is connected, and does not have the job.
Forgotten(j) ==
    \E w \in WorkerIds, s \in Sockets :
        Holds(w, j) /\ Owner[s] = Pubkey(w) /\ Readable(s) /\ j \notin unanswered[Owner[s]]

\* Polling a committed job ends, unless a worker rejects it, the process crashes
\* while it is open, or its worker stays connected for ever and does not have it.
JobsEnd ==
    \A j \in Jobs :
        \/ []<>(jobs[j].status # "none" =>
                   agentStatusReturns(j) \/ Rejected(j) \/ j \in orphaned)
        \/ <>[]Forgotten(j)
=============================================================================
