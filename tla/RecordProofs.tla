---------------------------- MODULE RecordProofs ----------------------------
(***************************************************************************)
(* What stays on record of a job: the receipt of its worker, and the       *)
(* reputation a worker gains from it (RepInv).                             *)
(* Reputation fills in the look-ups that Coordinator leaves open, so its   *)
(* steps are steps of Coordinator (ReputationRefines) and IndInv carries   *)
(* over.                                                                   *)
(***************************************************************************)
EXTENDS CoordinatorProofs, Reputation, FiniteSetTheorems

\* Leaves are proved by Zenon; those that need arithmetic or the theory of
\* sequences and records name SMT.
USE Zenon

(***************************************************************************)
(* Receipts                                                                *)
(***************************************************************************)
\* A row is added, and if it came with an answer, it was checked against the
\* key of the worker that completed the job.
ReceiptAdded(r) ==
    /\ receipts' = receipts \cup {r}
    /\ r.answer # None => /\ jobs'[r.answer].status = "completed"
                          /\ r.verified <=> r.signer = jobs'[r.answer].worker_pubkey

\* job_complete stores at most the receipt of the worker that holds the job.
LEMMA CompleteReceipt ==
    ASSUME IndInv, NEW s \in Sockets, NEW j \in AnyJob, NEW output \in Outputs,
           NEW receipt \in SentReceipts, JobComplete(s, j, output, receipt)
    PROVE  receipts' = receipts \/ \E r \in Receipt : ReceiptAdded(r)
<1> DEFINE w == findByActiveJob(j)
<1>1. CASE w = None \/ j \in DemoJobs \/ (j \in Jobs /\ ~Insertable(receipt))
  BY <1>1 DEF JobComplete, handleJobComplete
<1>2. CASE ~(w = None \/ j \in DemoJobs \/ (j \in Jobs /\ ~Insertable(receipt)))
  <2>1. w \in WorkerIds /\ w \in Online /\ Holds(w, j)
    BY <1>2, FindByActiveJob DEF Holds
  <2>2. storeCompletion(j, w, output, receipt)
    BY <1>2 DEF JobComplete, handleJobComplete
  <2> HIDE DEF w
  <2>3. j \in Jobs /\ jobs[j].worker_pubkey = Pubkey(w) /\ jobs[j].status # "none"
    BY <1>2, <2>1 DEF AnyJob, IndInv, NoDoubleBooking
  <2>4. jobs'[j].worker_pubkey = Pubkey(w) /\ jobs'[j].status = "completed"
    <3>1. jobs' = [jobs EXCEPT ![j].status = "completed", ![j].result = output]
      BY <2>2 DEF storeCompletion
    <3> QED BY <2>3, <3>1, CompletedRow DEF IndInv
  <2>5. CASE receipt = None
    BY <2>2, <2>5 DEF storeCompletion
  <2>6. CASE receipt # None
    <3> DEFINE r == ReceiptRow(receipt, Pubkey(w), j)
    <3>1. receipts' = receipts \cup {r} /\ r \in Receipt
      BY <2>2, <2>3, <2>6, RowTyped DEF storeCompletion
    <3>2. r.answer = j /\ (r.verified <=> r.signer = Pubkey(w))
      BY DEF ReceiptRow
    <3> HIDE DEF r
    <3> QED BY <2>4, <3>1, <3>2 DEF ReceiptAdded
  <2> QED BY <2>5, <2>6
<1> QED BY <1>1, <1>2

\* The row of receipt_submit is for no answer.
LEMMA SubmittedReceipt ==
    ASSUME NEW s \in Sockets, NEW receipt \in SentReceipts \ {None}, ReceiptSubmit(s, receipt)
    PROVE  \E r \in Receipt : ReceiptAdded(r)
<1> DEFINE r == ReceiptRow(receipt, receipt.provider_pubkey, None)
<1>1. receipts' = receipts \cup {r} /\ r \in Receipt
  BY RowTyped DEF ReceiptSubmit
<1>2. r.answer = None
  BY DEF ReceiptRow
<1> HIDE DEF r
<1> QED BY <1>1, <1>2 DEF ReceiptAdded

\* No other step stores one.
LEMMA ReceiptStep ==
    ASSUME IndInv, [Next]_vars PROVE receipts' = receipts \/ \E r \in Receipt : ReceiptAdded(r)
<1> USE DEF dbVars, callVars
<1>1. ASSUME NEW s \in Sockets, SocketStep(s)
      PROVE  receipts' = receipts \/ \E r \in Receipt : ReceiptAdded(r)
  <2>1. ASSUME NEW j \in AnyJob, JobAnswer(s, j)
        PROVE  receipts' = receipts \/ \E r \in Receipt : ReceiptAdded(r)
    <3>1. CASE JobReject(s, j)
      BY <3>1 DEF JobReject
    <3> QED BY <2>1, <3>1, CompleteReceipt DEF JobAnswer
  <2>2. CASE Connect(s) \/ PeerLost(s) \/ PeerCloses(s) \/ Register(s) \/ Heartbeat(s)
    BY <2>2 DEF Connect, PeerLost, PeerCloses, Register, Heartbeat
  <2>3. CASE SocketClose(s)
    BY <2>3 DEF SocketClose, handleDisconnect
  <2>4. ASSUME NEW j, JobDropped(s, j) PROVE receipts' = receipts
    BY <2>4 DEF JobDropped
  <2> QED BY <1>1, <2>1, <2>2, <2>3, <2>4, SubmittedReceipt DEF SocketStep
<1>2. ASSUME NEW w \in WorkerIds, WorkerStep(w) PROVE receipts' = receipts
  BY <1>2 DEF WorkerStep, ReputationRead, StakeRead
<1>3. CASE RouteStep
  BY <1>3 DEF RouteStep, handleCommit, RetryTimer, TrustCreate, TrustClaim, TrustExpire
<1>4. CASE DemoStep
  BY <1>4 DEF DemoStep, demoStart, demoStop, startDemoMode, stopDemoMode, demoTick
<1>5. CASE PruneTimer
  BY <1>5 DEF PruneTimer, pruneStale
<1>6. CASE Crash \/ UNCHANGED vars
  BY <1>6 DEF Crash, vars
<1> QED BY <1>1, <1>2, <1>3, <1>4, <1>5, <1>6 DEF Next

\* Completed rows stay as they are, so the mark on a receipt stays right.
LEMMA ReceiptsNext ==
    ASSUME IndInv, ReceiptsMatchJobs, [Next]_vars PROVE ReceiptsMatchJobs'
<1>1. IndInv'
  BY NextInv
<1>2. ASSUME NEW r \in receipts', r.answer # None
      PROVE  /\ r.answer \in Jobs /\ jobs'[r.answer].status = "completed"
             /\ r.verified <=> r.signer = jobs'[r.answer].worker_pubkey
  <2>1. r \in Receipt
    BY <1>1 DEF IndInv, TypeOK
  <2>2. r.answer \in Jobs
    BY <1>2, <2>1 DEF Receipt
  <2>3. CASE r \in receipts
    <3>1. /\ jobs[r.answer].status = "completed"
          /\ r.verified <=> r.signer = jobs[r.answer].worker_pubkey
      BY <1>2, <2>3 DEF ReceiptsMatchJobs
    <3>2. jobs'[r.answer] = jobs[r.answer]
      BY <2>2, <3>1, TerminalKept
    <3> QED BY <2>2, <3>1, <3>2
  <2>4. CASE r \notin receipts
    <3>1. PICK q \in Receipt : ReceiptAdded(q)
      BY <2>4, ReceiptStep
    <3>2. r = q
      BY <2>4, <3>1 DEF ReceiptAdded
    <3> QED BY <1>2, <2>2, <3>1, <3>2 DEF ReceiptAdded
  <2> QED BY <2>3, <2>4
<1>3. \A j \in Jobs : jobs'[j].status = "completed" => payouts'[j] = <<jobs'[j].worker_pubkey>>
  BY <1>1 DEF IndInv, PaidOncePerCompletion
<1> QED BY <1>2, <1>3 DEF ReceiptsMatchJobs

\* A receipt that came with an answer is marked as verified if and only if the
\* worker that is paid for the answered job signed it, whatever keys it names.
THEOREM ReceiptsAreTheWorkers == Spec => []ReceiptsMatchJobs
<1>1. Init => ReceiptsMatchJobs
  BY DEF Init, ReceiptsMatchJobs
<1>2. IndInv /\ ReceiptsMatchJobs /\ [Next]_vars => ReceiptsMatchJobs'
  BY ReceiptsNext
<1> QED BY <1>1, <1>2, Invariance, PTL DEF Spec

(***************************************************************************)
(* Reputation                                                              *)
(***************************************************************************)
\* The call made last rates a success.
Rated(j) == Latest(feedback'[j]) = TRUE

\* A step pays for a job that was not paid before and rates it a success, or
\* makes no call for it.
LEMMA CallStep ==
    ASSUME IndInv, [Next]_vars, NEW k \in AnyJob
    PROVE  \/ payouts'[k] = payouts[k] /\ feedback'[k] = feedback[k]
           \/ payouts[k] = <<>> /\ Rated(k) /\ \E pk \in Pubkeys : payouts'[k] = <<pk>>
<1> USE DEF callVars
<1>1. ASSUME NEW s \in Sockets, SocketStep(s)
      PROVE  \/ payouts'[k] = payouts[k] /\ feedback'[k] = feedback[k]
             \/ payouts[k] = <<>> /\ Rated(k) /\ \E pk \in Pubkeys : payouts'[k] = <<pk>>
  <2>1. ASSUME NEW j \in AnyJob, NEW output \in Outputs, NEW receipt \in SentReceipts,
               JobComplete(s, j, output, receipt)
        PROVE  \/ payouts'[k] = payouts[k] /\ feedback'[k] = feedback[k]
               \/ payouts[k] = <<>> /\ Rated(k) /\ \E pk \in Pubkeys : payouts'[k] = <<pk>>
    <3> DEFINE w == findByActiveJob(j)
    <3>1. CASE w = None \/ (j \in Jobs /\ ~Insertable(receipt))
      BY <2>1, <3>1 DEF JobComplete, handleJobComplete
    <3>2. CASE ~(w = None \/ (j \in Jobs /\ ~Insertable(receipt)))
      <4>1. w \in WorkerIds /\ w \in Online /\ Holds(w, j)
        BY <3>2, FindByActiveJob DEF Holds
      <4>2. /\ feedback' = [feedback EXCEPT ![j] = Append(@, TRUE)]
            /\ payouts' = [payouts EXCEPT ![j] = Append(@, Pubkey(w))]
        BY <2>1, <3>2 DEF JobComplete, handleJobComplete
      <4> HIDE DEF w
      <4>3. /\ payouts'[j] = <<Pubkey(w)>>
            /\ k # j => payouts'[k] = payouts[k] /\ feedback'[k] = feedback[k]
        BY <4>1, <4>2, CompletionCalls
      <4>4. Pubkey(w) \in Pubkeys
        BY <4>1, WorkerEntry DEF IndInv
      <4>5. payouts[j] = <<>>
        BY <4>1
        DEF IndInv, NoDoubleBooking, PaidOncePerCompletion, DemoPaidOnce, AnyJob
      <4>6. Rated(j)
        <5>1. feedback \in [AnyJob -> Seq(BOOLEAN)]
          BY DEF IndInv, TypeOK
        <5>2. \A made \in Seq(BOOLEAN) : Latest(Append(made, TRUE)) = TRUE
          BY SMT DEF Latest
        <5>3. feedback'[j] = Append(feedback[j], TRUE) /\ feedback[j] \in Seq(BOOLEAN)
          BY <4>2, <5>1
        <5> QED BY <5>2, <5>3 DEF Rated
      <4> QED BY <4>3, <4>4, <4>5, <4>6
    <3> QED BY <3>1, <3>2
  <2>2. CASE ~\E j \in AnyJob, output \in Outputs, receipt \in SentReceipts :
                 JobComplete(s, j, output, receipt)
    BY <1>1, <2>2
    DEF SocketStep, JobAnswer, Connect, PeerLost, PeerCloses, SocketClose, Register, Heartbeat,
        JobReject, JobDropped, ReceiptSubmit
  <2> QED BY <2>1, <2>2
<1>2. CASE \E w \in WorkerIds : WorkerStep(w)
  BY <1>2 DEF WorkerStep, ReputationRead, StakeRead
<1>3. CASE RouteStep
  BY <1>3 DEF RouteStep, handleCommit, RetryTimer, TrustCreate, TrustClaim, TrustExpire
<1>4. CASE DemoStep
  BY <1>4 DEF DemoStep, demoStart, demoStop, startDemoMode, stopDemoMode, demoTick
<1>5. CASE PruneTimer
  BY <1>5 DEF PruneTimer
<1>6. CASE Crash \/ UNCHANGED vars
  BY <1>6 DEF Crash, vars
<1> QED BY <1>1, <1>2, <1>3, <1>4, <1>5, <1>6 DEF Next

\* A step of the hub other than a look-up brings no entry a score, nor another
\* pubkey.
ScoresKept ==
    \A w \in WorkerIds : workers'[w].reputationScore # None =>
        /\ w \in Online /\ Pubkey(w)' = Pubkey(w)
        /\ workers'[w].reputationScore = workers[w].reputationScore

\* One entry is replaced, and the new one has the score and socket of the old.
LEMMA EntryScore ==
    ASSUME TypeOK, NEW v \in Online, NEW entry, workers' = [workers EXCEPT ![v] = entry],
           entry.ws = workers[v].ws, entry.reputationScore = workers[v].reputationScore
    PROVE  ScoresKept
<1>1. \A w \in WorkerIds : workers'[w] = IF w = v THEN entry ELSE workers[w]
  BY DEF TypeOK
<1>2. \A w \in WorkerIds : workers'[w].reputationScore = workers[w].reputationScore
                           /\ workers'[w].ws = workers[w].ws
  BY <1>1
<1>3. \A w \in WorkerIds : workers[w].reputationScore # None => w \in Online
  BY WorkerEntry, SMT DEF NoWorker
<1> QED BY <1>2, <1>3 DEF ScoresKept, Pubkey

\* Entries are removed, or age.
LEMMA SomeScores ==
    ASSUME TypeOK,
           \A w \in WorkerIds :
               \/ workers'[w] = NoWorker
               \/ /\ workers'[w].ws = workers[w].ws
                  /\ workers'[w].reputationScore = workers[w].reputationScore
    PROVE  ScoresKept
<1>1. \A w \in WorkerIds : workers[w].reputationScore # None => w \in Online
  BY WorkerEntry, SMT DEF NoWorker
<1>2. NoWorker.reputationScore = None
  BY DEF NoWorker
<1> QED BY <1>1, <1>2 DEF ScoresKept, Pubkey

\* An offer of a job changes no score.
LEMMA AssignScores ==
    ASSUME TypeOK, NEW w \in Online, NEW j, assignJob(w, j) PROVE ScoresKept
<1> DEFINE entry == [workers[w] EXCEPT !.status = "busy", !.activeJobId = j]
<1>1. workers[w] \in TrackedWorker /\ w \in WorkerIds
  BY WorkerEntry DEF Online
<1>2. entry.ws = workers[w].ws /\ entry.reputationScore = workers[w].reputationScore
  BY <1>1 DEF TrackedWorker
<1>3. workers' = [workers EXCEPT ![w] = entry]
  BY DEF assignJob
<1> HIDE DEF entry
<1> QED BY <1>2, <1>3, EntryScore

\* Nor does freeing a worker.
LEMMA FreeScores ==
    ASSUME TypeOK, NEW w \in Online, workers' = freeWorker(w) PROVE ScoresKept
<1> DEFINE entry == [workers[w] EXCEPT !.status = "idle", !.activeJobId = None]
<1>1. workers[w] \in TrackedWorker /\ w \in WorkerIds
  BY WorkerEntry DEF Online
<1>2. entry.ws = workers[w].ws /\ entry.reputationScore = workers[w].reputationScore
  BY <1>1 DEF TrackedWorker
<1>3. workers' = [workers EXCEPT ![w] = entry]
  BY DEF freeWorker
<1> HIDE DEF entry
<1> QED BY <1>2, <1>3, EntryScore

\* Every score the coordinator keeps after a step was there before or was looked up.
LEMMA ServerScores ==
    ASSUME IndInv,
           \/ \E s \in Sockets : SocketStep(s)
           \/ RouteStep \/ DemoStep \/ PruneTimer
    PROVE  ScoresKept
<1> USE DEF IndInv
<1>0. CASE workers' = workers
  BY <1>0, SomeScores
<1>1. ASSUME NEW s \in Sockets, SocketStep(s) PROVE ScoresKept
  <2>1. ASSUME NEW j \in AnyJob, JobAnswer(s, j) PROVE ScoresKept
    <3> DEFINE w == findByActiveJob(j)
    <3>1. w # None => w \in Online
      BY FindByActiveJob DEF Holds
    <3>2. workers' = workers \/ (w # None /\ workers' = freeWorker(w))
      BY <2>1 DEF JobAnswer, JobComplete, JobReject, handleJobComplete, handleJobReject
    <3> HIDE DEF w
    <3> QED BY <1>0, <3>1, <3>2, FreeScores
  <2>2. CASE Register(s)
    <3>1. lastId + 1 \in WorkerIds /\ workers[lastId + 1] = NoWorker
      BY <2>2, BoundAssumption, SMT DEF TypeOK, WorkerIds, IdsInOrder, Register
    <3>2. \A v \in WorkerIds : v # lastId + 1 => workers'[v] = workers[v]
      BY <2>2, <3>1 DEF Register, TypeOK
    <3>3. workers'[lastId + 1].reputationScore = None
      BY <2>2, <3>1 DEF Register, TypeOK
    <3>4. \A v \in WorkerIds : workers[v].reputationScore # None => v \in Online
      BY WorkerEntry, SMT DEF NoWorker
    <3> QED BY <3>2, <3>3, <3>4 DEF ScoresKept, Pubkey
  <2>3. CASE Heartbeat(s)
    <3> DEFINE S == {w \in Online : Pubkey(w) = Owner[s]}
               w == findByPubkey(Owner[s])
               entry == [workers[w] EXCEPT !.age = 0]
    <3>1. w = None \/ w \in Online
      BY FirstFacts, SMT DEF findByPubkey, Online
    <3>2. CASE w = None
      BY <1>0, <2>3, <3>2 DEF Heartbeat, handleHeartbeat
    <3>3. CASE w \in Online
      <4>1. w \in WorkerIds /\ w # None
        BY <3>3, WorkerIdsFacts DEF Online
      <4>2. workers' = [workers EXCEPT ![w] = entry]
        BY <2>3, <4>1 DEF Heartbeat, handleHeartbeat
      <4>3. entry.ws = workers[w].ws /\ entry.reputationScore = workers[w].reputationScore
        BY <3>3, <4>1, WorkerEntry DEF TrackedWorker
      <4> HIDE DEF w, entry
      <4> QED BY <3>3, <4>2, <4>3, EntryScore
    <3> QED BY <3>1, <3>2, <3>3
  <2>4. CASE SocketClose(s)
    BY <2>4, SomeScores DEF SocketClose, handleDisconnect
  <2>5. CASE \/ Connect(s) \/ PeerLost(s) \/ PeerCloses(s) \/ \E j \in AnyJob : JobDropped(s, j)
             \/ \E receipt \in SentReceipts \ {None} : ReceiptSubmit(s, receipt)
    BY <1>0, <2>5 DEF Connect, PeerLost, PeerCloses, JobDropped, ReceiptSubmit, hubVars
  <2> QED BY <1>1, <2>1, <2>2, <2>3, <2>4, <2>5 DEF SocketStep
<1>2. CASE RouteStep
  <2>1. CASE \/ \E c \in Codes, user \in Users : TrustCreate(c, user)
             \/ \E c \in Codes, pk \in Pubkeys : TrustClaim(c, pk)
             \/ \E c \in Codes : TrustExpire(c)
    BY <1>0, <2>1 DEF TrustCreate, TrustClaim, TrustExpire, hubVars
  <2>2. ASSUME NEW j \in Jobs, NEW req \in Requests, handleCommit(j, req) PROVE ScoresKept
    <3>1. workers' = workers \/ \E w \in Online : assignJob(w, j)
      BY <2>2 DEF handleCommit, CommitMatched, CommitUnmatched, Claimable, Candidates
    <3> QED BY <1>0, <3>1, AssignScores
  <2>3. ASSUME NEW j \in Jobs, RetryTimer(j) PROVE ScoresKept
    <3>1. workers' = workers \/ \E w \in Online : assignJob(w, j)
      BY <2>3 DEF RetryTimer, RetryMatched, RetryUnmatched, Claimable, Candidates
    <3> QED BY <1>0, <3>1, AssignScores
  <2> QED BY <1>2, <2>1, <2>2, <2>3 DEF RouteStep
<1>3. CASE DemoStep
  <2>1. CASE demoTick
    <3>1. \E w \in Online, d \in DemoJobs : assignJob(w, d)
      BY <2>1 DEF demoTick, injectDemoJob, getIdleWorkers
    <3> QED BY <3>1, AssignScores
  <2> QED BY <1>0, <1>3, <2>1 DEF DemoStep, demoStart, demoStop, startDemoMode, stopDemoMode,
             hubVars
<1>4. CASE PruneTimer
  <2>1. ASSUME NEW w \in WorkerIds
        PROVE  \/ workers'[w] = NoWorker
               \/ /\ workers'[w].ws = workers[w].ws
                  /\ workers'[w].reputationScore = workers[w].reputationScore
    <3>1. \/ workers'[w] = NoWorker
          \/ w \in Online /\ workers'[w] = [workers[w] EXCEPT !.age = @ + 1]
      BY <1>4 DEF PruneTimer, pruneStale
    <3>2. w \in Online => workers[w] \in TrackedWorker
      BY WorkerEntry
    <3> QED BY <3>1, <3>2 DEF TrackedWorker
  <2> QED BY <2>1, SomeScores
<1> QED BY <1>1, <1>2, <1>3, <1>4

\* The answers of the two look-ups are the ones Coordinator allows for.
LEMMA ReadsAllowed ==
    ASSUME NEW pk
    PROVE  /\ getReputationScore(pk) \in Scores \cup {None}
           /\ \A balance : readStakeLevel(pk, balance) \in Tiers
<1>1. \A score : Clamped(score) \in 0..100
  BY SMT DEF Clamped
<1>2. getReputationScore(pk) \in Scores \cup {None}
  BY <1>1, ReputationAssumption
  DEF getReputationScore, monad_getReputationScore, solana_getReputationScore
<1>3. ASSUME NEW balance PROVE readStakeLevel(pk, balance) \in StakeTier
  BY DEF readStakeLevel, monad_readStakeLevel, solana_readStakeLevel, StakeTier
<1> QED BY <1>2, <1>3, ReputationAssumption

\* What is not a step of the running coordinator leaves it alone, and no
\* rating disappears.
LEMMA OutsideStep ==
    ASSUME RepNext
    PROVE  \/ ServerStep \/ (\E w \in WorkerIds : HubReads(w)) \/ Restart
           \/ UNCHANGED vars /\ entries \subseteq entries'
<1> USE DEF registryVars
<1>1. CASE TargetScanned
  BY <1>1 DEF TargetScanned
<1>2. ASSUME NEW e \in inFlight, giveFeedback(e) PROVE UNCHANGED vars /\ entries \subseteq entries'
  BY <1>2 DEF giveFeedback
<1>3. ASSUME NEW a \in Others \cup {Self}, cli_register(a) \/ script_register(a)
      PROVE  UNCHANGED vars /\ entries \subseteq entries'
  BY <1>3, SMT DEF cli_register, script_register, registerAgent
<1>4. CASE findAgent
  BY <1>4, SMT DEF findAgent
<1>5. ASSUME NEW pk \in Pubkeys, NEW value \in OtherValues, OtherClient(pk, value)
      PROVE  UNCHANGED vars /\ entries \subseteq entries'
  BY <1>5 DEF OtherClient
<1> QED BY <1>1, <1>2, <1>3, <1>4, <1>5 DEF RepNext

\* A step of the coordinator with its registries is a step of Coordinator.
LEMMA RepStep == RepNext => [Next]_vars
<1> SUFFICES ASSUME RepNext PROVE [Next]_vars
  OBVIOUS
<1>1. CASE ServerStep
  BY <1>1 DEF ServerStep, Next
<1>2. ASSUME NEW w \in WorkerIds, HubReads(w) PROVE Next
  <2>1. WorkerStep(w)
    BY <1>2, ReadsAllowed DEF HubReads, WorkerStep
  <2> QED BY <2>1 DEF Next
<1>3. CASE Restart
  BY <1>3 DEF Restart, Next
<1> QED BY <1>1, <1>2, <1>3, OutsideStep

\* The coordinator with its registries is a Coordinator: everything proved of
\* that one holds here.
THEOREM ReputationRefines == RepSpec => Spec
<1>1. RepInit => Init
  BY DEF RepInit
<1>2. [RepNext]_repVars => [Next]_vars
  BY RepStep DEF repVars
<1> QED BY <1>1, <1>2, PTL DEF RepSpec, Spec

\* An agent that is minted and foreign stays so.
LEMMA StaysForeign ==
    ASSUME RepInv, owners' = owners \/ \E a \in Others \cup {Self} : owners' = Append(owners, a),
           NEW i \in Nat, Foreign(i)
    PROVE  Foreign(i)'
<1>1. owners \in Seq(Others \cup {Self}) /\ i < Len(owners) /\ owners[i + 1] # Self
  BY DEF RepInv, Foreign, Minted, ownerOf
<1>2. i < Len(owners') /\ owners'[i + 1] = owners[i + 1]
  BY <1>1, SMT
<1> QED BY <1>1, <1>2 DEF Foreign, Minted, ownerOf

\* The entries a step sends name the worker just paid, or the agent found, and
\* have the value of a success.
LEMMA NewFeedbackFacts ==
    ASSUME IndInv, RepInv, [Next]_vars, NEW e \in NewFeedback
    PROVE  /\ e.job \in AnyJob /\ payouts[e.job] = <<>> /\ e.value = 8000
           /\ coordinator = "monad" => e.agent \in Pubkeys /\ payouts'[e.job] = <<e.agent>>
           /\ coordinator = "solana" => e.agent = agentId
<1>1. PICK j \in AnyJob : /\ Len(feedback'[j]) > Len(feedback[j])
                          /\ e = postFeedback(Latest(payouts'[j]), j, Latest(feedback'[j]))
  BY DEF NewFeedback
<1>2. feedback'[j] # feedback[j]
  <2>1. Len(feedback[j]) \in Nat
    BY SMT DEF IndInv, TypeOK
  <2> QED BY <1>1, <2>1, SMT
<1>3. PICK pk \in Pubkeys : payouts[j] = <<>> /\ payouts'[j] = <<pk>> /\ Rated(j)
  BY <1>2, CallStep
<1>4. Latest(<<pk>>) = pk
  BY DEF Latest
<1>5. e = postFeedback(pk, j, Latest(feedback'[j]))
  BY <1>1, <1>3, <1>4
<1>6. /\ e.job = j /\ e.agent = IF coordinator = "monad" THEN pk ELSE agentId
      /\ e.value = 8000
  BY <1>3, <1>5, SMT DEF Rated, postFeedback, monad_postFeedback, solana_postFeedback, buildJobFeedback,
     pubkeyToAgentId
<1> QED BY <1>3, <1>6, SMT

\* Jobs an entry was made for stay paid to the same worker.
LEMMA PaidStays ==
    ASSUME IndInv, [Next]_vars, NEW j \in AnyJob, NEW pk, payouts[j] = <<pk>>
    PROVE  payouts'[j] = <<pk>>
<1>1. <<pk>> # <<>>
  OBVIOUS
<1> QED BY <1>1, CallStep

\* A score is read only from entries of the worker's agent.
LEMMA ScoreHasEntry ==
    ASSUME coordinator = "monad", NEW pk, getReputationScore(pk) # None
    PROVE  \E e \in entries : e.agent = pubkeyToAgentId(pk)
<1> DEFINE mine == {e \in entries : e.agent = pubkeyToAgentId(pk)}
<1>1. mine = {} => getReputationSummary(pubkeyToAgentId(pk)).count = 0
  BY FS_EmptySet DEF getReputationSummary
<1>2. mine = {} => getReputationScore(pk) = None
  BY <1>1 DEF getReputationScore, monad_getReputationScore
<1> QED BY <1>2

\* Scores that were there before the step still have their entry.
LEMMA KeptScoresOwn ==
    ASSUME IndInv, ReputationIsOwn, coordinator = "monad", ScoresKept, entries \subseteq entries',
           NEW w \in Online', workers'[w].reputationScore # None
    PROVE  \E e \in entries' : e.agent = pubkeyToAgentId(Pubkey(w)')
<1>1. w \in WorkerIds
  BY DEF Online
<1> QED BY <1>1 DEF ScoresKept, ReputationIsOwn, pubkeyToAgentId

\* The second half of ReputationIsOwn, for one entry.
EntryIsPaid(e) == e.agent \in Pubkeys /\ e.job # None => payouts[e.job] = <<e.agent>>

\* A rating of a job that was paid stays one.
LEMMA KeptEntriesPaid ==
    ASSUME IndInv, RepInv, [Next]_vars, coordinator = "monad", NEW e \in entries \cup inFlight
    PROVE  EntryIsPaid(e)'
  BY PaidStays DEF EntryIsPaid, RepInv, ReputationIsOwn

\* A score that is there after a look-up was read by it, or was there before.
LEMMA LookedUp ==
    ASSUME IndInv, NEW w \in WorkerIds, HubReads(w),
           NEW v \in Online', workers'[v].reputationScore # None
    PROVE  /\ v \in Online /\ Pubkey(v)' = Pubkey(v)
           /\ \/ workers'[v].reputationScore = workers[v].reputationScore
              \/ workers'[v].reputationScore = getReputationScore(Pubkey(v))
<1>1. w \in Online /\ workers[w] \in TrackedWorker /\ v \in WorkerIds
  BY WorkerEntry DEF HubReads, IndInv, Online
<1>2. ASSUME NEW tier, StakeRead(w, tier)
      PROVE  /\ workers'[v].reputationScore = workers[v].reputationScore
             /\ workers'[v].ws = workers[v].ws
  <2>1. workers'[v] = IF v = w THEN [workers[w] EXCEPT !.stakeLevel = tier] ELSE workers[v]
    BY <1>1, <1>2, SMT DEF StakeRead, IndInv, TypeOK
  <2> QED BY <1>1, <2>1 DEF TrackedWorker
<1>3. ASSUME NEW score, ReputationRead(w, score)
      PROVE  /\ workers'[v].ws = workers[v].ws
             /\ \/ workers'[v].reputationScore = workers[v].reputationScore
                \/ v = w /\ workers'[v].reputationScore = score
  <2>1. workers'[v] = IF v = w THEN [workers[w] EXCEPT !.reputationScore = score] ELSE workers[v]
    BY <1>1, <1>3 DEF ReputationRead, IndInv, TypeOK
  <2> QED BY <1>1, <2>1 DEF TrackedWorker
<1>4. /\ workers'[v].ws = workers[v].ws
      /\ \/ workers'[v].reputationScore = workers[v].reputationScore
         \/ v = w /\ workers'[v].reputationScore = getReputationScore(Pubkey(w))
  BY <1>2, <1>3 DEF HubReads
<1>5. v \in Online
  BY <1>1, <1>4, WorkerEntry, SMT DEF NoWorker, IndInv
<1> QED BY <1>4, <1>5 DEF Pubkey

\* A step outside the coordinator changes no score.
LEMMA SameStateScores ==
    ASSUME IndInv, UNCHANGED vars PROVE ScoresKept
<1>1. \A w \in WorkerIds : workers[w].reputationScore # None => w \in Online
  BY WorkerEntry, SMT DEF NoWorker, IndInv
<1> QED BY <1>1 DEF ScoresKept, vars, hubVars, Pubkey

\* Every step preserves RepInv.
LEMMA RepInvNext == ASSUME IndInv, RepInv, [RepNext]_repVars PROVE RepInv'
<1>0. [Next]_vars /\ None \notin Pubkeys /\ None \notin AnyJob /\ Agents \subseteq Nat
      /\ Agents \cap Pubkeys = {}
  BY RepStep, NoneAssumption, ReputationAssumption, SMT DEF repVars, Agents
<1>1. ASSUME coordinator' = coordinator, scan' \in Nat,
             owners' = owners \/ \E a \in Others \cup {Self} : owners' = Append(owners, a),
             agentId' # None => agentId' \in Nat /\ Foreign(agentId'),
             \A e \in inFlight' : e \in inFlight
                 \/ (e.agent \in Agents => Foreign(e.agent)),
             \A e \in entries' \cup inFlight' : e \in entries \cup inFlight
                 \/ /\ e.job \in AnyJob \cup {None}
                    /\ coordinator = "monad" => EntryIsPaid(e)',
             coordinator = "monad" => \A w \in Online' : workers'[w].reputationScore # None
                 => \E e \in entries' : e.agent = pubkeyToAgentId(Pubkey(w)')
      PROVE  RepInv'
  <2>1. coordinator' \in {"monad", "solana"}
    BY <1>1 DEF RepInv
  <2>2. owners' \in Seq(Others \cup {Self})
    BY <1>1, SMT DEF RepInv
  <2>3. agentId' # None => agentId' \in Nat /\ Foreign(agentId)'
    BY <1>1, StaysForeign DEF Foreign, Minted, ownerOf
  <2>4. \A e \in inFlight' : e.agent \in Agents => Foreign(e.agent)'
    BY <1>0, <1>1, StaysForeign DEF RepInv
  <2>5. \A e \in entries' \cup inFlight' : e.job \in AnyJob \cup {None}
    BY <1>1 DEF RepInv
  <2>6. coordinator = "monad" => \A e \in entries' \cup inFlight' : EntryIsPaid(e)'
    BY <1>0, <1>1, KeptEntriesPaid
  <2>7. ReputationIsOwn'
    BY <1>1, <2>6 DEF ReputationIsOwn, EntryIsPaid, pubkeyToAgentId
  <2> QED BY <1>1, <2>1, <2>2, <2>3, <2>4, <2>5, <2>7 DEF RepInv
<1> USE DEF registryVars, startVars
<1>2. CASE ServerStep
  <2>1. ScoresKept
    BY <1>2, ServerScores DEF ServerStep
  <2>2. /\ inFlight' = inFlight \cup NewFeedback /\ entries' = entries /\ owners' = owners
        /\ coordinator' = coordinator /\ scan' = scan /\ agentId' = agentId
        /\ coordinator = "solana" => agentId # None
    BY <1>2, SMT DEF ServerStep, Started
  <2>3. ASSUME NEW e \in NewFeedback
        PROVE  /\ e.agent \in Agents => Foreign(e.agent)
               /\ e.job \in AnyJob
               /\ coordinator = "monad" => EntryIsPaid(e)'
    BY <1>0, <2>2, NewFeedbackFacts, SMT DEF RepInv, EntryIsPaid
  <2>4. coordinator = "monad" => \A w \in Online' : workers'[w].reputationScore # None
                 => \E e \in entries' : e.agent = pubkeyToAgentId(Pubkey(w)')
    BY <2>1, <2>2, KeptScoresOwn DEF RepInv
  <2>5. \A e \in inFlight' : e \in inFlight \/ (e.agent \in Agents => Foreign(e.agent))
    BY <2>2, <2>3
  <2>6. \A e \in entries' \cup inFlight' : e \in entries \cup inFlight
                 \/ /\ e.job \in AnyJob \cup {None}
                    /\ coordinator = "monad" => EntryIsPaid(e)'
    BY <2>2, <2>3
  <2> QED BY <1>1, <2>2, <2>4, <2>5, <2>6 DEF RepInv
<1>3. ASSUME NEW w \in WorkerIds, HubReads(w) PROVE RepInv'
  <2>2. UNCHANGED <<registryVars, startVars>>
    BY <1>3 DEF HubReads
  <2>3. ASSUME coordinator = "monad", NEW v \in Online', workers'[v].reputationScore # None
        PROVE  \E e \in entries' : e.agent = pubkeyToAgentId(Pubkey(v)')
    BY <1>3, <2>2, <2>3, LookedUp, ScoreHasEntry DEF RepInv, ReputationIsOwn
  <2> QED BY <1>1, <2>2, <2>3 DEF RepInv
<1>4. CASE Restart
  <2>1. ScoresKept
    BY <1>4 DEF Restart, Crash, ScoresKept, NoWorker
  <2>2. /\ UNCHANGED <<registryVars, coordinator>> /\ scan' = 0 /\ agentId' = None
    BY <1>4 DEF Restart
  <2> QED BY <1>1, <2>1, <2>2, KeptScoresOwn DEF RepInv
<1>5. CASE UNCHANGED vars /\ entries \subseteq entries'
  <2>1. ScoresKept
    BY <1>5, SameStateScores
  <2>2. coordinator = "monad" => \A w \in Online' : workers'[w].reputationScore # None
                 => \E e \in entries' : e.agent = pubkeyToAgentId(Pubkey(w)')
    BY <1>5, <2>1, KeptScoresOwn DEF RepInv
  <2>3. CASE TargetScanned
    <3>1. \/ agentId' = agentId
          \/ agentId' = scan /\ Foreign(scan)
      BY <2>3 DEF TargetScanned, discoverTargetAgent, Foreign
    <3>2. scan' \in Nat
      BY <2>3, SMT DEF TargetScanned, discoverTargetAgent, RepInv
    <3>3. UNCHANGED <<registryVars, coordinator>>
      BY <2>3 DEF TargetScanned
    <3>4. agentId' # None => agentId' \in Nat /\ Foreign(agentId')
      BY <3>1 DEF RepInv
    <3> QED BY <1>1, <2>2, <3>2, <3>3, <3>4
  <2>4. ASSUME NEW e \in inFlight, giveFeedback(e) PROVE RepInv'
    BY <1>1, <2>2, <2>4 DEF giveFeedback, RepInv
  <2>5. ASSUME NEW a \in Others \cup {Self}, registerAgent(a) PROVE RepInv'
    BY <1>1, <2>2, <2>5 DEF registerAgent, RepInv
  <2>6. ASSUME NEW e, e.job = None, entries' = entries \cup {e},
               UNCHANGED <<startVars, owners, inFlight>>
        PROVE  RepInv'
    <3>1. EntryIsPaid(e)'
      BY <2>6 DEF EntryIsPaid
    <3> QED BY <1>1, <2>2, <2>6, <3>1 DEF RepInv
  <2>7. CASE findAgent
    <3> DEFINE e == [agent |-> agentId, job |-> None, value |-> 8000]
    <3>1. entries' = entries \cup {e} /\ UNCHANGED <<startVars, owners, inFlight>>
      BY <2>7, SMT DEF findAgent, Max
    <3>2. e.job = None
      OBVIOUS
    <3> HIDE DEF e
    <3> QED BY <2>6, <3>1, <3>2, SMT
  <2>8. ASSUME NEW pk \in Pubkeys, NEW value \in OtherValues, OtherClient(pk, value) PROVE RepInv'
    BY <2>6, <2>8 DEF OtherClient
  <2>9. CASE UNCHANGED repVars
    BY <1>1, <2>2, <2>9 DEF repVars, RepInv
  <2> QED BY <1>2, <1>3, <1>4, <2>3, <2>4, <2>5, <2>7, <2>8, <2>9, SMT
          DEF RepNext, cli_register, script_register
<1>6. \/ ServerStep \/ (\E w \in WorkerIds : HubReads(w)) \/ Restart
      \/ UNCHANGED vars /\ entries \subseteq entries'
  BY OutsideStep DEF repVars
<1> QED BY <1>2, <1>3, <1>4, <1>5, <1>6

\* The invariant of the registries, next to that of the hub.
THEOREM RepInvariance == RepSpec => [](IndInv /\ RepInv)
<1>1. RepInit => IndInv /\ RepInv
  <2> SUFFICES ASSUME RepInit PROVE IndInv /\ RepInv
    OBVIOUS
  <2>1. IndInv
    BY InitInv DEF RepInit
  <2>2. \A w \in WorkerIds : w \notin Online
    BY DEF RepInit, Init, Online
  <2>3. ReputationIsOwn
    BY <2>2 DEF RepInit, ReputationIsOwn, Online
  <2> QED BY <2>1, <2>3, ReputationAssumption DEF RepInit, RepInv
<1>2. IndInv /\ RepInv /\ [RepNext]_repVars => (IndInv /\ RepInv)'
  <2>1. [RepNext]_repVars => [Next]_vars
    BY RepStep, SMT DEF repVars
  <2> QED BY <2>1, NextInv, RepInvNext
<1> QED BY <1>1, <1>2, PTL DEF RepSpec

\* The Monad coordinator ranks a worker by ratings of that worker only, and
\* rates the one that was paid for the job.
THEOREM ReputationsAreOwn == RepSpec => []ReputationIsOwn
<1>1. RepInv => ReputationIsOwn
  BY DEF RepInv
<1> QED BY <1>1, RepInvariance, PTL

\* No coordinator sends a rating of an agent it owns, however agents are
\* registered during its scan and however often it is restarted.
THEOREM NoSelfRating == RepSpec => []NeverRatesItself
<1>1. RepInv => NeverRatesItself
  BY DEF RepInv, NeverRatesItself, Foreign
<1> QED BY <1>1, RepInvariance, PTL

(***************************************************************************)
(* Scores                                                                  *)
(***************************************************************************)
\* The rating that is added next.
Chosen(T) == CHOOSE e \in T : TRUE

\* g[T] is the sum of the ratings in T, as MapThenSumSet computes it.
Totals(M, g) ==
    g = [T \in SUBSET M |-> IF T = {} THEN 0 ELSE Chosen(T).value + g[T \ {Chosen(T)}]]

\* Among sets of ratings there is a smallest one.
LEMMA FewestRatings ==
    ASSUME NEW M, IsFiniteSet(M), NEW B \in SUBSET (SUBSET M), B # {}
    PROVE  \E T \in B : \A U \in B : Cardinality(T) <= Cardinality(U)
<1> DEFINE Sizes == {Cardinality(T) : T \in B}
<1>1. \A T \in B : Cardinality(T) \in Nat
  BY FS_Subset, FS_CardinalityType
<1>2. Sizes \in SUBSET Nat /\ Sizes # {}
  BY <1>1
<1> HIDE DEF Sizes
<1>3. PICK n \in Sizes : \A m \in Sizes : n <= m
  BY <1>2, MinInSet
<1> QED BY <1>3 DEF Sizes

\* A set without the rating that is added next.
LEMMA OneRatingLess ==
    ASSUME NEW M, IsFiniteSet(M), NEW T \in SUBSET M, T # {}
    PROVE  /\ Chosen(T) \in T /\ T \ {Chosen(T)} \in SUBSET M
           /\ Cardinality(T) \in Nat \ {0}
           /\ Cardinality(T \ {Chosen(T)}) = Cardinality(T) - 1
<1>1. Chosen(T) \in T /\ IsFiniteSet(T)
  BY FS_Subset DEF Chosen
<1>2. Cardinality(T) \in Nat /\ Cardinality(T) # 0
  BY <1>1, FS_CardinalityType, FS_EmptySet
<1>3. Cardinality(T \ {Chosen(T)}) = Cardinality(T) - 1
  BY <1>1, FS_RemoveElement
<1> QED BY <1>1, <1>2, <1>3

\* The recursion of MapThenSumSet has a solution.
LEMMA RatingsAddUp ==
    ASSUME NEW M, IsFiniteSet(M)
    PROVE  \E g : Totals(M, g)
<1> DEFINE Unfold(g) == [T \in SUBSET M |->
                            IF T = {} THEN 0 ELSE Chosen(T).value + g[T \ {Chosen(T)}]]
           Upto(g, T) == \A U \in SUBSET M : Cardinality(U) <= Cardinality(T) => g[U] = Unfold(g)[U]
           Bad == {T \in SUBSET M : ~\E g : Upto(g, T)}
<1>1. \A U \in SUBSET M : Cardinality(U) \in Nat /\ IsFiniteSet(U)
  BY FS_Subset, FS_CardinalityType
<1>2. Bad = {}
  <2> SUFFICES ASSUME Bad # {} PROVE FALSE
    OBVIOUS
  <2>1. PICK T \in Bad : \A U \in Bad : Cardinality(T) <= Cardinality(U)
    <3> HIDE DEF Bad
    <3>1. Bad \in SUBSET (SUBSET M)
      BY DEF Bad
    <3> QED BY <3>1, FewestRatings
  <2>2. CASE T = {}
    <3> DEFINE g == [U \in SUBSET M |-> 0]
    <3>1. ASSUME NEW U \in SUBSET M, Cardinality(U) <= Cardinality(T) PROVE g[U] = Unfold(g)[U]
      <4>1. U = {}
        BY <1>1, <2>2, <3>1, FS_EmptySet, SMT
      <4> QED BY <4>1
    <3> QED BY <2>1, <3>1
  <2>3. CASE T # {}
    <3> DEFINE V == T \ {Chosen(T)}
    <3>1. V \in SUBSET M /\ Cardinality(V) = Cardinality(T) - 1 /\ Cardinality(T) \in Nat
      BY <2>3, OneRatingLess
    <3>2. V \notin Bad
      <4> HIDE DEF V, Bad
      <4>1. V \in Bad => Cardinality(T) <= Cardinality(V)
        BY <2>1
      <4> QED BY <3>1, <4>1, SMT
    <3>3. PICK g : Upto(g, V)
      BY <3>1, <3>2
    <3> DEFINE h == Unfold(g)
    <3>4. ASSUME NEW U \in SUBSET M, Cardinality(U) <= Cardinality(T) PROVE h[U] = Unfold(h)[U]
      <4>1. CASE U = {}
        BY <4>1
      <4>2. CASE U # {}
        <5> DEFINE W == U \ {Chosen(U)}
        <5>1. W \in SUBSET M /\ Cardinality(W) = Cardinality(U) - 1 /\ Cardinality(U) \in Nat
          BY <4>2, OneRatingLess
        <5>2. Cardinality(W) <= Cardinality(V)
          BY <3>1, <3>4, <5>1, SMT
        <5>3. g[W] = Unfold(g)[W]
          <6> HIDE DEF W, V, Unfold
          <6> QED BY <3>3, <5>1, <5>2
        <5>4. /\ h[U] = Chosen(U).value + g[W]
              /\ Unfold(h)[U] = Chosen(U).value + h[W]
          BY <4>2
        <5> QED BY <5>3, <5>4
      <4> QED BY <4>1, <4>2
    <3>5. Upto(h, T)
      <4> HIDE DEF h, Unfold
      <4> QED BY <3>4
    <3> HIDE DEF h, Upto
    <3> QED BY <2>1, <3>5
  <2> QED BY <2>2, <2>3
<1>3. PICK g : Upto(g, M)
  BY <1>2
<1>4. \A U \in SUBSET M : g[U] = Unfold(g)[U]
  <2>1. \A U \in SUBSET M : Cardinality(U) <= Cardinality(M)
    BY FS_Subset
  <2> HIDE DEF Unfold
  <2> QED BY <1>3, <2>1
<1> DEFINE h == [U \in SUBSET M |-> g[U]]
<1>5. Unfold(h) = Unfold(g)
  <2>1. \A T \in SUBSET M : h[T \ {Chosen(T)}] = g[T \ {Chosen(T)}]
    OBVIOUS
  <2> QED BY <2>1
<1>6. h = Unfold(g)
  BY <1>4
<1> QED BY <1>5, <1>6 DEF Totals

\* Products grow with their first factor.
LEMMA ProductMonotone ==
    ASSUME NEW a \in Int, NEW b \in Int, NEW n \in Nat, a <= b PROVE a * n <= b * n
<1>1. \A d, k \in Nat : d * k \in Nat
  BY SMT
<1>2. b - a \in Nat
  BY SMT
<1>3. (b - a) * n >= 0
  BY <1>1, <1>2, SMT
<1>4. (b - a) * n = b * n - a * n
  BY SMT
<1> QED BY <1>3, <1>4, SMT

\* A quotient lies between the bounds of the dividend.
LEMMA QuotientBetween ==
    ASSUME NEW lo \in Int, NEW hi \in Int, NEW total \in Int, NEW n \in Nat \ {0},
           lo * n <= total, total <= hi * n
    PROVE  /\ total \div n \in Int
           /\ lo <= total \div n /\ total \div n <= hi
<1> DEFINE q == total \div n
<1>1. q \in Int /\ q * n <= total /\ total < (q + 1) * n
  BY SMT
<1> HIDE DEF q
<1>2. ~(q < lo)
  <2> SUFFICES ASSUME q + 1 <= lo PROVE FALSE
    BY <1>1, SMT
  <2>1. (q + 1) * n <= lo * n
    BY <1>1, ProductMonotone, SMT
  <2> QED BY <1>1, <2>1, SMT
<1>3. ~(hi < q)
  <2> SUFFICES ASSUME hi + 1 <= q PROVE FALSE
    BY <1>1, SMT
  <2>1. (hi + 1) * n <= q * n
    BY <1>1, ProductMonotone, SMT
  <2> QED BY <1>1, <2>1, SMT
<1> QED BY <1>1, <1>2, <1>3, SMT DEF q

\* Some rating is at most the average of a set of ratings, and some is at least.
LEMMA TotalBetween ==
    ASSUME NEW M, IsFiniteSet(M), \A e \in M : e.value \in Int, NEW g, Totals(M, g)
    PROVE  \A T \in SUBSET M :
             /\ g[T] \in Int
             /\ T # {} => \E lo, hi \in T : /\ lo.value * Cardinality(T) <= g[T]
                                           /\ g[T] <= hi.value * Cardinality(T)
<1> DEFINE Between(T) == \E lo, hi \in T : /\ lo.value * Cardinality(T) <= g[T]
                                          /\ g[T] <= hi.value * Cardinality(T)
           Bad == {T \in SUBSET M : ~(g[T] \in Int /\ (T # {} => Between(T)))}
<1>1. Bad = {}
  <2> SUFFICES ASSUME Bad # {} PROVE FALSE
    OBVIOUS
  <2>1. PICK T \in Bad : \A U \in Bad : Cardinality(T) <= Cardinality(U)
    <3> HIDE DEF Bad
    <3>1. Bad \in SUBSET (SUBSET M)
      BY DEF Bad
    <3> QED BY <3>1, FewestRatings
  <2>2. T \in SUBSET M /\ ~(g[T] \in Int /\ (T # {} => Between(T)))
    OBVIOUS
  <2> HIDE DEF Between
  <2>3. CASE T = {}
    <3>1. g[T] = 0
      BY <2>2, <2>3 DEF Totals
    <3> QED BY <2>2, <2>3, <3>1, SMT
  <2>4. CASE T # {}
    <3> DEFINE x == Chosen(T)
               V == T \ {x}
               n == Cardinality(V)
    <3>1. /\ x \in T /\ V \in SUBSET M /\ n = Cardinality(T) - 1
          /\ Cardinality(T) \in Nat \ {0}
      BY <2>2, <2>4, OneRatingLess
    <3>2. V \notin Bad
      <4> HIDE DEF V, n, Bad
      <4>1. V \in Bad => Cardinality(T) <= n
        BY <2>1 DEF n
      <4> QED BY <3>1, <4>1, SMT
    <3>3. g[V] \in Int /\ (V # {} => Between(V))
      <4> HIDE DEF V
      <4> QED BY <3>1, <3>2
    <3>4. g[T] = x.value + g[V]
      BY <2>2, <2>4 DEF Totals
    <3>5. x.value \in Int /\ V \subseteq T /\ (V = {} => T = {x})
      BY <2>2, <3>1
    <3>6. n \in Nat /\ Cardinality(T) = n + 1 /\ g[T] \in Int
      <4> HIDE DEF x, V, n
      <4> QED BY <3>1, <3>3, <3>4, <3>5, SMT
    <3>7. CASE V = {}
      <4>1. g[V] = 0 /\ n = 0
        BY <3>1, <3>7, FS_EmptySet DEF Totals
      <4> HIDE DEF x, V, n
      <4>2. x.value * Cardinality(T) = g[T] /\ g[T] <= g[T]
        BY <3>4, <3>5, <3>6, <4>1, SMT
      <4> QED BY <2>2, <3>1, <3>6, <4>2 DEF Between
    <3>8. CASE V # {}
      <4>1. PICK lo, hi \in V : lo.value * n <= g[V] /\ g[V] <= hi.value * n
        BY <3>3, <3>8 DEF Between
      <4>2. lo \in T /\ hi \in T /\ lo.value \in Int /\ hi.value \in Int
        BY <2>2, <3>5, <4>1
      <4> HIDE DEF x, V, n
      <4>3. ASSUME NEW a \in Int, NEW b \in Int, a <= b PROVE a * n <= b * n
        BY <3>6, <4>3, ProductMonotone
      <4>4. \E l \in T : l.value * Cardinality(T) <= g[T]
        <5>1. CASE x.value <= lo.value
          <6>1. x.value * n <= lo.value * n
            BY <3>5, <4>2, <4>3, <5>1
          <6>2. x.value * (n + 1) <= x.value + g[V]
            BY <3>3, <3>5, <3>6, <4>1, <4>2, <6>1, SMT
          <6> QED BY <3>1, <3>4, <3>6, <6>2
        <5>2. CASE ~(x.value <= lo.value)
          <6>1. lo.value * (n + 1) <= x.value + g[V]
            BY <3>3, <3>5, <3>6, <4>1, <4>2, <5>2, SMT
          <6> QED BY <3>4, <3>6, <4>2, <6>1
        <5> QED BY <5>1, <5>2
      <4>5. \E h \in T : g[T] <= h.value * Cardinality(T)
        <5>1. CASE hi.value <= x.value
          <6>1. hi.value * n <= x.value * n
            BY <3>5, <4>2, <4>3, <5>1
          <6>2. x.value + g[V] <= x.value * (n + 1)
            BY <3>3, <3>5, <3>6, <4>1, <4>2, <6>1, SMT
          <6> QED BY <3>1, <3>4, <3>6, <6>2
        <5>2. CASE ~(hi.value <= x.value)
          <6>1. x.value + g[V] <= hi.value * (n + 1)
            BY <3>3, <3>5, <3>6, <4>1, <4>2, <5>2, SMT
          <6> QED BY <3>4, <3>6, <4>2, <6>1
        <5> QED BY <5>1, <5>2
      <4> QED BY <2>2, <3>6, <4>4, <4>5 DEF Between
    <3> QED BY <3>7, <3>8
  <2> QED BY <2>3, <2>4
<1> QED BY <1>1

\* The summary of an agent lies between two of its ratings.
LEMMA SummaryBetween ==
    ASSUME IsFiniteSet(entries), \A e \in entries : e.value \in Int, NEW agent,
           getReputationSummary(agent).count # 0
    PROVE  LET summary == getReputationSummary(agent).summaryValue
           IN  /\ summary \in Int
               /\ \E lo, hi \in {e \in entries : e.agent = agent} :
                      lo.value <= summary /\ summary <= hi.value
<1> DEFINE mine == {e \in entries : e.agent = agent}
           total == MapThenSumSet(LAMBDA e : e.value, mine)
           n == Cardinality(mine)
<1>1. IsFiniteSet(mine) /\ n \in Nat /\ \A e \in mine : e.value \in Int
  BY FS_Subset, FS_CardinalityType
<1>2. /\ getReputationSummary(agent).count = n
      /\ mine # {} => getReputationSummary(agent).summaryValue = total \div n
  BY DEF getReputationSummary
<1>3. total = (CHOOSE g : Totals(mine, g))[mine]
  BY DEF MapThenSumSet, MapThenFoldSet, Totals, Chosen
<1>4. n # 0 /\ mine # {}
  BY <1>2, FS_EmptySet
<1> HIDE DEF mine, total
<1>5. Totals(mine, CHOOSE g : Totals(mine, g))
  BY <1>1, RatingsAddUp
<1>6. PICK lo, hi \in mine : lo.value * n <= total /\ total <= hi.value * n
  BY <1>1, <1>3, <1>4, <1>5, TotalBetween
<1>7. total \in Int /\ lo.value \in Int /\ hi.value \in Int
  BY <1>1, <1>3, <1>5, TotalBetween
<1> HIDE DEF n
<1>8. total \div n \in Int /\ lo.value <= total \div n /\ total \div n <= hi.value
  BY <1>1, <1>4, <1>6, <1>7, QuotientBetween
<1> QED BY <1>2, <1>4, <1>8 DEF mine

\* More in the registry is not fewer points.
LEMMA PointsGrow ==
    ASSUME NEW a \in Int, NEW b \in Int, a <= b
    PROVE  /\ Clamped(a \div 100) \in Int /\ Clamped(b \div 100) \in Int
           /\ Clamped(a \div 100) <= Clamped(b \div 100)
<1>1. a \div 100 \in Int /\ b \div 100 \in Int /\ a \div 100 <= b \div 100
  BY SMT
<1>2. \A x, y \in Int : x <= y => /\ Clamped(x) \in Int /\ Clamped(y) \in Int
                                  /\ Clamped(x) <= Clamped(y)
  BY SMT DEF Clamped
<1> QED BY <1>1, <1>2, SMT

\* So does the score that is read for a worker, in points.
LEMMA ScoreBetween ==
    ASSUME IsFiniteSet(entries), \A e \in entries : e.value \in Int, NEW w,
           getReputationScore(Pubkey(w)) # None
    PROVE  \E lo, hi \in Ratings(w) :
              getReputationScore(Pubkey(w)) \in Points(lo)..Points(hi)
<1> DEFINE agent == RatedAgent(w)
           summary == getReputationSummary(agent).summaryValue
<1>1. agent = IF coordinator = "monad" THEN pubkeyToAgentId(Pubkey(w)) ELSE agentId
  BY DEF RatedAgent, postFeedback, monad_postFeedback, solana_postFeedback, buildJobFeedback
<1>2. /\ getReputationSummary(agent).count # 0
      /\ getReputationScore(Pubkey(w)) = Clamped(summary \div 100)
  BY <1>1 DEF getReputationScore, monad_getReputationScore, solana_getReputationScore
<1> HIDE DEF agent
<1>3. PICK lo, hi \in {e \in entries : e.agent = agent} : lo.value <= summary /\ summary <= hi.value
  BY <1>2, SummaryBetween
<1>4. summary \in Int
  BY <1>2, SummaryBetween
<1> HIDE DEF summary
<1>5. lo.value \in Int /\ hi.value \in Int /\ lo \in Ratings(w) /\ hi \in Ratings(w)
  BY <1>3 DEF Ratings, agent
<1>6. /\ Points(lo) \in Int /\ Points(hi) \in Int /\ Clamped(summary \div 100) \in Int
      /\ Points(lo) <= Clamped(summary \div 100) /\ Clamped(summary \div 100) <= Points(hi)
  BY <1>3, <1>4, <1>5, PointsGrow DEF Points
<1>7. getReputationScore(Pubkey(w)) \in Points(lo)..Points(hi)
  BY <1>2, <1>6, SMT
<1> QED BY <1>5, <1>7

\* What the score of a worker is said to be.
ScoreOf(w) ==
    \E lo, hi \in Ratings(w) : workers[w].reputationScore \in Points(lo)..Points(hi)

\* A score stays between the ratings of its worker while the agent that is rated
\* stays the same.
LEMMA ScoreStays ==
    ASSUME NEW w, ScoreOf(w), workers'[w].reputationScore = workers[w].reputationScore,
           Pubkey(w)' = Pubkey(w), entries \subseteq entries',
           coordinator' = coordinator, agentId' = agentId
    PROVE  ScoreOf(w)'
<1>1. RatedAgent(w)' = RatedAgent(w)
  BY DEF RatedAgent, postFeedback, monad_postFeedback, solana_postFeedback, buildJobFeedback,
     pubkeyToAgentId
<1>2. Ratings(w) \subseteq Ratings(w)'
  BY <1>1 DEF Ratings
<1>3. PICK lo, hi \in Ratings(w) : workers[w].reputationScore \in Points(lo)..Points(hi)
  BY DEF ScoreOf
<1>4. lo \in Ratings(w)' /\ hi \in Ratings(w)'
  BY <1>2
<1> QED BY <1>3, <1>4 DEF ScoreOf

\* The invariant of the ratings survives a step that brings no score, if the
\* agent that is rated does not change while a worker is connected.
LEMMA RatingsKept ==
    ASSUME RatingInv, ScoresKept, IsFiniteSet(entries'), entries \subseteq entries',
           \A e \in entries' \cup inFlight' : e.value \in Int,
           coordinator' = coordinator, Online' # {} => agentId' = agentId /\ Started
    PROVE  RatingInv'
<1>1. ASSUME NEW w \in Online', workers'[w].reputationScore # None PROVE ScoreOf(w)'
  <2>1. w \in Online /\ Pubkey(w)' = Pubkey(w)
        /\ workers'[w].reputationScore = workers[w].reputationScore
    BY <1>1 DEF ScoresKept, Online
  <2>2. ScoreOf(w)
    BY <1>1, <2>1 DEF RatingInv, ScoreRoundTrip, ScoreOf
  <2> QED BY <2>1, <2>2, ScoreStays
<1>2. ScoreRoundTrip'
  BY <1>1 DEF ScoreRoundTrip, ScoreOf
<1>3. Online' # {} => Started'
  BY DEF Started
<1> QED BY <1>2, <1>3 DEF RatingInv

\* Every step preserves the invariant of the ratings.
LEMMA RatingInvNext ==
    ASSUME IndInv, RepInv, RatingInv, [RepNext]_repVars PROVE RatingInv'
<1> USE DEF registryVars, startVars
<1>0. [Next]_vars /\ IsFiniteSet(entries) /\ \A e \in entries \cup inFlight : e.value \in Int
  BY RepStep DEF repVars, RatingInv
<1>1. CASE ServerStep
  <2>1. /\ ScoresKept /\ entries' = entries /\ inFlight' = inFlight \cup NewFeedback
        /\ coordinator' = coordinator /\ agentId' = agentId /\ Started
    BY <1>1, ServerScores DEF ServerStep
  <2>2. \A e \in NewFeedback : e.value \in Int
    BY <1>0, NewFeedbackFacts, SMT
  <2> QED BY <1>0, <2>1, <2>2, RatingsKept
<1>2. ASSUME NEW w \in WorkerIds, HubReads(w) PROVE RatingInv'
  <2>1. UNCHANGED <<entries, inFlight, coordinator, agentId>> /\ w \in Online
    BY <1>2 DEF HubReads
  <2>2. ASSUME NEW v \in Online', workers'[v].reputationScore # None
        PROVE  ScoreOf(v)'
    <3>1. /\ v \in Online /\ Pubkey(v)' = Pubkey(v)
          /\ \/ workers'[v].reputationScore = workers[v].reputationScore
             \/ workers'[v].reputationScore = getReputationScore(Pubkey(v))
      BY <1>2, <2>2, LookedUp
    <3>2. CASE workers'[v].reputationScore = workers[v].reputationScore
      <4>1. ScoreOf(v)
        BY <2>2, <3>1, <3>2 DEF RatingInv, ScoreRoundTrip, ScoreOf
      <4> QED BY <2>1, <3>1, <3>2, <4>1, ScoreStays
    <3>3. CASE workers'[v].reputationScore = getReputationScore(Pubkey(v))
      <4>1. PICK lo, hi \in Ratings(v) : workers'[v].reputationScore \in Points(lo)..Points(hi)
        BY <1>0, <2>2, <3>3, ScoreBetween
      <4>2. Ratings(v)' = Ratings(v)
        BY <2>1, <3>1 DEF Ratings, RatedAgent, postFeedback, monad_postFeedback,
           solana_postFeedback, buildJobFeedback, pubkeyToAgentId
      <4> QED BY <4>1, <4>2 DEF ScoreOf
    <3> QED BY <3>1, <3>2, <3>3
  <2>3. ScoreRoundTrip'
    BY <2>2 DEF ScoreRoundTrip, ScoreOf
  <2>4. Started'
    BY <2>1 DEF RatingInv, Started
  <2> QED BY <1>0, <2>1, <2>3, <2>4 DEF RatingInv
<1>3. CASE Restart
  <2>1. ScoresKept /\ Online' = {}
    BY <1>3 DEF Restart, Crash, ScoresKept, Online, NoWorker
  <2>2. UNCHANGED <<entries, inFlight, coordinator>>
    BY <1>3 DEF Restart
  <2> QED BY <1>0, <2>1, <2>2, RatingsKept
<1>4. CASE UNCHANGED vars /\ entries \subseteq entries'
  <2>0. ScoresKept /\ Online' = Online
    BY <1>4, SameStateScores DEF vars, hubVars, Online
  <2>1. ASSUME NEW e, e.value \in Int, entries' \in {entries, entries \cup {e}},
               inFlight' \subseteq inFlight, UNCHANGED <<coordinator, agentId>>
        PROVE  RatingInv'
    <3>1. IsFiniteSet(entries')
      BY <1>0, <2>1, FS_AddElement
    <3>2. \A d \in entries' \cup inFlight' : d.value \in Int
      BY <1>0, <2>1
    <3>3. Online' # {} => Started
      BY <2>0 DEF RatingInv
    <3> QED BY <1>4, <2>0, <2>1, <3>1, <3>2, <3>3, RatingsKept
  <2>2. CASE TargetScanned
    <3>1. ~Started /\ UNCHANGED <<entries, inFlight, coordinator>>
      BY <2>2 DEF TargetScanned, discoverTargetAgent
    <3>2. Online' = {}
      BY <2>0, <3>1 DEF RatingInv
    <3> QED BY <1>0, <2>0, <3>1, <3>2, RatingsKept
  <2>3. CASE UNCHANGED repVars
    <3>1. UNCHANGED <<entries, inFlight, coordinator, agentId>>
      BY <2>3 DEF repVars
    <3>2. Online' # {} => Started
      BY <2>0 DEF RatingInv
    <3> QED BY <1>0, <2>0, <3>1, <3>2, RatingsKept
  <2>4. ASSUME NEW e \in inFlight, giveFeedback(e) PROVE RatingInv'
    BY <1>0, <2>1, <2>4 DEF giveFeedback
  <2>5. ASSUME NEW a \in Others \cup {Self}, registerAgent(a) PROVE RatingInv'
    <3>1. UNCHANGED <<entries, inFlight, coordinator, agentId>>
      BY <2>5 DEF registerAgent
    <3>2. Online' # {} => Started
      BY <2>0 DEF RatingInv
    <3> QED BY <1>0, <2>0, <3>1, <3>2, RatingsKept
  <2>6. CASE findAgent
    <3> DEFINE e == [agent |-> agentId, job |-> None, value |-> 8000]
    <3>1. entries' = entries \cup {e} /\ UNCHANGED <<inFlight, coordinator, agentId>>
      BY <2>6, SMT DEF findAgent, Max
    <3>2. e.value \in Int
      BY SMT
    <3> HIDE DEF e
    <3> QED BY <2>1, <3>1, <3>2
  <2>7. ASSUME NEW pk \in Pubkeys, NEW value \in OtherValues, OtherClient(pk, value) PROVE RatingInv'
    <3> DEFINE e == [agent |-> postFeedback(pk, None, TRUE).agent, job |-> None, value |-> value]
    <3>1. entries' = entries \cup {e} /\ UNCHANGED <<inFlight, coordinator, agentId>>
      BY <2>7 DEF OtherClient
    <3>2. e.value \in Int
      BY ReputationAssumption
    <3> HIDE DEF e
    <3> QED BY <2>1, <3>1, <3>2
  <2> QED BY <1>1, <1>2, <1>3, <2>2, <2>3, <2>4, <2>5, <2>6, <2>7
          DEF RepNext, cli_register, script_register
<1>5. \/ ServerStep \/ (\E w \in WorkerIds : HubReads(w)) \/ Restart
      \/ UNCHANGED vars /\ entries \subseteq entries'
  BY OutsideStep DEF repVars
<1> QED BY <1>1, <1>2, <1>3, <1>4, <1>5

\* A score makes the way to the registry and back: whatever others enter, and
\* however many ratings there are, it lies between two of the worker's ratings.
THEOREM ScoresComeBack == RepSpec => []ScoreRoundTrip
<1>1. RepInit => RatingInv
  <2> SUFFICES ASSUME RepInit PROVE RatingInv
    OBVIOUS
  <2>1. Online = {}
    BY DEF RepInit, Init, Online
  <2>2. entries = {} /\ inFlight = {} /\ IsFiniteSet({})
    BY FS_EmptySet DEF RepInit
  <2> QED BY <2>1, <2>2 DEF RatingInv, ScoreRoundTrip
<1>2. (IndInv /\ RepInv) /\ RatingInv /\ [RepNext]_repVars => RatingInv'
  BY RatingInvNext
<1>3. RatingInv => ScoreRoundTrip
  BY DEF RatingInv
<1> QED BY <1>1, <1>2, <1>3, RepInvariance, PTL DEF RepSpec
=============================================================================
