# TLA+ models of Dispatch

Dispatch is a compute network: clients commit jobs to a coordinator over HTTP,
worker programs hold a WebSocket to the coordinator and execute the jobs, and
workers are paid in BOLT and rated through ERC-8004. This directory models the
coordinator (`apps/coordinator-core`), what the two chain coordinators write to
and read from their chains, the worker programs, the mobile app and the client
SDK, checks the models with TLC and proves, for every size of the system, the main
results about the coordinator, its reputations, its payout queue on both chains and
the mobile app with TLAPS.

    tlc -workers 4 -config MCHub.cfg MCCoordinator     # a model-checking run
    tlapm CoordinatorProofs.tla                        # the proofs of a module

## 1. Inventory

| Part | State | Operations | What is hard about it |
|---|---|---|---|
| WorkerHub (`ws/workerHub.ts`) | the Map of tracked workers, one closure variable per socket | register, heartbeat, job_complete, job_reject, receipt_submit, close, prune timer, claimWorker, assignJob | reconnects leave two entries of one pubkey; late answers; messages dropped on closing or half-open sockets |
| Job routes (`routes/jobs.ts`) | table `jobs`, one interval per waiting job | commit, retry firing, poll | commits and retries competing for a worker; loops that outlive their job, jobs that outlive their loop |
| Trust routes (`routes/trust.ts`) | table `trust_pairings` | create, claim, list | pairings that change while PRIVATE jobs are matched |
| Demo mode (`server.ts`) | a flag and a timeout | start, stop, tick | jobs that bypass the database but share the workers |
| Process (`server.ts`) | everything but the database is in memory | start, crash | nothing is rebuilt at start-up |
| BOLT settlement (`bolt/BoltDistributor.ts`) | pending payouts, running settlements, a flag | queuePayout, periodic sweep, settleWorker | awaits between taking a batch and knowing its fate; transfers that land although the call failed |
| Wrapped BOLT settlement (`bolt/WrappedBoltDistributor.ts`) | the same, and a balance per worker | the same, with mints | the same; tokens on chain, balances in memory |
| Transaction queue and feedback (`coordinator-solana`, `coordinator-monad`) | a promise chain, calls under way | queueMonadTx, postFeedback with retries | a write that fails must hand its turn on; feedback posted twice |
| Reputation (`erc8004`, chain coordinators) | two registries, the agent to rate, scores in the hub | register, scan, giveFeedback, getReputationScore, readStakeLevel | the registry changes while it is scanned; decimals, averages, ranges; scores that come back late |
| Worker programs (desktop, CLI, simulator, Android) | a socket, jobs under way, a key file | dial, register, pair, listen, execute, answer, exit | jobs assigned before the program listens; exits while a job runs; a key file replaced under a running program |
| Mobile app (`mobile/seeker-solana`) | connection service, timers, two signing providers, counters, storage | every button that changes the connection, socket events, job_assign, notifications, kill and restart | connect and disconnect overlapping across awaits, two sockets, answers on a new socket, storage behind memory |
| Clients (`compute-router`, CLI) | a run, its job, its payment | quote, commit, pay, poll, time out, fall back | any request may fail; the deadline races the job |
| Prices and policies (`protocol`, `x402.ts`, `routes/quote.ts`) | none | resolvePolicy, getPrice | one table read in three places |
| Task executors (five copies) | none | summarize, classify, extract_json | copies that drift apart |
| BOLT libraries and receipt anchoring | records on chain | settleBolt, swap, distribute, anchor | rounding; repeated anchors |
| Dashboards, docs, landing page, demo client, scripts | none of interest | read only | presentation, not modelled |

`PROJECT.json` lists every component with its status, and every hazard at its line.

## 2. Modules

| Module | What it models |
|---|---|
| `CoordinatorState` | constants and their assumptions, variables, record types, `Init` |
| `WorkerHub` | `ws/workerHub.ts`: one action per message, socket event and timer |
| `JobRoutes`, `TrustRoutes`, `DemoMode` | `routes/jobs.ts`, `routes/trust.ts`, the demo mode of `server.ts` |
| `Coordinator` | the composition with crashes, fairness, properties, the inductive invariant, the mapping to `JobLifecycle` |
| `JobLifecycle` | abstract specification: the life of a job as its user and its worker see it |
| `DocClaims`, `HeartbeatHistory` | statements of the documents that the code does not keep; a history variable for one of them |
| `Reputation` | `Coordinator` with the ERC-8004 registries and the chain coordinator that reads and writes them |
| `Settlement` | `bolt/BoltDistributor.ts` with the chain as it may behave |
| `MonadChain` | `Settlement` as `WrappedBoltDistributor.ts` does it, and `postFeedback`, both through `queueMonadTx` |
| `ChainLibraries` | `bolt-settlement.ts` and `packages/bolt`, one step per settlement; the receipt anchorer with its two contracts, one step per anchoring call |
| `MobileLink` | connection, signing providers and screens of the mobile app |
| `MobileJobs` | `MobileLink` with jobs, counters, history and storage |
| `TaskExecutors` | the copies of `executeTask`, as operators on an abstract text |
| `WorkerPrograms` | desktop, CLI, simulator and Android worker |
| `AgentClient` | `dispatch agent run`, `ComputeRouter` and `DecentralizedAdapter`, quotes and prices |
| `EndToEnd` | clients and worker programs around `JobLifecycle` and the hub's end of their connections |
| `MCCoordinator`, `MCHeartbeat`, `MCReputation`, `MCSettlement`, `MCMobileJobs`, `MCEndToEnd` | values for the constants |
| `HubProofs`, `CoordinatorProofs`, `RecordProofs`, `SettlementProofs`, `ChainProofs`, `MobileProofs`, `ProgramProofs`, `EndToEndProofs` | the proofs |

How they are composed: `Reputation` extends `Coordinator`, and its registration,
look-ups and completions are the hub's own actions with the registries added.
`MonadChain` extends `Settlement`: each of its steps is one of `Settlement` with a
turn in the transaction queue. `MobileJobs` extends `MobileLink`. `EndToEnd` puts
`AgentClient` and `WorkerPrograms` around what `JobLifecycle` promises of a job,
together with the hub's end of each connection; that `Coordinator` keeps that
promise, with reconnects and crashes, is proved in `CoordinatorProofs`.
`MCSettlement` puts three things with no state in common side by side: `MonadChain`, the
instance `Solana` of `Settlement` for a coordinator that pays there, and `ChainLibraries`. It
interleaves nothing: a behaviour is one of the three.

Settlement meets the hub only in `queuePayout`. That the hub calls it once per
completed job, for the right worker, is proved in `CoordinatorProofs` (`PaidOnce`)
and is what `Settlement` and `MonadChain` assume of their caller
(`owed[j] = NoOne` in the guard of `queuePayout`).

### State and code

* The coordinator is one Node event loop over a synchronous SQLite database
  (`better-sqlite3`), so a handler or timer callback is one step. Where the code
  awaits (the look-ups of `handleRegister`, all of `settleWorker`, `postFeedback`,
  the scan for an agent) the step ends and other steps come between. The same holds
  for the mobile app and the worker programs: a step is what runs between two awaits.
* `workers` is the Map. Ids are numbers in registration order, because the
  look-ups by pubkey and by job return the first entry in insertion order.
  Pubkey, provider type and capabilities of an entry follow from its socket.
* `age` is the age of `lastHeartbeat` in periods of the prune timer (10 s). The
  score of a worker is scaled by 20 to stay an integer; as a heartbeat is only
  known to within a period, `Claimable` holds every worker that can come out best.
* `readyState` and `workerId` are the coordinator's end of a socket; `peer` says
  whether the other end is reachable, so a half-open connection is
  `readyState = "open"` with `peer = FALSE`.
* `unanswered` is the jobs a worker program has received. A program that loses
  its connection exits, or keeps its jobs and answers on its next connection: the
  desktop worker and the simulator do the first, the mobile worker the second.
  This is also how answers arrive after a restart of the coordinator. A program may also
  drop a job while it is connected (`JobDropped`): job_assign came before its listener,
  or the mobile worker could not sign.
* A receipt is what it names (job, provider) and who signed it. `receipts` has the rows;
  `answer` is the job whose job_complete brought it, `None` for receipt_submit. The row's
  `job_id` is a foreign key, so a receipt for an unknown job rolls the completion back.
* `payouts` and `feedback` record the calls of `queuePayout` and `postFeedback`;
  `offers`, `orphaned`, `transfers`, `owed` and `lost` are history.
* A crash keeps the database and loses everything else; jobs open at that moment
  are `orphaned`, because no start-up code takes them up again.
* In `Settlement` a settlement is `preparing`, `sent` or `landed`; a transfer whose
  sender gave up is in `late` and may still be executed. Amounts are counted in the
  fixed reward per job. In `MonadChain` a mint that was sent does not revert; `chain`
  holds the writes that wait for one another and `tail` the promise a new one waits for.
* In `ChainLibraries` a transaction is lost, executed without a confirmation in time, or
  confirmed: the second leaves its record although the caller gets no signature.
* In `MobileLink` `conn` has all sockets, also those the service no longer refers to:
  their handlers still run. `calls` has the `connect()` calls that are suspended,
  one per place they come from. The reconnect timer has its handle (`held`), and
  `loose` counts timers whose handle was overwritten. `raced` remembers that calls
  overlapped, `rekeyed` that the signing mode changed under a connection: what the
  app promises then is weaker, and the properties say so.
* In `MobileJobs` `shared` says that the context and the service hold one history
  array, as they do after a restart; `stored` is AsyncStorage, which lags behind.
* In `EndToEnd` a program is `registered` before it is `listening`; a job_assign that
  comes in between is lost, and its job is `unheard`.
* A text is what the executors look at: the lexicon words in it, its length class,
  its word count and its brace-delimited blocks.

Operators with a suffix (`freeWorker_KeepsJob`, `Requeued_Overwrites`, ...) are
faulty variants of the operator after them. Nothing uses them; replacing the
operator by its variant makes the property `PROJECT.json` names for it fail, which
shows that the property depends on that code.

## 3. Runs

| Run | Instance | Shows |
|---|---|---|
| `hub` | one worker with two sockets, 2 jobs that compete for it, 2 registrations, 1 crash | `NoDoubleBooking`, `OpenJobsAttended`, `PaidOncePerCompletion`, `TerminalIsFinal`, `RemovedFreesJob`; `LifecycleSpec`: the refinement of `JobLifecycle`; `JobsEnd` |
| `routes` | two workers, two users, a pairing code, a PRIVATE and a demo job, receipts that name and are signed by either worker, 1 crash | `PrivateOnlyTrusted`, `ReceiptsMatchJobs`, `AnswerFreesItsSender`; the inductive invariant `IndInv`, which has the types, `OfferedOnce`, `DemoPaidOnce` and `SingleDemoChain` in it |
| `reputation` | two workers of different type, one job, either chain coordinator, up to 2 agents, one rating by somebody else, or 1 restart | `RankRespected`, `ReputationIsOwn`, `NeverRatesItself`, `ScoreRoundTrip` |
| `settlement` | on Solana two workers, two jobs, 3 attempts, 2 crashes; or on Monad one worker, two jobs, batches of two, 2 attempts each, 1 crash; or quotes up to 200; or 2 anchoring calls | `Accounted`, `AllPayoutsDecided`; `PayoutsKept`: the inductive invariant `PayoutInv` on both chains, which has the types, `SettledWasPaid` and `OneSweep` in it and gives `AmountsMatch`; on Monad `SerialWrites`, `CreditedOnce`, `Solvent`, `FeedbackCopies`, `FeedbackDecided`; `BoltSplitExact`, `FirstAnchorStays` |
| `mobile_link` | two sockets, four places that connect, a good and a bad URL, two keys and a wallet | `OneConnection`, `OffMeansOff`, `StatusIsTrue`, `DialsAgain`, `AttemptEnds` |
| `mobile_jobs` | one socket at a time, two jobs, two keys and a wallet, 1 kill | `TypeOK`, `ReceiptVerifies`, `DroppedOnlyIfClosed`, `EarnedOncePerJob` |
| `e2e` | a desktop and a paired CLI worker with one key file, or one program of another kind; four kinds of run; with and without payments | `ChargedAsQuoted`, `ReceiptsVerify`, `AnswerIsTheJobs`, `ExecutorsAgree`, `RunEnds`, `JobsSettle` |

Every property has a comment in its module that states it. Runs that end in a
violation, each of something the repository says:

| Run | Said | What the code does |
|---|---|---|
| `stranded` | poll until `completed` or `failed` | a rejected job is `pending` for ever: its retry loop is over |
| `heartbeat` | workers that miss heartbeats are pruned | heartbeats refresh the first entry with the pubkey, so a reconnected worker is pruned although it sends them |
| `double_settlement` | the batch is removed "to prevent double-settlement" | a transfer that lands unconfirmed is sent again |
| `failed_rated` | "Failed jobs trigger negative ERC-8004 feedback" (`litepaper-full.md:412`) | `handleDisconnect`, through which jobs with a worker fail, does not call `postFeedback` |
| `task_either` | "The coordinator does not prefer desktop over seeker for TASK jobs" (`worker-types.mdx:120`) | `workerScore` gives the desktop ten points for FAST, whatever the type of the job |

`PaidOncePerCompletion`, `RankRespected` and `ScoreRoundTrip` keep clear of the last two: a
failed job may be rated or not but never as a success; `RankRespected` speaks of the
device type only where documents and code agree (a FAST LLM_INFER, a CHEAP TASK) and
compares stake tiers among workers with the same points for their device; and
`ScoreRoundTrip` holds of any ratings, not of the 80 that is all the code posts.

### Bounds

`MaxRegistrations`, `MaxCrashes`, `MaxKills`, `MaxKeys`, `MaxAgents`, `MaxOthers` and
the sets of sockets, jobs, runs and codes are bounds. Two sockets of one worker are
what a reconnect needs; two workers what a wrong credit or a competition needs; two
jobs what a double booking or a merge needs; two registrations are a socket that registers
twice, or two sockets. One crash is enough where it leads back to an empty
process with a used database. The prune timeout is one period (none in `routes`, where
a worker is pruned by the first firing or not at all) except in `heartbeat`, which
depends on its real length of three. `MaxAttempts` is 2 instead of 15 where the loop
matters, so that it has a firing that goes on and one that gives up, and 1 elsewhere.
`MaxRetries` is the code's 3 on Solana and 2 on Monad, `JOBS_THRESHOLD` the code's 1 on
Solana, and 2 instead of 5 on Monad, so that a batch has one job or two.
`FeedbackAttempts` is 2 instead of 3 for the same reason. `HistoryMax` is 1 instead of
50, so that the history overflows. `MaxScan` is 1 instead of 30: the scan then ends at
an agent, at a gap or at its limit.

Three runs restrict which of their cases are combined (`Scenario`): in `reputation` a
rating by somebody else comes without a restart; in `mobile_jobs` a second job, a second
device key and the wallet come one at a time; in `e2e` two programs at once are tried
with the PRIVATE prompt, without payments. These and `hub` were also run without error with more
combined: the safety part of `hub` with three registrations (0.28 million states up to
symmetry), `reputation` without the restriction (0.8 million states), `mobile_jobs` with
the second key beside the second job and beside the wallet (4.2 million), the safety
part of `e2e` without the restriction (13.1 million). The results of section 4 do not depend on any bound.

### Fairness

* `JobsEnd` assumes that the prune and retry intervals fire (`setInterval`), that a
  socket being closed gets its close event (`ws` destroys it after a timeout), and that
  a connected worker program does not keep a job it has for ever (`WorkersAnswer`):
  desktop, CLI, simulator and mobile worker execute in a try block and answer after it, or
  drop the job. Nothing is assumed of a program that dropped its job. `JobsEnd` excepts
  rejected jobs (run `stranded`), jobs open at a crash, and jobs whose worker from some
  moment on is connected without having them (`Forgotten`): no deadline ends these.
* `AllPayoutsDecided` assumes that the settlement interval fires and that every chain
  call returns or throws (`sendAndConfirmTransaction` gives up when its block height
  has passed). Whether transfers land is left open.
* `FeedbackDecided` assumes that timers fire and that a write that has its turn
  returns or throws: `waitForTransactionReceipt` has a timeout.
* `DialsAgain` and `AttemptEnds` assume that `setTimeout` callbacks run, that a dial or
  a close ends one way or the other, and that the coordinator acknowledges a
  registration. Nothing is assumed of the user, of wallets or of how long sockets live.
* `RunEnds` and `JobsSettle` assume that requests are answered or time out, that the
  retry interval fires, that programs run their callbacks and that the hub handles what
  it receives. Programs may exit and connections break at any moment.

Properties of the form `[]<>(started => ended)` say that nothing stays open for ever; what
has ended does not open again.

Heartbeats, reconnects, clients, users and crashes are never fair. `CHECK_DEADLOCK FALSE`
where the system really stops: all payouts decided, all runs over.

## 4. Proofs

All theorems are for every value of the constants that satisfies the assumptions named
in the modules (types of functions, `None` different from every value, bounds natural
numbers, and the ones mentioned below).

Of the inductive invariants, `IndInv` and `PayoutInv` are invariants of the runs `routes`
and `settlement`. `RepInv` and `RatingInv`, `MonadInv`, `LinkInv`, `JobsInv`
and `EndToEndInv` hold on the instances of `reputation`, `settlement`, `mobile_link`,
`mobile_jobs` and `e2e`: add them to the .cfg to have TLC check them. Every invariant and
action property of the passing runs is proved; what is left to TLC is at the end of the
section.

The modules open with `USE Zenon`: most leaves are first-order and Zenon proves them; a leaf
that needs arithmetic, sequences or records names SMT.

### The coordinator

`CoordinatorProofs` proves, for any number of workers, sockets, jobs, users, codes,
registrations and crashes, committed and demo job ids being disjoint:

| Theorem | Statement |
|---|---|
| `Invariance` | `Spec => []IndInv` |
| `TypeCorrect`, `NeverDoubleBooked`, `AllOpenJobsAttended`, `NeverOfferedTwice`, `PaidOnce`, `PrivacyKept`, `AnswersFreeTheirSender`, `OneDemoChain` | its main conjuncts |
| `RankIsRespected` | `RankRespected`, if the heartbeat timeout is at most four prune periods (the code: three) |
| `TerminalFinal`, `RemovalFreesJob` | the two action properties |
| `Refinement` | `Spec => LifecycleSpec` |

`IndInv` is the conjunction of those invariants and four facts they need:

* `IdsInOrder`: ids not handed out have no entry, so registering overwrites none.
* `OffersMatchRows`: a job without a row was never offered or orphaned, a pending
  one names no worker, an assigned or completed one was offered once. Without it
  a match could be a second offer.
* `DemoFresh`: a demo id not drawn yet has no holder, offer or payout.
* `AnsweredIfOffered`: a program has only jobs that were offered. With
  `OfferedOnce` it gives `AnswerFreesItsSender`: a job about to be offered is in
  nobody's hands, so whoever answers it later got it through that one offer.

There is one lemma per action: `HubProofs` has the initial state, the steps that
answer no job (among them the commit route, its retry loop and demo mode, which offer
one) and crashes, `CoordinatorProofs` job_complete and job_reject and the theorems. The lemmas share four others: steps that keep all holders
(`SameHoldersInv`), entries leaving (`DisconnectInv`, for a close and for the prune
timer), a first offer (`AssignJob`, `FirstOffer`), and an answer (`AnsweredInv`).
The second half of `CoordinatorProofs` first lists what a step may do to the rows
(`RowChange`: kept, committed, assigned, given up, completed, rejected, or several
lost together) and shows every action to be one of these (`RowStep`); finality and
the refinement both follow from the list.

### Receipts and reputation

`RecordProofs` proves:

| Theorem | Statement |
|---|---|
| `ReceiptsAreTheWorkers` | `Spec => []ReceiptsMatchJobs` |
| `ReputationRefines` | `RepSpec => Spec`: so every theorem about `Coordinator` holds with the registries |
| `RepInvariance` | `RepSpec => [](IndInv /\ RepInv)` |
| `ReputationsAreOwn`, `NoSelfRating` | `ReputationIsOwn`, `NeverRatesItself` |
| `ScoresComeBack` | `RepSpec => []ScoreRoundTrip` |

`ReceiptsMatchJobs` needs `IndInv`: the entry that `handleJobComplete` finds by job id is
one of the row's worker (`NoDoubleBooking`), so the key the signature is checked with is the
one the row names and the payout goes to; a completed row never changes again
(`TerminalKept`), so the mark on the receipt stays right. It says nothing of the
job and provider a receipt names, which are stored as they come.
`RepInv` adds to the two properties that the agent the Solana coordinator rates, found
or still being scanned for, is registered to somebody else (`Foreign`): agents are only
added, so what the scan has seen stays true. `ReputationAssumption` says that `Scores` is
0..100 and `Tiers` the tiers of the protocol, which is what the two look-ups return
(`ReadsAllowed`), and that pubkeys are no agent ids.

`ScoreRoundTrip` needs `RatingInv`: the registry is finite, its values are integers, and a
score was read from the agent that is still the one to rate. The average is a fold over a
set of entries of any values. Its recursion has one solution (`RatingsAddUp`), which lies
between the number of entries times the lowest and times the highest of them
(`TotalBetween`), so the average lies between these two (`SummaryBetween`), and so does what
`getReputationScore` makes of it, without decimals and cut off at 0 and 100 (`ScoreBetween`).
Later entries only widen the bounds (`ScoreStays`).

### Settlement

`SettlementProofs` proves, for any workers, any finite set of jobs, any threshold and
number of retries, and any number of settlements under way at once:

| Theorem | Statement |
|---|---|
| `PayoutInvariant` | `Spec => []PayoutInv` |
| `PayoutsAccounted` | a queued payout is in one place, for its worker, or decided, or lost in a crash |
| `PayoutAmounts` | the amount of a batch is that of its jobs |
| `SettledJobsPaid` | what is reported as settled was transferred |
| `SweepsAlone` | one sweep at a time, and the flag is set exactly while it runs |

`PayoutInv` says that batches hold different jobs (also those of two settlements of
one worker), are for one worker and exact, that a landed settlement has paid, and that
each job's verdict fits the place of its payout. A step of `settleAll` takes a batch
back and then visits the next worker, so the invariant is stated of a Map `p` and a set
`r` of calls: `FailKeeps` and `ConfirmKeeps` establish it of the Map in between, and
`VisitKeeps` carries it over the rest of the step.

### The chains

`SettlementProofs` (its second half) and `ChainProofs` prove, for any finite set of workers
and any number of jobs, attempts and crashes:

| Theorem | Statement |
|---|---|
| `MonadImplementsSettlement` | every step of `MonadChain` is one of `Settlement`, or leaves its state alone; so `PayoutInv` and what follows from it hold there |
| `MonadInvariant` | `MonadSpec => [](PayoutInv /\ MonadInv)` |
| `WritesAreSerial`, `BalancesCountSettledJobs`, `FeedbackIsBounded` | `SerialWrites`, `CreditedOnce`, `FeedbackCopies` |
| `CustodySolvent` | `Solvent` |
| `AnchorsStay`, `SplitsExact` | `FirstAnchorStays` after any number of anchoring calls, `BoltSplitExact` for every quote |

The promise chain is a set of entries that name the write each one waits for. Its
invariant, `Chained`, says that this is one line without a circle that ends at `tail`;
`QueueInv` says which writes are in it: one for each settlement that waits or was sent
and one for each feedback call. At most one entry waits for nothing, and only it may have
been sent, hence `SerialWrites`. `SettlementProofs` has the queue and the mints, `ChainProofs`
feedback, crashes and the theorems.

`Solvent` compares two sums, the balances and the mints. In between is the number of settled
jobs: a balance is at most that of its worker's (`BalancesBacked`, which a crash does not
disturb, as `CreditedOnce` would be), and a settled job was minted for at least once
(`SettledWasPaid`). The two lemmas `SumAtMost` and `SumAtLeast` rest on the fact that the
recursion behind `SumFunction` has a solution (`SumsExist`); each is shown by taking a
smallest set for which it fails.

`AnchorInv` ties the accounts, the signatures and the ledger to the calls made so far: an
account holds the first executed call that was sound for its job, also if that call was
never confirmed, and a call that returned a signature is the one its account holds.

### The mobile app

`MobileProofs` proves, for any number of sockets, keys, jobs and kills, any URLs and any
set of places that call `connect()`:

| Theorem | Statement |
|---|---|
| `LinkInvariance` | `LinkSpec => []LinkInv` |
| `OneLink`, `StaysOff`, `StatusTells` | `OneConnection`, `OffMeansOff`, `StatusIsTrue` |
| `JobsInvariance` | `Spec => []JobsInv` |
| `MobileTypes`, `AnswersVerify`, `NoAnswerLost`, `EarnedOnce` | `TypeOK`, `ReceiptVerifies`, `DroppedOnlyIfClosed`, `EarnedOncePerJob` |

As long as calls have not overlapped, `LinkInv` says (`Sound`) that `ws` is the only
socket with live handlers, that a suspended `connect()`, a dial and an armed timer
exclude each other, and that the key the worker registers with is the provider's; the
status tells which of these is the case, and a worker shown as connected has an open
socket that is registered under the key of its heartbeats. Overlapping calls set `raced`, and
then only the types and the weaker half of `StatusIsTrue` remain: a heartbeat and, for
"reconnecting", a timer. `JobsInv` adds that a job whose socket is still there
came in on the socket that is open and acknowledged, for the provider in use
(`SoundJob`); so when its receipt is signed, `ws` is that socket and the key is the one it
is registered under. For `EarnedOncePerJob` it adds that storage never has more than memory.

### End to end

`ProgramProofs` and `EndToEndProofs` prove, for any number of runs with any options and
payloads, any fleet of worker programs and any number of key pairs:

| Theorem | Statement |
|---|---|
| `EndToEndInvariant` | `Spec => []EndToEndInv` |
| `ChargesAsQuoted`, `StoredReceiptsVerify`, `RunsReturnTheirJobs`, `ProgramsAgree` | `ChargedAsQuoted`, `ReceiptsVerify`, `AnswerIsTheJobs`, `ExecutorsAgree` |
| `EndToEndLifecycle` | `Spec => Lifecycle!Spec`: the coordinator of `EndToEnd` does what `JobLifecycle` allows |

`EndToEndInv` says of each run (`RunOk`) which stages follow a quote, a payment and a
commit, and what was quoted and charged by then; of each job (`JobOk`) that a result is one
of the answers some copy of the executor gives to its payload (`Answers`); and of each
program (`WorkerOk`) what may be under way on its connection. The last is what the four
properties need: a register message is alone on its connection, so the key in the hub's
entry is the program's as long as the socket is open; and whatever waits in an inbox, in an
outbox or in the program belongs to a job that was offered and that no other worker's entry
holds (`Mine`), with an answer to its payload, signed by that key or by none. So an answer
that is accepted is one for the job in the row, and its receipt verifies.
`ProgramProofs` shows first that the copies of the task executor agree on common texts, then
has one lemma per step of the clients and programs; `EndToEndProofs` has those of the
coordinator and the theorems. `EndToEndAssumption` says that `None` is no run,
`OptionsAssumption` that the SDK's types leave it two job types.

### Only model-checked

* The liveness properties (`JobsEnd`, `AllPayoutsDecided`, `FeedbackDecided`, `DialsAgain`,
  `AttemptEnds`, `RunEnds`, `JobsSettle`): fairness and ENABLED are out of the prover's reach.
* The properties of the five runs that end in a violation, which do not hold.

## 5. Observations

What the models made visible and no run asks about, because nothing in the repository
says otherwise or the difference needs no model to see.

Coordinator and settlement:

* An assigned job has no deadline: while its worker sends heartbeats and does not answer
  it stays assigned, though `job-lifecycle.mdx:78` lists a timeout. The mobile worker
  sends no answer when signing fails (`JobDropped`).
* A failed batch that is merged into one queued meanwhile takes over that one's
  `retryCount`, so its jobs may be tried more than three times.
* A worker error is listed as a reason for `failed` (`job-lifecycle.mdx:77`), but
  `handleJobComplete` stores every answer as `completed`.
* A receipt sent with an answer is stored for whatever job it names; one sent with
  receipt_submit is checked with the key it names itself.
* The custodial balances of `WrappedBoltDistributor` do not survive a restart.

Reputation:

* The Solana coordinator rates and reads one discovered agent for every worker; the
  Monad coordinator rates ids derived from pubkeys, which nobody registers. As only
  successes are posted, a score is 80 unless others rate.
* `readStakeLevel` gives a hex pubkey to a base58 parser, so hub workers are always OPEN.
* `giveFeedback` does not look at the status of its receipt; a failing `ownerOf` call
  ends the scan like a gap; `ERC8004_AGENT_ID`, which `find-agent.ts` prints, is not read.

Worker programs and clients:

* A job_assign right behind register_ack finds no listener in the desktop and CLI
  workers, longer so with a pairing code (`unheard`, excepted by `JobsSettle`).
* `dispatch init` replaces `worker-key.json` and the configuration in the working directory.
* x402 charges the FAST LLM price on `/fast` and the CHEAP TASK price on `/cheap`; the
  quote follows the job type. They agree under AUTO and differ for FAST tasks and CHEAP
  prompts.
* `ComputeRouter` swallows the decentralized error, so most branches of `mapRunError`
  are unreachable; PRIVATE jobs fall back to hosted providers as well.
* The simulator's and the Android worker's lexicons are shorter than the desktop's.

Mobile app:

* `disconnect()` while `connect()` is suspended is followed by a dial; sockets left
  behind by overlapping calls survive `disconnect()`.
* Two `getOrCreateKeypair` calls at once may make two keys.
* After a restart the first job appears twice in the history, and `jobsCompleted`
  counts a job again with each feedback or payment message. Earnings are not affected.
* The comment "If already connected, disconnects first." (`WebSocketService.ts:143`)
  is not what `connect()` does: it returns.

Libraries: `settleBolt`, `swapUsdcToBolt`, `distributeBolt` and `anchorReceipt` have no
callers. The hub's job ids (36 characters) are longer than a Solana seed (32 bytes), so
`anchorReceipt` could not anchor them, though `lib.rs:47` speaks of 64 characters:
`SoundFor` in `FirstAnchorStays` takes the shorter limit, the one that counts. A
transaction that is executed but not confirmed leaves a record whose caller was told null.

## 6. Not modelled

* Dashboards, health, docs and landing pages, layout and animations of the screens,
  onboarding, the demo client and one-off scripts: they change no state that another
  part reads.
* The x402 middleware, Solana and EVM clients, wallets, secure storage: libraries,
  modelled where the code meets them.
* Texts of prompts, logs and messages; what a language model answers.
* `setAgentURI`, transfers of agents, the parsing of event logs in `registerAgent`: no
  caller in the coordinators, or decided by contracts that are not in the repository.
* The hub in full inside `EndToEnd`: there the coordinator is what `JobLifecycle`
  promises, which `Refinement` shows `Coordinator` to keep.
