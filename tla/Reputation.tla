----------------------------- MODULE Reputation -----------------------------
(***************************************************************************)
(* A coordinator with its ERC-8004 configuration: where the reputation     *)
(* scores and stake tiers that rank the workers come from, and where the   *)
(* feedback for their jobs goes (erc8004 and stakeConfig of                *)
(* coordinator-monad and coordinator-solana, packages/erc8004).            *)
(*                                                                         *)
(* On Monad a worker's agent id is a hash of its pubkey.  The Solana       *)
(* coordinator looks for one agent when it starts, the first that is not   *)
(* its own, and rates and reads that one for every worker.                 *)
(*                                                                         *)
(* The two registries are contracts outside the repository.  Agent ids are *)
(* handed out in order from 0; an entry on an agent of the coordinator     *)
(* itself is refused (comment at coordinator-solana/src/index.ts:20).      *)
(* What happens to agents that the running coordinator neither rates nor   *)
(* reads is left out: on Monad those with an id from the registry, on      *)
(* Solana those of a pubkey.                                               *)
(***************************************************************************)
EXTENDS Coordinator

CONSTANTS
    Self,           \* the coordinator's account
    Others,         \* other accounts that register agents
    Base58Keys,     \* pubkeys that are base58 strings; the repository's are hex
    Balances,       \* BOLT balances an account may have when it is read
    OtherValues,    \* what other clients of the registry may enter
    MaxOthers,      \* bound: ratings that are not for a job
    InitialOwners,  \* of the agents registered so far
    MaxAgents,      \* bound: agents registered
    MaxScan         \* the last id discoverTargetAgent tries (30)

ASSUME ReputationAssumption ==
    /\ Base58Keys \subseteq Pubkeys
    /\ Balances \subseteq Nat /\ OtherValues \subseteq Int
    /\ MaxAgents \in Nat /\ MaxScan \in Nat /\ MaxOthers \in Nat
    /\ Self \notin Others /\ InitialOwners \in Seq(Others \cup {Self})
    /\ Scores = 0..100 /\ Tiers = StakeTier
    /\ Pubkeys \cap Nat = {}

VARIABLES
    coordinator,  \* "monad" or "solana": which one runs
    owners,       \* identity registry: the owner of agent i is owners[i + 1]
    scan,         \* discoverTargetAgent: the id it tries next
    agentId,      \* what it returned
    inFlight,     \* entries of giveFeedback calls that are not mined
    entries       \* reputation registry

registryVars == <<owners, inFlight, entries>>
startVars    == <<coordinator, scan, agentId>>
repVars      == <<vars, registryVars, startVars>>

Agents   == 0..(MaxAgents - 1)
AgentIds == Agents \cup Pubkeys
Entry    == [agent: AgentIds, job: AnyJob \cup {None}, value: Int]

Minted(i) == i < Len(owners)
ownerOf(i) == owners[i + 1]

RepInit ==
    /\ Init
    /\ coordinator \in {"monad", "solana"}
    /\ owners = InitialOwners
    /\ scan = 0 /\ agentId = None
    /\ inFlight = {} /\ entries = {}

(***************************************************************************)
(* Start-up.  The server is created after discoverTargetAgent returned; if *)
(* it throws the process ends, and whoever runs it starts it again.        *)
(***************************************************************************)
Started == coordinator = "solana" => agentId # None

\* Faulty variant: addresses are compared with their checksum capitals.
discoverTargetAgent_CaseSensitive ==
    /\ ~Started
    /\ IF scan <= MaxScan /\ Minted(scan)
       THEN agentId' = scan /\ scan' = scan
       ELSE scan' = 0 /\ UNCHANGED agentId

\* One ownerOf call.  The first id that is not minted ends the loop, and so
\* does a call that fails.
discoverTargetAgent ==
    /\ ~Started
    /\ \/ /\ scan <= MaxScan /\ Minted(scan)
          /\ IF ownerOf(scan) # Self THEN agentId' = scan /\ scan' = scan
             ELSE scan' = scan + 1 /\ UNCHANGED agentId
       \/ scan' = 0 /\ UNCHANGED agentId

TargetScanned ==
    /\ discoverTargetAgent
    /\ UNCHANGED <<vars, registryVars, coordinator>>

(***************************************************************************)
(* Feedback.  Scores are stored with two decimals.                         *)
(***************************************************************************)
\* Faulty variant: the mask leaves no bit that tells two workers apart.
pubkeyToAgentId_Masked(pk) == CHOOSE k \in Pubkeys : TRUE

\* keccak256 of the pubkey: different for different workers.
pubkeyToAgentId(pk) == pk

buildJobFeedback(agent, score, j) == [agent |-> agent, job |-> j, value |-> score * 100]

monad_postFeedback(pk, j, success) ==
    buildJobFeedback(pubkeyToAgentId(pk), IF success THEN 80 ELSE 20, j)

\* Its further attempts are in MonadChain.
solana_postFeedback(pk, j, success) ==
    buildJobFeedback(agentId, IF success THEN 80 ELSE 20, j)

postFeedback(pk, j, success) ==
    IF coordinator = "monad" THEN monad_postFeedback(pk, j, success)
    ELSE solana_postFeedback(pk, j, success)

\* The call made last.
Latest(made) == made[Len(made)]

\* The entries of the postFeedback calls the hub makes in this step.
NewFeedback ==
    {postFeedback(Latest(payouts'[j]), j, Latest(feedback'[j])) :
        j \in {k \in AnyJob : Len(feedback'[k]) > Len(feedback[k])}}

\* giveFeedback waits for a receipt; the transaction may have been reverted.
giveFeedback(e) ==
    /\ inFlight' = inFlight \ {e}
    /\ \/ /\ e.agent \in Agents => Minted(e.agent) /\ ownerOf(e.agent) # Self
          /\ entries' = entries \cup {e}
       \/ UNCHANGED entries
    /\ UNCHANGED <<vars, startVars, owners>>

(***************************************************************************)
(* What the hub reads when a worker registers                              *)
(***************************************************************************)
\* getSummary over all clients: count, average, decimals.
getReputationSummary(agent) ==
    LET mine == {e \in entries : e.agent = agent}
    IN  [count |-> Cardinality(mine),
         summaryValue |-> IF mine = {} THEN 0
                          ELSE MapThenSumSet(LAMBDA e : e.value, mine) \div Cardinality(mine)]

\* Math.min(100, Math.max(0, score))
Clamped(score) == IF score \in 0..100 THEN score ELSE IF score < 0 THEN 0 ELSE 100

\* Faulty variant: the decimals are ignored.
monad_getReputationScore_NoDecimals(pk) ==
    LET summary == getReputationSummary(pubkeyToAgentId(pk))
    IN  IF summary.count = 0 THEN None
        ELSE Clamped(summary.summaryValue)

monad_getReputationScore(pk) ==
    LET summary == getReputationSummary(pubkeyToAgentId(pk))
    IN  IF summary.count = 0 THEN None
        ELSE Clamped(summary.summaryValue \div 100)

solana_getReputationScore(pk) ==
    LET summary == getReputationSummary(agentId)
    IN  IF summary.count = 0 THEN None
        ELSE Clamped(summary.summaryValue \div 100)

getReputationScore(pk) ==
    IF coordinator = "monad" THEN monad_getReputationScore(pk) ELSE solana_getReputationScore(pk)

STAKE_REQUIREMENTS == [OPEN |-> 0, VERIFIED |-> 100, SENTINEL |-> 1000]

\* PublicKey throws unless the pubkey is base58, which makes the worker OPEN.
monad_readStakeLevel(pk, balance) ==
    CASE pk \notin Base58Keys -> "OPEN"
      [] balance >= STAKE_REQUIREMENTS.SENTINEL -> "SENTINEL"
      [] balance >= STAKE_REQUIREMENTS.VERIFIED -> "VERIFIED"
      [] OTHER -> "OPEN"

solana_readStakeLevel(pk, balance) ==
    CASE pk \notin Base58Keys -> "OPEN"
      [] balance >= STAKE_REQUIREMENTS.SENTINEL -> "SENTINEL"
      [] balance >= STAKE_REQUIREMENTS.VERIFIED -> "VERIFIED"
      [] OTHER -> "OPEN"

readStakeLevel(pk, balance) ==
    IF coordinator = "monad" THEN monad_readStakeLevel(pk, balance)
    ELSE solana_readStakeLevel(pk, balance)

HubReads(w) ==
    /\ w \in Online
    /\ \/ /\ getReputationScore(Pubkey(w)) # None
          /\ ReputationRead(w, getReputationScore(Pubkey(w)))
       \/ \E balance \in Balances : StakeRead(w, readStakeLevel(Pubkey(w), balance))
    /\ UNCHANGED <<registryVars, startVars>>

(***************************************************************************)
(* The coordinator's own steps                                             *)
(***************************************************************************)
ServerStep ==
    /\ Started
    /\ \/ \E s \in Sockets : SocketStep(s)
       \/ RouteStep
       \/ DemoStep
       \/ PruneTimer
    /\ inFlight' = inFlight \cup NewFeedback
    /\ UNCHANGED <<startVars, owners, entries>>

\* The registries and the transactions under way survive.
Restart ==
    /\ Started /\ Crash
    /\ scan' = 0 /\ agentId' = None
    /\ UNCHANGED <<registryVars, coordinator>>

(***************************************************************************)
(* Other users of the registries                                           *)
(***************************************************************************)
\* One that comes after the scan makes no difference: the agent the scan found
\* stays the first.
registerAgent(account) ==
    /\ ~Started /\ Len(owners) < MaxAgents
    /\ owners' = Append(owners, account)
    /\ UNCHANGED <<vars, startVars, inFlight, entries>>

\* "dispatch worker register" and scripts/register-worker.ts, for the account
\* whose key is in WORKER_PRIVATE_KEY.
cli_register(account)    == registerAgent(account)
script_register(account) == registerAgent(account)

MayRate == Started /\ Cardinality({e \in entries : e.job = None}) < MaxOthers

\* find-agent.ts tries a rating of 80 on the last foreign agent; it matters if
\* that is the first one too.
findAgent ==
    LET foreign == {i \in Agents : Minted(i) /\ ownerOf(i) # Self /\ i <= MaxScan}
    IN  /\ MayRate /\ foreign # {} /\ Max(foreign) = agentId
        /\ entries' = entries \cup {[agent |-> agentId, job |-> None, value |-> 8000]}
        /\ UNCHANGED <<vars, startVars, owners, inFlight>>

\* Anyone else may rate the agent of a worker.
OtherClient(pk, value) ==
    /\ MayRate
    /\ entries' = entries \cup {[agent |-> postFeedback(pk, None, TRUE).agent, job |-> None, value |-> value]}
    /\ UNCHANGED <<vars, startVars, owners, inFlight>>

RepNext ==
    \/ TargetScanned
    \/ ServerStep
    \/ \E w \in WorkerIds : HubReads(w)
    \/ Restart
    \/ \E e \in inFlight : giveFeedback(e)
    \/ \E account \in Others \cup {Self} : cli_register(account) \/ script_register(account)
    \/ findAgent
    \/ \E pk \in Pubkeys, value \in OtherValues : OtherClient(pk, value)

RepSpec == RepInit /\ [][RepNext]_repVars

-----------------------------------------------------------------------------
(* Properties *)

\* The Monad coordinator ranks a worker by what its own jobs earned: behind a
\* cached score there is an entry for that worker's agent, and an entry made
\* for a job is on the agent of the worker that was paid for it.
ReputationIsOwn ==
    coordinator = "monad" =>
        /\ \A w \in Online : workers[w].reputationScore # None
               => \E e \in entries : e.agent = pubkeyToAgentId(Pubkey(w))
        /\ \A e \in entries \cup inFlight :
               e.agent \in Pubkeys /\ e.job # None => payouts[e.job] = <<e.agent>>

\* discoverTargetAgent ("self-feedback is disallowed on ERC-8004"): whatever is
\* registered while it scans, and after restarts, the coordinator never sends a
\* rating of its own agents.
NeverRatesItself ==
    \A e \in inFlight : e.agent \in Agents => ownerOf(e.agent) # Self

\* The entries a worker is rated by.
RatedAgent(w) == postFeedback(Pubkey(w), None, TRUE).agent
Ratings(w)    == {e \in entries : e.agent = RatedAgent(w)}

\* An entry in points: without its two decimals, cut off at 0 and 100.
Points(e) == Clamped(e.value \div 100)

\* A score makes the way to the registry and back: whatever other clients enter
\* and whenever it was read, the score a worker is ranked by lies between the
\* lowest and the highest of its ratings.  So it is in 0..100, and if everybody
\* gave the same, it is what they gave.
ScoreRoundTrip ==
    \A w \in Online : workers[w].reputationScore # None =>
        \E lo, hi \in Ratings(w) :
            workers[w].reputationScore \in Points(lo)..Points(hi)

(***************************************************************************)
(* The inductive invariants: RepInv, behind ReputationIsOwn and            *)
(* NeverRatesItself, and RatingInv, behind ScoreRoundTrip                  *)
(***************************************************************************)
Foreign(i) == Minted(i) /\ ownerOf(i) # Self

RepInv ==
    /\ coordinator \in {"monad", "solana"} /\ scan \in Nat
    /\ owners \in Seq(Others \cup {Self})
    /\ agentId # None => agentId \in Nat /\ Foreign(agentId)
    /\ \A e \in inFlight : e.agent \in Agents => Foreign(e.agent)
    /\ \A e \in entries \cup inFlight : e.job \in AnyJob \cup {None}
    /\ ReputationIsOwn

\* The agent that is rated is the same as long as a worker is connected.
RatingInv ==
    /\ IsFiniteSet(entries)
    /\ \A e \in entries \cup inFlight : e.value \in Int
    /\ Online # {} => Started
    /\ ScoreRoundTrip
=============================================================================
