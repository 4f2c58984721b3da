---------------------------- MODULE AgentClient ----------------------------
(***************************************************************************)
(* The client side of Dispatch: the CLI's agent commands on top of the SDK *)
(* (compute-router): options and configuration are resolved, the job is    *)
(* quoted, committed, paid for and polled at a coordinator, and a hosted   *)
(* provider is tried if any of this fails.                                 *)
(*                                                                         *)
(* The steps are the answers to a run's requests.  What the coordinator    *)
(* does with the requests is in EndToEnd.                                  *)
(***************************************************************************)
EXTENDS Integers, Sequences

CONSTANTS
    Runs,        \* runs of "dispatch agent run" or of the SDK; each commits one job
    Options,     \* the command lines that are given
    Configs,     \* the configuration files there may be at the start
    Keys,        \* hosted providers whose API key is set
    Preferred    \* preferredHosted

Hosted == {"openai", "anthropic"}

ConfigFiles == {"forced", "cwd", "home"}

\* A configuration file is absent, not JSON, or known by its agent.defaultPolicy.
Policy      == {"AUTO", "FAST", "CHEAP"}
ConfigFile  == {"absent", "broken"} \cup Policy

ASSUME ClientAssumption ==
    /\ Keys \subseteq Hosted
    /\ Preferred \in Hosted
    /\ Configs \subseteq [ConfigFiles -> ConfigFile]

VARIABLES
    config,  \* [ConfigFiles -> ConfigFile]
    gated,   \* the coordinator asks for payment (TESTNET_MODE is not set)
    run      \* [Runs -> the state of the run]

clientVars == <<config, gated, run>>
clientEnv  == <<config, gated>>

NoOptions == [type |-> ""]

\* stage: where the run is.  opts: its options.  policy: the one it asks for.
\* quoted, charged: prices in tenths of a cent.  payments: x402 payments signed.
\* tries: hosted providers still to be tried.
NewRun == [stage |-> "off", opts |-> NoOptions, policy |-> "AUTO", quoted |-> 0,
           charged |-> 0, payments |-> 0, tries |-> <<>>, answer |-> <<>>, error |-> ""]

ClientInit ==
    /\ config \in Configs
    /\ gated \in BOOLEAN
    /\ run = [r \in Runs |-> NewRun]

(***************************************************************************)
(* Configuration: --config, the working directory, the home directory.     *)
(***************************************************************************)
\* A forced path that does not exist is not replaced by another one.
resolveConfigPath(forced) ==
    IF forced THEN "forced"
    ELSE IF config["cwd"] # "absent" THEN "cwd" ELSE "home"

\* "dispatch init" writes the file of the working directory, also if another
\* one is in use, with the default policy it is told.
initConfig ==
    /\ \E defaultPolicy \in Policy : config' = [config EXCEPT !["cwd"] = defaultPolicy]
    /\ UNCHANGED <<gated, run>>

(***************************************************************************)
(* Options.  A missing option is "", and is taken from the configuration   *)
(* or has a default.                                                       *)
(***************************************************************************)
mapJobType(type) ==
    CASE type \in {"llm", "llm_infer"} -> "LLM_INFER" [] type = "task" -> "TASK" [] OTHER -> ""

\* The SDK's types leave no other job type; the CLI checks its options.
ASSUME OptionsAssumption ==
    \A o \in Options : o.sdk \in BOOLEAN /\ (o.sdk => mapJobType(o.type) # "")

mapPolicy(policy) ==
    CASE policy \in {"fast", "FAST"} -> "FAST" [] policy \in {"cheap", "CHEAP"} -> "CHEAP"
      [] policy \in {"auto", "AUTO"} -> "AUTO" [] OTHER -> ""

\* The CLI takes a missing policy from its configuration; the SDK has a default.
requestedPolicy(o) ==
    mapPolicy(CASE o.policy # "" -> o.policy
                [] o.policy = "" /\ o.sdk -> "AUTO"
                [] OTHER -> config[resolveConfigPath(o.forced)])

mapPrivacy(privacy) ==
    CASE privacy \in {"public", ""} -> "PUBLIC" [] privacy = "private" -> "PRIVATE" [] OTHER -> ""

mapChain(chain) ==
    CASE chain \in {"monad", ""} -> "monad" [] chain = "solana" -> "solana" [] OTHER -> ""

mapTaskType(taskType) ==
    IF taskType \in {"summarize", "classify", "extract_json"} THEN taskType ELSE ""

\* The first complaint, or "".
validateAgentRunArgs(o) ==
    IF o.type = "task" /\ o.prompt THEN "PROMPT_FOR_TASK"
    ELSE IF o.type = "llm" /\ o.input # <<>> THEN "INPUT_FOR_LLM"
    ELSE IF o.type = "task" /\ o.taskType = "" THEN "TASK_TYPE_REQUIRED"
    ELSE IF o.type = "llm" /\ ~o.prompt THEN "PROMPT_REQUIRED"
    ELSE IF o.type = "task" /\ o.input = <<>> THEN "INPUT_REQUIRED"
    ELSE IF o.type \notin {"llm", "task"} THEN "--type must be llm or task"
    ELSE ""

\* Why the command ends before anything is sent, or "".  A program that uses
\* the SDK has neither command line nor configuration.
Refusal(o) ==
    LET file == config[resolveConfigPath(o.forced)]
    IN  CASE o.sdk -> ""
          [] ~o.sdk /\ file = "absent" -> "NO_CONFIG"
          [] ~o.sdk /\ file = "broken" -> "Invalid JSON"
          [] OTHER ->
                 IF validateAgentRunArgs(o) # "" THEN validateAgentRunArgs(o)
                 ELSE IF mapChain(o.chain) = "" \/ requestedPolicy(o) = "" \/ mapPrivacy(o.privacy) = ""
                           \/ (o.type = "task" /\ mapTaskType(o.taskType) = "")
                      THEN "Unsupported"
                 ELSE ""

(***************************************************************************)
(* Prices (protocol/types.ts), and what the x402 middleware asks for on    *)
(* the two commit routes (x402.ts).                                        *)
(***************************************************************************)
\* Faulty variant: AUTO is FAST for every job.
resolvePolicy_AlwaysFast(policy, jobType) == IF policy # "AUTO" THEN policy ELSE "FAST"

resolvePolicy(policy, jobType) ==
    IF policy # "AUTO" THEN policy ELSE IF jobType = "LLM_INFER" THEN "FAST" ELSE "CHEAP"

getPrice(policy, jobType) ==
    CASE policy = "FAST" /\ jobType = "LLM_INFER"  -> 10
      [] policy = "FAST" /\ jobType = "TASK"       -> 3
      [] policy = "CHEAP" /\ jobType = "LLM_INFER" -> 5
      [] policy = "CHEAP" /\ jobType = "TASK"      -> 1

paymentOf(policy) ==
    IF policy = "FAST" THEN getPrice("FAST", "LLM_INFER") ELSE getPrice("CHEAP", "TASK")

JobTypeOf(r) == mapJobType(run[r].opts.type)
PolicyOf(r)  == resolvePolicy(run[r].policy, JobTypeOf(r))
Private(r)   == mapPrivacy(run[r].opts.privacy) = "PRIVATE"

\* The payload that is committed.
PayloadOf(r) ==
    LET o == run[r].opts
    IN  IF JobTypeOf(r) = "LLM_INFER"
        THEN [job_type |-> "LLM_INFER", prompt |-> o.prompt, task_type |-> "", input |-> <<>>]
        ELSE [job_type |-> "TASK", prompt |-> FALSE, input |-> o.input,
              task_type |-> IF o.sdk THEN o.taskType ELSE mapTaskType(o.taskType)]

(***************************************************************************)
(* A run                                                                   *)
(***************************************************************************)
At(r, stage) == run[r].stage = stage

Ended(r) == run[r].stage \in {"done", "error"}

\* hostedFallback starts with the preferred provider.
Fallback(r) ==
    [run[r] EXCEPT !.stage = "hosted",
                   !.tries = IF Preferred = "openai" THEN <<"openai", "anthropic">>
                             ELSE <<"anthropic", "openai">>]

Becomes(r, record) == run' = [run EXCEPT ![r] = record]

\* "dispatch agent run"
agentRun(r, o) ==
    /\ At(r, "off")
    /\ LET why == Refusal(o)
       IN  Becomes(r, [run[r] EXCEPT !.opts = o, !.policy = requestedPolicy(o), !.error = why,
                                     !.stage = IF why = "" THEN "quote" ELSE "error"])
    /\ UNCHANGED clientEnv

\* GET /v1/quote
quoteReturns(r) ==
    /\ At(r, "quote")
    /\ Becomes(r, [run[r] EXCEPT !.stage = "commit", !.quoted = getPrice(PolicyOf(r), JobTypeOf(r))])
    /\ UNCHANGED clientEnv

\* Any other answer, at any stage of the decentralized route, throws.
throws(r) ==
    /\ run[r].stage \in {"quote", "commit", "paid", "polling"}
    /\ Becomes(r, Fallback(r))
    /\ UNCHANGED clientEnv

\* 402: with an x402 client (SDK only), the payment is signed and the commit
\* is sent once more.
paymentRequired(r) ==
    /\ At(r, "commit") /\ gated /\ run[r].opts.sdk
    /\ Becomes(r, [run[r] EXCEPT !.stage = "paid", !.payments = @ + 1])
    /\ UNCHANGED clientEnv

\* The coordinator takes the commit: the middleware has settled the payment.
CommitReaches(r) == IF gated THEN At(r, "paid") ELSE At(r, "commit")

committed(r) ==
    /\ CommitReaches(r)
    /\ Becomes(r, [run[r] EXCEPT !.stage = "polling",
                                 !.charged = IF gated THEN paymentOf(PolicyOf(r)) ELSE 0])
    /\ UNCHANGED clientEnv

\* The coordinator took it, but the answer is lost on the way.
commitLost(r) ==
    /\ CommitReaches(r)
    /\ Becomes(r, [Fallback(r) EXCEPT !.charged = IF gated THEN paymentOf(PolicyOf(r)) ELSE 0])
    /\ UNCHANGED clientEnv

\* Faulty variant: a failed job's result is taken for an answer.
polled_AnyEnd(r, status, result) ==
    /\ At(r, "polling") /\ status \in {"completed", "failed"}
    /\ Becomes(r, [run[r] EXCEPT !.stage = "done", !.answer = <<"decentralized", result>>])
    /\ UNCHANGED clientEnv

\* pollResult finds the job in its final state, before the deadline.
polled(r, status, result) ==
    /\ At(r, "polling") /\ status \in {"completed", "failed"}
    /\ Becomes(r, IF status = "completed"
                  THEN [run[r] EXCEPT !.stage = "done", !.answer = <<"decentralized", result>>]
                  ELSE Fallback(r))
    /\ UNCHANGED clientEnv

\* 30 s (TASK) or 60 s (LLM_INFER) have passed: the job is left as it is.
deadline(r) == At(r, "polling") /\ Becomes(r, Fallback(r)) /\ UNCHANGED clientEnv

\* Faulty variant: a provider that failed is tried again after the other one.
hostedFails_Again(r) ==
    /\ At(r, "hosted") /\ run[r].tries # <<>>
    /\ Becomes(r, [run[r] EXCEPT !.tries = Append(Tail(@), Head(@))])
    /\ UNCHANGED clientEnv

\* A provider without a key throws; one with a key may.
hostedFails(r) ==
    /\ At(r, "hosted") /\ run[r].tries # <<>>
    /\ Becomes(r, [run[r] EXCEPT !.tries = Tail(@)])
    /\ UNCHANGED clientEnv

OpenAIAdapter(r)    == Head(run[r].tries) = "openai" /\ "openai" \in Keys
AnthropicAdapter(r) == Head(run[r].tries) = "anthropic" /\ "anthropic" \in Keys

hostedReturns(r) ==
    /\ At(r, "hosted") /\ run[r].tries # <<>>
    /\ OpenAIAdapter(r) \/ AnthropicAdapter(r)
    /\ Becomes(r, [run[r] EXCEPT !.stage = "done", !.answer = <<Head(run[r].tries)>>])
    /\ UNCHANGED clientEnv

\* "All compute adapters failed": the reason of the first failure is not kept.
allFailed(r) ==
    /\ At(r, "hosted") /\ run[r].tries = <<>>
    /\ Becomes(r, [run[r] EXCEPT !.stage = "error", !.error = "All compute adapters failed"])
    /\ UNCHANGED clientEnv
=============================================================================
