---------------------------- MODULE ProgramProofs ----------------------------
(***************************************************************************)
(* EndToEnd: the copies of the task executor, and that the inductive       *)
(* invariant (EndToEndInv) survives the steps of the clients and of the    *)
(* worker programs.                                                        *)
(***************************************************************************)
EXTENDS EndToEnd, TLAPS

\* Leaves are proved by Zenon; those that need arithmetic or the theory of
\* sequences and records name SMT.
USE Zenon

-----------------------------------------------------------------------------
(* The copies of the task executor *)

\* On a text of the common lexicon all the copies compute the same.
LEMMA CopiesAgree ==
    ASSUME NEW t, NEW text, IsCommon(text)
    PROVE  /\ cli_executeTask(t, text) = desktop_executeTask(t, text)
           /\ simulator_executeTask(t, text) = desktop_executeTask(t, text)
           /\ android_execute(t, text) = desktop_executeTask(t, text)
<1> DEFINE Wide == Positive \cup {"best", "wonderful", "fantastic"}
           Dark == Negative \cup {"poor", "disappointing", "sad"}
<1>1. /\ text.found \cap Positive = text.found \cap Wide
      /\ text.found \cap Negative = text.found \cap Dark
      /\ text.found \cap (Positive \cup {"best"}) = text.found \cap Wide
      /\ text.found \cap (Negative \cup {"poor"}) = text.found \cap Dark
  BY DEF IsCommon, Positive, Negative
<1>2. /\ classify(text, Positive, Negative) = classify(text, Wide, Dark)
      /\ classify(text, Positive \cup {"best"}, Negative \cup {"poor"}) = classify(text, Wide, Dark)
  BY <1>1 DEF classify
<1>3. extractJson(text, {"json", "lenient"}) = extractJson(text, {"json"})
  <2>1. {i \in DOMAIN text.blocks : text.blocks[i] \in {"json", "lenient"}}
          = {i \in DOMAIN text.blocks : text.blocks[i] \in {"json"}}
    BY DEF IsCommon
  <2> QED BY <2>1 DEF extractJson
<1>4. WordsOf(text) = text.words
  BY SMT DEF IsCommon, WordsOf
<1> QED
  BY <1>2, <1>3, <1>4 DEF cli_executeTask, simulator_executeTask, android_execute, desktop_executeTask

\* A task of a known type is done, not answered with an error.
LEMMA KnownTaskDone ==
    ASSUME NEW t \in {"summarize", "classify", "extract_json"}, NEW text
    PROVE  /\ ~Failed(cli_executeTask(t, text)) /\ ~Failed(desktop_executeTask(t, text))
           /\ ~Failed(simulator_executeTask(t, text)) /\ ~Failed(android_execute(t, text))
<1>1. /\ \A n : ~Failed(summarize(text, n))
      /\ \A P, N : ~Failed(classify(text, P, N))
      /\ \A P : ~Failed(extractJson(text, P))
  BY DEF Failed, summarize, classify, extractJson
<1> QED
  BY <1>1 DEF cli_executeTask, simulator_executeTask, android_execute, desktop_executeTask

\* Accepted options name one of the two job types.
LEMMA JobTypes ==
    ASSUME NEW o, Accepted(o)
    PROVE  mapJobType(o.type) \in {"LLM_INFER", "TASK"}
<1>1. CASE o.sdk
  BY <1>1, OptionsAssumption DEF Accepted, mapJobType
<1>2. CASE ~o.sdk
  <2>1. validateAgentRunArgs(o) = ""
    BY <1>2 DEF Accepted
  <2>2. o.type \in {"llm", "task"}
    BY <2>1 DEF validateAgentRunArgs
  <2> QED BY <2>2 DEF mapJobType
<1> QED BY <1>1, <1>2

\* What the programs answer to a job that was accepted: no error, if it came
\* from the CLI, and the desktop worker's answer, for a common text.
LEMMA AnswersAgree ==
    ASSUME NEW r, Accepted(run[r].opts), NEW output \in Answers(PayloadOf(r))
    PROVE  /\ ~run[r].opts.sdk => ~Failed(output)
           /\ (/\ JobTypeOf(r) = "TASK" /\ PayloadOf(r).input # <<>> /\ ~Failed(output)
               /\ IsCommon(PayloadOf(r).input[1])) =>
                  output = desktop_executeTask(PayloadOf(r).task_type, PayloadOf(r).input[1])
<1> DEFINE o == run[r].opts
           p == PayloadOf(r)
<1>1. JobTypeOf(r) \in {"LLM_INFER", "TASK"}
  BY JobTypes DEF JobTypeOf
<1>2. CASE JobTypeOf(r) = "LLM_INFER"
  <2>1. ~o.sdk => o.prompt
    <3>1. ASSUME ~o.sdk PROVE o.prompt
      <4>1. validateAgentRunArgs(o) = ""
        BY <3>1 DEF Accepted
      <4>2. o.type = "llm"
        BY <4>1, <1>2 DEF validateAgentRunArgs, JobTypeOf, mapJobType
      <4> QED BY <4>1, <4>2 DEF validateAgentRunArgs
    <3> QED BY <3>1
  <2>2. p.job_type = "LLM_INFER" /\ p.prompt = o.prompt
    BY <1>2 DEF PayloadOf
  <2>3. ~o.sdk => IsLLM(p)
    BY <2>1, <2>2 DEF IsLLM
  <2>4. \A x \in desktop_executeLLM \cup cli_executeLLM : ~Failed(x)
    <3>1. \A x \in desktop_executeLLM \cup cli_executeLLM : x = [text |-> "ollama"] \/ x = [text |-> "stub"]
      BY DEF desktop_executeLLM, cli_executeLLM, desktop_ollamaInfer, cli_ollamaInfer,
                   desktop_stubInfer, cli_stubInfer
    <3>2. ~Failed([text |-> "ollama"]) /\ ~Failed([text |-> "stub"])
      BY DEF Failed
    <3> QED BY <3>1, <3>2
  <2>5. ~o.sdk => ~Failed(output)
    BY <2>3, <2>4 DEF Answers
  <2> QED BY <1>2, <2>5
<1>3. CASE JobTypeOf(r) = "TASK"
  <2>1. /\ p.job_type = "TASK" /\ p.input = o.input
        /\ p.task_type = IF o.sdk THEN o.taskType ELSE mapTaskType(o.taskType)
    BY <1>3 DEF PayloadOf
  <2>2. output \in {desktop_output(p), cli_output(p), simulator_output(p), android_output(p)}
    BY <2>1 DEF Answers, IsLLM
  <2>3. ASSUME ~o.sdk PROVE ~Failed(output)
    <3>1. validateAgentRunArgs(o) = "" /\ (o.type = "task" => mapTaskType(o.taskType) # "")
      BY <2>3 DEF Accepted
    <3>2. o.type = "task"
      BY <3>1, <1>3 DEF validateAgentRunArgs, JobTypeOf, mapJobType
    <3>3. o.input # <<>>
      BY <3>1, <3>2 DEF validateAgentRunArgs
    <3>4. p.task_type \in {"summarize", "classify", "extract_json"}
      BY <2>1, <2>3, <3>1, <3>2 DEF mapTaskType
    <3>5. IsTask(p)
      BY <2>1, <3>3, <3>4 DEF IsTask
    <3> HIDE DEF p
    <3>6. output \in {desktop_executeTask(p.task_type, p.input[1]), cli_executeTask(p.task_type, p.input[1]),
                      simulator_executeTask(p.task_type, p.input[1]),
                      android_execute(p.task_type, p.input[1])}
      BY <2>1, <2>2, <3>3, <3>5
      DEF desktop_output, cli_output, simulator_output, android_output
    <3> QED BY <3>4, <3>6, KnownTaskDone
  <2>4. ASSUME p.input # <<>>, ~Failed(output), IsCommon(p.input[1])
        PROVE  output = desktop_executeTask(p.task_type, p.input[1])
    <3> HIDE DEF p
    <3>1. Failed(Unsupported) /\ Failed([error |-> "Missing task_type or input"])
      BY DEF Failed, Unsupported
    <3>2. output \in {desktop_executeTask(p.task_type, p.input[1]), cli_executeTask(p.task_type, p.input[1]),
                      simulator_executeTask(p.task_type, p.input[1]),
                      android_execute(p.task_type, p.input[1])}
      BY <2>2, <2>4, <3>1 DEF desktop_output, cli_output, simulator_output, android_output
    <3> QED BY <2>4, <3>2, CopiesAgree
  <2> QED BY <2>3, <2>4
<1> QED BY <1>1, <1>2, <1>3
-----------------------------------------------------------------------------
(* What the steps of others leave as it is *)

\* Sequences over a larger set.
LEMMA SeqGrows ==
    ASSUME NEW S, NEW T, S \subseteq T, NEW s \in Seq(S)
    PROVE  s \in Seq(T)
BY SMT

\* Reading and writing a queue.
LEMMA Queues ==
    ASSUME NEW S, NEW s \in Seq(S)
    PROVE  /\ s # <<>> => Head(s) \in S /\ Tail(s) \in Seq(S)
           /\ \A m \in S : Append(s, m) \in Seq(S)
BY SMT

\* The payload of a job is made of the options of its run.
LEMMA SamePayload ==
    ASSUME NEW r, run'[r].opts = run[r].opts
    PROVE  /\ PayloadOf(r)' = PayloadOf(r) /\ JobTypeOf(r)' = JobTypeOf(r)
           /\ run'[r].policy = run[r].policy => PolicyOf(r)' = PolicyOf(r) /\ Price(r)' = Price(r)
BY DEF PayloadOf, JobTypeOf, PolicyOf, Price

\* An answer on its way.
LEMMA OutgoingIs ==
    ASSUME NEW w
    PROVE  \A m : m \in Outgoing(w) <=>
               \E r \in Mine(w) : \E output \in Answers(PayloadOf(r)) : \E k \in Signers(w) :
                   m = JobCompleteMsg(r, output, k)
<1> DEFINE From(r) == {JobCompleteMsg(r, output, k) : output \in Answers(PayloadOf(r)), k \in Signers(w)}
<1>1. \A m, r : m \in From(r) <=>
          \E output \in Answers(PayloadOf(r)) : \E k \in Signers(w) : m = JobCompleteMsg(r, output, k)
  BY SMT
<1>2. Outgoing(w) = UNION {From(r) : r \in Mine(w)}
  BY SMT DEF Outgoing
<1> HIDE DEF From
<1> QED BY <1>1, <1>2, SMT

\* No offered job is given to another worker, or changes its options.
Kept(w) ==
    /\ launch' = launch
    /\ Mine(w) \subseteq Mine(w)'
    /\ \A r \in offered : run'[r].opts = run[r].opts

\* The messages on a connection stay possible ones.
LEMMA MessagesKept ==
    ASSUME NEW w, Kept(w)
    PROVE  /\ Incoming(w) \subseteq Incoming(w)'
           /\ Signers(w) \subseteq Signers(w)' => Outgoing(w) \subseteq Outgoing(w)'
           /\ {r \in Mine(w) : IsLLM(PayloadOf(r))} \subseteq {r \in Mine(w) : IsLLM(PayloadOf(r))}'
<1>1. \A r \in Mine(w) : r \in Mine(w)' /\ PayloadOf(r)' = PayloadOf(r) /\ JobTypeOf(r)' = JobTypeOf(r)
  BY SamePayload DEF Kept, Mine
<1>2. Capabilities(w)' = Capabilities(w)
  BY DEF Kept, Capabilities
<1>3. Incoming(w) \subseteq Incoming(w)'
  BY <1>1, <1>2 DEF Incoming, JobAssignMsg, RegisterAckMsg
<1>4. ASSUME Signers(w) \subseteq Signers(w)' PROVE Outgoing(w) \subseteq Outgoing(w)'
  <2> DEFINE Before(r) == {JobCompleteMsg(r, output, k) : output \in Answers(PayloadOf(r)), k \in Signers(w)}
             After(r) == {JobCompleteMsg(r, output, k) : output \in Answers(PayloadOf(r)'), k \in Signers(w)'}
  <2>1. \A r \in Mine(w) : Before(r) \subseteq After(r)
    BY <1>1, <1>4, SMT
  <2>2. Outgoing(w) = UNION {Before(r) : r \in Mine(w)} /\ Outgoing(w)' = UNION {After(r) : r \in Mine(w)'}
    BY SMT DEF Outgoing
  <2> HIDE DEF Before, After
  <2> QED BY <1>1, <2>1, <2>2
<1>5. \A r \in Mine(w) : IsLLM(PayloadOf(r)) => IsLLM(PayloadOf(r)')
  BY <1>1 DEF IsLLM
<1> QED BY <1>1, <1>3, <1>4, <1>5

\* A worker that the step is not about.
Untouched(w) ==
    /\ program'[w] = program[w] /\ socket'[w] = socket[w] /\ inbox'[w] = inbox[w]
    /\ outbox'[w] = outbox[w] /\ working'[w] = working[w] /\ key'[w] = key[w] /\ entry'[w] = entry[w]

\* Such a worker stays as the invariant says, if nobody takes its job.
LEMMA WorkerUntouched ==
    ASSUME NEW w, WorkerOk(w), Untouched(w), Kept(w),
           entry[w].job # None => status'[entry[w].job] = status[entry[w].job]
    PROVE  WorkerOk(w)'
<1>1. Tracked(w)'
  BY DEF WorkerOk, Tracked, Untouched, Kept
<1>2. Idle(w)' = Idle(w)
  BY DEF Idle, Untouched
<1>3. Registering(w) => Registering(w)'
  BY <1>2 DEF Registering, Untouched
<1>4. Signers(w)' = Signers(w)
  BY DEF Signers, Untouched
<1>5. inbox[w] \in Seq(Incoming(w)) => inbox'[w] \in Seq(Incoming(w)')
  BY MessagesKept, SeqGrows DEF Untouched
<1>6. outbox[w] \in Seq(Outgoing(w)) => outbox'[w] \in Seq(Outgoing(w)')
  BY <1>4, MessagesKept, SeqGrows DEF Untouched
<1>7. working[w] \subseteq {r \in Mine(w) : IsLLM(PayloadOf(r))} =>
          working'[w] \subseteq {r \in Mine(w) : IsLLM(PayloadOf(r))}'
  BY MessagesKept DEF Untouched
<1>8. launch' = launch
  BY DEF Kept
<1> QED BY <1>1, <1>2, <1>3, <1>5, <1>6, <1>7, <1>8 DEF WorkerOk, Untouched

\* A job whose run keeps its options.
LEMMA JobUntouched ==
    ASSUME NEW r, JobOk(r), status'[r] = status[r], paid'[r] = paid[r], result'[r] = result[r],
           receipt'[r] = receipt[r], r \in offered' => r \in offered,
           status[r] # "none" => run'[r].opts = run[r].opts
    PROVE  JobOk(r)'
<1>1. status[r] = "completed" => PayloadOf(r)' = PayloadOf(r)
  BY SamePayload
<1> QED BY <1>1 DEF JobOk

\* A run that the step is not about.
LEMMA RunUntouched ==
    ASSUME NEW r, RunOk(r), run'[r] = run[r], status'[r] = status[r], result'[r] = result[r]
    PROVE  RunOk(r)'
<1>1. PolicyOf(r)' = PolicyOf(r) /\ Price(r)' = Price(r)
  BY SamePayload
<1> QED BY <1>1 DEF RunOk, Accepted

-----------------------------------------------------------------------------
(* The steps of a run *)

\* A step of run r, seen from everything else.
LEMMA RunMoves ==
    ASSUME EndToEndInv, NEW r \in Runs, NEW x, run' = [run EXCEPT ![r] = x],
           UNCHANGED <<programVars, hubVars>>, status[r] # "none" => x.opts = run[r].opts, RunOk(r)'
    PROVE  EndToEndInv'
<1>1. Shape'
  BY DEF EndToEndInv, Shape, programVars, hubVars, jobVars
<1>2. /\ launch' = launch /\ offered' = offered /\ entry' = entry
      /\ status' = status /\ paid' = paid /\ result' = result /\ receipt' = receipt
  BY DEF programVars, hubVars, jobVars
<1>3. run'[r] = x /\ \A q \in Runs \ {r} : run'[q] = run[q]
  BY DEF EndToEndInv, Shape
<1>4. \A q \in Runs : RunOk(q)'
  <2>1. ASSUME NEW q \in Runs \ {r} PROVE RunOk(q)'
    BY <1>2, <1>3, RunUntouched DEF EndToEndInv
  <2> QED BY <2>1
<1>5. \A q \in Runs : JobOk(q)'
  BY <1>2, <1>3, JobUntouched DEF EndToEndInv
<1>6. ASSUME NEW w \in Workers PROVE WorkerOk(w)'
  <2>1. \A q \in offered : run'[q].opts = run[q].opts
    BY <1>3 DEF EndToEndInv, Shape, JobOk
  <2>2. Kept(w)
    BY <1>2, <2>1 DEF Kept, Mine
  <2>3. Untouched(w)
    BY DEF Untouched, programVars, hubVars
  <2> QED BY <1>2, <1>6, <2>2, <2>3, WorkerUntouched DEF EndToEndInv
<1> QED BY <1>1, <1>4, <1>5, <1>6 DEF EndToEndInv

\* What is not refused is accepted.
LEMMA RefusedOrAccepted ==
    ASSUME NEW o \in Options, Refusal(o) = ""
    PROVE  Accepted(o)
<1>1. CASE o.sdk
  BY <1>1 DEF Accepted
<1>2. CASE ~o.sdk
  <2>1. /\ validateAgentRunArgs(o) = ""
        /\ ~(o.type = "task" /\ mapTaskType(o.taskType) = "")
    <3> DEFINE file == config[resolveConfigPath(o.forced)]
    <3>1. file # "absent" /\ file # "broken"
      BY <1>2 DEF Refusal
    <3>2. Refusal(o) = (IF validateAgentRunArgs(o) # "" THEN validateAgentRunArgs(o)
                 ELSE IF mapChain(o.chain) = "" \/ requestedPolicy(o) = "" \/ mapPrivacy(o.privacy) = ""
                           \/ (o.type = "task" /\ mapTaskType(o.taskType) = "")
                      THEN "Unsupported"
                 ELSE "")
      BY <1>2, <3>1 DEF Refusal
    <3> QED BY <3>2
  <2> QED BY <2>1 DEF Accepted
<1> QED BY <1>1, <1>2

\* "dispatch agent run"
LEMMA BeginKeeps ==
    ASSUME EndToEndInv, NEW r \in Runs, Begin(r)
    PROVE  EndToEndInv'
<1>1. PICK o \in Options : agentRun(r, o)
  BY DEF Begin
<1> DEFINE x == [run[r] EXCEPT !.opts = o, !.policy = requestedPolicy(o), !.error = Refusal(o),
                               !.stage = IF Refusal(o) = "" THEN "quote" ELSE "error"]
<1>2. run[r].stage = "off" /\ run' = [run EXCEPT ![r] = x]
  BY <1>1 DEF agentRun, At, Becomes
<1>3. RunOk(r) /\ DOMAIN run = Runs
  BY DEF EndToEndInv, Shape
<1>4. UNCHANGED <<programVars, hubVars>>
  BY DEF Begin
<1>5. status' = status /\ result' = result
  BY <1>4 DEF hubVars, jobVars
<1>6. /\ DOMAIN x = DOMAIN NewRun /\ x.opts = o /\ x.charged = run[r].charged
      /\ x.payments = run[r].payments /\ x.stage = IF Refusal(o) = "" THEN "quote" ELSE "error"
  BY <1>3 DEF RunOk, NewRun
<1>7. Refusal(o) = "" => Accepted(o)
  BY RefusedOrAccepted
<1>8. Accepted(o)' = Accepted(o)
  BY DEF Accepted
<1> HIDE DEF x
<1>9. run'[r] = x
  BY <1>2, <1>3
<1>10. RunOk(r)'
  BY <1>2, <1>3, <1>5, <1>6, <1>7, <1>8, <1>9 DEF RunOk
<1> QED BY <1>2, <1>3, <1>4, <1>10, RunMoves DEF RunOk

\* A run that gives up the decentralized route keeps what it knows of it.
LEMMA FallbackFields ==
    ASSUME NEW r, DOMAIN run[r] = DOMAIN NewRun
    PROVE  /\ DOMAIN Fallback(r) = DOMAIN NewRun /\ Fallback(r).stage = "hosted"
           /\ Fallback(r).opts = run[r].opts /\ Fallback(r).policy = run[r].policy
           /\ Fallback(r).quoted = run[r].quoted
           /\ Fallback(r).charged = run[r].charged /\ Fallback(r).payments = run[r].payments
BY DEF Fallback, NewRun

\* A run falls back, whatever its stage: nothing more is charged.
LEMMA FallbackKeeps ==
    ASSUME EndToEndInv, NEW r \in Runs, run[r].stage \notin {"off", "error"},
           Becomes(r, Fallback(r)), UNCHANGED <<programVars, hubVars>>
    PROVE  EndToEndInv'
<1>1. RunOk(r) /\ DOMAIN run = Runs /\ DOMAIN run[r] = DOMAIN NewRun
  BY DEF EndToEndInv, Shape, RunOk
<1> DEFINE x == Fallback(r)
<1>2. run' = [run EXCEPT ![r] = x] /\ status' = status /\ result' = result
  BY DEF Becomes, hubVars, jobVars
<1>3. /\ DOMAIN x = DOMAIN NewRun /\ x.stage = "hosted" /\ x.opts = run[r].opts
      /\ x.policy = run[r].policy /\ x.quoted = run[r].quoted /\ x.charged = run[r].charged /\ x.payments = run[r].payments
  BY <1>1, FallbackFields
<1> HIDE DEF x
<1>4. run'[r] = x
  BY <1>1, <1>2
<1>5. PolicyOf(r)' = PolicyOf(r) /\ Price(r)' = Price(r)
  BY <1>3, <1>4, SamePayload
<1>6. Accepted(run[r].opts)' = Accepted(run[r].opts)
  BY <1>3, <1>4 DEF Accepted
<1>7. RunOk(r)'
  BY <1>1, <1>2, <1>3, <1>4, <1>5, <1>6 DEF RunOk
<1> QED BY <1>1, <1>2, <1>3, <1>7, RunMoves

\* The answers to a run's requests that the coordinator has no part in.
LEMMA ClientKeeps ==
    ASSUME EndToEndInv, NEW r \in Runs, Client(r)
    PROVE  EndToEndInv'
<1>1. RunOk(r) /\ DOMAIN run = Runs /\ DOMAIN run[r] = DOMAIN NewRun
  BY DEF EndToEndInv, Shape, RunOk
<1>2. UNCHANGED <<programVars, hubVars>> /\ status' = status /\ result' = result
  BY DEF Client, hubVars, jobVars
<1>3. ASSUME NEW x, run' = [run EXCEPT ![r] = x], DOMAIN x = DOMAIN NewRun, x.opts = run[r].opts,
             x.policy = run[r].policy, x.charged = run[r].charged, run[r].stage \notin {"off", "error"},
             x.payments \in 0..1, x.stage \in {"commit", "paid", "hosted", "error", "done"},
             x.stage = "commit" => x.quoted = Price(r) /\ run[r].stage = "quote" /\ x.payments = 0,
             x.stage = "paid" => x.quoted = Price(r) /\ run[r].stage = "commit",
             x.charged # 0 => x.quoted = run[r].quoted,
             x.stage = "done" => x.answer[1] # "decentralized"
      PROVE  EndToEndInv'
  <2>1. run'[r] = x
    BY <1>1, <1>3
  <2>2. PolicyOf(r)' = PolicyOf(r) /\ Price(r)' = Price(r)
    BY <1>3, <2>1, SamePayload
  <2>3. Accepted(x.opts)' = Accepted(x.opts)
    BY <1>3, <2>1 DEF Accepted
  <2>4. RunOk(r)'
    BY <1>1, <1>2, <1>3, <2>1, <2>2, <2>3 DEF RunOk
  <2> QED BY <1>2, <1>3, <2>4, RunMoves
<1>4. CASE quoteReturns(r)
  <2> DEFINE x == [run[r] EXCEPT !.stage = "commit", !.quoted = Price(r)]
  <2>1. run[r].stage = "quote" /\ run' = [run EXCEPT ![r] = x]
    BY <1>4 DEF quoteReturns, At, Becomes, Price
  <2>2. /\ DOMAIN x = DOMAIN NewRun /\ x.opts = run[r].opts /\ x.policy = run[r].policy
        /\ x.charged = run[r].charged /\ x.payments = run[r].payments /\ x.stage = "commit" /\ x.quoted = Price(r)
    BY <1>1 DEF NewRun
  <2>3. run[r].charged = 0 /\ run[r].payments = 0
    BY <1>1, <2>1 DEF RunOk
  <2>4. x.stage \in {"commit", "paid", "hosted", "error", "done"} /\ x.payments \in 0..1
    BY <2>1, <2>2, <2>3, SMT
  <2> HIDE DEF x
  <2> QED BY <1>3, <2>1, <2>2, <2>3, <2>4
<1>5. CASE throws(r) \/ deadline(r)
  BY <1>2, <1>5, FallbackKeeps DEF throws, deadline, At
<1>6. CASE paymentRequired(r)
  <2> DEFINE x == [run[r] EXCEPT !.stage = "paid", !.payments = @ + 1]
  <2>1. run[r].stage = "commit" /\ run' = [run EXCEPT ![r] = x]
    BY <1>6 DEF paymentRequired, At, Becomes
  <2>2. /\ DOMAIN x = DOMAIN NewRun /\ x.opts = run[r].opts /\ x.policy = run[r].policy
        /\ x.charged = run[r].charged /\ x.payments = run[r].payments + 1 /\ x.stage = "paid" /\ x.quoted = run[r].quoted
    BY <1>1 DEF NewRun
  <2>3. run[r].charged = 0 /\ run[r].payments = 0 /\ run[r].quoted = Price(r)
    BY <1>1, <2>1 DEF RunOk
  <2>4. x.stage \in {"commit", "paid", "hosted", "error", "done"} /\ x.payments \in 0..1
    BY <2>1, <2>2, <2>3, SMT
  <2> HIDE DEF x
  <2> QED BY <1>3, <2>1, <2>2, <2>3, <2>4
<1>7. CASE hostedFails(r)
  <2> DEFINE x == [run[r] EXCEPT !.tries = Tail(@)]
  <2>1. run[r].stage = "hosted" /\ run' = [run EXCEPT ![r] = x]
    BY <1>7 DEF hostedFails, At, Becomes
  <2>2. /\ DOMAIN x = DOMAIN NewRun /\ x.opts = run[r].opts /\ x.policy = run[r].policy
        /\ x.charged = run[r].charged /\ x.payments = run[r].payments /\ x.stage = run[r].stage /\ x.quoted = run[r].quoted
    BY <1>1 DEF NewRun
  <2>3. run[r].payments \in 0..1
    BY <1>1 DEF RunOk
  <2>4. x.stage \in {"commit", "paid", "hosted", "error", "done"} /\ x.payments \in 0..1
    BY <2>1, <2>2, <2>3
  <2> HIDE DEF x
  <2> QED BY <1>3, <2>1, <2>2, <2>3, <2>4
<1>8. CASE hostedReturns(r)
  <2> DEFINE x == [run[r] EXCEPT !.stage = "done", !.answer = <<Head(run[r].tries)>>]
  <2>1. run[r].stage = "hosted" /\ run' = [run EXCEPT ![r] = x] /\ Head(run[r].tries) # "decentralized"
    BY <1>8 DEF hostedReturns, At, Becomes, OpenAIAdapter, AnthropicAdapter
  <2>2. /\ DOMAIN x = DOMAIN NewRun /\ x.opts = run[r].opts /\ x.policy = run[r].policy
        /\ x.charged = run[r].charged /\ x.payments = run[r].payments /\ x.stage = "done" /\ x.quoted = run[r].quoted
        /\ x.answer = <<Head(run[r].tries)>>
    BY <1>1 DEF NewRun
  <2>3. run[r].payments \in 0..1
    BY <1>1, SMT DEF RunOk
  <2>4. x.stage \in {"commit", "paid", "hosted", "error", "done"} /\ x.payments \in 0..1
    BY <2>1, <2>2, <2>3
  <2>5. x.answer[1] # "decentralized" /\ x.stage # "commit" /\ x.stage # "paid"
    BY <2>1, <2>2, SMT
  <2> HIDE DEF x
  <2> QED BY <1>3, <2>1, <2>2, <2>4, <2>5
<1>9. CASE allFailed(r)
  <2> DEFINE x == [run[r] EXCEPT !.stage = "error", !.error = "All compute adapters failed"]
  <2>1. run[r].stage = "hosted" /\ run' = [run EXCEPT ![r] = x]
    BY <1>9 DEF allFailed, At, Becomes
  <2>2. /\ DOMAIN x = DOMAIN NewRun /\ x.opts = run[r].opts /\ x.policy = run[r].policy
        /\ x.charged = run[r].charged /\ x.payments = run[r].payments /\ x.stage = "error" /\ x.quoted = run[r].quoted
    BY <1>1 DEF NewRun
  <2>3. run[r].payments \in 0..1
    BY <1>1, SMT DEF RunOk
  <2>4. x.stage \in {"commit", "paid", "hosted", "error", "done"} /\ x.payments \in 0..1
    BY <2>1, <2>2, <2>3
  <2>5. /\ run[r].stage # "off" /\ run[r].stage # "error"
        /\ x.stage # "commit" /\ x.stage # "paid" /\ x.stage # "done"
    BY <2>1, <2>2
  <2> HIDE DEF x
  <2> QED BY <1>3, <2>1, <2>2, <2>4, <2>5
<1> QED BY <1>4, <1>5, <1>6, <1>7, <1>8, <1>9 DEF Client

\* The run finds its job completed, and takes its result, or failed.
LEMMA PollKeeps ==
    ASSUME EndToEndInv, NEW r \in Runs, poll(r)
    PROVE  EndToEndInv'
<1>1. /\ RunOk(r) /\ JobOk(r) /\ DOMAIN run = Runs /\ DOMAIN run[r] = DOMAIN NewRun
      /\ UNCHANGED <<programVars, hubVars>> /\ status' = status /\ result' = result
  BY DEF EndToEndInv, Shape, RunOk, poll, hubVars, jobVars
<1> DEFINE found == IF result[r] # <<>> THEN result[r][1] ELSE [error |-> "failed"]
<1>2. polled(r, status[r], found)
  BY DEF poll
<1>3. CASE status[r] = "completed"
  <2> DEFINE x == [run[r] EXCEPT !.stage = "done", !.answer = <<"decentralized", found>>]
  <2>1. run[r].stage = "polling" /\ run' = [run EXCEPT ![r] = x]
    BY <1>2, <1>3 DEF polled, At, Becomes
  <2>2. /\ DOMAIN x = DOMAIN NewRun /\ x.opts = run[r].opts /\ x.policy = run[r].policy
        /\ x.charged = run[r].charged /\ x.payments = run[r].payments /\ x.stage = "done" /\ x.quoted = run[r].quoted
        /\ x.answer = <<"decentralized", found>>
    BY <1>1 DEF NewRun
  <2>3. result[r] = <<found>>
    BY <1>1, <1>3, SMT DEF JobOk
  <2> HIDE DEF x, found
  <2>4. run'[r] = x
    BY <1>1, <2>1
  <2>5. PolicyOf(r)' = PolicyOf(r) /\ Price(r)' = Price(r)
    BY <2>2, <2>4, SamePayload
  <2>6. Accepted(run[r].opts)' = Accepted(run[r].opts)
    BY <2>2, <2>4 DEF Accepted
  <2>7. result'[r] = <<x.answer[2]>>
    BY <1>1, <2>2, <2>3, SMT
  <2>8. RunOk(r)'
    BY <1>1, <1>3, <2>1, <2>2, <2>4, <2>5, <2>6, <2>7 DEF RunOk
  <2> QED BY <1>1, <2>1, <2>2, <2>8, RunMoves
<1>4. CASE status[r] # "completed"
  BY <1>1, <1>2, <1>4, FallbackKeeps DEF polled, At
<1> QED BY <1>3, <1>4

-----------------------------------------------------------------------------
(* The steps of a worker program *)

\* A step of program w, seen from everything else.
LEMMA ProgramMoves ==
    ASSUME EndToEndInv, NEW w \in Workers, UNCHANGED <<clientVars, entry, result, receipt, jobVars>>,
           launch' = launch, Shape', \A h \in Workers \ {w} : Untouched(h), WorkerOk(w)'
    PROVE  EndToEndInv'
<1>1. /\ run' = run /\ offered' = offered /\ entry' = entry
      /\ status' = status /\ paid' = paid /\ result' = result /\ receipt' = receipt
  BY DEF clientVars, jobVars
<1>2. \A r \in Runs : RunOk(r)' /\ JobOk(r)'
  BY <1>1, RunUntouched, JobUntouched DEF EndToEndInv
<1>3. ASSUME NEW h \in Workers \ {w} PROVE WorkerOk(h)'
  <2>1. Kept(h)
    BY <1>1 DEF Kept, Mine
  <2> QED BY <1>1, <2>1, WorkerUntouched DEF EndToEndInv
<1> QED BY <1>2, <1>3 DEF EndToEndInv

\* What does not depend on the programs.
LEMMA ProgramKept ==
    ASSUME NEW w, run' = run, offered' = offered, entry' = entry, launch' = launch
    PROVE  /\ Kept(w) /\ Mine(w)' = Mine(w) /\ Signers(w)' = Signers(w)
           /\ \A s \in Seq(Incoming(w)) : s \in Seq(Incoming(w)')
           /\ \A s \in Seq(Outgoing(w)) : s \in Seq(Outgoing(w)')
           /\ {r \in Mine(w) : IsLLM(PayloadOf(r))}' = {r \in Mine(w) : IsLLM(PayloadOf(r))}
<1>1. Kept(w) /\ Mine(w)' = Mine(w) /\ Signers(w)' = Signers(w)
  BY DEF Kept, Mine, Signers
<1>2. \A r : PayloadOf(r)' = PayloadOf(r)
  BY SamePayload
<1>3. {r \in Mine(w) : IsLLM(PayloadOf(r))}' = {r \in Mine(w) : IsLLM(PayloadOf(r))}
  BY <1>1, <1>2 DEF IsLLM
<1> QED BY <1>1, <1>3, MessagesKept, SeqGrows

\* The program has no socket any more, and its memory is as it was or gone.
LEMMA SocketGone ==
    ASSUME NEW w, WorkerOk(w), program[w] # "off",
           run' = run, offered' = offered, entry' = entry, launch' = launch, status' = status,
           socket'[w] = "closed", outbox'[w] = outbox[w],
           \/ program'[w] = program[w] /\ inbox'[w] = inbox[w] /\ working'[w] = working[w] /\ key'[w] = key[w]
           \/ program'[w] = "exited" /\ inbox'[w] = <<>> /\ working'[w] = {} /\ key'[w] = 0
    PROVE  WorkerOk(w)'
<1>1. Tracked(w)'
  BY ProgramKept DEF WorkerOk, Tracked
<1>2. Idle(w) => Idle(w)'
  BY DEF Idle
<1>3. Registering(w) => Registering(w)'
  BY <1>2 DEF Registering
<1>4. inbox'[w] \in Seq(Incoming(w)')
  <2>1. <<>> \in Seq(Incoming(w)')
    BY SMT
  <2> QED BY <2>1, ProgramKept DEF WorkerOk
<1>5. Registering(w)' \/ outbox'[w] \in Seq(Outgoing(w)')
  BY <1>3, ProgramKept DEF WorkerOk
<1>6. working'[w] \subseteq {r \in Mine(w) : IsLLM(PayloadOf(r))}'
  BY ProgramKept DEF WorkerOk
<1>7. key'[w] \in 0..MaxKeys
  BY ProgramAssumption, SMT DEF WorkerOk
<1>8. /\ w \in DOMAIN launch'
      /\ program'[w] # "off" /\ (program'[w] = "dialing" => program[w] = "dialing" /\ key'[w] = key[w])
  BY DEF WorkerOk
<1>9. outbox'[w] = outbox[w] /\ socket'[w] # "open"
  OBVIOUS
<1>10. program'[w] = "dialing" => Idle(w)' /\ outbox'[w] = <<>> /\ key'[w] # 0
  BY <1>2, <1>8 DEF WorkerOk
<1> QED BY <1>1, <1>4, <1>5, <1>6, <1>7, <1>8, <1>9, <1>10 DEF WorkerOk

\* The program goes on with its registration; the first message may be read.
LEMMA ProgramAdvances ==
    ASSUME NEW w, WorkerOk(w),
           program[w] \notin {"off", "dialing", "exited"}, program'[w] \notin {"off", "dialing", "exited"},
           run' = run, offered' = offered, entry' = entry, launch' = launch, status' = status,
           socket'[w] = socket[w], outbox'[w] = outbox[w], working'[w] = working[w], key'[w] = key[w],
           inbox'[w] = inbox[w] \/ (inbox[w] # <<>> /\ inbox'[w] = Tail(inbox[w]))
    PROVE  WorkerOk(w)'
<1>1. Tracked(w)'
  BY ProgramKept DEF WorkerOk, Tracked
<1>2. Idle(w) => Idle(w)'
  BY DEF Idle
<1>3. Registering(w) => Registering(w)'
  BY <1>2 DEF Registering
<1>4. inbox'[w] \in Seq(Incoming(w)')
  <2>1. inbox[w] \in Seq(Incoming(w))
    BY DEF WorkerOk
  <2>2. inbox'[w] \in Seq(Incoming(w))
    BY <2>1, Queues
  <2> QED BY <2>2, ProgramKept
<1>5. Registering(w)' \/ outbox'[w] \in Seq(Outgoing(w)')
  BY <1>3, ProgramKept DEF WorkerOk
<1>6. working'[w] \subseteq {r \in Mine(w) : IsLLM(PayloadOf(r))}'
  BY ProgramKept DEF WorkerOk
<1> QED BY <1>1, <1>4, <1>5, <1>6 DEF WorkerOk

\* Every program is of one of the four kinds; the simulator and the Android
\* worker take tasks only.
LEMMA LaunchKinds ==
    ASSUME EndToEndInv, NEW w \in DOMAIN launch
    PROVE  /\ Kind(w) \in Kinds
           /\ Kind(w) \in {"simulator", "android"} => Capabilities(w) = {"TASK"}
<1>1. PICK W \in SUBSET Workers : launch \in [W -> Launches]
  BY ProgramAssumption, SMT DEF EndToEndInv, Shape
<1>2. launch[w] \in Launches
  BY <1>1
<1> QED BY <1>2 DEF Launches, Kind, Capabilities, Kinds

\* The process ends.
LEMMA ExitKeeps ==
    ASSUME EndToEndInv, NEW w \in Workers, program[w] # "off", exit(w), UNCHANGED <<clientVars, hubVars>>
    PROVE  EndToEndInv'
<1>1. /\ run' = run /\ offered' = offered /\ entry' = entry /\ launch' = launch /\ status' = status
      /\ UNCHANGED <<clientVars, entry, result, receipt, jobVars>>
  BY DEF exit, clientVars, hubVars, jobVars
<1>2. Shape'
  BY DEF exit, To, EndToEndInv, Shape, clientVars, hubVars, jobVars
<1>3. \A h \in Workers \ {w} : Untouched(h)
  BY <1>1 DEF exit, To, EndToEndInv, Shape, Untouched
<1>4. /\ program'[w] = "exited" /\ inbox'[w] = <<>> /\ working'[w] = {} /\ key'[w] = 0
      /\ socket'[w] = "closed" /\ outbox'[w] = outbox[w]
  BY DEF exit, To, EndToEndInv, Shape
<1>5. WorkerOk(w)'
  BY <1>1, <1>4, SocketGone DEF EndToEndInv
<1> QED BY <1>1, <1>2, <1>3, <1>5, ProgramMoves

\* Only the socket, or the connection behind it, changes.
LEMMA CloseKeeps ==
    ASSUME EndToEndInv, NEW w \in Workers, program[w] # "off",
           UNCHANGED <<clientVars, hubVars>>,
           UNCHANGED <<launch, program, beating, inbox, outbox, working, keyFile, key, lastKey,
                       stats, unheard>>,
           socket' = [socket EXCEPT ![w] = "closed"] \/ socket' = socket,
           wire' = [wire EXCEPT ![w] = FALSE] \/ wire' = wire
    PROVE  EndToEndInv'
<1>1. /\ run' = run /\ offered' = offered /\ entry' = entry /\ launch' = launch /\ status' = status
      /\ UNCHANGED <<clientVars, entry, result, receipt, jobVars>>
  BY DEF clientVars, hubVars, jobVars
<1>2. Shape'
  <2>1. DOMAIN socket' = Workers /\ DOMAIN wire' = Workers
    BY DEF EndToEndInv, Shape
  <2> QED BY <1>1, <2>1 DEF EndToEndInv, Shape, clientVars, hubVars, jobVars
<1>3. \A h \in Workers \ {w} : Untouched(h)
  BY <1>1 DEF EndToEndInv, Shape, Untouched
<1>4. CASE socket'[w] = "closed"
  BY <1>1, <1>2, <1>3, <1>4, SocketGone, ProgramMoves DEF EndToEndInv
<1>5. CASE socket'[w] = socket[w]
  <2>1. Untouched(w) /\ Kept(w)
    BY <1>1, <1>5, ProgramKept DEF Untouched
  <2> QED BY <1>1, <1>2, <1>3, <2>1, WorkerUntouched, ProgramMoves DEF EndToEndInv
<1> QED BY <1>4, <1>5 DEF EndToEndInv, Shape

\* The connection could not be made, is lost, or is closed.
LEMMA EndsKeep ==
    ASSUME EndToEndInv, NEW w \in Workers, UNCHANGED <<clientVars, hubVars>>,
           dialFails(w) \/ registerTimeout(w) \/ closed(w) \/ shutdown(w) \/ cut(w)
    PROVE  EndToEndInv'
<1>1. program[w] # "off"
  BY DEF EndToEndInv, WorkerOk, dialFails, registerTimeout, closed, shutdown, cut
<1>2. ASSUME exit(w) PROVE EndToEndInv'
  BY <1>1, <1>2, ExitKeeps
<1>3. CASE dialFails(w)
  BY <1>1, <1>2, <1>3, CloseKeeps DEF dialFails
<1>4. CASE registerTimeout(w)
  BY <1>2, <1>4 DEF registerTimeout
<1>5. CASE closed(w)
  BY <1>1, <1>2, <1>5, CloseKeeps
  DEF closed, cli_closed, desktop_closed, simulator_closed, android_closed, closeUnheard
<1>6. CASE shutdown(w)
  BY <1>2, <1>6 DEF shutdown, stop, onDestroy, killed
<1>7. CASE cut(w)
  BY <1>1, <1>7, CloseKeeps DEF cut
<1> QED BY <1>3, <1>4, <1>5, <1>6, <1>7

\* The register_ack arrives, what awaited it runs, the pairing code is claimed.
LEMMA RegistrationKeeps ==
    ASSUME EndToEndInv, NEW w \in Workers, UNCHANGED <<clientVars, entry, result, receipt, jobVars>>,
           registerAck(w) \/ registerReturns(w) \/ claimReturns(w)
    PROVE  EndToEndInv'
<1>1. /\ run' = run /\ offered' = offered /\ entry' = entry /\ status' = status
  BY DEF clientVars, jobVars
<1>2. /\ launch' = launch /\ socket' = socket /\ outbox' = outbox /\ working' = working /\ key' = key
      /\ wire' = wire /\ keyFile' = keyFile /\ lastKey' = lastKey
  BY DEF registerAck, registerReturns, claimReturns
<1>3. /\ program[w] \notin {"off", "dialing", "exited"} /\ program'[w] \notin {"off", "dialing", "exited"}
      /\ DOMAIN program' = Workers /\ \A h \in Workers \ {w} : program'[h] = program[h]
  BY DEF EndToEndInv, Shape, WorkerOk, registerAck, registerReturns, claimReturns, To
<1>4. /\ DOMAIN inbox' = Workers /\ \A h \in Workers \ {w} : inbox'[h] = inbox[h]
      /\ inbox'[w] = inbox[w] \/ (inbox[w] # <<>> /\ inbox'[w] = Tail(inbox[w]))
  BY DEF EndToEndInv, Shape, registerAck, registerReturns, claimReturns, Read
<1>5. Shape'
  BY <1>1, <1>2, <1>3, <1>4 DEF EndToEndInv, Shape, clientVars, jobVars
<1>6. \A h \in Workers \ {w} : Untouched(h)
  BY <1>1, <1>2, <1>3, <1>4 DEF Untouched
<1>7. WorkerOk(w)'
  BY <1>1, <1>2, <1>3, <1>4, ProgramAdvances DEF EndToEndInv
<1> QED BY <1>2, <1>5, <1>6, <1>7, ProgramMoves

\* A key pair is read or made.
LEMMA KeysKeep ==
    ASSUME EndToEndInv, NEW w \in Workers, StoredKey(w) \/ (FreshKey(w) /\ UNCHANGED keyFile)
    PROVE  /\ keyFile' \in 0..MaxKeys /\ lastKey' \in 0..MaxKeys
           /\ key' = [key EXCEPT ![w] = key'[w]] /\ key'[w] \in 1..MaxKeys
<1>1. keyFile \in 0..MaxKeys /\ lastKey \in 0..MaxKeys /\ MaxKeys \in Nat /\ DOMAIN key = Workers
  BY ProgramAssumption DEF EndToEndInv, Shape
<1>2. CASE keyFile # 0 /\ key' = [key EXCEPT ![w] = keyFile] /\ UNCHANGED <<keyFile, lastKey>>
  BY <1>1, <1>2, SMT
<1>3. CASE FreshKey(w) /\ (keyFile' = lastKey + 1 \/ keyFile' = keyFile)
  BY <1>1, <1>3, SMT DEF FreshKey
<1> QED BY <1>2, <1>3 DEF StoredKey

\* A program is started.
LEMMA StartKeeps ==
    ASSUME EndToEndInv, NEW w \in Workers, start(w), UNCHANGED <<clientVars, hubVars>>
    PROVE  EndToEndInv'
<1>1. /\ run' = run /\ offered' = offered /\ entry' = entry /\ launch' = launch /\ status' = status
      /\ UNCHANGED <<clientVars, entry, result, receipt, jobVars>>
      /\ wire' = wire /\ inbox' = inbox /\ outbox' = outbox /\ working' = working
  BY DEF start, clientVars, hubVars, jobVars
<1>2. StoredKey(w) \/ (FreshKey(w) /\ UNCHANGED keyFile)
  BY DEF start, cli_start, desktop_main, simulator_main, android_onCreate, cli_loadOrCreateKeypair,
         desktop_loadOrCreateKeypair, simulator_loadOrCreateKeypair, android_stubPubkey
<1>3. /\ program[w] = "off" /\ w \in DOMAIN launch
      /\ program' = [program EXCEPT ![w] = "dialing"] /\ socket' = [socket EXCEPT ![w] = "connecting"]
  BY DEF start, To
<1>4. /\ keyFile' \in 0..MaxKeys /\ lastKey' \in 0..MaxKeys /\ key'[w] \in 1..MaxKeys
      /\ DOMAIN key' = Workers /\ \A h \in Workers \ {w} : key'[h] = key[h]
  BY <1>2, KeysKeep DEF EndToEndInv, Shape
<1>5. Shape'
  BY <1>1, <1>3, <1>4 DEF EndToEndInv, Shape, clientVars, hubVars, jobVars
<1>6. \A h \in Workers \ {w} : Untouched(h)
  BY <1>1, <1>3, <1>4 DEF EndToEndInv, Shape, Untouched
<1>7. program'[w] = "dialing" /\ socket'[w] = "connecting"
  BY <1>3 DEF EndToEndInv, Shape
<1>8. Idle(w)' /\ outbox'[w] = <<>> /\ inbox'[w] = <<>> /\ working'[w] = {}
  BY <1>1, <1>3 DEF EndToEndInv, WorkerOk, Idle
<1>9. Tracked(w)'
  <2>1. Tracked(w) /\ Mine(w)' = Mine(w)
    BY <1>1, ProgramKept DEF EndToEndInv, WorkerOk
  <2> QED BY <1>1, <1>7, <2>1 DEF Tracked
<1>10. key'[w] \in 0..MaxKeys /\ key'[w] # 0
  BY <1>4, ProgramAssumption, SMT
<1>11. inbox'[w] \in Seq(Incoming(w)') /\ outbox'[w] \in Seq(Outgoing(w)')
  BY <1>8, SMT
<1>12. w \in DOMAIN launch' /\ working'[w] \subseteq {r \in Mine(w) : IsLLM(PayloadOf(r))}'
  BY <1>1, <1>3, <1>8
<1>13. WorkerOk(w)'
  BY <1>7, <1>8, <1>9, <1>10, <1>11, <1>12 DEF WorkerOk
<1> QED BY <1>1, <1>5, <1>6, <1>13, ProgramMoves

\* The connection is open: the register message is sent.
LEMMA OpenedKeeps ==
    ASSUME EndToEndInv, NEW w \in Workers, opened(w), UNCHANGED <<clientVars, hubVars>>
    PROVE  EndToEndInv'
<1>1. /\ run' = run /\ offered' = offered /\ entry' = entry /\ launch' = launch /\ status' = status
      /\ UNCHANGED <<clientVars, entry, result, receipt, jobVars>>
      /\ wire' = wire /\ inbox' = inbox /\ working' = working /\ key' = key /\ keyFile' = keyFile
      /\ lastKey' = lastKey
  BY DEF opened, clientVars, hubVars, jobVars
<1>2. /\ program[w] = "dialing" /\ socket' = [socket EXCEPT ![w] = "open"]
      /\ outbox' = [outbox EXCEPT ![w] = Append(@, RegisterMsg(key[w]))]
  BY DEF opened, Sent
<1>3. \E p \in {"registering", "listening"} : program' = [program EXCEPT ![w] = p]
  BY DEF opened, cli_onOpen, desktop_onOpen, simulator_onOpen, android_onOpen, To
<1>4. /\ program'[w] \in {"registering", "listening"} /\ DOMAIN program' = Workers
      /\ \A h \in Workers \ {w} : program'[h] = program[h]
  BY <1>3 DEF EndToEndInv, Shape
<1>5. Shape'
  BY <1>1, <1>2, <1>4 DEF EndToEndInv, Shape, clientVars, hubVars, jobVars
<1>6. \A h \in Workers \ {w} : Untouched(h)
  BY <1>1, <1>2, <1>4 DEF EndToEndInv, Shape, Untouched
<1>7. /\ Idle(w) /\ outbox[w] = <<>> /\ key[w] \in 0..MaxKeys /\ key[w] # 0 /\ w \in DOMAIN launch
      /\ Tracked(w) /\ inbox[w] = <<>> /\ working[w] = {} /\ entry[w] = Untracked
  BY <1>2 DEF EndToEndInv, WorkerOk, Idle
<1>8. outbox'[w] = <<RegisterMsg(key[w])>> /\ socket'[w] = "open"
  BY <1>2, <1>7, SMT DEF EndToEndInv, Shape
<1>9. key[w] \in 1..MaxKeys
  BY <1>7, ProgramAssumption, SMT
<1>10. Registering(w)'
  BY <1>1, <1>7, <1>8, <1>9 DEF Registering, Idle
<1>11. Tracked(w)'
  <2>1. ~entry[w].in /\ Mine(w)' = Mine(w)
    BY <1>1, <1>7, ProgramKept, SMT DEF Untracked
  <2> QED BY <1>1, <1>7, <2>1 DEF Tracked
<1>12. inbox'[w] \in Seq(Incoming(w)')
  BY <1>1, <1>7, SMT
<1>13. w \in DOMAIN launch' /\ working'[w] \subseteq {r \in Mine(w) : IsLLM(PayloadOf(r))}'
  BY <1>1, <1>7
<1>14. WorkerOk(w)'
  BY <1>1, <1>4, <1>7, <1>10, <1>11, <1>12, <1>13 DEF WorkerOk
<1> QED BY <1>1, <1>5, <1>6, <1>14, ProgramMoves

\* A receipt is signed with the key of the registration, or there is none.
LEMMA ReceiptSigners ==
    ASSUME EndToEndInv, NEW w \in Workers, w \in DOMAIN launch, socket[w] = "open"
    PROVE  receiptOf(w) \in Signers(w)
<1>1. Kind(w) \in Kinds
  BY LaunchKinds
<1>2. receiptOf(w) \in {0, key[w]}
  BY <1>1 DEF Kinds, receiptOf, cli_buildReceipt, desktop_buildReceipt, simulator_buildReceipt,
              android_buildReceipt
<1>3. WorkerOk(w)
  BY DEF EndToEndInv
<1> QED BY <1>2, <1>3, ProgramAssumption, SMT DEF WorkerOk, Tracked, Signers

\* The end of handleJob: the answer joins the others.
LEMMA AnswerSent ==
    ASSUME EndToEndInv, NEW w \in Workers, w \in DOMAIN launch, outbox[w] \in Seq(Outgoing(w)),
           NEW j \in Mine(w), NEW output \in Answers(PayloadOf(j)), answer(w, j, output)
    PROVE  /\ DOMAIN outbox' = Workers /\ \A h \in Workers \ {w} : outbox'[h] = outbox[h]
           /\ outbox'[w] \in Seq(Outgoing(w))
<1>1. DOMAIN outbox = Workers
  BY DEF EndToEndInv, Shape
<1>2. CASE socket[w] = "open"
  <2> DEFINE m == JobCompleteMsg(j, output, receiptOf(w))
  <2>1. outbox' = [outbox EXCEPT ![w] = Append(@, m)]
    BY <1>2 DEF answer
  <2>2. m \in Outgoing(w)
    BY <1>2, ReceiptSigners, OutgoingIs
  <2>3. Append(outbox[w], m) \in Seq(Outgoing(w))
    BY <2>2, Queues
  <2> HIDE DEF m
  <2> QED BY <1>1, <2>1, <2>3
<1>3. CASE socket[w] # "open"
  BY <1>1, <1>3 DEF answer
<1> QED BY <1>2, <1>3

\* The program has read a message, worked on it or answered.
LEMMA WorkKeeps ==
    ASSUME EndToEndInv, NEW w \in Workers, UNCHANGED <<clientVars, hubVars>>,
           UNCHANGED <<launch, program, socket, wire, beating, keyFile, key, lastKey>>,
           program[w] \notin {"off", "dialing"}, inbox[w] # <<>> \/ working[w] # {},
           DOMAIN inbox' = Workers, \A h \in Workers \ {w} : inbox'[h] = inbox[h],
           DOMAIN outbox' = Workers, \A h \in Workers \ {w} : outbox'[h] = outbox[h],
           DOMAIN working' = Workers, \A h \in Workers \ {w} : working'[h] = working[h],
           inbox'[w] \in Seq(Incoming(w)), outbox'[w] \in Seq(Outgoing(w)),
           working'[w] \subseteq {r \in Mine(w) : IsLLM(PayloadOf(r))}
    PROVE  EndToEndInv'
<1>1. /\ run' = run /\ offered' = offered /\ entry' = entry /\ launch' = launch /\ status' = status
      /\ UNCHANGED <<clientVars, entry, result, receipt, jobVars>>
  BY DEF clientVars, hubVars, jobVars
<1>2. Shape'
  BY <1>1 DEF EndToEndInv, Shape, clientVars, hubVars, jobVars
<1>3. \A h \in Workers \ {w} : Untouched(h)
  BY <1>1 DEF Untouched
<1>4. WorkerOk(w)
  BY DEF EndToEndInv
<1>5. Tracked(w)'
  BY <1>1, <1>4, ProgramKept DEF WorkerOk, Tracked
<1>6. inbox'[w] \in Seq(Incoming(w)') /\ outbox'[w] \in Seq(Outgoing(w)')
  BY <1>1, ProgramKept
<1>7. working'[w] \subseteq {r \in Mine(w) : IsLLM(PayloadOf(r))}'
  BY <1>1, ProgramKept
<1>8. WorkerOk(w)'
  BY <1>1, <1>4, <1>5, <1>6, <1>7 DEF WorkerOk
<1> QED BY <1>1, <1>2, <1>3, <1>8, ProgramMoves

\* job_assign arrives: it is not heard, is answered, or is worked on.
LEMMA HandleJobKeeps ==
    ASSUME EndToEndInv, NEW w \in Workers, handleJob(w), UNCHANGED <<clientVars, hubVars>>
    PROVE  EndToEndInv'
<1> DEFINE m == Head(inbox[w])
           Llm == {r \in Mine(w) : IsLLM(PayloadOf(r))}
<1>1. /\ inbox[w] # <<>> /\ m.type = "job_assign" /\ socket[w] = "open"
      /\ inbox' = [inbox EXCEPT ![w] = Tail(@)]
      /\ UNCHANGED <<launch, program, socket, wire, beating, keyFile, key, lastKey>>
  BY DEF handleJob, Read
<1>2. WorkerOk(w) /\ program[w] \notin {"off", "dialing"}
  BY <1>1 DEF EndToEndInv, WorkerOk
<1>3. /\ w \in DOMAIN launch /\ inbox[w] \in Seq(Incoming(w)) /\ working[w] \subseteq Llm
      /\ outbox[w] \in Seq(Outgoing(w))
  BY <1>1, <1>2 DEF WorkerOk, Registering, Idle
<1>4. DOMAIN inbox = Workers /\ DOMAIN outbox = Workers /\ DOMAIN working = Workers
  BY DEF EndToEndInv, Shape
<1>5. /\ DOMAIN inbox' = Workers /\ \A h \in Workers \ {w} : inbox'[h] = inbox[h]
      /\ inbox'[w] \in Seq(Incoming(w))
  BY <1>1, <1>3, <1>4, Queues
<1>6. m \in Incoming(w)
  BY <1>1, <1>3, Queues
<1>7. PICK j \in Mine(w) : JobTypeOf(j) \in Capabilities(w) /\ m = JobAssignMsg(j, PayloadOf(j))
  <2>1. RegisterAckMsg.type # "job_assign"
    BY DEF RegisterAckMsg
  <2> QED BY <1>1, <1>6, <2>1 DEF Incoming
<1>8. m.job = j /\ m.payload = PayloadOf(j)
  BY <1>7, SMT DEF JobAssignMsg
<1> HIDE DEF m
<1>9. ASSUME UNCHANGED <<outbox, working>> PROVE EndToEndInv'
  BY <1>1, <1>2, <1>3, <1>4, <1>5, <1>9, WorkKeeps
<1>10. ASSUME NEW output \in Answers(PayloadOf(j)), Reply(w, j, output) PROVE EndToEndInv'
  <2>1. answer(w, j, output) /\ working' = working
    BY <1>10 DEF Reply
  <2>2. /\ DOMAIN outbox' = Workers /\ \A h \in Workers \ {w} : outbox'[h] = outbox[h]
        /\ outbox'[w] \in Seq(Outgoing(w))
    BY <1>3, <2>1, AnswerSent
  <2> QED BY <1>1, <1>2, <1>3, <1>4, <1>5, <2>1, <2>2, WorkKeeps
<1>11. ASSUME IsLLM(PayloadOf(j)), Await(w, j) PROVE EndToEndInv'
  <2>1. working' = [working EXCEPT ![w] = @ \cup {j}] /\ outbox' = outbox
    BY <1>11 DEF Await
  <2>2. /\ DOMAIN working' = Workers /\ \A h \in Workers \ {w} : working'[h] = working[h]
        /\ working'[w] = working[w] \cup {j}
    BY <1>4, <2>1
  <2>3. working'[w] \subseteq Llm
    BY <1>3, <1>11, <2>2
  <2> QED BY <1>1, <1>2, <1>3, <1>4, <1>5, <2>1, <2>2, <2>3, WorkKeeps
<1>12. CASE program[w] # "listening"
  BY <1>9, <1>12 DEF handleJob
<1>13. CASE program[w] = "listening"
  <2>1. \/ cli_handleMessage(w, m) \/ desktop_onMessage(w, m)
        \/ simulator_onMessage(w, m) \/ android_onMessage(w, m)
    BY <1>13 DEF handleJob, m
  <2>2. CASE cli_handleMessage(w, m)
    BY <1>8, <1>10, <1>11, <2>2 DEF cli_handleMessage, Answers
  <2>3. CASE desktop_onMessage(w, m)
    BY <1>8, <1>10, <1>11, <2>3 DEF desktop_onMessage, Answers
  <2>4. Kind(w) \in {"simulator", "android"} => ~IsLLM(PayloadOf(j))
    <3>1. Kind(w) \in {"simulator", "android"} => JobTypeOf(j) = "TASK"
      BY <1>3, <1>7, LaunchKinds
    <3>2. JobTypeOf(j) = "TASK" => PayloadOf(j).job_type = "TASK"
      BY DEF PayloadOf
    <3> QED BY <3>1, <3>2 DEF IsLLM
  <2>5. CASE simulator_onMessage(w, m)
    BY <1>8, <1>10, <2>4, <2>5 DEF simulator_onMessage, Answers
  <2>6. CASE android_onMessage(w, m)
    BY <1>8, <1>10, <2>4, <2>6 DEF android_onMessage, Answers
  <2> QED BY <2>1, <2>2, <2>3, <2>5, <2>6
<1> QED BY <1>12, <1>13

\* The answer of Ollama, or of the stub, is sent.
LEMMA InferredKeeps ==
    ASSUME EndToEndInv, NEW w \in Workers, NEW j \in working[w], inferred(w, j),
           UNCHANGED <<clientVars, hubVars>>
    PROVE  EndToEndInv'
<1>1. /\ working' = [working EXCEPT ![w] = @ \ {j}] /\ inbox' = inbox
      /\ UNCHANGED <<launch, program, socket, wire, beating, keyFile, key, lastKey>>
  BY DEF inferred
<1>2. PICK output \in desktop_executeLLM \cup cli_executeLLM : answer(w, j, output)
  BY DEF inferred
<1>3. WorkerOk(w) /\ program[w] \notin {"off", "dialing"}
  BY DEF EndToEndInv, WorkerOk, Idle
<1>4. /\ w \in DOMAIN launch /\ inbox[w] \in Seq(Incoming(w)) /\ outbox[w] \in Seq(Outgoing(w))
      /\ working[w] \subseteq {r \in Mine(w) : IsLLM(PayloadOf(r))}
  BY <1>3 DEF WorkerOk, Registering, Idle
<1>5. j \in Mine(w) /\ output \in Answers(PayloadOf(j))
  BY <1>4 DEF Answers
<1>6. /\ DOMAIN outbox' = Workers /\ \A h \in Workers \ {w} : outbox'[h] = outbox[h]
      /\ outbox'[w] \in Seq(Outgoing(w))
  BY <1>2, <1>4, <1>5, AnswerSent
<1>7. /\ DOMAIN inbox = Workers /\ DOMAIN working' = Workers
      /\ \A h \in Workers \ {w} : working'[h] = working[h]
      /\ working'[w] \subseteq {r \in Mine(w) : IsLLM(PayloadOf(r))}
  BY <1>1, <1>4 DEF EndToEndInv, Shape
<1> QED BY <1>1, <1>3, <1>4, <1>6, <1>7, WorkKeeps

\* All the steps of a program.
LEMMA ProgramKeeps ==
    ASSUME EndToEndInv, NEW w \in Workers, Program(w)
    PROVE  EndToEndInv'
<1>1. UNCHANGED <<clientVars, hubVars>> /\ ProgramStep(w)
  BY DEF Program
<1>2. UNCHANGED <<clientVars, entry, result, receipt, jobVars>>
  BY <1>1 DEF hubVars
<1> QED BY <1>1, <1>2, OpenedKeeps, EndsKeep, RegistrationKeeps, HandleJobKeeps, InferredKeeps
        DEF ProgramStep

\* A key pair is written to the file; no program has it.
LEMMA KeyFileKeeps ==
    ASSUME EndToEndInv, initKeypair, run' = run, UNCHANGED hubVars
    PROVE  EndToEndInv'
<1>1. /\ offered' = offered /\ entry' = entry /\ status' = status /\ paid' = paid
      /\ result' = result /\ receipt' = receipt
  BY DEF hubVars, jobVars
<1>2. keyFile' \in 0..MaxKeys /\ lastKey' \in 0..MaxKeys
  BY ProgramAssumption, SMT DEF EndToEndInv, Shape, initKeypair
<1>3. UNCHANGED <<launch, program, socket, wire, inbox, outbox, working, key>>
  BY DEF initKeypair
<1>4. Shape'
  BY <1>1, <1>2, <1>3 DEF EndToEndInv, Shape
<1>5. \A r \in Runs : RunOk(r)' /\ JobOk(r)'
  BY <1>1, RunUntouched, JobUntouched DEF EndToEndInv
<1>6. ASSUME NEW w \in Workers PROVE WorkerOk(w)'
  <2>1. Kept(w) /\ Untouched(w)
    BY <1>1, <1>3, ProgramKept DEF Untouched
  <2> QED BY <1>1, <2>1, WorkerUntouched DEF EndToEndInv
<1> QED BY <1>4, <1>5, <1>6 DEF EndToEndInv
=============================================================================
