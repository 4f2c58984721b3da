----------------------------- MODULE EndToEnd -----------------------------
(***************************************************************************)
(* Clients, coordinator and worker programs together: a run of the CLI or  *)
(* of the SDK commits a job, a worker program does it, and the run polls   *)
(* the answer or falls back to a hosted provider.                          *)
(*                                                                         *)
(* The coordinator is here what JobLifecycle says of it, which Coordinator *)
(* implements, together with its end of the workers' connections.  The job *)
(* of a run has the run's name.                                            *)
(***************************************************************************)
EXTENDS WorkerPrograms, AgentClient

CONSTANT None

ASSUME EndToEndAssumption == None \notin Runs

VARIABLES
    entry,     \* [Workers -> the hub's TrackedWorker of the connection]
    trusted,   \* keys with a claimed trust pairing
    result,    \* [Runs -> result column: <<>> or <<output>>]
    receipt,   \* [Runs -> receipt stored: "none", "verified" or "unverified"]
    status, assignee, offered, paid   \* of JobLifecycle

Lifecycle == INSTANCE JobLifecycle WITH Jobs <- Runs, Pubkeys <- 1 .. MaxKeys

jobVars == <<status, assignee, offered, paid>>
hubVars == <<entry, trusted, result, receipt, jobVars>>
vars    == <<programVars, clientVars, hubVars>>

Untracked == [in |-> FALSE, key |-> 0, job |-> None]

Init ==
    /\ ProgramInit /\ ClientInit /\ Lifecycle!Init
    /\ entry = [w \in Workers |-> Untracked]
    /\ trusted = {}
    /\ result = [r \in Runs |-> <<>>]
    /\ receipt = [r \in Runs |-> "none"]

(***************************************************************************)
(* The coordinator's end of a connection                                   *)
(***************************************************************************)
\* What is written to a connection that has been cut is lost.
Deliver(w, m) == inbox' = IF wire[w] THEN [inbox EXCEPT ![w] = Append(@, m)] ELSE inbox

Taken(w) == outbox' = [outbox EXCEPT ![w] = Tail(@)]

\* What a step of the hub leaves alone in the program at the other end.
Elsewhere == <<launch, program, socket, beating, working, keyFile, key, lastKey, stats, unheard>>

handleRegister(w) ==
    /\ outbox[w] # <<>> /\ Head(outbox[w]).type = "register"
    /\ Taken(w)
    /\ entry' = [entry EXCEPT ![w] = [in |-> TRUE, key |-> Head(outbox[w]).key, job |-> None]]
    /\ Deliver(w, RegisterAckMsg)
    /\ UNCHANGED <<Elsewhere, wire, clientVars, trusted, result, receipt, jobVars>>

\* The receipt is checked with the key of the registration.
verifyReceiptSignature(signer, registered) == signer = registered

\* The answer to a job that no tracked worker has is ignored.
handleJobComplete(w) ==
    /\ outbox[w] # <<>> /\ Head(outbox[w]).type = "job_complete"
    /\ Taken(w)
    /\ LET m    == Head(outbox[w])
           held == {h \in Workers : entry[h].job = m.job}
       IN  IF held = {} THEN UNCHANGED <<entry, result, receipt, jobVars>>
           ELSE \E h \in held :
                  /\ Lifecycle!Complete(m.job)
                  /\ result' = [result EXCEPT ![m.job] = <<m.output>>]
                  /\ receipt' = [receipt EXCEPT ![m.job] =
                                    CASE m.receipt = 0 -> "none"
                                      [] verifyReceiptSignature(m.receipt, entry[h].key) -> "verified"
                                      [] OTHER -> "unverified"]
                  /\ entry' = [entry EXCEPT ![h].job = None]
    /\ UNCHANGED <<Elsewhere, inbox, wire, clientVars, trusted>>

Gone(w) ==
    /\ entry' = [entry EXCEPT ![w] = Untracked]
    /\ Lifecycle!Lose({entry[w].job} \ {None})
    /\ outbox' = [outbox EXCEPT ![w] = <<>>]
    /\ wire' = [wire EXCEPT ![w] = FALSE]
    /\ UNCHANGED <<Elsewhere, inbox, clientVars, trusted, result, receipt>>

\* The hub sees the end of a connection.  What was still on its way is lost.
handleDisconnect(w) == ~wire[w] /\ (entry[w].in \/ outbox[w] # <<>>) /\ Gone(w)

\* Heartbeats are credited to the first worker of their key only.
pruneStale(w) ==
    /\ entry[w].in /\ wire[w]
    /\ \/ w \notin beating
       \/ \E h \in Workers \ {w} : entry[h].in /\ entry[h].key = entry[w].key
    /\ Gone(w)

(***************************************************************************)
(* Jobs                                                                    *)
(***************************************************************************)
Candidates(r) ==
    {w \in Workers : /\ entry[w].in /\ entry[w].job = None
                     /\ JobTypeOf(r) \in Capabilities(w)
                     /\ Private(r) => entry[w].key \in trusted}

\* claimWorker and assignJob.  Coordinator says which candidate it is.
assign(r) ==
    \E w \in Candidates(r) :
        /\ Lifecycle!Assign(r, entry[w].key)
        /\ entry' = [entry EXCEPT ![w].job = r]
        /\ Deliver(w, JobAssignMsg(r, PayloadOf(r)))

\* handleCommit: a PRIVATE job that nobody can take fails at once.
handleCommit(r) ==
    IF Candidates(r) # {} THEN assign(r)
    ELSE /\ Lifecycle!Commit(r)
         /\ status'[r] = IF Private(r) THEN "failed" ELSE "pending"
         /\ UNCHANGED <<entry, inbox>>

commit(r) ==
    /\ CommitReaches(r)
    /\ handleCommit(r)
    /\ IF status'[r] = "failed" THEN throws(r) ELSE committed(r) \/ commitLost(r)
    /\ UNCHANGED <<Elsewhere, outbox, wire, trusted, result, receipt>>

\* A tick of the retry loop, or its last one.
retry(r) ==
    /\ status[r] = "pending"
    /\ IF Candidates(r) # {} THEN assign(r)
       ELSE Lifecycle!GiveUp(r) /\ UNCHANGED <<entry, inbox>>
    /\ UNCHANGED <<Elsewhere, outbox, wire, clientVars, trusted, result, receipt>>

\* The claim of a pairing code succeeds or is refused.
claim(w) ==
    /\ claimReturns(w)
    /\ \E keys \in (IF Kind(w) = "cli" THEN claimTrustPairing(w) ELSE claimTrust(w)) :
           trusted' = trusted \cup keys
    /\ UNCHANGED <<clientVars, entry, result, receipt, jobVars>>

\* GET /v1/jobs/:id
poll(r) ==
    /\ polled(r, status[r], IF result[r] # <<>> THEN result[r][1] ELSE [error |-> "failed"])
    /\ UNCHANGED <<programVars, hubVars>>

\* "dispatch worker status" makes a key pair if there is none.
workerStatus ==
    /\ config[resolveConfigPath(FALSE)] \in Policy /\ keyFile = 0
    /\ initKeypair
    /\ UNCHANGED <<clientVars, hubVars>>

\* "dispatch init"
dispatchInit == initKeypair /\ initConfig /\ UNCHANGED hubVars

(***************************************************************************)
(* The system                                                              *)
(***************************************************************************)
Client(r) ==
    /\ \/ quoteReturns(r) \/ throws(r) \/ paymentRequired(r) \/ deadline(r)
       \/ hostedFails(r) \/ hostedReturns(r) \/ allFailed(r)
    /\ UNCHANGED <<programVars, hubVars>>

Begin(r) == (\E o \in Options : agentRun(r, o)) /\ UNCHANGED <<programVars, hubVars>>

\* "dispatch worker start" needs a configuration.
workerStart(w) ==
    /\ start(w)
    /\ Kind(w) = "cli" => config[resolveConfigPath(FALSE)] \in Policy
    /\ UNCHANGED <<clientVars, hubVars>>

Program(w) == ProgramStep(w) /\ UNCHANGED <<clientVars, hubVars>>

Hub(w) == handleRegister(w) \/ handleJobComplete(w) \/ handleDisconnect(w)

Next ==
    \/ \E r \in Runs : Begin(r) \/ Client(r) \/ commit(r) \/ poll(r) \/ retry(r)
    \/ \E w \in Workers : workerStart(w) \/ Program(w) \/ claim(w) \/ Hub(w) \/ pruneStale(w)
    \/ dispatchInit \/ workerStatus

Spec == Init /\ [][Next]_vars

\* What a program does by itself, without a signal or the network.
Proceeds(w) ==
    /\ \/ registerAck(w) \/ registerReturns(w) \/ handleJob(w)
       \/ \E j \in working[w] : inferred(w, j)
    /\ UNCHANGED <<clientVars, hubVars>>

\* Timers fire, callbacks run, and HTTP requests are answered or time out.
FairSpec ==
    /\ Spec
    /\ \A r \in Runs : WF_vars(Client(r) \/ commit(r) \/ poll(r)) /\ WF_vars(retry(r))
    /\ \A w \in Workers : WF_vars(Proceeds(w)) /\ WF_vars(Hub(w))

(***************************************************************************)
(* Properties                                                              *)
(***************************************************************************)
\* A run signs one x402 payment at most, whatever becomes of its commit, and is
\* charged only for a job that the coordinator has.  Under the policy AUTO, from
\* the command line, the configuration or by default, it is charged what it was
\* quoted: GET /v1/quote, the SDK's choice of the commit route and the price of
\* that route in the x402 middleware agree.
ChargedAsQuoted ==
    \A r \in Runs :
        /\ run[r].payments <= 1
        /\ run[r].charged # 0 => status[r] # "none"
        /\ (run[r].charged # 0 /\ run[r].policy = "AUTO")
               => run[r].charged = run[r].quoted

\* A receipt that is stored verifies: the program signs with the key that it
\* registered with, though "dispatch init" may have replaced the key file.
ReceiptsVerify == \A r \in Runs : receipt[r] # "unverified"

\* What a run returns as the network's answer is the result of its own job,
\* which was completed and whose worker was paid: not the error of a failed job.
AnswerIsTheJobs ==
    \A r \in Runs : (run[r].stage = "done" /\ run[r].answer[1] = "decentralized") =>
        status[r] = "completed" /\ paid[r] # <<>> /\ result[r] = <<run[r].answer[2]>>

\* It does not matter which program a job is assigned to.  One that came through
\* the CLI's checks of its options is done, not completed with the text
\* "Unsupported job payload"; and the answer of a task with a text is the same,
\* also that of the mobile app, if the text has only words of the common lexicon.
ExecutorsAgree ==
    \A r \in Runs : status[r] = "completed" =>
        /\ ~run[r].opts.sdk => ~Failed(result[r][1])
        /\ (JobTypeOf(r) = "TASK" /\ PayloadOf(r).input # <<>> /\ ~Failed(result[r][1])) =>
               LET payload == PayloadOf(r)
                   text    == payload.input[1]
                   output  == desktop_executeTask(payload.task_type, text)
               IN  /\ mobile_executeTask(payload.task_type, text) = output
                   /\ IsCommon(text) => result[r][1] = output

(***************************************************************************)
(* The inductive invariant behind the four invariants above                *)
(***************************************************************************)
\* The options of a job have come through the CLI's checks, or the SDK's types.
Accepted(o) ==
    /\ o \in Options
    /\ \/ o.sdk
       \/ /\ validateAgentRunArgs(o) = ""
          /\ o.type = "task" => mapTaskType(o.taskType) # ""

\* What the programs may answer to a payload they registered for.
Answers(payload) ==
    IF IsLLM(payload) THEN desktop_executeLLM \cup cli_executeLLM
    ELSE {desktop_output(payload), cli_output(payload), simulator_output(payload),
          android_output(payload)}

Price(r) == getPrice(PolicyOf(r), JobTypeOf(r))

\* Until the coordinator has taken the commit there is no job and nothing is
\* charged; a signed payment is followed by no other.
RunOk(r) ==
    LET x == run[r]
    IN  /\ DOMAIN x = DOMAIN NewRun
        /\ x.payments \in 0..1
        /\ x.stage \in {"off", "quote", "commit"} => x.payments = 0
        /\ x.stage \in {"off", "quote", "commit", "paid"} => x.charged = 0 /\ status[r] = "none"
        /\ x.stage \in {"commit", "paid", "polling"} => x.quoted = Price(r)
        /\ x.stage \notin {"off", "error"} \/ status[r] # "none" => Accepted(x.opts)
        /\ x.charged # 0 =>
               x.charged = paymentOf(PolicyOf(r)) /\ x.quoted = Price(r) /\ status[r] # "none"
        /\ (x.stage = "done" /\ x.answer[1] = "decentralized") =>
               status[r] = "completed" /\ result[r] = <<x.answer[2]>>

JobOk(r) ==
    /\ receipt[r] # "unverified"
    /\ r \in offered => status[r] # "none"
    /\ status[r] = "completed" =>
           paid[r] # <<>> /\ \E output \in Answers(PayloadOf(r)) : result[r] = <<output>>

\* The jobs that were offered and that no worker but w has.
Mine(w) == {r \in offered : \A h \in Workers \ {w} : entry[h].job # r}

\* The messages there may be on the connection of w, once it is registered.
\* Answers are signed with the key of the registration.
Incoming(w) ==
    {RegisterAckMsg} \cup
    {JobAssignMsg(r, PayloadOf(r)) : r \in {q \in Mine(w) : JobTypeOf(q) \in Capabilities(w)}}

Signers(w) == IF entry[w].in THEN {0, entry[w].key} ELSE 0..MaxKeys

Outgoing(w) ==
    UNION {{JobCompleteMsg(r, output, k) : output \in Answers(PayloadOf(r)), k \in Signers(w)} :
               r \in Mine(w)}

Idle(w) == entry[w] = Untracked /\ inbox[w] = <<>> /\ working[w] = {}

\* The register message is the first one, and alone.
Registering(w) ==
    /\ Idle(w)
    /\ \E k \in 1..MaxKeys : outbox[w] = <<RegisterMsg(k)>> /\ (socket[w] = "open" => key[w] = k)

Tracked(w) ==
    /\ DOMAIN entry[w] = DOMAIN Untracked /\ entry[w].in \in BOOLEAN
    /\ ~entry[w].in => entry[w] = Untracked
    /\ entry[w].in => entry[w].key \in 1..MaxKeys /\ (socket[w] = "open" => key[w] = entry[w].key)
    /\ entry[w].job # None => entry[w].job \in Mine(w) /\ status[entry[w].job] = "assigned"

WorkerOk(w) ==
    /\ key[w] \in 0..MaxKeys /\ Tracked(w)
    /\ program[w] \in {"off", "dialing"} => Idle(w) /\ outbox[w] = <<>>
    /\ program[w] = "dialing" => key[w] # 0
    /\ program[w] \in {"off", "dialing", "exited"} => socket[w] # "open"
    /\ program[w] # "off" =>
           /\ w \in DOMAIN launch
           /\ inbox[w] \in Seq(Incoming(w))
           /\ working[w] \subseteq {r \in Mine(w) : IsLLM(PayloadOf(r))}
           /\ Registering(w) \/ outbox[w] \in Seq(Outgoing(w))

Shape ==
    /\ launch \in Fleets /\ keyFile \in 0..MaxKeys /\ lastKey \in 0..MaxKeys
    /\ DOMAIN program = Workers /\ DOMAIN socket = Workers /\ DOMAIN wire = Workers
    /\ DOMAIN inbox = Workers /\ DOMAIN outbox = Workers /\ DOMAIN working = Workers
    /\ DOMAIN key = Workers /\ DOMAIN entry = Workers
    /\ DOMAIN run = Runs /\ DOMAIN status = Runs /\ DOMAIN paid = Runs
    /\ DOMAIN result = Runs /\ DOMAIN receipt = Runs
    /\ offered \subseteq Runs

EndToEndInv ==
    /\ Shape
    /\ \A r \in Runs : RunOk(r) /\ JobOk(r)
    /\ \A w \in Workers : WorkerOk(w)

\* Every run ends, with an answer or an error, whatever the coordinator, the
\* workers and the hosted providers do.
RunEnds == \A r \in Runs : (run[r].stage # "off") ~> Ended(r)

\* Every job ends, except one whose job_assign came before its worker listened
\* for jobs: it stays assigned as long as the worker is connected.
JobsSettle ==
    \A r \in Runs : (status[r] # "none") ~> (status[r] \in {"completed", "failed"} \/ r \in unheard)
=============================================================================
