--------------------------- MODULE WorkerPrograms ---------------------------
(***************************************************************************)
(* The worker programs that run beside the mobile app: worker-desktop, the *)
(* CLI's "dispatch worker start" (worker-runtime.ts), seeker-simulator and *)
(* the Android worker.  Each dials the coordinator once, registers, and    *)
(* answers job_assign messages; none of them dials again.                  *)
(*                                                                         *)
(* The steps are the callbacks of a program.  The coordinator's end of the *)
(* connections is in EndToEnd.                                             *)
(***************************************************************************)
EXTENDS TaskExecutors, FiniteSets

CONSTANTS
    Workers,   \* running programs
    Fleets,    \* the programs that may be launched: functions from workers to Launches
    MaxKeys    \* bound: key pairs generated

Kinds == {"desktop", "cli", "simulator", "android"}

\* Which program it is, whether it is given a trust pairing code, and the
\* capabilities it registers with, which only the CLI lets the user choose.
Launches ==
    {l \in [kind: Kinds, code: BOOLEAN, capabilities: SUBSET {"LLM_INFER", "TASK"}] :
        CASE l.kind = "desktop" -> l.capabilities = {"LLM_INFER", "TASK"}
          [] l.kind = "cli"     -> l.capabilities # {}
          [] OTHER              -> l.capabilities = {"TASK"} /\ ~l.code}

ASSUME ProgramAssumption ==
    /\ Fleets \subseteq UNION {[W -> Launches] : W \in SUBSET Workers}
    /\ MaxKeys \in Nat

VARIABLES
    launch,    \* a member of Fleets, chosen at the start
    program,   \* [Workers -> where the program is]
    socket,    \* [Workers -> readyState of its socket]
    wire,      \* [Workers -> BOOLEAN]: the connection has not been cut
    beating,   \* workers with a heartbeat timer
    inbox,     \* [Workers -> Seq(messages)] from the coordinator
    outbox,    \* [Workers -> Seq(messages)] to the coordinator
    working,   \* [Workers -> jobs whose execution is awaited]
    keyFile,   \* key pair stored in ./data/worker-key.json (0: none)
    key,       \* [Workers -> the key pair the program has loaded]
    lastKey,   \* key pairs generated so far
    stats,     \* [Workers -> WorkerStats of the CLI]
    unheard    \* history: jobs whose job_assign no listener was there for

programVars == <<launch, program, socket, wire, beating, inbox, outbox, working,
                 keyFile, key, lastKey, stats, unheard>>

Kind(w)    == launch[w].kind
HasCode(w) == launch[w].code
Capabilities(w) == launch[w].capabilities

NoStats == [status |-> "disconnected", completed |-> 0, failed |-> 0]

ProgramInit ==
    /\ launch \in Fleets
    /\ program = [w \in Workers |-> "off"]
    /\ socket = [w \in Workers |-> "none"]
    /\ wire = [w \in Workers |-> TRUE]
    /\ beating = {}
    /\ inbox = [w \in Workers |-> <<>>]
    /\ outbox = [w \in Workers |-> <<>>]
    /\ working = [w \in Workers |-> {}]
    /\ keyFile = 0
    /\ key = [w \in Workers |-> 0]
    /\ lastKey = 0
    /\ stats = [w \in Workers |-> NoStats]
    /\ unheard = {}

(***************************************************************************)
(* Messages (protocol/wsMessages.ts).  Heartbeats are not on the wires: a  *)
(* program with a heartbeat timer is in beating.                           *)
(***************************************************************************)
RegisterMsg(k)            == [type |-> "register", key |-> k]
RegisterAckMsg            == [type |-> "register_ack"]
JobAssignMsg(j, payload)  == [type |-> "job_assign", job |-> j, payload |-> payload]
\* receipt: the key that signed it, 0 if there is none
JobCompleteMsg(j, output, receipt) ==
    [type |-> "job_complete", job |-> j, output |-> output, receipt |-> receipt]

To(w, p) == program' = [program EXCEPT ![w] = p]

\* WorkerStats; only the CLI keeps them.
setStatus(w, status) ==
    stats' = IF Kind(w) = "cli" THEN [stats EXCEPT ![w].status = status] ELSE stats

\* The process ends: its memory, timers and socket are gone.
exit(w) ==
    /\ To(w, "exited")
    /\ socket' = [socket EXCEPT ![w] = "closed"]
    /\ wire' = [wire EXCEPT ![w] = FALSE]
    /\ beating' = beating \ {w}
    /\ working' = [working EXCEPT ![w] = {}]
    /\ inbox' = [inbox EXCEPT ![w] = <<>>]
    /\ key' = [key EXCEPT ![w] = 0]
    /\ stats' = [stats EXCEPT ![w] = NoStats]
    /\ UNCHANGED <<launch, outbox, keyFile, lastKey, unheard>>

(***************************************************************************)
(* Keys.  The desktop worker and the CLI share a key file; the simulator   *)
(* has one of its own and the Android worker makes up an identity, which   *)
(* no other program sees.                                                  *)
(***************************************************************************)
FreshKey(w) ==
    /\ lastKey < MaxKeys
    /\ lastKey' = lastKey + 1
    /\ key' = [key EXCEPT ![w] = lastKey + 1]

StoredKey(w) ==
    IF keyFile # 0 THEN key' = [key EXCEPT ![w] = keyFile] /\ UNCHANGED <<keyFile, lastKey>>
    ELSE FreshKey(w) /\ keyFile' = lastKey + 1

cli_loadOrCreateKeypair(w)       == Kind(w) = "cli" /\ StoredKey(w)
desktop_loadOrCreateKeypair(w)   == Kind(w) = "desktop" /\ StoredKey(w)
simulator_loadOrCreateKeypair(w) == Kind(w) = "simulator" /\ FreshKey(w) /\ UNCHANGED keyFile
android_stubPubkey(w)            == Kind(w) = "android" /\ FreshKey(w) /\ UNCHANGED keyFile

\* "dispatch init" writes a new key pair, whatever the file holds.
initKeypair ==
    /\ lastKey < MaxKeys
    /\ lastKey' = lastKey + 1
    /\ keyFile' = lastKey + 1
    /\ UNCHANGED <<launch, program, socket, wire, beating, inbox, outbox, working, key, stats, unheard>>

(***************************************************************************)
(* Start, connection and registration                                      *)
(***************************************************************************)
\* The Android worker's heartbeat timer runs from the start.
cli_start(w)        == cli_loadOrCreateKeypair(w) /\ setStatus(w, "connecting") /\ UNCHANGED beating
desktop_main(w)     == desktop_loadOrCreateKeypair(w) /\ UNCHANGED <<stats, beating>>
simulator_main(w)   == simulator_loadOrCreateKeypair(w) /\ UNCHANGED <<stats, beating>>
android_onCreate(w) == android_stubPubkey(w) /\ beating' = beating \cup {w} /\ UNCHANGED stats

start(w) ==
    /\ w \in DOMAIN launch /\ program[w] = "off"
    /\ cli_start(w) \/ desktop_main(w) \/ simulator_main(w) \/ android_onCreate(w)
    /\ To(w, "dialing")
    /\ socket' = [socket EXCEPT ![w] = "connecting"]
    /\ UNCHANGED <<launch, wire, inbox, outbox, working, unheard>>

Sent(w, m) == outbox' = [outbox EXCEPT ![w] = Append(@, m)]

\* registerWorker: the listener for jobs is not there yet.
cli_onOpen(w)     == Kind(w) = "cli" /\ To(w, "registering") /\ UNCHANGED beating
desktop_onOpen(w) == Kind(w) = "desktop" /\ To(w, "registering") /\ UNCHANGED beating

\* These do not wait for the register_ack.
simulator_onOpen(w) == Kind(w) = "simulator" /\ To(w, "listening") /\ beating' = beating \cup {w}
android_onOpen(w)   == Kind(w) = "android" /\ To(w, "listening") /\ UNCHANGED beating

opened(w) ==
    /\ program[w] = "dialing" /\ wire[w] /\ socket[w] = "connecting"
    /\ socket' = [socket EXCEPT ![w] = "open"]
    /\ Sent(w, RegisterMsg(key[w]))
    /\ cli_onOpen(w) \/ desktop_onOpen(w) \/ simulator_onOpen(w) \/ android_onOpen(w)
    /\ UNCHANGED <<launch, wire, inbox, working, keyFile, key, lastKey, stats, unheard>>

\* No connection (for the CLI, also: none within 10 s).
dialFails(w) ==
    /\ program[w] = "dialing" /\ socket[w] = "connecting"
    /\ IF Kind(w) = "android"
       THEN /\ socket' = [socket EXCEPT ![w] = "closed"]
            /\ wire' = [wire EXCEPT ![w] = FALSE]
            /\ UNCHANGED <<launch, program, beating, inbox, outbox, working, keyFile, key,
                           lastKey, stats, unheard>>
       ELSE exit(w)

Read(w) == inbox' = [inbox EXCEPT ![w] = Tail(@)]

\* registerWorker: the ack settles its promise; what awaits it runs later.
registerAck(w) ==
    /\ inbox[w] # <<>> /\ Head(inbox[w]).type = "register_ack"
    /\ socket[w] = "open"
    /\ Read(w)
    /\ program' = IF program[w] = "registering" THEN [program EXCEPT ![w] = "registered"] ELSE program
    /\ UNCHANGED <<launch, socket, wire, beating, outbox, working, keyFile, key, lastKey, stats, unheard>>

\* No ack within 10 s: the program gives up.
registerTimeout(w) == program[w] = "registering" /\ exit(w)

\* The heartbeat starts.  The listeners for messages and for the end of the
\* connection are attached last, after the pairing code, if any, is claimed.
cli_registered(w)     == Kind(w) = "cli" /\ setStatus(w, "registered")
desktop_registered(w) == Kind(w) = "desktop" /\ UNCHANGED stats

registerReturns(w) ==
    /\ program[w] = "registered"
    /\ cli_registered(w) \/ desktop_registered(w)
    /\ beating' = beating \cup {w}
    /\ To(w, IF HasCode(w) THEN "claiming" ELSE "listening")
    /\ UNCHANGED <<launch, socket, wire, inbox, outbox, working, keyFile, key, lastKey, unheard>>

\* The keys that a claim of the pairing code adds to the trusted ones: none if
\* the coordinator refuses it or is not reached, which is only a warning.
requestJson(effect)  == {{}, effect}
claimTrustPairing(w) == requestJson({key[w]})
claimTrust(w)        == {{}, {key[w]}}

claimReturns(w) ==
    /\ program[w] = "claiming"
    /\ To(w, "listening")
    /\ UNCHANGED <<launch, socket, wire, beating, inbox, outbox, working, keyFile, key, lastKey,
                   stats, unheard>>

(***************************************************************************)
(* Jobs.  A payload is what job_assign carries: its job_type, whether      *)
(* there is a prompt, and task_type and input, if any.                     *)
(***************************************************************************)
Unsupported == [error |-> "Unsupported job payload"]

IsLLM(payload)  == payload.job_type = "LLM_INFER" /\ payload.prompt
IsTask(payload) == payload.task_type # "" /\ payload.input # <<>>

\* Ollama answers or throws; the stub answers when there is no Ollama or it
\* threw.
Threw == [error |-> "Ollama error"]

desktop_ollamaInfer == {[text |-> "ollama"], Threw}
cli_ollamaInfer     == {[text |-> "ollama"], Threw}
desktop_stubInfer   == [text |-> "stub"]
cli_stubInfer       == [text |-> "stub"]

desktop_executeLLM == {IF a = Threw THEN desktop_stubInfer ELSE a : a \in desktop_ollamaInfer}
cli_executeLLM     == {IF a = Threw THEN cli_stubInfer ELSE a : a \in cli_ollamaInfer}

\* What the program computes for a payload that it need not wait for.
desktop_output(payload) ==
    IF payload.job_type = "TASK" /\ IsTask(payload)
    THEN desktop_executeTask(payload.task_type, payload.input[1])
    ELSE Unsupported

cli_output(payload) ==
    IF payload.job_type = "TASK" /\ IsTask(payload)
    THEN cli_executeTask(payload.task_type, payload.input[1])
    ELSE Unsupported

simulator_output(payload) ==
    IF IsTask(payload) THEN simulator_executeTask(payload.task_type, payload.input[1])
    ELSE [error |-> "Missing task_type or input"]

\* A missing input is the empty text.
android_output(payload) ==
    android_execute(payload.task_type, IF payload.input = <<>> THEN NoText ELSE payload.input[1])

\* A receipt is signed with the key in memory; 0: the Android worker sends none.
cli_buildReceipt(w)       == key[w]
desktop_buildReceipt(w)   == key[w]
simulator_buildReceipt(w) == key[w]
android_buildReceipt(w)   == 0

receiptOf(w) ==
    CASE Kind(w) = "cli"       -> cli_buildReceipt(w)
      [] Kind(w) = "desktop"   -> desktop_buildReceipt(w)
      [] Kind(w) = "simulator" -> simulator_buildReceipt(w)
      [] Kind(w) = "android"   -> android_buildReceipt(w)

Failed(output) == "error" \in DOMAIN output

\* The error of an unknown task type is not counted as a failure.
Counted(w, output) ==
    stats' = IF Kind(w) # "cli" THEN stats
             ELSE [stats EXCEPT ![w].status = "registered",
                                ![w].completed = IF output = Unsupported THEN @ ELSE @ + 1,
                                ![w].failed = IF output = Unsupported THEN @ + 1 ELSE @]

\* Faulty variant: the receipt is signed with the key that is now on disk.
answer_ReloadsKey(w, j, output) ==
    /\ outbox' = IF socket[w] = "open"
                 THEN [outbox EXCEPT ![w] =
                          Append(@, JobCompleteMsg(j, output,
                                                   IF receiptOf(w) = 0 THEN 0 ELSE keyFile))]
                 ELSE outbox
    /\ Counted(w, output)

\* The end of handleJob: nothing is sent on a socket that is not open.
answer(w, j, output) ==
    /\ outbox' = IF socket[w] = "open"
                 THEN [outbox EXCEPT ![w] = Append(@, JobCompleteMsg(j, output, receiptOf(w)))]
                 ELSE outbox
    /\ Counted(w, output)

Reply(w, j, output) == answer(w, j, output) /\ UNCHANGED working

\* Only an LLM job makes the desktop worker and the CLI wait.
Await(w, j) ==
    /\ working' = [working EXCEPT ![w] = @ \cup {j}]
    /\ setStatus(w, "working")
    /\ UNCHANGED outbox

cli_handleMessage(w, m) ==
    /\ Kind(w) = "cli"
    /\ IF IsLLM(m.payload) THEN Await(w, m.job) ELSE Reply(w, m.job, cli_output(m.payload))

desktop_onMessage(w, m) ==
    /\ Kind(w) = "desktop"
    /\ IF IsLLM(m.payload) THEN Await(w, m.job) ELSE Reply(w, m.job, desktop_output(m.payload))

simulator_onMessage(w, m) ==
    Kind(w) = "simulator" /\ Reply(w, m.job, simulator_output(m.payload))

android_onMessage(w, m) ==
    Kind(w) = "android" /\ Reply(w, m.job, android_output(m.payload))

\* job_assign arrives.  Without a listener it is gone.
handleJob(w) ==
    /\ inbox[w] # <<>> /\ Head(inbox[w]).type = "job_assign"
    /\ socket[w] = "open"
    /\ Read(w)
    /\ LET m == Head(inbox[w])
       IN  IF program[w] # "listening"
           THEN /\ unheard' = unheard \cup {m.job}
                /\ UNCHANGED <<outbox, working, stats>>
           ELSE /\ \/ cli_handleMessage(w, m) \/ desktop_onMessage(w, m)
                   \/ simulator_onMessage(w, m) \/ android_onMessage(w, m)
                /\ UNCHANGED unheard
    /\ UNCHANGED <<launch, program, socket, wire, beating, keyFile, key, lastKey>>

\* Faulty variant: a failing Ollama is not caught, and nothing is sent.
inferred_NoCatch(w, j) ==
    /\ j \in working[w]
    /\ working' = [working EXCEPT ![w] = @ \ {j}]
    /\ answer(w, j, [text |-> "ollama"]) \/ UNCHANGED <<outbox, stats>>
    /\ UNCHANGED <<launch, program, socket, wire, beating, inbox, keyFile, key, lastKey, unheard>>

inferred(w, j) ==
    /\ j \in working[w]
    /\ working' = [working EXCEPT ![w] = @ \ {j}]
    /\ \E output \in (IF Kind(w) = "cli" THEN cli_executeLLM ELSE desktop_executeLLM) :
           answer(w, j, output)
    /\ UNCHANGED <<launch, program, socket, wire, beating, inbox, keyFile, key, lastKey, unheard>>

(***************************************************************************)
(* The end of the connection.  Messages that arrived before it are         *)
(* delivered before it.                                                    *)
(***************************************************************************)
\* Nobody listens: the program goes on, and its heartbeat timer finds that
\* the socket is not open.
closeUnheard(w) ==
    /\ socket' = [socket EXCEPT ![w] = "closed"]
    /\ UNCHANGED <<launch, program, wire, beating, inbox, outbox, working, keyFile, key, lastKey,
                   stats, unheard>>

cli_closed(w) ==
    /\ Kind(w) = "cli"
    /\ IF program[w] = "listening" THEN exit(w) ELSE closeUnheard(w)

\* The desktop worker also ends when the socket reports an error.
desktop_closed(w) ==
    /\ Kind(w) = "desktop"
    /\ exit(w) \/ (program[w] # "listening" /\ closeUnheard(w))

simulator_closed(w) == Kind(w) = "simulator" /\ exit(w)

android_closed(w) == Kind(w) = "android" /\ closeUnheard(w)

closed(w) ==
    /\ socket[w] = "open" /\ ~wire[w] /\ inbox[w] = <<>>
    /\ cli_closed(w) \/ desktop_closed(w) \/ simulator_closed(w) \/ android_closed(w)

\* SIGINT, SIGTERM, or the Android activity is destroyed.  The CLI has stop().
stop(w)      == Kind(w) = "cli" /\ exit(w)
onDestroy(w) == Kind(w) = "android" /\ exit(w)
killed(w)    == Kind(w) \in {"desktop", "simulator"} /\ exit(w)

shutdown(w) == program[w] \notin {"off", "exited"} /\ (stop(w) \/ onDestroy(w) \/ killed(w))

\* The network loses the connection, or the coordinator closes it.
cut(w) ==
    /\ socket[w] = "open" /\ wire[w]
    /\ wire' = [wire EXCEPT ![w] = FALSE]
    /\ UNCHANGED <<launch, program, socket, beating, inbox, outbox, working, keyFile, key, lastKey,
                   stats, unheard>>

ProgramStep(w) ==
    \/ opened(w) \/ dialFails(w)
    \/ registerAck(w) \/ registerTimeout(w) \/ registerReturns(w)
    \/ handleJob(w) \/ (\E j \in working[w] : inferred(w, j))
    \/ closed(w) \/ shutdown(w) \/ cut(w)
=============================================================================
