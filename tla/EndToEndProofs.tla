--------------------------- MODULE EndToEndProofs ---------------------------
(***************************************************************************)
(* Clients, coordinator and worker programs of EndToEnd, for any number of *)
(* runs, of programs of any kind and of key pairs.  The inductive          *)
(* invariant survives the steps of the coordinator too (ProgramProofs has  *)
(* the other steps), so it always holds; what follows from it for the      *)
(* charges, the receipts and the answers; and EndToEnd implements          *)
(* JobLifecycle.                                                           *)
(***************************************************************************)
EXTENDS ProgramProofs

\* Leaves are proved by Zenon; those that need arithmetic or the theory of
\* sequences and records name SMT.
USE Zenon

-----------------------------------------------------------------------------
(* The steps of the coordinator *)

\* A step at the hub's end of the connection of w, seen from the other workers.
LEMMA HubMoves ==
    ASSUME EndToEndInv, NEW w \in Workers, run' = run, launch' = launch, offered' = offered, Shape',
           \A h \in Workers \ {w} : Untouched(h) /\
               (entry[h].job # None => status'[entry[h].job] = status[entry[h].job]),
           entry'[w].job \in {entry[w].job, None},
           \A r \in Runs : RunOk(r)' /\ JobOk(r)', WorkerOk(w)'
    PROVE  EndToEndInv'
<1>1. ASSUME NEW h \in Workers \ {w} PROVE WorkerOk(h)'
  <2>1. \A g \in Workers : \A r \in offered : entry[g].job # r => entry'[g].job # r
    BY EndToEndAssumption, SMT DEF EndToEndInv, Shape, Untouched
  <2>2. Mine(h) \subseteq Mine(h)'
    BY <2>1 DEF Mine
  <2>3. Kept(h)
    BY <2>2 DEF Kept
  <2> QED BY <2>3, WorkerUntouched DEF EndToEndInv
<1> QED BY <1>1 DEF EndToEndInv

\* The worker's own jobs stay its own.
LEMMA MineKept ==
    ASSUME NEW w \in Workers, run' = run, launch' = launch, offered' = offered,
           \A h \in Workers \ {w} : entry'[h] = entry[h]
    PROVE  Kept(w) /\ Mine(w)' = Mine(w)
BY DEF Kept, Mine

\* What is first in the queue of a connection.
LEMMA FirstMessage ==
    ASSUME EndToEndInv, NEW w \in Workers, outbox[w] # <<>>
    PROVE  /\ program[w] \notin {"off", "dialing"} /\ w \in DOMAIN launch
           /\ Head(outbox[w]).type = "register" => Registering(w)
           /\ Head(outbox[w]).type = "job_complete" =>
                  outbox[w] \in Seq(Outgoing(w)) /\ Head(outbox[w]) \in Outgoing(w)
<1>1. WorkerOk(w)
  BY DEF EndToEndInv
<1>2. program[w] \notin {"off", "dialing"} /\ w \in DOMAIN launch
  BY <1>1 DEF WorkerOk
<1>3. CASE Registering(w)
  BY <1>2, <1>3, SMT DEF Registering, RegisterMsg
<1>4. CASE outbox[w] \in Seq(Outgoing(w))
  <2>1. Head(outbox[w]) \in Outgoing(w)
    BY <1>4, Queues
  <2>2. Head(outbox[w]).type = "job_complete"
    BY <2>1, OutgoingIs, SMT DEF JobCompleteMsg
  <2> QED BY <1>2, <1>4, <2>1, <2>2
<1> QED BY <1>1, <1>2, <1>3, <1>4 DEF WorkerOk

\* register
LEMMA RegisterKeeps ==
    ASSUME EndToEndInv, NEW w \in Workers, handleRegister(w)
    PROVE  EndToEndInv'
<1>1. /\ run' = run /\ offered' = offered /\ status' = status /\ paid' = paid /\ result' = result
      /\ receipt' = receipt
      /\ UNCHANGED <<launch, program, socket, wire, working, keyFile, key, lastKey>>
  BY DEF handleRegister, Elsewhere, clientVars, jobVars
<1>2. outbox[w] # <<>> /\ program[w] \notin {"off", "dialing"} /\ w \in DOMAIN launch /\ Registering(w)
  BY FirstMessage DEF handleRegister
<1>3. PICK k \in 1..MaxKeys : outbox[w] = <<RegisterMsg(k)>> /\ (socket[w] = "open" => key[w] = k)
  BY <1>2 DEF Registering
<1>4. Head(outbox[w]).key = k /\ Tail(outbox[w]) = <<>>
  BY <1>3, SMT DEF RegisterMsg
<1>5. /\ entry' = [entry EXCEPT ![w] = [in |-> TRUE, key |-> k, job |-> None]]
      /\ outbox' = [outbox EXCEPT ![w] = <<>>]
  BY <1>4 DEF handleRegister, Taken
<1>6. /\ DOMAIN inbox' = Workers /\ \A h \in Workers \ {w} : inbox'[h] = inbox[h]
      /\ inbox'[w] = <<>> \/ inbox'[w] = <<RegisterAckMsg>>
  <2>1. inbox[w] = <<>> /\ DOMAIN inbox = Workers
    BY <1>2 DEF EndToEndInv, Shape, Registering, Idle
  <2>2. inbox' = inbox \/ inbox' = [inbox EXCEPT ![w] = Append(@, RegisterAckMsg)]
    BY DEF handleRegister, Deliver
  <2>3. Append(<<>>, RegisterAckMsg) = <<RegisterAckMsg>>
    BY SMT
  <2> QED BY <2>1, <2>2, <2>3
<1>7. /\ DOMAIN entry' = Workers /\ DOMAIN outbox' = Workers
      /\ entry'[w] = [in |-> TRUE, key |-> k, job |-> None] /\ outbox'[w] = <<>>
      /\ \A h \in Workers \ {w} : entry'[h] = entry[h] /\ outbox'[h] = outbox[h]
  BY <1>5 DEF EndToEndInv, Shape
<1>8. Shape'
  BY <1>1, <1>6, <1>7 DEF EndToEndInv, Shape
<1>9. \A h \in Workers \ {w} : Untouched(h)
  BY <1>1, <1>6, <1>7 DEF Untouched
<1>10. \A r \in Runs : RunOk(r)' /\ JobOk(r)'
  BY <1>1, RunUntouched, JobUntouched DEF EndToEndInv
<1>11. Tracked(w)'
  BY <1>1, <1>3, <1>7, SMT DEF Tracked, Untracked
<1>12. inbox'[w] \in Seq(Incoming(w)') /\ outbox'[w] \in Seq(Outgoing(w)')
  <2>1. RegisterAckMsg \in Incoming(w)'
    BY DEF Incoming
  <2>2. \A S, m : <<>> \in Seq(S) /\ (m \in S => <<m>> \in Seq(S))
    BY SMT
  <2> QED BY <1>6, <1>7, <2>1, <2>2
<1>13. working'[w] \subseteq {r \in Mine(w) : IsLLM(PayloadOf(r))}'
  <2>1. working'[w] = {}
    BY <1>1, <1>2 DEF Registering, Idle
  <2> QED BY <2>1
<1>14. WorkerOk(w)
  BY DEF EndToEndInv
<1>15. WorkerOk(w)'
  BY <1>1, <1>2, <1>11, <1>12, <1>13, <1>14 DEF WorkerOk
<1>16. entry'[w].job = None
  BY <1>7, SMT
<1> QED BY <1>1, <1>8, <1>9, <1>10, <1>15, <1>16, HubMoves

\* job_complete of the worker that has the job: it is completed and paid.
LEMMA CompleteKeeps ==
    ASSUME EndToEndInv, NEW w \in Workers, NEW r \in Mine(w), NEW output \in Answers(PayloadOf(r)),
           NEW k \in Signers(w), entry[w].job = r,
           outbox[w] # <<>>, outbox[w] \in Seq(Outgoing(w)), outbox' = [outbox EXCEPT ![w] = Tail(@)],
           Lifecycle!Complete(r), result' = [result EXCEPT ![r] = <<output>>],
           receipt' = [receipt EXCEPT ![r] =
                           CASE k = 0 -> "none"
                             [] verifyReceiptSignature(k, entry[w].key) -> "verified"
                             [] OTHER -> "unverified"],
           entry' = [entry EXCEPT ![w].job = None],
           UNCHANGED <<Elsewhere, inbox, wire, clientVars, trusted>>
    PROVE  EndToEndInv'
<1>1. /\ run' = run /\ launch' = launch /\ program' = program /\ socket' = socket /\ wire' = wire
      /\ inbox' = inbox /\ working' = working /\ keyFile' = keyFile /\ key' = key /\ lastKey' = lastKey
  BY DEF Elsewhere, clientVars
<1>2. WorkerOk(w) /\ Tracked(w)
  BY DEF EndToEndInv, WorkerOk
<1>3. r \in Runs /\ r # None /\ entry[w].in /\ status[r] = "assigned"
  BY <1>2, EndToEndAssumption, SMT DEF EndToEndInv, Shape, Mine, Tracked, Untracked
<1>4. /\ status' = [status EXCEPT ![r] = "completed"] /\ paid' = [paid EXCEPT ![r] = <<assignee[r]>>]
      /\ offered' = offered
  BY DEF Lifecycle!Complete
<1>5. /\ DOMAIN status = Runs /\ DOMAIN paid = Runs /\ DOMAIN result = Runs /\ DOMAIN receipt = Runs
      /\ DOMAIN entry = Workers /\ DOMAIN outbox = Workers
  BY DEF EndToEndInv, Shape
<1>6. /\ DOMAIN entry' = Workers /\ DOMAIN outbox' = Workers /\ outbox'[w] = Tail(outbox[w])
      /\ \A h \in Workers \ {w} : entry'[h] = entry[h] /\ outbox'[h] = outbox[h]
  BY <1>5
<1>7. /\ DOMAIN entry'[w] = DOMAIN Untracked /\ entry'[w].in = entry[w].in
      /\ entry'[w].key = entry[w].key /\ entry'[w].job = None
  BY <1>2, <1>5 DEF Tracked, Untracked
<1>8. \A q \in Runs \ {r} : /\ status'[q] = status[q] /\ paid'[q] = paid[q] /\ result'[q] = result[q]
                            /\ receipt'[q] = receipt[q]
  BY <1>4, <1>5
<1>9. status'[r] = "completed" /\ paid'[r] # <<>> /\ result'[r] = <<output>>
  BY <1>3, <1>4, <1>5
<1>10. receipt'[r] # "unverified"
  <2>1. k = 0 \/ k = entry[w].key
    BY <1>3 DEF Signers
  <2> QED BY <1>3, <1>5, <2>1 DEF verifyReceiptSignature
<1>11. Shape'
  BY <1>1, <1>4, <1>5, <1>6 DEF EndToEndInv, Shape
<1>12. \A h \in Workers \ {w} : Untouched(h) /\
               (entry[h].job # None => status'[entry[h].job] = status[entry[h].job])
  <2>1. ASSUME NEW h \in Workers \ {w}, entry[h].job # None PROVE entry[h].job \in Runs \ {r}
    BY <2>1 DEF EndToEndInv, Shape, WorkerOk, Tracked, Mine
  <2> QED BY <1>1, <1>6, <1>8, <2>1 DEF Untouched
<1>13. JobOk(r)'
  <2>1. PayloadOf(r)' = PayloadOf(r)
    BY <1>1, SamePayload
  <2>2. \E x \in Answers(PayloadOf(r)') : result'[r] = <<x>>
    BY <1>9, <2>1
  <2> QED BY <1>9, <1>10, <2>2 DEF JobOk
<1>14. RunOk(r)'
  <2>1. RunOk(r) /\ run'[r] = run[r] /\ status'[r] # "none"
    BY <1>1, <1>3, <1>9 DEF EndToEndInv
  <2>2. PolicyOf(r)' = PolicyOf(r) /\ Price(r)' = Price(r)
    BY <1>1, SamePayload
  <2>3. Accepted(run[r].opts)' = Accepted(run[r].opts)
    BY <1>1 DEF Accepted
  <2> QED BY <1>3, <2>1, <2>2, <2>3 DEF RunOk
<1>15. \A q \in Runs : RunOk(q)' /\ JobOk(q)'
  <2>1. ASSUME NEW q \in Runs \ {r} PROVE RunOk(q)' /\ JobOk(q)'
    BY <1>1, <1>4, <1>8, RunUntouched, JobUntouched DEF EndToEndInv
  <2> QED BY <1>13, <1>14, <2>1
<1>16. Kept(w) /\ Mine(w)' = Mine(w)
  BY <1>1, <1>4, <1>6, MineKept
<1>17. Signers(w)' = Signers(w)
  BY <1>7 DEF Signers
<1>18. Tracked(w)'
  BY <1>1, <1>2, <1>3, <1>7 DEF Tracked
<1>19. program[w] \notin {"off", "dialing"} /\ w \in DOMAIN launch
  BY <1>2 DEF WorkerOk
<1>20. inbox'[w] \in Seq(Incoming(w)')
  BY <1>1, <1>2, <1>16, <1>19, MessagesKept, SeqGrows DEF WorkerOk
<1>21. outbox'[w] \in Seq(Outgoing(w)')
  BY <1>6, <1>16, <1>17, MessagesKept, SeqGrows, Queues, SMTT(30)
<1>22. working'[w] \subseteq {q \in Mine(w) : IsLLM(PayloadOf(q))}'
  BY <1>1, <1>2, <1>16, <1>19, MessagesKept DEF WorkerOk
<1>23. WorkerOk(w)'
  BY <1>1, <1>2, <1>18, <1>19, <1>20, <1>21, <1>22 DEF WorkerOk
<1> QED BY <1>1, <1>4, <1>7, <1>11, <1>12, <1>15, <1>23, HubMoves

\* job_complete
LEMMA JobCompleteKeeps ==
    ASSUME EndToEndInv, NEW w \in Workers, handleJobComplete(w)
    PROVE  EndToEndInv'
<1> DEFINE m == Head(outbox[w])
           held == {h \in Workers : entry[h].job = m.job}
<1>1. /\ outbox[w] # <<>> /\ program[w] \notin {"off", "dialing"} /\ w \in DOMAIN launch
      /\ outbox[w] \in Seq(Outgoing(w)) /\ m \in Outgoing(w)
      /\ outbox' = [outbox EXCEPT ![w] = Tail(@)]
      /\ UNCHANGED <<Elsewhere, inbox, wire, clientVars, trusted>>
  BY FirstMessage DEF handleJobComplete, Taken
<1>2. PICK r \in Mine(w) : \E output \in Answers(PayloadOf(r)) : \E k \in Signers(w) :
          m = JobCompleteMsg(r, output, k)
  BY <1>1, OutgoingIs, SMT
<1>3. PICK output \in Answers(PayloadOf(r)) : \E k \in Signers(w) : m = JobCompleteMsg(r, output, k)
  BY <1>2
<1>4. PICK k \in Signers(w) : m = JobCompleteMsg(r, output, k)
  BY <1>3
<1>5. m.job = r /\ m.output = output /\ m.receipt = k
  BY <1>4, SMT DEF JobCompleteMsg
<1>6. CASE held = {}
  <2>1. UNCHANGED <<entry, result, receipt, jobVars>>
    BY <1>6 DEF handleJobComplete
  <2>2. /\ run' = run /\ offered' = offered /\ status' = status
        /\ UNCHANGED <<clientVars, entry, result, receipt, jobVars>>
        /\ UNCHANGED <<launch, program, socket, wire, working, keyFile, key, lastKey, inbox>>
    BY <1>1, <2>1 DEF Elsewhere, clientVars, jobVars
  <2>3. /\ DOMAIN outbox' = Workers /\ outbox'[w] = Tail(outbox[w])
        /\ \A h \in Workers \ {w} : outbox'[h] = outbox[h]
    BY <1>1 DEF EndToEndInv, Shape
  <2>4. Shape'
    BY <2>2, <2>3 DEF EndToEndInv, Shape, clientVars, jobVars
  <2>5. \A h \in Workers \ {w} : Untouched(h)
    BY <2>2, <2>3 DEF Untouched
  <2>6. WorkerOk(w) /\ Tracked(w)
    BY DEF EndToEndInv, WorkerOk
  <2>7. Tracked(w)'
    BY <2>2, <2>6, ProgramKept DEF Tracked
  <2>8. inbox'[w] \in Seq(Incoming(w)') /\ outbox'[w] \in Seq(Outgoing(w)')
    <3>1. Tail(outbox[w]) \in Seq(Outgoing(w))
      BY <1>1, Queues
    <3> QED BY <1>1, <2>2, <2>3, <2>6, <3>1, ProgramKept DEF WorkerOk
  <2>9. working'[w] \subseteq {q \in Mine(w) : IsLLM(PayloadOf(q))}'
    BY <1>1, <2>2, <2>6, ProgramKept DEF WorkerOk
  <2>10. WorkerOk(w)'
    BY <1>1, <2>2, <2>6, <2>7, <2>8, <2>9 DEF WorkerOk
  <2> QED BY <2>2, <2>4, <2>5, <2>10, ProgramMoves
<1>7. CASE held # {}
  <2>1. \A h \in held : h = w /\ entry[w].job = r
    BY <1>5 DEF Mine
  <2>2. entry[w].job = r
    BY <1>7, <2>1
  <2>3. /\ Lifecycle!Complete(m.job)
        /\ result' = [result EXCEPT ![m.job] = <<m.output>>]
        /\ receipt' = [receipt EXCEPT ![m.job] =
                          CASE m.receipt = 0 -> "none"
                            [] verifyReceiptSignature(m.receipt, entry[w].key) -> "verified"
                            [] OTHER -> "unverified"]
        /\ entry' = [entry EXCEPT ![w].job = None]
    BY <1>7, <2>1 DEF handleJobComplete
  <2> HIDE DEF m
  <2> QED BY <1>1, <1>5, <2>2, <2>3, CompleteKeeps
<1> QED BY <1>6, <1>7

\* A job that is not completed and not new changes its status.
LEMMA StatusMoves ==
    ASSUME NEW r \in Runs, RunOk(r), JobOk(r), run'[r] = run[r], receipt'[r] = receipt[r],
           status[r] \notin {"none", "completed"}, status'[r] \notin {"none", "completed"}
    PROVE  RunOk(r)' /\ JobOk(r)'
<1>1. PolicyOf(r)' = PolicyOf(r) /\ Price(r)' = Price(r)
  BY SamePayload
<1>2. Accepted(run[r].opts)' = Accepted(run[r].opts)
  BY DEF Accepted
<1>3. RunOk(r)'
  BY <1>1, <1>2 DEF RunOk
<1>4. JobOk(r)'
  BY DEF JobOk
<1> QED BY <1>3, <1>4

\* The hub forgets a worker; the job that it had has failed.
LEMMA GoneKeeps ==
    ASSUME EndToEndInv, NEW w \in Workers, Gone(w)
    PROVE  EndToEndInv'
<1> DEFINE lost == {entry[w].job} \ {None}
<1>1. /\ run' = run /\ launch' = launch /\ program' = program /\ socket' = socket
      /\ inbox' = inbox /\ working' = working /\ keyFile' = keyFile /\ key' = key /\ lastKey' = lastKey
      /\ result' = result /\ receipt' = receipt
  BY DEF Gone, Elsewhere, clientVars
<1>2. WorkerOk(w) /\ Tracked(w)
  BY DEF EndToEndInv, WorkerOk
<1>3. /\ status' = [j \in Runs |-> IF j \in lost THEN "failed" ELSE status[j]]
      /\ paid' = paid /\ offered' = offered
  BY DEF Gone, Lifecycle!Lose
<1>4. \A j \in lost : status[j] = "assigned"
  BY DEF Gone, Lifecycle!Lose
<1>5. /\ entry' = [entry EXCEPT ![w] = Untracked] /\ outbox' = [outbox EXCEPT ![w] = <<>>]
      /\ wire' = [wire EXCEPT ![w] = FALSE]
  BY DEF Gone
<1>6. /\ DOMAIN entry' = Workers /\ DOMAIN outbox' = Workers /\ DOMAIN wire' = Workers
      /\ entry'[w] = Untracked /\ outbox'[w] = <<>>
      /\ \A h \in Workers \ {w} : entry'[h] = entry[h] /\ outbox'[h] = outbox[h]
  BY <1>5 DEF EndToEndInv, Shape
<1>7. DOMAIN status' = Runs /\ \A j \in Runs : status'[j] = IF j \in lost THEN "failed" ELSE status[j]
  BY <1>3
<1>8. Shape'
  BY <1>1, <1>3, <1>6, <1>7 DEF EndToEndInv, Shape
<1>9. \A h \in Workers \ {w} : Untouched(h) /\
               (entry[h].job # None => status'[entry[h].job] = status[entry[h].job])
  <2>1. ASSUME NEW h \in Workers \ {w}, entry[h].job # None PROVE entry[h].job \in Runs \ lost
    BY <2>1 DEF EndToEndInv, Shape, WorkerOk, Tracked, Mine
  <2> QED BY <1>1, <1>6, <1>7, <2>1 DEF Untouched
<1>10. ASSUME NEW r \in Runs PROVE RunOk(r)' /\ JobOk(r)'
  <2>1. RunOk(r) /\ JobOk(r)
    BY DEF EndToEndInv
  <2>2. CASE r \in lost
    <3>1. status[r] = "assigned" /\ status'[r] = "failed"
      BY <1>4, <1>7, <2>2
    <3> HIDE DEF lost
    <3> QED BY <1>1, <2>1, <3>1, StatusMoves
  <2>3. CASE r \notin lost
    <3>1. status'[r] = status[r]
      BY <1>7, <2>3
    <3> HIDE DEF lost
    <3> QED BY <1>1, <1>3, <2>1, <3>1, RunUntouched, JobUntouched
  <2> QED BY <2>2, <2>3
<1>11. Kept(w) /\ Mine(w)' = Mine(w)
  BY <1>1, <1>3, <1>6, MineKept
<1>12. Tracked(w)'
  BY <1>6, SMT DEF Tracked, Untracked
<1>13. Idle(w) => Idle(w)'
  BY <1>1, <1>6 DEF Idle
<1>14. program[w] # "off" => inbox'[w] \in Seq(Incoming(w)')
  BY <1>1, <1>2, <1>11, MessagesKept, SeqGrows DEF WorkerOk
<1>15. outbox'[w] \in Seq(Outgoing(w)')
  BY <1>6, SMT
<1>16. program[w] # "off" => working'[w] \subseteq {q \in Mine(w) : IsLLM(PayloadOf(q))}'
  BY <1>1, <1>2, <1>11, MessagesKept DEF WorkerOk
<1>17. WorkerOk(w)'
  BY <1>1, <1>2, <1>6, <1>12, <1>13, <1>14, <1>15, <1>16 DEF WorkerOk
<1>18. entry'[w].job = None
  BY <1>6, SMT DEF Untracked
<1> HIDE DEF lost
<1> QED BY <1>1, <1>3, <1>8, <1>9, <1>10, <1>17, <1>18, HubMoves

\* The status of job r changes and no worker is told; r is not anybody's.
LEMMA JobMoves ==
    ASSUME EndToEndInv, NEW r \in Runs, status[r] # "assigned",
           UNCHANGED <<launch, program, socket, wire, inbox, outbox, working, keyFile, key, lastKey>>,
           UNCHANGED <<entry, result, receipt, offered, paid>>,
           DOMAIN status' = Runs, \A q \in Runs \ {r} : status'[q] = status[q],
           DOMAIN run' = Runs, \A q \in Runs \ {r} : run'[q] = run[q],
           run'[r].opts = run[r].opts, RunOk(r)', JobOk(r)'
    PROVE  EndToEndInv'
<1>1. Shape'
  BY DEF EndToEndInv, Shape
<1>2. \A q \in Runs : RunOk(q)' /\ JobOk(q)'
  <2>1. ASSUME NEW q \in Runs \ {r} PROVE RunOk(q)' /\ JobOk(q)'
    BY RunUntouched, JobUntouched DEF EndToEndInv
  <2> QED BY <2>1
<1>3. ASSUME NEW w \in Workers PROVE WorkerOk(w)'
  <2>1. \A q \in offered : run'[q].opts = run[q].opts
    BY DEF EndToEndInv, Shape
  <2>2. Kept(w) /\ Untouched(w)
    BY <2>1 DEF Kept, Untouched, Mine
  <2>3. entry[w].job # None => entry[w].job \in Runs \ {r}
    BY SMT DEF EndToEndInv, Shape, WorkerOk, Tracked, Mine
  <2> QED BY <2>2, <2>3, WorkerUntouched DEF EndToEndInv
<1> QED BY <1>1, <1>2, <1>3 DEF EndToEndInv

\* A job is offered to a worker that has none.
LEMMA AssignMoves ==
    ASSUME EndToEndInv, NEW r \in Runs, assign(r),
           UNCHANGED <<launch, program, socket, wire, outbox, working, keyFile, key, lastKey>>,
           UNCHANGED <<result, receipt>>,
           DOMAIN run' = Runs, \A q \in Runs \ {r} : run'[q] = run[q],
           run'[r].opts = run[r].opts, RunOk(r)'
    PROVE  EndToEndInv'
<1>1. PICK w \in Candidates(r) :
          /\ Lifecycle!Assign(r, entry[w].key) /\ entry' = [entry EXCEPT ![w].job = r]
          /\ Deliver(w, JobAssignMsg(r, PayloadOf(r)))
  BY DEF assign
<1>2. w \in Workers /\ entry[w].in /\ entry[w].job = None /\ JobTypeOf(r) \in Capabilities(w)
  BY <1>1 DEF Candidates
<1>3. /\ status[r] \in {"none", "pending"} /\ r \notin offered /\ offered' = offered \cup {r}
      /\ status' = [status EXCEPT ![r] = "assigned"] /\ paid' = paid
  BY <1>1 DEF Lifecycle!Assign
<1>4. WorkerOk(w) /\ Tracked(w)
  BY <1>2 DEF EndToEndInv, WorkerOk
<1>5. program[w] \notin {"off", "dialing"} /\ w \in DOMAIN launch /\ ~Registering(w)
  BY <1>2, <1>4, SMT DEF WorkerOk, Registering, Idle, Untracked
<1>6. inbox[w] \in Seq(Incoming(w)) /\ outbox[w] \in Seq(Outgoing(w))
  BY <1>4, <1>5 DEF WorkerOk
<1>7. /\ DOMAIN entry' = Workers /\ \A h \in Workers \ {w} : entry'[h] = entry[h]
      /\ DOMAIN entry'[w] = DOMAIN Untracked /\ entry'[w].in = entry[w].in
      /\ entry'[w].key = entry[w].key /\ entry'[w].job = r
  BY <1>1, <1>2, <1>4 DEF EndToEndInv, Shape, Tracked, Untracked
<1>8. /\ DOMAIN inbox' = Workers /\ \A h \in Workers \ {w} : inbox'[h] = inbox[h]
      /\ inbox'[w] = inbox[w] \/ inbox'[w] = Append(inbox[w], JobAssignMsg(r, PayloadOf(r)))
  BY <1>1, <1>2 DEF EndToEndInv, Shape, Deliver
<1>9. DOMAIN status' = Runs /\ status'[r] = "assigned" /\ \A q \in Runs \ {r} : status'[q] = status[q]
  BY <1>3 DEF EndToEndInv, Shape
<1>10. Shape'
  BY <1>3, <1>7, <1>8, <1>9 DEF EndToEndInv, Shape
<1>11. \A h \in Workers : entry[h].job # None => entry[h].job \in offered \ {r}
  BY <1>3 DEF EndToEndInv, WorkerOk, Tracked, Mine
<1>12. \A q \in offered : run'[q].opts = run[q].opts
  BY DEF EndToEndInv, Shape
<1>13. \A h \in Workers : Kept(h)
  <2>1. ASSUME NEW h \in Workers, NEW q \in Mine(h) PROVE q \in Mine(h)'
    <3>1. q \in offered /\ q # r /\ \A g \in Workers \ {h} : entry[g].job # q
      BY <1>3 DEF Mine
    <3>2. q \in offered' /\ \A g \in Workers \ {h} : entry'[g].job # q
      BY <1>3, <1>7, <3>1
    <3> QED BY <3>2 DEF Mine
  <2> QED BY <1>12, <2>1 DEF Kept
<1>14. ASSUME NEW h \in Workers \ {w} PROVE WorkerOk(h)'
  <2>1. Untouched(h)
    BY <1>7, <1>8 DEF Untouched
  <2>2. entry[h].job # None => entry[h].job \in Runs \ {r}
    BY <1>11 DEF EndToEndInv, Shape
  <2> QED BY <1>9, <1>13, <2>1, <2>2, WorkerUntouched DEF EndToEndInv
<1>15. r \in Mine(w)'
  BY <1>3, <1>7, <1>11, EndToEndAssumption, SMT DEF Mine
<1>16. Tracked(w)'
  BY <1>4, <1>7, <1>9, <1>15, <1>2 DEF Tracked
<1>17. inbox'[w] \in Seq(Incoming(w)')
  <2>1. inbox[w] \in Seq(Incoming(w)')
    BY <1>2, <1>6, <1>13, MessagesKept, SeqGrows
  <2>2. PayloadOf(r)' = PayloadOf(r) /\ JobTypeOf(r)' = JobTypeOf(r)
    BY SamePayload
  <2>3. Capabilities(w)' = Capabilities(w)
    BY DEF Capabilities
  <2>4. JobAssignMsg(r, PayloadOf(r)) \in Incoming(w)'
    BY <1>2, <1>15, <2>2, <2>3 DEF Incoming, JobAssignMsg
  <2>5. Append(inbox[w], JobAssignMsg(r, PayloadOf(r))) \in Seq(Incoming(w)')
    BY <2>1, <2>4, Queues
  <2> QED BY <1>8, <2>1, <2>5
<1>18. outbox'[w] \in Seq(Outgoing(w)')
  <2>1. Signers(w)' = Signers(w)
    BY <1>7 DEF Signers
  <2> QED BY <1>2, <1>6, <1>13, <2>1, MessagesKept, SeqGrows
<1>19. working'[w] \subseteq {q \in Mine(w) : IsLLM(PayloadOf(q))}'
  BY <1>2, <1>4, <1>5, <1>13, MessagesKept DEF WorkerOk
<1>20. WorkerOk(w)'
  BY <1>4, <1>5, <1>16, <1>17, <1>18, <1>19 DEF WorkerOk
<1>21. \A q \in Runs : RunOk(q)' /\ JobOk(q)'
  <2>1. ASSUME NEW q \in Runs \ {r} PROVE RunOk(q)' /\ JobOk(q)'
    BY <1>3, <1>9, RunUntouched, JobUntouched DEF EndToEndInv
  <2>2. JobOk(r)'
    BY <1>9 DEF EndToEndInv, JobOk
  <2> QED BY <2>1, <2>2
<1> QED BY <1>10, <1>14, <1>20, <1>21 DEF EndToEndInv

\* POST /v1/jobs/commit: the job is offered, waits or has failed, and the run
\* polls, has lost the answer or falls back.
LEMMA CommitKeeps ==
    ASSUME EndToEndInv, NEW r \in Runs, commit(r)
    PROVE  EndToEndInv'
<1>1. RunOk(r) /\ JobOk(r) /\ DOMAIN run = Runs /\ DOMAIN status = Runs /\ DOMAIN run[r] = DOMAIN NewRun
  BY DEF EndToEndInv, Shape, RunOk
<1>2. run[r].stage \in {"commit", "paid"}
  BY DEF commit, CommitReaches, At
<1>3. /\ status[r] = "none" /\ run[r].charged = 0 /\ run[r].quoted = Price(r)
      /\ Accepted(run[r].opts) /\ run[r].payments \in 0..1
  BY <1>1, <1>2 DEF RunOk
<1>4. /\ UNCHANGED <<launch, program, socket, wire, outbox, working, keyFile, key, lastKey>>
      /\ UNCHANGED <<result, receipt>>
  BY DEF commit, Elsewhere
<1>5. /\ DOMAIN status' = Runs /\ status'[r] \in {"assigned", "pending", "failed"}
      /\ \A q \in Runs \ {r} : status'[q] = status[q]
  <2>1. CASE Candidates(r) # {}
    <3>1. status' = [status EXCEPT ![r] = "assigned"]
      BY <2>1 DEF commit, handleCommit, assign, Lifecycle!Assign
    <3> QED BY <1>1, <3>1
  <2>2. CASE Candidates(r) = {}
    <3>1. PICK st \in {"pending", "failed"} : status' = [status EXCEPT ![r] = st]
      BY <2>2 DEF commit, handleCommit, Lifecycle!Commit
    <3> QED BY <1>1, <3>1
  <2> QED BY <2>1, <2>2
<1> DEFINE price == IF gated THEN paymentOf(PolicyOf(r)) ELSE 0
           Done == [run[r] EXCEPT !.stage = "polling", !.charged = price]
           Lost == [Fallback(r) EXCEPT !.charged = price]
<1>6. run' = [run EXCEPT ![r] = Fallback(r)] \/ run' = [run EXCEPT ![r] = Done]
      \/ run' = [run EXCEPT ![r] = Lost]
  BY DEF commit, throws, committed, commitLost, Becomes
<1>7. /\ DOMAIN run' = Runs /\ \A q \in Runs \ {r} : run'[q] = run[q]
      /\ run'[r] = Fallback(r) \/ run'[r] = Done \/ run'[r] = Lost
  BY <1>1, <1>6
<1>8. /\ DOMAIN run'[r] = DOMAIN NewRun /\ run'[r].stage \in {"hosted", "polling"}
      /\ run'[r].opts = run[r].opts /\ run'[r].policy = run[r].policy /\ run'[r].quoted = run[r].quoted
      /\ run'[r].charged \in {0, paymentOf(PolicyOf(r))} /\ run'[r].payments = run[r].payments
  <2>1. /\ DOMAIN Fallback(r) = DOMAIN NewRun /\ Fallback(r).stage = "hosted"
        /\ Fallback(r).opts = run[r].opts /\ Fallback(r).policy = run[r].policy
        /\ Fallback(r).quoted = run[r].quoted
        /\ Fallback(r).charged = run[r].charged /\ Fallback(r).payments = run[r].payments
    BY <1>1, FallbackFields
  <2>2. price \in {0, paymentOf(PolicyOf(r))}
    OBVIOUS
  <2> HIDE DEF price
  <2>3. CASE run'[r] = Fallback(r)
    BY <1>3, <2>1, <2>3
  <2>4. CASE run'[r] = Done
    BY <1>1, <2>2, <2>4 DEF NewRun
  <2>5. CASE run'[r] = Lost
    BY <2>1, <2>2, <2>5 DEF NewRun
  <2> QED BY <1>7, <2>3, <2>4, <2>5
<1> HIDE DEF Done, Lost
<1>9. PolicyOf(r)' = PolicyOf(r) /\ Price(r)' = Price(r)
  BY <1>8, SamePayload
<1>10. Accepted(run[r].opts)'
  BY <1>3, <1>8 DEF Accepted
<1>11. RunOk(r)'
  BY <1>3, <1>5, <1>8, <1>9, <1>10 DEF RunOk
<1>12. CASE Candidates(r) # {}
  BY <1>4, <1>7, <1>8, <1>11, <1>12, AssignMoves DEF commit, handleCommit
<1>13. CASE Candidates(r) = {}
  <2>1. UNCHANGED <<entry, inbox, offered, paid>>
    BY <1>13 DEF commit, handleCommit, Lifecycle!Commit
  <2>2. JobOk(r)'
    BY <1>1, <1>4, <1>5, <2>1 DEF JobOk
  <2> QED BY <1>3, <1>4, <1>5, <1>7, <1>8, <1>11, <2>1, <2>2, JobMoves
<1> QED BY <1>12, <1>13

\* A tick of the retry loop.
LEMMA RetryKeeps ==
    ASSUME EndToEndInv, NEW r \in Runs, retry(r)
    PROVE  EndToEndInv'
<1>1. RunOk(r) /\ JobOk(r) /\ DOMAIN run = Runs /\ DOMAIN status = Runs
  BY DEF EndToEndInv, Shape
<1>2. /\ UNCHANGED <<launch, program, socket, wire, outbox, working, keyFile, key, lastKey>>
      /\ UNCHANGED <<result, receipt, run>>
  BY DEF retry, Elsewhere, clientVars
<1>3. status[r] = "pending"
  BY DEF retry
<1>4. CASE Candidates(r) # {}
  <2>1. assign(r) /\ status' = [status EXCEPT ![r] = "assigned"]
    BY <1>4 DEF retry, assign, Lifecycle!Assign
  <2>2. status'[r] = "assigned"
    BY <1>1, <2>1
  <2>3. RunOk(r)'
    BY <1>1, <1>2, <1>3, <2>2, StatusMoves
  <2> QED BY <1>1, <1>2, <2>1, <2>3, AssignMoves
<1>5. CASE Candidates(r) = {}
  <2>1. status' = [status EXCEPT ![r] = "failed"] /\ UNCHANGED <<entry, inbox, offered, paid>>
    BY <1>5 DEF retry, Lifecycle!GiveUp
  <2>2. DOMAIN status' = Runs /\ status'[r] = "failed" /\ \A q \in Runs \ {r} : status'[q] = status[q]
    BY <1>1, <2>1
  <2>3. RunOk(r)' /\ JobOk(r)'
    BY <1>1, <1>2, <1>3, <2>2, StatusMoves
  <2> QED BY <1>1, <1>2, <1>3, <2>1, <2>2, <2>3, JobMoves
<1> QED BY <1>4, <1>5, SMT

-----------------------------------------------------------------------------
(* The invariant and what it implies *)

\* At the start nothing runs.
LEMMA StartsRight == Init => EndToEndInv
<1> SUFFICES ASSUME Init PROVE EndToEndInv
  OBVIOUS
<1>1. Shape
  BY ProgramAssumption, SMT DEF Init, ProgramInit, ClientInit, Lifecycle!Init, Shape
<1>2. ASSUME NEW r \in Runs PROVE RunOk(r) /\ JobOk(r)
  <2>1. run[r] = NewRun /\ status[r] = "none" /\ receipt[r] = "none"
    BY DEF Init, ClientInit, Lifecycle!Init
  <2>2. run[r].stage = "off" /\ run[r].payments = 0 /\ run[r].charged = 0
    <3>1. NewRun.stage = "off" /\ NewRun.payments = 0 /\ NewRun.charged = 0
      BY DEF NewRun
    <3> QED BY <2>1, <3>1
  <2>3. RunOk(r)
    BY <2>1, <2>2, SMT DEF RunOk
  <2>4. r \notin offered
    BY DEF Init, Lifecycle!Init
  <2>5. JobOk(r)
    BY <2>1, <2>4 DEF JobOk
  <2> QED BY <2>3, <2>5
<1>3. ASSUME NEW w \in Workers PROVE WorkerOk(w)
  <2>1. /\ program[w] = "off" /\ socket[w] = "none" /\ inbox[w] = <<>> /\ outbox[w] = <<>>
        /\ working[w] = {} /\ key[w] = 0 /\ entry[w] = Untracked
    BY DEF Init, ProgramInit
  <2> QED BY <2>1, ProgramAssumption, SMT DEF WorkerOk, Idle, Tracked, Untracked
<1> QED BY <1>1, <1>2, <1>3 DEF EndToEndInv

\* Every step of the system keeps the invariant.
LEMMA StepsRight == EndToEndInv /\ [Next]_vars => EndToEndInv'
<1> SUFFICES ASSUME EndToEndInv, [Next]_vars PROVE EndToEndInv'
  OBVIOUS
<1>1. ASSUME NEW r \in Runs, Begin(r) \/ Client(r) \/ commit(r) \/ poll(r) \/ retry(r) PROVE EndToEndInv'
  BY <1>1, BeginKeeps, ClientKeeps, CommitKeeps, PollKeeps, RetryKeeps
<1>2. ASSUME NEW w \in Workers, workerStart(w) PROVE EndToEndInv'
  BY <1>2, StartKeeps DEF workerStart
<1>3. ASSUME NEW w \in Workers, Program(w) PROVE EndToEndInv'
  BY <1>3, ProgramKeeps
<1>4. ASSUME NEW w \in Workers, claim(w) PROVE EndToEndInv'
  BY <1>4, RegistrationKeeps DEF claim
<1>5. ASSUME NEW w \in Workers, Hub(w) \/ pruneStale(w) PROVE EndToEndInv'
  BY <1>5, RegisterKeeps, JobCompleteKeeps, GoneKeeps DEF Hub, handleDisconnect, pruneStale
<1>6. CASE dispatchInit \/ workerStatus
  BY <1>6, KeyFileKeeps DEF dispatchInit, workerStatus, initConfig, clientVars
<1>7. CASE UNCHANGED vars
  <2>1. UNCHANGED <<programVars, clientVars, hubVars>>
    BY <1>7 DEF vars
  <2>2. /\ run' = run /\ launch' = launch /\ offered' = offered /\ entry' = entry /\ status' = status
        /\ paid' = paid /\ result' = result /\ receipt' = receipt
    BY <2>1 DEF programVars, clientVars, hubVars, jobVars
  <2>3. Shape'
    BY <2>1 DEF EndToEndInv, Shape, programVars, clientVars, hubVars, jobVars
  <2>4. \A r \in Runs : RunOk(r)' /\ JobOk(r)'
    BY <2>2, RunUntouched, JobUntouched DEF EndToEndInv
  <2>5. ASSUME NEW w \in Workers PROVE WorkerOk(w)'
    <3>1. Kept(w) /\ Untouched(w)
      BY <2>1, <2>2, ProgramKept DEF Untouched, programVars
    <3> QED BY <2>2, <3>1, WorkerUntouched DEF EndToEndInv
  <2> QED BY <2>3, <2>4, <2>5 DEF EndToEndInv
<1> QED BY <1>1, <1>2, <1>3, <1>4, <1>5, <1>6, <1>7 DEF Next

\* The inductive invariant of the clients, the coordinator and the programs,
\* with every interleaving of their steps, cut connections, exits and new keys.
THEOREM EndToEndInvariant == Spec => []EndToEndInv
BY StartsRight, StepsRight, PTL DEF Spec

\* A run signs at most one payment, is charged only for a job that the
\* coordinator has, and under AUTO what GET /v1/quote said.
THEOREM ChargesAsQuoted == Spec => []ChargedAsQuoted
<1>1. EndToEndInv => ChargedAsQuoted
  <2> SUFFICES ASSUME EndToEndInv, NEW r \in Runs
               PROVE  /\ run[r].payments <= 1
                      /\ run[r].charged # 0 => status[r] # "none"
                      /\ (run[r].charged # 0 /\ run[r].policy = "AUTO")
                             => run[r].charged = run[r].quoted
    BY DEF ChargedAsQuoted
  <2>1. RunOk(r)
    BY DEF EndToEndInv
  <2>2. run[r].payments <= 1 /\ (run[r].charged # 0 => status[r] # "none")
    BY <2>1, SMT DEF RunOk
  <2>3. ASSUME run[r].charged # 0, run[r].policy = "AUTO"
        PROVE  run[r].charged = run[r].quoted
    <3>1. /\ run[r].charged = paymentOf(PolicyOf(r)) /\ run[r].quoted = getPrice(PolicyOf(r), JobTypeOf(r))
          /\ Accepted(run[r].opts)
      BY <2>1, <2>3 DEF RunOk, Price
    <3>2. JobTypeOf(r) \in {"LLM_INFER", "TASK"}
      BY <3>1, JobTypes DEF JobTypeOf
    <3>3. PolicyOf(r) = IF JobTypeOf(r) = "LLM_INFER" THEN "FAST" ELSE "CHEAP"
      BY <2>3 DEF PolicyOf, resolvePolicy
    <3> QED BY <3>1, <3>2, <3>3 DEF paymentOf
  <2> QED BY <2>2, <2>3
<1> QED BY <1>1, EndToEndInvariant, PTL

\* Every stored receipt verifies with the key of the registration.
THEOREM StoredReceiptsVerify == Spec => []ReceiptsVerify
<1>1. EndToEndInv => ReceiptsVerify
  BY DEF EndToEndInv, JobOk, ReceiptsVerify
<1> QED BY <1>1, EndToEndInvariant, PTL

\* A run returns the result of its own job, completed and paid.
THEOREM RunsReturnTheirJobs == Spec => []AnswerIsTheJobs
<1>1. EndToEndInv => AnswerIsTheJobs
  BY DEF EndToEndInv, RunOk, JobOk, AnswerIsTheJobs
<1> QED BY <1>1, EndToEndInvariant, PTL

\* It does not matter which program does a job.
THEOREM ProgramsAgree == Spec => []ExecutorsAgree
<1>1. EndToEndInv => ExecutorsAgree
  <2> SUFFICES ASSUME EndToEndInv, NEW r \in Runs, status[r] = "completed"
               PROVE  /\ ~run[r].opts.sdk => ~Failed(result[r][1])
                      /\ (JobTypeOf(r) = "TASK" /\ PayloadOf(r).input # <<>> /\ ~Failed(result[r][1])) =>
                            LET payload == PayloadOf(r)
                                text    == payload.input[1]
                                output  == desktop_executeTask(payload.task_type, text)
                            IN  /\ mobile_executeTask(payload.task_type, text) = output
                                /\ IsCommon(text) => result[r][1] = output
    BY DEF ExecutorsAgree
  <2>1. RunOk(r) /\ JobOk(r)
    BY DEF EndToEndInv
  <2>2. PICK x \in Answers(PayloadOf(r)) : result[r] = <<x>>
    BY <2>1 DEF JobOk
  <2>3. result[r][1] = x
    BY <2>2, SMT
  <2>4. Accepted(run[r].opts)
    BY <2>1 DEF RunOk
  <2>5. \A t, text : mobile_executeTask(t, text) = desktop_executeTask(t, text)
    BY DEF mobile_executeTask, desktop_executeTask
  <2> QED BY <2>3, <2>4, <2>5, AnswersAgree
<1> QED BY <1>1, EndToEndInvariant, PTL

-----------------------------------------------------------------------------
(* The coordinator seen by clients and programs is that of JobLifecycle *)

\* What a job is to its user and its worker does not change in the other steps.
LEMMA JobsKept ==
    ASSUME EndToEndInv, [Next]_vars
    PROVE  \/ UNCHANGED jobVars
           \/ \E r \in Runs : assign(r) \/ Lifecycle!Commit(r) \/ Lifecycle!GiveUp(r) \/ Lifecycle!Complete(r)
           \/ \E w \in Workers : Gone(w)
<1>1. ASSUME NEW r \in Runs, Begin(r) \/ Client(r) \/ poll(r) PROVE UNCHANGED jobVars
  BY <1>1 DEF Begin, Client, poll, hubVars
<1>2. ASSUME NEW r \in Runs, commit(r) \/ retry(r)
      PROVE  assign(r) \/ Lifecycle!Commit(r) \/ Lifecycle!GiveUp(r)
  BY <1>2 DEF commit, handleCommit, retry
<1>3. ASSUME NEW w \in Workers, workerStart(w) \/ Program(w) \/ claim(w) \/ handleRegister(w)
      PROVE  UNCHANGED jobVars
  BY <1>3 DEF workerStart, Program, claim, handleRegister, hubVars
<1>4. ASSUME NEW w \in Workers, handleJobComplete(w)
      PROVE  UNCHANGED jobVars \/ \E r \in Runs : Lifecycle!Complete(r)
  <2>1. Head(outbox[w]) \in Outgoing(w)
    BY <1>4, FirstMessage DEF handleJobComplete
  <2>2. Head(outbox[w]).job \in Runs
    BY <2>1, OutgoingIs, SMT DEF JobCompleteMsg, Mine, EndToEndInv, Shape
  <2> QED BY <1>4, <2>2 DEF handleJobComplete
<1>5. ASSUME NEW w \in Workers, handleDisconnect(w) \/ pruneStale(w) PROVE Gone(w)
  BY <1>5 DEF handleDisconnect, pruneStale
<1>6. CASE dispatchInit \/ workerStatus \/ UNCHANGED vars
  BY <1>6 DEF dispatchInit, workerStatus, vars, hubVars
<1> QED BY <1>1, <1>2, <1>3, <1>4, <1>5, <1>6 DEF Next, Hub

\* Seen through the jobs, the whole system is JobLifecycle: a job is offered
\* once, to a program that registered with one of the keys, ends at most once,
\* and is paid for when it is completed.
THEOREM EndToEndLifecycle == Spec => Lifecycle!Spec
<1>1. Init => Lifecycle!Init
  BY DEF Init
<1>2. EndToEndInv /\ [Next]_vars => [Lifecycle!Next]_(Lifecycle!vars)
  <2> SUFFICES ASSUME EndToEndInv, [Next]_vars PROVE Lifecycle!Next \/ UNCHANGED Lifecycle!vars
    OBVIOUS
  <2>1. CASE UNCHANGED jobVars
    BY <2>1 DEF jobVars, Lifecycle!vars
  <2>2. ASSUME NEW r \in Runs, assign(r) PROVE Lifecycle!Next
    <3>1. PICK w \in Candidates(r) : Lifecycle!Assign(r, entry[w].key)
      BY <2>2 DEF assign
    <3>2. entry[w].key \in 1..MaxKeys
      BY <3>1 DEF Candidates, EndToEndInv, WorkerOk, Tracked
    <3> QED BY <3>1, <3>2 DEF Lifecycle!Next
  <2>3. ASSUME NEW r \in Runs, Lifecycle!Commit(r) \/ Lifecycle!GiveUp(r) \/ Lifecycle!Complete(r)
        PROVE  Lifecycle!Next
    BY <2>3 DEF Lifecycle!Next
  <2>4. ASSUME NEW w \in Workers, Gone(w) PROVE Lifecycle!Next
    <3> DEFINE lost == {entry[w].job} \ {None}
    <3>1. Lifecycle!Lose(lost)
      BY <2>4 DEF Gone
    <3>2. lost \in SUBSET Runs
      BY DEF EndToEndInv, Shape, WorkerOk, Tracked, Mine
    <3> HIDE DEF lost
    <3> QED BY <3>1, <3>2 DEF Lifecycle!Next
  <2> QED BY <2>1, <2>2, <2>3, <2>4, JobsKept
<1> QED BY <1>1, <1>2, EndToEndInvariant, PTL DEF Spec, Lifecycle!Spec
=============================================================================
