------------------------------ MODULE DemoMode ------------------------------
(***************************************************************************)
(* The demo mode of server.ts: while it is on, a self-rearming timeout     *)
(* hands a synthetic TASK job to a random idle worker, past the database.  *)
(***************************************************************************)
EXTENDS WorkerHub

\* Faulty variant: a second start is not ignored.
startDemoMode_Again ==
    /\ demoTimers < 2
    /\ demoActive' = TRUE
    /\ demoTimers' = demoTimers + 1
    /\ UNCHANGED <<socketVars, hubVars, dbVars, retry, demoUsed, callVars, offers,
                   crashVars>>

startDemoMode ==
    /\ ~demoActive
    /\ demoActive' = TRUE
    /\ demoTimers' = demoTimers + 1
    /\ UNCHANGED <<socketVars, hubVars, dbVars, retry, demoUsed, callVars, offers,
                   crashVars>>

stopDemoMode ==
    /\ demoActive
    /\ demoActive' = FALSE
    /\ demoTimers' = IF demoTimers > 0 THEN demoTimers - 1 ELSE 0
    /\ UNCHANGED <<socketVars, hubVars, dbVars, retry, demoUsed, callVars, offers,
                   crashVars>>

\* POST /v1/demo/start and /v1/demo/stop.
demoStart == startDemoMode
demoStop  == stopDemoMode

getIdleWorkers == {w \in Online : workers[w].status = "idle"}

injectDemoJob(w, d) ==
    /\ demoUsed' = demoUsed \cup {d}
    /\ assignJob(w, d)

\* The timeout fires: it is consumed and, in the same callback, armed again.
\* pickRandom may return any idle worker, whatever its capabilities.
demoTick ==
    /\ demoTimers > 0
    /\ demoActive
    /\ \E w \in getIdleWorkers, d \in DemoJobs \ demoUsed : injectDemoJob(w, d)
    /\ UNCHANGED <<readyState, workerId, peer, lastId, dbVars, retry, demoActive,
                   demoTimers, callVars, crashVars>>
=============================================================================
