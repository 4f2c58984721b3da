-------------------------- MODULE HeartbeatHistory --------------------------
(***************************************************************************)
(* The coordinator with a history variable: for each socket, the firings   *)
(* of the prune timer since its worker program last sent register or       *)
(* heartbeat on it.  A worker loses its connection without a close frame   *)
(* and dials again.                                                        *)
(***************************************************************************)
EXTENDS Coordinator

VARIABLE silence

\* counted as far as the property needs it
Longer(n) == IF n < HeartbeatTimeout THEN n + 1 ELSE n

\* The worker programs register once, when their socket opens,
Speaks(s) == (workerId[s] = None /\ Register(s)) \/ Heartbeat(s)

\* and dial again only after they have lost it.
Dials(s) == Connect(s) /\ \A t \in Sockets : Owner[t] = Owner[s] => ~peer[t]

Others ==
    \/ \E s \in Sockets : \/ Dials(s) \/ PeerLost(s) \/ SocketClose(s)
                         \/ \E j \in AnyJob : JobAnswer(s, j)
    \/ RouteStep

HInit == Init /\ silence = [s \in Sockets |-> 0]

HNext ==
    \/ \E s \in Sockets : Speaks(s) /\ silence' = [silence EXCEPT ![s] = 0]
    \/ PruneTimer /\ silence' = [s \in Sockets |-> Longer(silence[s])]
    \/ Others /\ UNCHANGED silence

HSpec == HInit /\ [][HNext]_<<vars, silence>>

\* "The coordinator prunes workers that miss heartbeats for more than 30
\* seconds" (litepaper-full.md): the prune timer closes a socket only if
\* nothing was heard on it for that long.  handleHeartbeat refreshes the first
\* entry with the sender's pubkey, so a worker that reconnected while its old
\* entry is still in the Map is pruned although it sends heartbeats.
PrunedOnlyIfSilent ==
    [][\A s \in Sockets :
          PruneTimer /\ readyState[s] = "open" /\ readyState'[s] = "closing"
            => silence[s] >= HeartbeatTimeout]_<<vars, silence>>
=============================================================================
