---------------------------- MODULE MCHeartbeat ----------------------------
(* A worker that reconnects: one pubkey, two sockets. *)
EXTENDS HeartbeatHistory, TLC

CONSTANTS p1, s1, s3, u1

MCOwner == s1 :> p1 @@ s3 :> p1
MCProviderType == p1 :> "DESKTOP"
MCCapabilities == p1 :> {"LLM_INFER", "TASK"}
MCRequests == {[type |-> "TASK", policy |-> "CHEAP", privacy |-> "PUBLIC", user |-> u1]}
=============================================================================
