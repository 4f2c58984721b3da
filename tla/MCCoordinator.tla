--------------------------- MODULE MCCoordinator ---------------------------
(* Values for the constants of Coordinator. *)
EXTENDS DocClaims, TLC

CONSTANTS p1, p2, s1, s2, s3, u1, u2

MCOwnerTwo == s1 :> p1 @@ s2 :> p2
\* p1 dials in twice: s1, then s3 when it reconnects.
MCOwnerReconnect == s1 :> p1 @@ s3 :> p1
MCProviderType == p1 :> "DESKTOP" @@ p2 :> "SEEKER"
MCCapabilities == p1 :> {"LLM_INFER", "TASK"} @@ p2 :> {"TASK"}
MCProviderTypeOne == p1 :> "DESKTOP"
MCCapabilitiesOne == p1 :> {"LLM_INFER", "TASK"}

PublicTask  == [type |-> "TASK", policy |-> "CHEAP", privacy |-> "PUBLIC", user |-> u1]
PrivateTask == [type |-> "TASK", policy |-> "FAST", privacy |-> "PRIVATE", user |-> u1]
PrivateLLM  == [PrivateTask EXCEPT !.type = "LLM_INFER", !.user = u2]

MCReceipts ==
    {None} \cup {[job_id |-> j, provider_pubkey |-> pk, signer |-> pk] : j \in Jobs, pk \in Pubkeys}

MCPublic  == {PublicTask}
MCFastTask == {[PublicTask EXCEPT !.policy = "FAST"]}
MCPrivate == {PrivateTask, PrivateLLM}
=============================================================================
