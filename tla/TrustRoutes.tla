---------------------------- MODULE TrustRoutes ----------------------------
(***************************************************************************)
(* routes/trust.ts: a user creates a pairing code, a worker claims it      *)
(* within an hour.  Requests that are refused change nothing and are not   *)
(* steps.                                                                  *)
(***************************************************************************)
EXTENDS CoordinatorState

TrustCreate(c, user) ==
    /\ pairings[c] = NoPairing
    /\ pairings' = [pairings EXCEPT ![c] = [user |-> user, provider_pubkey |-> None,
                                            claimed |-> FALSE, expired |-> FALSE]]
    /\ UNCHANGED <<socketVars, hubVars, jobs, receipts, retry, demoVars, callVars,
                   offers, crashVars>>

TrustClaim(c, pk) ==
    /\ pairings[c] # NoPairing
    /\ ~pairings[c].claimed
    /\ ~pairings[c].expired
    /\ pairings' = [pairings EXCEPT ![c].claimed = TRUE, ![c].provider_pubkey = pk]
    /\ UNCHANGED <<socketVars, hubVars, jobs, receipts, retry, demoVars, callVars,
                   offers, crashVars>>

\* GET /v1/trust/list: a claimed code stays in the list when it expires.
trustList(user) ==
    {pairings[c].provider_pubkey : c \in {d \in Codes : pairings[d].user = user /\ pairings[d].claimed}}

\* An hour passes since the code was created.
TrustExpire(c) ==
    /\ pairings[c] # NoPairing
    /\ ~pairings[c].expired
    /\ pairings' = [pairings EXCEPT ![c].expired = TRUE]
    /\ UNCHANGED <<socketVars, hubVars, jobs, receipts, retry, demoVars, callVars,
                   offers, crashVars>>
=============================================================================
