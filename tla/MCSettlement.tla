---------------------------- MODULE MCSettlement ----------------------------
(***************************************************************************)
(* For TLC: the two coordinators' payouts and the libraries.  The          *)
(* variables of MonadChain are those of a coordinator that writes to       *)
(* Monad; Solana is the BoltDistributor of a coordinator that does not.    *)
(* The three share no state, so a behaviour uses one of them, and of the   *)
(* libraries either the anchoring or the one-off settlement.               *)
(***************************************************************************)
EXTENDS MonadChain, ChainLibraries

CONSTANTS SolanaPubkeys, SolanaThreshold, SolanaRetries, SolanaCrashes

VARIABLES
    solPending, solSettlements, solSettling, solSweep, solLate, solTransfers,
    solVerdicts, solOwed, solLost, solCrashes

solVars == <<solPending, solSettlements, solSettling, solSweep, solLate, solTransfers,
             solVerdicts, solOwed, solLost, solCrashes>>

Solana == INSTANCE Settlement WITH
    Pubkeys <- SolanaPubkeys, JOBS_THRESHOLD <- SolanaThreshold,
    MaxRetries <- SolanaRetries, MaxCrashes <- SolanaCrashes,
    pendingPayouts <- solPending, settlements <- solSettlements,
    settling <- solSettling, sweep <- solSweep, late <- solLate,
    transfers <- solTransfers, verdicts <- solVerdicts, owed <- solOwed,
    lost <- solLost, crashes <- solCrashes

MCInit == MonadInit /\ Solana!Init /\ LibInit

MCNext ==
    \/ Solana!Init /\ LibInit /\ MonadNext /\ UNCHANGED <<solVars, libVars>>
    \/ MonadInit /\ LibInit /\ Solana!Next /\ UNCHANGED <<allVars, libVars>>
    \/ /\ MonadInit /\ Solana!Init /\ UNCHANGED <<allVars, solVars>>
       /\ \/ oneOff = NoOneOff /\ AnchorStep
          \/ LibInit /\ SettleStep

MCSpec ==
    /\ MCInit /\ [][MCNext]_<<allVars, solVars, libVars>>
    /\ MonadFairness /\ Solana!Fairness

\* With either coordinator, the batches hold every payout once, with its amount
\* (the inductive invariant of the proofs).
PayoutsKept == PayoutInv /\ Solana!PayoutInv /\ Solana!Accounted

\* With either coordinator, every queued payout is settled or reported as failed,
\* unless a crash loses it.
AllPayoutsDecided == PayoutsDecided /\ Solana!PayoutsDecided
=============================================================================
