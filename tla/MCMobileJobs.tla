---------------------------- MODULE MCMobileJobs ----------------------------
(***************************************************************************)
(* Instance of MobileJobs for TLC.                                         *)
(***************************************************************************)
EXTENDS MobileJobs, TLC

Symmetry == Permutations(Jobs)

WalletUntouched == provider = "device-key" /\ wallet = None /\ walletCall = "idle" /\ ~rekeyed

\* A second job, a second device key and the wallet are not combined.
Scenario ==
    /\ InState({"new"}) = {} => WalletUntouched /\ lastKey <= 1
    /\ lastKey = 2 => WalletUntouched
=============================================================================
