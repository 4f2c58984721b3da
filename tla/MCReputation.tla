---------------------------- MODULE MCReputation ----------------------------
(* Values for the constants of Reputation; those of Coordinator are in      *)
(* MCCoordinator.                                                            *)
EXTENDS MCCoordinator, Reputation

\* the coordinator registered itself first
MCInitialOwners == <<Self>>

\* all a score may be
MCScores == 0..100

\* A rating by somebody else is not combined with a restart.
Scenario == crashes > 0 => \A e \in entries : e.job # None
=============================================================================
