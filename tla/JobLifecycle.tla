---------------------------- MODULE JobLifecycle ----------------------------
(***************************************************************************)
(* What the coordinator promises to the user of a job and to the worker    *)
(* that does it: the life of each job, without sockets, heartbeats, retry  *)
(* loops or restarts.  A job is offered to one worker at most; it ends at  *)
(* most once; and a worker is paid when, and only when, it completes it.   *)
(***************************************************************************)
EXTENDS Sequences

CONSTANTS Jobs, Pubkeys, None

VARIABLES status, assignee, offered, paid

vars == <<status, assignee, offered, paid>>

Init ==
    /\ status = [j \in Jobs |-> "none"]
    /\ assignee = [j \in Jobs |-> None]
    /\ offered = {}
    /\ paid = [j \in Jobs |-> <<>>]

\* A new job waits, or has failed at once.
Commit(j) ==
    /\ status[j] = "none"
    /\ \E st \in {"pending", "failed"} : status' = [status EXCEPT ![j] = st]
    /\ UNCHANGED <<assignee, offered, paid>>

\* A new or waiting job is offered to a worker, for the first time.
Assign(j, pk) ==
    /\ status[j] \in {"none", "pending"}
    /\ j \notin offered
    /\ status' = [status EXCEPT ![j] = "assigned"]
    /\ assignee' = [assignee EXCEPT ![j] = pk]
    /\ offered' = offered \cup {j}
    /\ UNCHANGED paid

\* No worker turned up.
GiveUp(j) ==
    /\ status[j] = "pending"
    /\ j \notin offered
    /\ status' = [status EXCEPT ![j] = "failed"]
    /\ UNCHANGED <<assignee, offered, paid>>

Complete(j) ==
    /\ status[j] = "assigned"
    /\ status' = [status EXCEPT ![j] = "completed"]
    /\ paid' = [paid EXCEPT ![j] = <<assignee[j]>>]
    /\ UNCHANGED <<assignee, offered>>

HandBack(j) ==
    /\ status[j] = "assigned"
    /\ status' = [status EXCEPT ![j] = "pending"]
    /\ assignee' = [assignee EXCEPT ![j] = None]
    /\ UNCHANGED <<offered, paid>>

\* The workers of some assigned jobs disappear together.
Lose(lost) ==
    /\ \A j \in lost : status[j] = "assigned"
    /\ status' = [j \in Jobs |-> IF j \in lost THEN "failed" ELSE status[j]]
    /\ UNCHANGED <<assignee, offered, paid>>

Next ==
    \/ \E j \in Jobs : Commit(j) \/ GiveUp(j) \/ Complete(j) \/ HandBack(j)
    \/ \E j \in Jobs, pk \in Pubkeys : Assign(j, pk)
    \/ \E lost \in SUBSET Jobs : Lose(lost)

Spec == Init /\ [][Next]_vars
=============================================================================
