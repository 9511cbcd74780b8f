---------------------------- MODULE AbstractJobs ----------------------------
(***************************************************************************)
(* What the proxmox-jobs queue promises its producers about one            *)
(* idempotency key.  Proxmox is asked at least once before the key says    *)
(* completed and not at all afterwards; a job that fails has been tried,   *)
(* and refunded, no more often than BullMQ hands a job out; a failed key   *)
(* is the end.                                                             *)
(***************************************************************************)
EXTENDS Naturals

CONSTANTS Jobs,        \* the idempotency keys
          Subscribed,  \* those whose failure is refunded
          Deliveries   \* how often BullMQ hands out a job at most

VARIABLES key,     \* the status of each key
          runs,    \* how often Proxmox carried the job out
          refunds  \* how often it was refunded

vars == <<key, runs, refunds>>

Init ==
    /\ key = [j \in Jobs |-> "none"]
    /\ runs = [j \in Jobs |-> 0]
    /\ refunds = [j \in Jobs |-> 0]

Request(j) ==
    /\ key[j] = "none"
    /\ key' = [key EXCEPT ![j] = "pending"]
    /\ UNCHANGED <<runs, refunds>>

Run(j) ==
    /\ key[j] = "pending" /\ runs[j] < Deliveries
    /\ runs' = [runs EXCEPT ![j] = @ + 1]
    /\ UNCHANGED <<key, refunds>>

Complete(j) ==
    /\ key[j] = "pending" /\ runs[j] > 0
    /\ key' = [key EXCEPT ![j] = "completed"]
    /\ UNCHANGED <<runs, refunds>>

\* What follows the completed key can still fail, and is refunded all the same.
Refund(j) ==
    /\ key[j] \in {"pending", "completed"}
    /\ j \in Subscribed /\ refunds[j] < Deliveries
    /\ refunds' = [refunds EXCEPT ![j] = @ + 1]
    /\ UNCHANGED <<key, runs>>

GiveUp(j) ==
    /\ key[j] \in {"pending", "completed"}
    /\ key' = [key EXCEPT ![j] = "failed"]
    /\ UNCHANGED <<runs, refunds>>

Next ==
    \E j \in Jobs : Request(j) \/ Run(j) \/ Complete(j) \/ Refund(j) \/ GiveUp(j)

Spec == Init /\ [][Next]_vars
=============================================================================
