---------------------------- MODULE ProxmoxJobs ----------------------------
(***************************************************************************)
(* The proxmox-jobs queue: ProxmoxJobService.enqueueJob, the BullMQ queue  *)
(* and ProxmoxJobConsumer.process, around the IdempotencyKey row that both *)
(* consult.                                                                *)
(*                                                                         *)
(* A job is named by its idempotency key and works on a VM of its own.     *)
(* BullMQ (external) gives a job to one worker at a time, retries it until *)
(* its attempts are used up, and takes it back from a worker that died.    *)
(* Each statement of the consumer that reaches the database or Proxmox is  *)
(* a step, and each can fail: see Faults.                                  *)
(***************************************************************************)
EXTENDS Naturals, FiniteSets

CONSTANTS
    Jobs,        \* the idempotency keys
    Callers,     \* the calls of enqueueJob
    KeyOf,       \* [Callers -> Jobs]
    Creates,     \* the create-vm jobs
    Deletes,     \* the delete-vm jobs
    Addressed,   \* the jobs whose payload has the vmid and the name of the node
    NodeIsRow,   \* does payload.node name a row of table Node, too?
    Subscribed,  \* the jobs whose VM belongs to a subscription
    Attempts,    \* defaultJobOptions.attempts: 5
    MaxStalled,  \* BullMQ's maxStalledCount: 1
    Workers,     \* concurrency: 3
    Faults,      \* what can fail: a subset of Places
    MaxFaults    \* the bound on the number of failures

Places == {"enqueue", "lookup", "proxmox", "effect", "catch", "crash"}

ASSUME JobsAssumption ==
    /\ Creates \subseteq Jobs /\ Deletes \subseteq Jobs \ Creates
    /\ KeyOf \in [Callers -> Jobs]
    /\ NodeIsRow \in BOOLEAN
    /\ Attempts \in Nat \ {0} /\ Workers \in Nat \ {0}
    /\ MaxStalled \in Nat /\ MaxFaults \in Nat
    /\ Faults \subseteq Places

VARIABLES
    asked,    \* how far each call of enqueueJob is
    key,      \* the status of the IdempotencyKey row
    queue,    \* the state of the BullMQ job
    made,     \* job.attemptsMade
    stalls,   \* how often its worker died
    pc,       \* the next statement of the worker that has the job
    host,     \* the VM in Proxmox
    runs,     \* how often Proxmox carried the job out
    status,   \* the VM's status in the database
    held,     \* does the VM still hold its allocation?
    refunds,  \* the refunds credited for it
    faults

vars == <<asked, key, queue, made, stalls, pc, host, runs, status, held,
          refunds, faults>>

vm == <<host, runs, status, held, refunds>>

\* The calls of Proxmox, the writes that follow the completed key, the
\* statements of the catch block.
ProxmoxCalls == {"clone", "start", "tag", "call"}
Writes == {"complete", "release", "status", "record"}
Cleanup == {"markError", "refund", "settle"}

Ended == {"completed", "failed"}

Init ==
    /\ asked = [c \in Callers |-> "new"]
    /\ key = [j \in Jobs |-> "none"]
    /\ queue = [j \in Jobs |-> "absent"]
    /\ made = [j \in Jobs |-> 0]
    /\ stalls = [j \in Jobs |-> 0]
    /\ pc = [j \in Jobs |-> "idle"]
    /\ host = [j \in Jobs |-> IF j \in Creates THEN "absent" ELSE "managed"]
    /\ runs = [j \in Jobs |-> 0]
    /\ status = [j \in Jobs |-> "before"]
    /\ held = [j \in Jobs |-> TRUE]
    /\ refunds = [j \in Jobs |-> 0]
    /\ faults = 0

Goto(j, step) == pc' = [pc EXCEPT ![j] = step]

CanFail(place) == place \in Faults /\ faults < MaxFaults

Fault(place) == CanFail(place) /\ faults' = faults + 1

-----------------------------------------------------------------------------
(* enqueueJob.                                                             *)

Answer(c, a) == asked' = [asked EXCEPT ![c] = a]

FindKey(c) ==
    /\ asked[c] = "new"
    /\ Answer(c, IF key[KeyOf[c]] = "none" THEN "looked" ELSE "skipped")
    /\ UNCHANGED <<key, queue, made, stalls, pc, vm, faults>>

\* Mutant: an upsert instead of an insert.
AnyKey(c) == TRUE

\* IdempotencyKey.key is unique.
KeyIsNew(c) == key[KeyOf[c]] = "none"

CreateKey(c) ==
    /\ asked[c] = "looked" /\ KeyIsNew(c)
    /\ Answer(c, "keyed")
    /\ key' = [key EXCEPT ![KeyOf[c]] = "pending"]
    /\ UNCHANGED <<queue, made, stalls, pc, vm, faults>>

\* Another call created it in between: P2002.
KeyConflict(c) ==
    /\ asked[c] = "looked" /\ ~KeyIsNew(c)
    /\ Answer(c, "failed")
    /\ UNCHANGED <<key, queue, made, stalls, pc, vm, faults>>

AddJob(c) ==
    /\ asked[c] = "keyed"
    /\ Answer(c, "queued")
    /\ queue' = [queue EXCEPT ![KeyOf[c]] = IF @ = "absent" THEN "waiting" ELSE @]
    /\ UNCHANGED <<key, made, stalls, pc, vm, faults>>

\* The database or Redis is down, or the API process dies.
EnqueueFails(c) ==
    /\ asked[c] \in {"looked", "keyed"}
    /\ Fault("enqueue")
    /\ Answer(c, "failed")
    /\ UNCHANGED <<key, queue, made, stalls, pc, vm>>

-----------------------------------------------------------------------------
(* process(job).                                                           *)

Deliver(j) ==
    /\ queue[j] = "waiting"
    /\ Cardinality({i \in Jobs : queue[i] = "active"}) < Workers
    /\ queue' = [queue EXCEPT ![j] = "active"]
    /\ Goto(j, "lookup")
    /\ UNCHANGED <<asked, key, made, stalls, vm, faults>>

FirstCall(j) == IF j \in Creates THEN "clone" ELSE "call"

AlreadyDone(j) == key[j] = "completed"

LookUp(j) ==
    /\ pc[j] = "lookup" /\ ~AlreadyDone(j)
    /\ Goto(j, FirstCall(j))
    /\ UNCHANGED <<asked, key, queue, made, stalls, vm, faults>>

SkipCompleted(j) ==
    /\ pc[j] = "lookup" /\ AlreadyDone(j)
    /\ Goto(j, "idle")
    /\ queue' = [queue EXCEPT ![j] = "completed"]
    /\ UNCHANGED <<asked, key, made, stalls, vm, faults>>

\* The effect of the Proxmox call at pc[j], if Proxmox accepts it: a clone is
\* refused when the vmid exists, a call when it names no VM or node.
Accepted(j) ==
    CASE pc[j] = "clone" -> j \in Addressed /\ host[j] = "absent"
      [] pc[j] = "call"  -> j \in Addressed
      [] OTHER           -> TRUE

HostAfter == [clone |-> "cloned", start |-> "started", tag |-> "managed",
              call |-> "managed"]

LastCall(j) == pc[j] \in {"tag", "call"}

Perform(j) ==
    /\ host' = [host EXCEPT ![j] = HostAfter[pc[j]]]
    /\ runs' = [runs EXCEPT ![j] = IF LastCall(j) THEN @ + 1 ELSE @]
    /\ UNCHANGED <<status, held, refunds>>

\* executeJob; a create-vm is cloned, started and tagged.
CallProxmox(j) ==
    /\ pc[j] \in ProxmoxCalls /\ Accepted(j)
    /\ Perform(j)
    /\ Goto(j, CASE pc[j] = "clone" -> "start"
                 [] pc[j] = "start" -> "tag"
                 [] OTHER           -> "complete")
    /\ UNCHANGED <<asked, key, queue, made, stalls, faults>>

ProxmoxRefuses(j) ==
    /\ pc[j] \in ProxmoxCalls /\ ~Accepted(j)
    /\ Goto(j, "markError")
    /\ UNCHANGED <<asked, key, queue, made, stalls, vm, faults>>

\* A timeout or a connection error: before Proxmox got the request or after.
ProxmoxFails(j) ==
    /\ pc[j] \in ProxmoxCalls
    /\ Fault("proxmox")
    /\ UNCHANGED vm \/ (Accepted(j) /\ Perform(j))
    /\ Goto(j, "markError")
    /\ UNCHANGED <<asked, key, queue, made, stalls>>

\* Mutant: the allocation of a deleted VM is forgotten.
StatusFirst(j) == "status"

FirstEffect(j) == IF j \in Deletes THEN "release" ELSE "status"

\* The key is completed before the effects below, and outside their
\* transactions.
CompleteKey(j) ==
    /\ pc[j] = "complete"
    /\ key' = [key EXCEPT ![j] = "completed"]
    /\ Goto(j, FirstEffect(j))
    /\ UNCHANGED <<asked, queue, made, stalls, vm, faults>>

ReleasePool(j) ==
    /\ pc[j] = "release"
    /\ held' = [held EXCEPT ![j] = FALSE]
    /\ Goto(j, "status")
    /\ UNCHANGED <<asked, key, queue, made, stalls, host, runs, status,
                   refunds, faults>>

\* updateVmStatus; for a create-vm it writes payload.node to Vm.nodeId.
UpdateStatus(j) ==
    /\ pc[j] = "status" /\ (j \in Creates => NodeIsRow)
    /\ status' = [status EXCEPT ![j] = "target"]
    /\ Goto(j, "record")
    /\ UNCHANGED <<asked, key, queue, made, stalls, host, runs, held,
                   refunds, faults>>

\* The foreign key Vm_nodeId_fkey.
NodeIdRefused(j) ==
    /\ pc[j] = "status" /\ j \in Creates /\ ~NodeIsRow
    /\ Goto(j, "markError")
    /\ UNCHANGED <<asked, key, queue, made, stalls, vm, faults>>

\* The notification and the audit row; process returns.
Finish(j) ==
    /\ pc[j] = "record"
    /\ Goto(j, "idle")
    /\ queue' = [queue EXCEPT ![j] = "completed"]
    /\ UNCHANGED <<asked, key, made, stalls, vm, faults>>

WriteFails(j) ==
    /\ pc[j] \in Writes
    /\ Fault("effect")
    /\ Goto(j, "markError")
    /\ UNCHANGED <<asked, key, queue, made, stalls, vm>>

-----------------------------------------------------------------------------
(* The catch block.                                                        *)

AfterError(j) == IF j \in Creates THEN "refund" ELSE "settle"

MarkError(j) ==
    /\ pc[j] = "markError"
    /\ status' = [status EXCEPT ![j] = "error"]
    /\ Goto(j, AfterError(j))
    /\ UNCHANGED <<asked, key, queue, made, stalls, host, runs, held,
                   refunds, faults>>

\* autoRefundOnProvisionFailure, on every failed attempt.
Refund(j) ==
    /\ pc[j] = "refund"
    /\ refunds' = [refunds EXCEPT ![j] = IF j \in Subscribed THEN @ + 1 ELSE @]
    /\ Goto(j, "settle")
    /\ UNCHANGED <<asked, key, queue, made, stalls, host, runs, status,
                   held, faults>>

\* An error of either is logged and swallowed.
CleanupFails(j) ==
    /\ pc[j] \in {"markError", "refund"}
    /\ Fault("catch")
    /\ Goto(j, IF pc[j] = "markError" THEN AfterError(j) ELSE "settle")
    /\ UNCHANGED <<asked, key, queue, made, stalls, vm>>

\* Mutant: off by one.
NoAttemptLeft(j) == made[j] >= Attempts

LastAttempt(j) == made[j] >= Attempts - 1

\* Mutant: one attempt too many.
RetriedOnceMore(j) == made[j] + 1 <= Attempts

Retried(j) == made[j] + 1 < Attempts

\* Mutant: failed attempts are not counted.
NotCounted(j) == UNCHANGED made

CountAttempt(j) == made' = [made EXCEPT ![j] = @ + 1]

\* The attempt ends in failure: BullMQ retries the job or gives it up.
Throw(j) ==
    /\ Goto(j, "idle")
    /\ CountAttempt(j)
    /\ queue' = [queue EXCEPT ![j] = IF Retried(j) THEN "waiting" ELSE "failed"]
    /\ UNCHANGED <<asked, stalls, vm>>

Settle(j) ==
    /\ pc[j] = "settle"
    /\ key' = [key EXCEPT ![j] = IF LastAttempt(j) THEN "failed" ELSE @]
    /\ Throw(j)
    /\ UNCHANGED faults

FailKeyFails(j) ==
    /\ pc[j] = "settle" /\ LastAttempt(j)
    /\ Fault("catch")
    /\ Throw(j)
    /\ UNCHANGED key

\* The lookup of the key is outside the try block.
LookUpFails(j) ==
    /\ pc[j] = "lookup"
    /\ Fault("lookup")
    /\ Throw(j)
    /\ UNCHANGED key

-----------------------------------------------------------------------------
(* The worker process dies; later BullMQ finds the job stalled.            *)

Crash(j) ==
    /\ pc[j] # "idle"
    /\ Fault("crash")
    /\ Goto(j, "idle")
    /\ queue' = [queue EXCEPT ![j] = "stalled"]
    /\ UNCHANGED <<asked, key, made, stalls, vm>>

Recover(j) ==
    /\ queue[j] = "stalled"
    /\ stalls' = [stalls EXCEPT ![j] = @ + 1]
    /\ queue' = [queue EXCEPT ![j] =
                    IF stalls[j] < MaxStalled THEN "waiting" ELSE "failed"]
    /\ UNCHANGED <<asked, key, made, pc, vm, faults>>

Enqueue(c) == FindKey(c) \/ CreateKey(c) \/ KeyConflict(c) \/ AddJob(c)

Process(j) ==
    \/ Deliver(j) \/ LookUp(j) \/ SkipCompleted(j)
    \/ CallProxmox(j) \/ ProxmoxRefuses(j)
    \/ CompleteKey(j) \/ ReleasePool(j)
    \/ UpdateStatus(j) \/ NodeIdRefused(j) \/ Finish(j)
    \/ MarkError(j) \/ Refund(j) \/ Settle(j)
    \/ Recover(j)

Fail(j) ==
    \/ LookUpFails(j) \/ ProxmoxFails(j) \/ WriteFails(j)
    \/ CleanupFails(j) \/ FailKeyFails(j) \/ Crash(j)

Next ==
    \/ \E c \in Callers : Enqueue(c) \/ EnqueueFails(c)
    \/ \E j \in Jobs : Process(j) \/ Fail(j)

\* The event loop resumes every call and every worker, and BullMQ hands out
\* every job: strongly, because the jobs share the workers.
Fairness ==
    /\ \A c \in Callers : WF_vars(Enqueue(c))
    /\ \A j \in Jobs : SF_vars(Process(j))

Spec == Init /\ [][Next]_vars

FairSpec == Spec /\ Fairness

-----------------------------------------------------------------------------
(* Properties.                                                             *)

TypeOK ==
    /\ asked \in [Callers -> {"new", "looked", "keyed", "queued", "skipped",
                              "failed"}]
    /\ key \in [Jobs -> {"none", "pending", "completed", "failed"}]
    /\ queue \in [Jobs -> {"absent", "waiting", "active", "stalled"} \cup Ended]
    /\ made \in [Jobs -> 0 .. Attempts]
    /\ stalls \in [Jobs -> 0 .. MaxStalled + 1]
    /\ pc \in [Jobs -> {"idle", "lookup"} \cup ProxmoxCalls \cup Writes
                       \cup Cleanup]
    /\ host \in [Jobs -> {"absent", "cloned", "started", "managed"}]
    /\ runs \in [Jobs -> Nat]
    /\ status \in [Jobs -> {"before", "target", "error"}]
    /\ held \in [Jobs -> BOOLEAN]
    /\ refunds \in [Jobs -> Nat]
    /\ faults \in 0 .. MaxFaults

\* However many calls race with one key, one of them queues the job.
OneEnqueuePerKey ==
    \A j \in Jobs :
        Cardinality({c \in Callers : KeyOf[c] = j /\ asked[c] \in {"keyed", "queued"}})
            <= 1

\* Once the key is completed, no retry calls Proxmox for it again, whatever
\* failed or crashed after the completion.
NeverRunAgain ==
    \A j \in Jobs : pc[j] \in ProxmoxCalls => key[j] # "completed"

\* The key tells how the job ended, and no sooner: a failed key has no attempt
\* left, and an ended job has its key settled, unless BullMQ gave it up because
\* its workers died.  It takes a database that answers the lookup of the key
\* and the catch block.
KeySettlesWithJob ==
    \A j \in Jobs :
        /\ key[j] = "failed" => queue[j] = "failed"
        /\ queue[j] \in Ended /\ stalls[j] <= MaxStalled => key[j] = queue[j]

\* A job during which nothing failed leaves what its producer asked for: the
\* VM in Proxmox and in the database, its allocation released if it is
\* deleted, no money refunded.
FaultFreeJobsApply ==
    \A j \in Jobs :
        queue[j] \in Ended /\ faults = 0 =>
            /\ host[j] = "managed" /\ runs[j] = 1
            /\ status[j] = "target"
            /\ held[j] = (j \notin Deletes)
            /\ refunds[j] = 0

\* Every queued job ends.
EveryJobEnds ==
    \A j \in Jobs : (queue[j] = "waiting") ~> (queue[j] \in Ended)

\* The queue implements its promise: at least once before the key completes,
\* never after, and no more often than BullMQ hands out a job, whatever fails
\* and however retries and dying workers take turns.
Abstract == INSTANCE AbstractJobs WITH Deliveries <- Attempts + MaxStalled

ImplementsAbstractJobs == Abstract!Spec
=============================================================================
