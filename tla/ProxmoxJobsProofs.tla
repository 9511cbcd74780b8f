------------------------- MODULE ProxmoxJobsProofs -------------------------
(***************************************************************************)
(* The job pipeline's safety for every set of jobs and callers, any number *)
(* of attempts, workers and faults.                                        *)
(*                                                                         *)
(* A job is in the hands of a worker exactly while BullMQ calls it active, *)
(* and has an attempt left until it ends (Worker); on that rests, step by  *)
(* step, that the key and the job end together (Settled) and how far a job *)
(* has come when nothing has failed (OnTrack).  The deliveries that        *)
(* attemptsMade and the stalls count bound what a job does (Counted), so   *)
(* that the queue implements AbstractJobs.                                 *)
(***************************************************************************)
EXTENDS ProxmoxJobs, FiniteSetTheorems, TLAPS

USE JobsAssumption

Worker(j) ==
    /\ pc[j] # "idle" <=> queue[j] = "active"
    /\ queue[j] \notin Ended => made[j] < Attempts
    /\ queue[j] # "failed" => stalls[j] <= MaxStalled
    /\ queue[j] # "absent" => key[j] # "none"
    /\ pc[j] \in {"release", "status", "record"} => key[j] = "completed"
    /\ pc[j] \in ProxmoxCalls => key[j] # "completed"

\* The insert of a key lets one call through.
Keyed ==
    /\ \A c \in Callers : asked[c] \in {"keyed", "queued"} => key[KeyOf[c]] # "none"
    /\ \A c, d \in Callers :
         /\ asked[c] \in {"keyed", "queued"} /\ asked[d] \in {"keyed", "queued"}
         /\ KeyOf[c] = KeyOf[d]
         => c = d

Inv ==
    /\ TypeOK
    /\ Keyed
    /\ \A j \in Jobs : Worker(j)

-----------------------------------------------------------------------------
\* Nothing is queued at first.
LEMMA InitInv == Init => Inv
<1> SUFFICES ASSUME Init PROVE Inv
  OBVIOUS
<1>1. TypeOK
  BY DEF Init, TypeOK
<1>2. Keyed
  BY DEF Init, Keyed
<1>3. \A j \in Jobs : Worker(j)
  BY DEF Init, Worker, ProxmoxCalls, Ended
<1> QED BY <1>1, <1>2, <1>3 DEF Inv

\* A call of enqueueJob keeps the invariant.
LEMMA EnqueueInv ==
  ASSUME Inv, NEW c \in Callers, Enqueue(c) \/ EnqueueFails(c)
  PROVE  Inv'
<1> DEFINE k == KeyOf[c]
<1>1. k \in Jobs
  OBVIOUS
<1>2. UNCHANGED <<made, stalls, pc, vm>>
  BY DEF Enqueue, EnqueueFails, FindKey, CreateKey, KeyConflict, AddJob
<1>3. CASE FindKey(c) \/ KeyConflict(c) \/ EnqueueFails(c)
  <2>1. /\ UNCHANGED <<key, queue>>
        /\ \E a \in {"looked", "skipped", "failed"} : Answer(c, a)
    BY <1>3 DEF FindKey, KeyConflict, EnqueueFails
  <2>2. faults' \in 0 .. MaxFaults
    BY <1>3 DEF FindKey, KeyConflict, EnqueueFails, Fault, CanFail, Inv, TypeOK
  <2>3. TypeOK'
    BY <1>2, <2>1, <2>2 DEF Inv, TypeOK, Answer, vm
  <2>4. Keyed'
    BY <2>1 DEF Inv, TypeOK, Keyed, Answer
  <2> QED BY <1>2, <2>1, <2>3, <2>4 DEF Inv, Worker
<1>4. CASE CreateKey(c)
  <2>1. /\ asked' = [asked EXCEPT ![c] = "keyed"] /\ key[k] = "none"
        /\ key' = [key EXCEPT ![k] = "pending"]
        /\ UNCHANGED <<queue, faults>>
    BY <1>4 DEF CreateKey, Answer, KeyIsNew
  <2>2. TypeOK'
    BY <1>2, <2>1 DEF Inv, TypeOK, vm
  <2>3. Keyed'
    BY <2>1 DEF Inv, TypeOK, Keyed
  <2>4. ASSUME NEW j \in Jobs PROVE Worker(j)'
    BY <1>2, <2>1 DEF Inv, TypeOK, Worker, ProxmoxCalls
  <2> QED BY <2>2, <2>3, <2>4 DEF Inv
<1>5. CASE AddJob(c)
  <2>1. /\ asked[c] = "keyed" /\ asked' = [asked EXCEPT ![c] = "queued"]
        /\ queue' = [queue EXCEPT ![k] = IF @ = "absent" THEN "waiting" ELSE @]
        /\ UNCHANGED <<key, faults>>
    BY <1>5 DEF AddJob, Answer
  <2>2. TypeOK'
    BY <1>2, <2>1 DEF Inv, TypeOK, vm
  <2>3. Keyed'
    BY <2>1 DEF Inv, TypeOK, Keyed
  <2>4. ASSUME NEW j \in Jobs PROVE Worker(j)'
    <3>1. Worker(j) /\ (j = k => key[j] # "none")
      BY <2>1 DEF Inv, Keyed
    <3>2. queue'[j] = queue[j]
            \/ (j = k /\ queue[j] = "absent" /\ queue'[j] = "waiting")
      BY <2>1 DEF Inv, TypeOK
    <3> QED BY <1>2, <2>1, <3>1, <3>2 DEF Worker, Ended
  <2> QED BY <2>2, <2>3, <2>4 DEF Inv
<1> QED BY <1>3, <1>4, <1>5 DEF Enqueue

\* A step of one job leaves the others and the callers alone.
LEMMA JobFrame ==
  ASSUME TypeOK, NEW j \in Jobs, Process(j) \/ Fail(j)
  PROVE  /\ asked' = asked
         /\ \A i \in Jobs \ {j} :
              /\ key'[i] = key[i] /\ queue'[i] = queue[i]
              /\ made'[i] = made[i] /\ stalls'[i] = stalls[i]
              /\ pc'[i] = pc[i] /\ host'[i] = host[i] /\ runs'[i] = runs[i]
              /\ status'[i] = status[i] /\ held'[i] = held[i]
              /\ refunds'[i] = refunds[i]
<1> USE DEF TypeOK, vm, Goto, Perform, Throw, CountAttempt
<1>1. CASE Deliver(j)         BY <1>1 DEF Deliver
<1>2. CASE LookUp(j)          BY <1>2 DEF LookUp
<1>3. CASE SkipCompleted(j)   BY <1>3 DEF SkipCompleted
<1>4. CASE CallProxmox(j)     BY <1>4 DEF CallProxmox
<1>5. CASE ProxmoxRefuses(j)  BY <1>5 DEF ProxmoxRefuses
<1>6. CASE CompleteKey(j)     BY <1>6 DEF CompleteKey
<1>7. CASE ReleasePool(j)     BY <1>7 DEF ReleasePool
<1>8. CASE UpdateStatus(j)    BY <1>8 DEF UpdateStatus
<1>9. CASE NodeIdRefused(j)   BY <1>9 DEF NodeIdRefused
<1>10. CASE Finish(j)         BY <1>10 DEF Finish
<1>11. CASE MarkError(j)      BY <1>11 DEF MarkError
<1>12. CASE Refund(j)         BY <1>12 DEF Refund
<1>13. CASE Settle(j)         BY <1>13 DEF Settle
<1>14. CASE Recover(j)        BY <1>14 DEF Recover
<1>15. CASE LookUpFails(j)    BY <1>15 DEF LookUpFails
<1>16. CASE ProxmoxFails(j)   BY <1>16 DEF ProxmoxFails
<1>17. CASE WriteFails(j)     BY <1>17 DEF WriteFails
<1>18. CASE CleanupFails(j)   BY <1>18 DEF CleanupFails
<1>19. CASE FailKeyFails(j)   BY <1>19 DEF FailKeyFails
<1>20. CASE Crash(j)          BY <1>20 DEF Crash
<1> QED BY <1>1, <1>2, <1>3, <1>4, <1>5, <1>6, <1>7, <1>8, <1>9, <1>10,
           <1>11, <1>12, <1>13, <1>14, <1>15, <1>16, <1>17, <1>18, <1>19,
           <1>20 DEF Process, Fail

\* A step of a job keeps the invariant of that job.
LEMMA WorkerInv ==
  ASSUME Inv, NEW j \in Jobs, Process(j) \/ Fail(j)
  PROVE  TypeOK' /\ Worker(j)' /\ (key[j] # "none" => key'[j] # "none")
<1>1. TypeOK /\ Worker(j)
  BY DEF Inv
<1> USE <1>1 DEF TypeOK, Worker, vm, Goto, Perform, Throw, CountAttempt, Fault,
                 CanFail, Ended, ProxmoxCalls, Writes, Cleanup
<1>2. CASE Deliver(j)          BY <1>2 DEF Deliver
<1>3. CASE LookUp(j)           BY <1>3 DEF LookUp, FirstCall, AlreadyDone
<1>4. CASE SkipCompleted(j)    BY <1>4 DEF SkipCompleted
<1>5. CASE CallProxmox(j)      BY <1>5 DEF CallProxmox, HostAfter
<1>6. CASE ProxmoxRefuses(j)   BY <1>6 DEF ProxmoxRefuses
<1>7. CASE CompleteKey(j)      BY <1>7 DEF CompleteKey, FirstEffect
<1>8. CASE ReleasePool(j)      BY <1>8 DEF ReleasePool
<1>9. CASE UpdateStatus(j)     BY <1>9 DEF UpdateStatus
<1>10. CASE NodeIdRefused(j)   BY <1>10 DEF NodeIdRefused
<1>11. CASE Finish(j)          BY <1>11 DEF Finish
<1>12. CASE MarkError(j)       BY <1>12 DEF MarkError, AfterError
<1>13. CASE Refund(j)          BY <1>13 DEF Refund
<1>14. CASE Settle(j)          BY <1>14 DEF Settle, Retried
<1>15. CASE Recover(j)         BY <1>15 DEF Recover
<1>16. CASE LookUpFails(j)     BY <1>16 DEF LookUpFails, Retried
<1>17. CASE ProxmoxFails(j)    BY <1>17 DEF ProxmoxFails, HostAfter
<1>18. CASE WriteFails(j)      BY <1>18 DEF WriteFails
<1>19. CASE CleanupFails(j)    BY <1>19 DEF CleanupFails, AfterError
<1>20. CASE FailKeyFails(j)    BY <1>20 DEF FailKeyFails, Retried
<1>21. CASE Crash(j)           BY <1>21 DEF Crash
<1> QED BY <1>2, <1>3, <1>4, <1>5, <1>6, <1>7, <1>8, <1>9, <1>10, <1>11,
           <1>12, <1>13, <1>14, <1>15, <1>16, <1>17, <1>18, <1>19, <1>20,
           <1>21 DEF Process, Fail

\* Every step keeps the invariant.
LEMMA StepInv ==
  ASSUME Inv, [Next]_vars
  PROVE  Inv'
<1>1. ASSUME NEW c \in Callers, Enqueue(c) \/ EnqueueFails(c)
      PROVE  Inv'
  BY <1>1, EnqueueInv
<1>2. ASSUME NEW j \in Jobs, Process(j) \/ Fail(j)
      PROVE  Inv'
  <2>1. TypeOK' /\ Worker(j)' /\ (key[j] # "none" => key'[j] # "none")
    BY <1>2, WorkerInv
  <2>2. ASSUME NEW i \in Jobs \ {j} PROVE Worker(i)'
    BY <1>2, JobFrame DEF Inv, Worker
  <2>3. asked' = asked /\ \A i \in Jobs \ {j} : key'[i] = key[i]
    BY <1>2, JobFrame DEF Inv
  <2>4. Keyed'
    BY <2>1, <2>3 DEF Inv, Keyed
  <2> QED BY <2>1, <2>2, <2>4 DEF Inv
<1>3. CASE UNCHANGED vars
  <2>1. TypeOK'
    BY <1>3 DEF vars, Inv, TypeOK
  <2>2. Keyed' /\ \A j \in Jobs : Worker(j)'
    BY <1>3 DEF vars, Inv, Keyed, Worker
  <2> QED BY <2>1, <2>2 DEF Inv
<1> QED BY <1>1, <1>2, <1>3 DEF Next

\* The inductive invariant holds in every reachable state.
THEOREM Invariance == Spec => []Inv
  BY InitInv, StepInv, PTL DEF Spec

\* The types of every variable hold in every reachable state; made and stalls
\* keep their bounds.
THEOREM TypeCorrect == Spec => []TypeOK
<1>1. Inv => TypeOK
  BY DEF Inv
<1> QED BY <1>1, Invariance, PTL

\* Of all the calls that race with one key, at most one queues the job.
THEOREM OneEnqueuePerKeyHolds == Spec => []OneEnqueuePerKey
<1>1. ASSUME Inv PROVE OneEnqueuePerKey
  <2> SUFFICES ASSUME NEW j \in Jobs
               PROVE  Cardinality({c \in Callers : /\ KeyOf[c] = j
                                     /\ asked[c] \in {"keyed", "queued"}}) <= 1
    BY DEF OneEnqueuePerKey
  <2> DEFINE S == {c \in Callers : /\ KeyOf[c] = j
                                   /\ asked[c] \in {"keyed", "queued"}}
  <2>1. \A c, d \in S : c = d
    BY <1>1 DEF Inv, Keyed
  <2> HIDE DEF S
  <2>2. CASE S = {}
    <3>1. Cardinality(S) = 0
      BY <2>2, FS_EmptySet
    <3> QED BY <3>1 DEF S
  <2>3. CASE S # {}
    <3>1. PICK c \in S : TRUE
      BY <2>3
    <3>2. S = {c}
      BY <2>1, <3>1
    <3>3. Cardinality(S) = 1
      BY <3>2, FS_Singleton
    <3> QED BY <3>3 DEF S
  <2> QED BY <2>2, <2>3
<1> QED BY <1>1, Invariance, PTL

\* Once a key is completed, no retry carries its job out again, whatever fails.
THEOREM NeverRunAgainHolds == Spec => []NeverRunAgain
<1>1. Inv => NeverRunAgain
  BY DEF Inv, Worker, NeverRunAgain
<1> QED BY <1>1, Invariance, PTL

-----------------------------------------------------------------------------
(* The key ends with the job.                                              *)

Settled(j) ==
    /\ key[j] = "failed" => queue[j] = "failed"
    /\ queue[j] = "completed" => key[j] = "completed"
    /\ queue[j] = "failed" /\ stalls[j] <= MaxStalled => key[j] = "failed"

\* A step of a job keeps its key in line with it, if the lookup and the
\* statements of the catch block do not fail.
LEMMA SettledStep ==
  ASSUME Inv, NEW j \in Jobs, Settled(j), Process(j) \/ Fail(j),
         Faults \cap {"lookup", "catch"} = {}
  PROVE  Settled(j)'
<1>1. /\ Worker(j) /\ made[j] \in Nat /\ stalls[j] \in Nat
      /\ key \in [Jobs -> {"none", "pending", "completed", "failed"}]
      /\ queue \in [Jobs -> {"absent", "waiting", "active", "stalled"} \cup Ended]
      /\ stalls \in [Jobs -> Nat]
  BY DEF Inv, TypeOK
<1>2. queue[j] = "active" => key[j] # "failed"
  BY DEF Settled
<1>3. ~LookUpFails(j) /\ ~CleanupFails(j) /\ ~FailKeyFails(j)
  BY DEF LookUpFails, CleanupFails, FailKeyFails, Fault, CanFail
<1>4. CASE Settle(j)
  <2>1. Retried(j) <=> ~LastAttempt(j)
    BY <1>1 DEF Retried, LastAttempt
  <2> QED BY <1>1, <1>2, <1>4, <2>1 DEF Settle, Throw, Settled, Worker, Ended
<1>5. CASE Recover(j)
  BY <1>1, <1>5 DEF Recover, Settled, Ended
<1>6. CASE SkipCompleted(j)
  BY <1>1, <1>6 DEF SkipCompleted, AlreadyDone, Settled
<1>7. CASE Finish(j)
  BY <1>1, <1>7 DEF Finish, Settled, Worker
<1>8. CASE CompleteKey(j)
  BY <1>1, <1>8 DEF CompleteKey, Settled, Worker
<1>9. CASE Deliver(j) \/ Crash(j)
  BY <1>1, <1>9 DEF Deliver, Crash, Settled, Worker
<1>10. CASE \/ LookUp(j) \/ CallProxmox(j) \/ ProxmoxRefuses(j)
            \/ ReleasePool(j) \/ UpdateStatus(j) \/ NodeIdRefused(j)
            \/ MarkError(j) \/ Refund(j) \/ ProxmoxFails(j) \/ WriteFails(j)
  <2>1. UNCHANGED <<key, queue, stalls>>
    BY <1>10 DEF LookUp, CallProxmox, ProxmoxRefuses, ReleasePool,
       UpdateStatus, NodeIdRefused, MarkError, Refund, ProxmoxFails, WriteFails
  <2> QED BY <2>1 DEF Settled
<1> QED BY <1>3, <1>4, <1>5, <1>6, <1>7, <1>8, <1>9, <1>10 DEF Process, Fail

\* A call of enqueueJob settles no key.
LEMMA SettledEnqueue ==
  ASSUME Inv, NEW c \in Callers, Enqueue(c) \/ EnqueueFails(c),
         NEW j \in Jobs, Settled(j)
  PROVE  Settled(j)'
<1>1. /\ key \in [Jobs -> {"none", "pending", "completed", "failed"}]
      /\ queue \in [Jobs -> {"absent", "waiting", "active", "stalled"} \cup Ended]
      /\ KeyOf[c] \in Jobs /\ Worker(j)
  BY DEF Inv, TypeOK
<1>2. CASE CreateKey(c)
  BY <1>1, <1>2 DEF CreateKey, KeyIsNew, Settled, Worker
<1>3. CASE AddJob(c)
  BY <1>1, <1>3 DEF AddJob, Settled
<1>4. CASE FindKey(c) \/ KeyConflict(c) \/ EnqueueFails(c)
  BY <1>4 DEF FindKey, KeyConflict, EnqueueFails, Settled
<1> QED BY <1>2, <1>3, <1>4 DEF Enqueue

\* The key tells how the job ended and no sooner, whatever else fails.
THEOREM KeySettlesWithJobHolds ==
  ASSUME Faults \cap {"lookup", "catch"} = {}
  PROVE  Spec => []KeySettlesWithJob
<1> DEFINE AllSettled == \A j \in Jobs : Settled(j)
<1>1. Init => AllSettled
  BY DEF Init, Settled
<1>2. Inv /\ AllSettled /\ [Next]_vars => AllSettled'
  <2> SUFFICES ASSUME Inv, AllSettled, [Next]_vars, NEW j \in Jobs
               PROVE  Settled(j)'
    OBVIOUS
  <2>1. Settled(j)
    OBVIOUS
  <2>2. ASSUME NEW c \in Callers, Enqueue(c) \/ EnqueueFails(c)
        PROVE  Settled(j)'
    BY <2>1, <2>2, SettledEnqueue
  <2>3. ASSUME NEW i \in Jobs, Process(i) \/ Fail(i)
        PROVE  Settled(j)'
    <3>1. CASE i = j
      BY <2>1, <2>3, <3>1, SettledStep
    <3>2. CASE i # j
      BY <2>1, <2>3, <3>2, JobFrame DEF Inv, Settled
    <3> QED BY <3>1, <3>2
  <2>4. CASE UNCHANGED vars
    BY <2>1, <2>4 DEF vars, Settled
  <2> QED BY <2>2, <2>3, <2>4 DEF Next
<1>3. AllSettled => KeySettlesWithJob
  BY DEF Settled, KeySettlesWithJob, Ended
<1> HIDE DEF AllSettled
<1> QED BY <1>1, <1>2, <1>3, Invariance, PTL DEF Spec

-----------------------------------------------------------------------------
(* How far a job has come when nothing has failed.                         *)

Untouched(j) ==
    /\ host[j] = IF j \in Creates THEN "absent" ELSE "managed"
    /\ runs[j] = 0 /\ held[j] /\ key[j] # "completed"

CarriedOut(j) == host[j] = "managed" /\ runs[j] = 1

OnTrack(j) ==
    /\ refunds[j] = 0 /\ pc[j] \notin Cleanup
    /\ queue[j] \notin {"stalled", "failed"}
    /\ queue[j] \in {"absent", "waiting"} \/ pc[j] \in {"lookup", "clone", "call"}
       => Untouched(j)
    /\ pc[j] = "clone" => j \in Creates
    /\ pc[j] \in {"start", "tag"} => runs[j] = 0
    /\ pc[j] \in {"start", "tag", "complete", "release"} => held[j]
    /\ pc[j] \in Writes \/ queue[j] = "completed" => CarriedOut(j)
    /\ pc[j] = "release" => j \in Deletes
    /\ pc[j] \in {"status", "record"} \/ queue[j] = "completed" =>
         held[j] = (j \notin Deletes)
    /\ pc[j] = "record" \/ queue[j] = "completed" => status[j] = "target"

\* A step that does not fail keeps the job on track.
LEMMA OnTrackStep ==
  ASSUME Inv, NEW j \in Jobs, OnTrack(j), Process(j),
         j \in Addressed, NodeIsRow
  PROVE  OnTrack(j)'
<1>1. TypeOK /\ Worker(j)
  BY DEF Inv
<1> USE <1>1 DEF TypeOK, Worker, OnTrack, Untouched, CarriedOut, vm, Goto,
                 Perform, Ended, ProxmoxCalls, Writes, Cleanup
<1>2. CASE Deliver(j)          BY <1>2 DEF Deliver
<1>3. CASE LookUp(j)           BY <1>3 DEF LookUp, FirstCall, AlreadyDone
<1>4. CASE SkipCompleted(j)    BY <1>4 DEF SkipCompleted, AlreadyDone
<1>5. CASE CallProxmox(j)
  <2>1. CASE pc[j] = "clone"
    BY <1>5, <2>1 DEF CallProxmox, LastCall
  <2>2. CASE pc[j] = "start"
    BY <1>5, <2>2 DEF CallProxmox, LastCall
  <2>3. CASE pc[j] \in {"tag", "call"}
    <3>1. /\ host'[j] = "managed" /\ runs'[j] = 1 /\ pc'[j] = "complete"
          /\ UNCHANGED <<key, queue, held, refunds>>
      BY <1>5, <2>3 DEF CallProxmox, LastCall, HostAfter
    <3>2. held[j]
      BY <2>3
    <3> QED BY <2>3, <3>1, <3>2
  <2> QED BY <1>5, <2>1, <2>2, <2>3 DEF CallProxmox
<1>6. CASE ProxmoxRefuses(j)
  BY <1>6 DEF ProxmoxRefuses, Accepted
<1>7. CASE CompleteKey(j)      BY <1>7 DEF CompleteKey, FirstEffect
<1>8. CASE ReleasePool(j)      BY <1>8 DEF ReleasePool
<1>9. CASE UpdateStatus(j)     BY <1>9 DEF UpdateStatus
<1>10. CASE NodeIdRefused(j)   BY <1>10 DEF NodeIdRefused
<1>11. CASE Finish(j)          BY <1>11 DEF Finish
<1>12. CASE MarkError(j) \/ Refund(j) \/ Settle(j)
  BY <1>12 DEF MarkError, Refund, Settle
<1>13. CASE Recover(j)         BY <1>13 DEF Recover
<1> QED BY <1>2, <1>3, <1>4, <1>5, <1>6, <1>7, <1>8, <1>9, <1>10, <1>11,
           <1>12, <1>13 DEF Process

\* A call of enqueueJob does not touch the job's VM.
LEMMA OnTrackEnqueue ==
  ASSUME Inv, NEW c \in Callers, Enqueue(c) \/ EnqueueFails(c),
         NEW j \in Jobs, OnTrack(j)
  PROVE  OnTrack(j)'
<1>1. /\ key \in [Jobs -> {"none", "pending", "completed", "failed"}]
      /\ queue \in [Jobs -> {"absent", "waiting", "active", "stalled"} \cup Ended]
      /\ KeyOf[c] \in Jobs
  BY DEF Inv, TypeOK
<1>2. UNCHANGED <<pc, host, runs, status, held, refunds>>
  BY DEF Enqueue, EnqueueFails, FindKey, CreateKey, KeyConflict, AddJob, vm
<1>3. /\ \/ queue'[j] = queue[j]
         \/ queue[j] = "absent" /\ queue'[j] = "waiting"
      /\ key'[j] \in {key[j], "pending"}
  BY <1>1 DEF Enqueue, EnqueueFails, FindKey, CreateKey, KeyConflict, AddJob
<1> QED BY <1>2, <1>3 DEF OnTrack, Untouched, CarriedOut

\* A job during which nothing failed has done all that was asked for, once,
\* if its payload names the vmid and a node that is also a row.
THEOREM FaultFreeJobsApplyHolds ==
  ASSUME Jobs \subseteq Addressed, NodeIsRow
  PROVE  Spec => []FaultFreeJobsApply
<1> DEFINE AllOnTrack == faults = 0 => \A j \in Jobs : OnTrack(j)
<1>1. Init => AllOnTrack
  BY DEF Init, OnTrack, Untouched, CarriedOut, Cleanup, Writes
<1>2. Inv /\ AllOnTrack /\ [Next]_vars => AllOnTrack'
  <2> SUFFICES ASSUME Inv, AllOnTrack, [Next]_vars, faults' = 0,
                      NEW j \in Jobs
               PROVE  OnTrack(j)'
    OBVIOUS
  <2>1. faults \in Nat /\ ~(faults' = faults + 1)
    BY DEF Inv, TypeOK
  <2>2. ASSUME NEW c \in Callers, Enqueue(c) \/ EnqueueFails(c)
        PROVE  OnTrack(j)'
    <3>1. faults' = faults
      BY <2>1, <2>2 DEF Enqueue, FindKey, CreateKey, KeyConflict, AddJob,
         EnqueueFails, Fault
    <3> QED BY <2>2, <3>1, OnTrackEnqueue
  <2>3. ASSUME NEW i \in Jobs, Process(i) \/ Fail(i)
        PROVE  OnTrack(j)'
    <3>1. ~Fail(i)
      BY <2>1 DEF Fail, LookUpFails, ProxmoxFails, WriteFails, CleanupFails,
         FailKeyFails, Crash, Fault
    <3>2. faults' = faults
      BY <2>3, <3>1 DEF Process, Deliver, LookUp, SkipCompleted, CallProxmox,
         ProxmoxRefuses, CompleteKey, ReleasePool, UpdateStatus,
         NodeIdRefused, Finish, MarkError, Refund, Settle, Recover
    <3>3. OnTrack(j) /\ j \in Addressed
      BY <3>2
    <3>4. CASE i = j
      BY <2>3, <3>1, <3>3, <3>4, OnTrackStep
    <3>5. CASE i # j
      BY <2>3, <3>3, <3>5, JobFrame
      DEF Inv, OnTrack, Untouched, CarriedOut
    <3> QED BY <3>4, <3>5
  <2>4. CASE UNCHANGED vars
    BY <2>4 DEF vars, OnTrack, Untouched, CarriedOut
  <2> QED BY <2>2, <2>3, <2>4 DEF Next
<1>3. Inv /\ AllOnTrack => FaultFreeJobsApply
  BY DEF OnTrack, CarriedOut, FaultFreeJobsApply, Ended
<1> HIDE DEF AllOnTrack
<1> QED BY <1>1, <1>2, <1>3, Invariance, PTL DEF Spec
-----------------------------------------------------------------------------
(* The refinement of AbstractJobs.                                         *)

\* The deliveries that are over, and what the present one, or the one that
\* ended the job or has not been found stalled yet, adds to them.
Spent(j) == made[j] + stalls[j]
RunSince(j) ==
    IF pc[j] \in Writes \cup Cleanup \/ queue[j] \in {"stalled", "completed"}
    THEN 1 ELSE 0
RefundedSince(j) == IF pc[j] = "settle" \/ queue[j] = "stalled" THEN 1 ELSE 0

\* Each delivery carries the job out, and refunds it, at most once; the key is
\* about to be completed only by one that did, and is failed only at the end.
Counted(j) ==
    /\ runs[j] <= Spent(j) + RunSince(j)
    /\ refunds[j] <= Spent(j) + RefundedSince(j)
    /\ pc[j] = "complete" => runs[j] > 0 /\ key[j] # "completed"
    /\ key[j] = "failed" => queue[j] = "failed"

AllCounted == \A j \in Jobs : Counted(j)

\* What one delivery does to the counts of its job.
LEMMA CountedStep ==
  ASSUME Inv, NEW j \in Jobs, Counted(j), Process(j) \/ Fail(j)
  PROVE  Counted(j)'
<1>1. TypeOK /\ Worker(j)
  BY DEF Inv
<1>2. made[j] \in Nat /\ stalls[j] \in Nat /\ runs[j] \in Nat /\ refunds[j] \in Nat
  BY <1>1 DEF TypeOK
<1> USE <1>1, <1>2 DEF TypeOK, Worker, vm, Goto, Perform, Throw, CountAttempt,
    Fault, CanFail, Ended, ProxmoxCalls, Writes, Cleanup, Counted, Spent,
    RunSince, RefundedSince
<1>3. CASE Deliver(j)          BY <1>3 DEF Deliver
<1>4. CASE LookUp(j)           BY <1>4 DEF LookUp, FirstCall, AlreadyDone
<1>5. CASE SkipCompleted(j)    BY <1>5 DEF SkipCompleted
<1>6. CASE CallProxmox(j)      BY <1>6 DEF CallProxmox, LastCall
<1>7. CASE ProxmoxRefuses(j)   BY <1>7 DEF ProxmoxRefuses
<1>8. CASE CompleteKey(j)      BY <1>8 DEF CompleteKey, FirstEffect
<1>9. CASE ReleasePool(j)      BY <1>9 DEF ReleasePool
<1>10. CASE UpdateStatus(j)    BY <1>10 DEF UpdateStatus
<1>11. CASE NodeIdRefused(j)   BY <1>11 DEF NodeIdRefused
<1>12. CASE Finish(j)          BY <1>12 DEF Finish
<1>13. CASE MarkError(j)       BY <1>13 DEF MarkError, AfterError
<1>14. CASE Refund(j)          BY <1>14 DEF Refund
<1>15. CASE Settle(j)          BY <1>15 DEF Settle, Retried, LastAttempt
<1>16. CASE Recover(j)         BY <1>16 DEF Recover
<1>17. CASE LookUpFails(j)     BY <1>17 DEF LookUpFails, Retried
<1>18. CASE ProxmoxFails(j)    BY <1>18 DEF ProxmoxFails, LastCall
<1>19. CASE WriteFails(j)      BY <1>19 DEF WriteFails
<1>20. CASE CleanupFails(j)    BY <1>20 DEF CleanupFails, AfterError
<1>21. CASE FailKeyFails(j)    BY <1>21 DEF FailKeyFails, Retried
<1>22. CASE Crash(j)           BY <1>22 DEF Crash
<1> QED BY <1>3, <1>4, <1>5, <1>6, <1>7, <1>8, <1>9, <1>10, <1>11, <1>12,
           <1>13, <1>14, <1>15, <1>16, <1>17, <1>18, <1>19, <1>20, <1>21,
           <1>22 DEF Process, Fail

\* A call of enqueueJob runs, refunds and fails nothing.
LEMMA CountedEnqueue ==
  ASSUME Inv, NEW c \in Callers, Enqueue(c) \/ EnqueueFails(c),
         NEW j \in Jobs, Counted(j)
  PROVE  Counted(j)'
<1>1. UNCHANGED <<made, stalls, pc, runs, refunds>>
  BY DEF Enqueue, EnqueueFails, FindKey, CreateKey, KeyConflict, AddJob, vm
<1>2. /\ queue'[j] = queue[j]
         \/ (queue[j] = "absent" /\ queue'[j] = "waiting")
      /\ key'[j] = key[j] \/ key'[j] = "pending"
  <2>1. /\ KeyOf[c] \in Jobs
        /\ key \in [Jobs -> {"none", "pending", "completed", "failed"}]
        /\ queue \in [Jobs -> {"absent", "waiting", "active", "stalled"}
                              \cup Ended]
    BY DEF Inv, TypeOK
  <2>2. CASE CreateKey(c)
    BY <2>1, <2>2 DEF CreateKey
  <2>3. CASE AddJob(c)
    BY <2>1, <2>3 DEF AddJob
  <2>4. CASE FindKey(c) \/ KeyConflict(c) \/ EnqueueFails(c)
    BY <2>4 DEF FindKey, KeyConflict, EnqueueFails
  <2> QED BY <2>2, <2>3, <2>4 DEF Enqueue
<1> QED BY <1>1, <1>2 DEF Counted, Spent, RunSince, RefundedSince

\* The counts hold in every reachable state.
THEOREM CountedInvariance == Spec => []AllCounted
<1>1. Init => AllCounted
  BY DEF Init, AllCounted, Counted, Spent, RunSince, RefundedSince
<1>2. ASSUME Inv, AllCounted, [Next]_vars, NEW j \in Jobs
      PROVE  Counted(j)'
  <2>1. Counted(j)
    BY <1>2 DEF AllCounted
  <2>2. ASSUME NEW c \in Callers, Enqueue(c) \/ EnqueueFails(c)
        PROVE  Counted(j)'
    BY <1>2, <2>1, <2>2, CountedEnqueue
  <2>3. ASSUME NEW i \in Jobs, Process(i) \/ Fail(i)
        PROVE  Counted(j)'
    <3>1. CASE i = j
      BY <1>2, <2>1, <2>3, <3>1, CountedStep
    <3>2. CASE i # j
      BY <1>2, <2>1, <2>3, <3>2, JobFrame
      DEF Inv, Counted, Spent, RunSince, RefundedSince
    <3> QED BY <3>1, <3>2
  <2>4. CASE UNCHANGED vars
    BY <2>1, <2>4 DEF vars, Counted, Spent, RunSince, RefundedSince
  <2> QED BY <1>2, <2>2, <2>3, <2>4 DEF Next
<1>3. Inv /\ AllCounted /\ [Next]_vars => AllCounted'
  BY <1>2 DEF AllCounted
<1> QED BY <1>1, <1>3, Invariance, PTL DEF Spec

\* A step of a worker is one of AbstractJobs, or the producers see nothing.
LEMMA WorkerMaps ==
  ASSUME Inv, NEW j \in Jobs, Counted(j), Process(j) \/ Fail(j)
  PROVE  \/ Abstract!Run(j) \/ Abstract!Complete(j)
         \/ Abstract!Refund(j) \/ Abstract!GiveUp(j)
         \/ UNCHANGED <<key, runs, refunds>>
<1>1. /\ Worker(j) /\ Attempts \in Nat /\ MaxStalled \in Nat
      /\ made[j] \in Nat /\ stalls[j] \in Nat /\ runs[j] \in Nat
      /\ refunds[j] \in Nat
      /\ key[j] \in {"none", "pending", "completed", "failed"}
      /\ runs \in [Jobs -> Nat] /\ refunds \in [Jobs -> Nat]
  BY DEF Inv, TypeOK
<1>2. queue[j] = "active" =>
         /\ key[j] \in {"pending", "completed"}
         /\ Spent(j) < Attempts + MaxStalled
  BY <1>1 DEF Worker, Counted, Spent, Ended
<1>3. ASSUME pc[j] \in ProxmoxCalls, Perform(j), UNCHANGED key
      PROVE  Abstract!Run(j) \/ UNCHANGED <<key, runs, refunds>>
  <2>1. queue[j] = "active" /\ key[j] = "pending"
    BY <1>1, <1>2, <1>3 DEF Worker, ProxmoxCalls
  <2>2. RunSince(j) = 0
    BY <1>3, <2>1 DEF RunSince, ProxmoxCalls, Writes, Cleanup
  <2>3. runs[j] < Attempts + MaxStalled
    BY <1>1, <1>2, <2>1, <2>2 DEF Counted, Spent
  <2>4. CASE LastCall(j)
    BY <1>1, <1>3, <2>1, <2>3, <2>4 DEF Perform, Abstract!Run
  <2>5. CASE ~LastCall(j)
    BY <1>1, <1>3, <2>5 DEF Perform
  <2> QED BY <2>4, <2>5
<1>4. CASE CallProxmox(j)
  BY <1>3, <1>4 DEF CallProxmox
<1>5. CASE ProxmoxFails(j)
  BY <1>3, <1>5 DEF ProxmoxFails, vm
<1>6. CASE CompleteKey(j)
  <2>1. queue[j] = "active" /\ runs[j] > 0 /\ key[j] = "pending"
    BY <1>1, <1>2, <1>6 DEF CompleteKey, Worker, Counted
  <2> QED BY <1>6, <2>1 DEF CompleteKey, vm, Abstract!Complete
<1>7. CASE Refund(j)
  <2>1. queue[j] = "active" /\ pc[j] = "refund"
    BY <1>1, <1>7 DEF Refund, Worker
  <2>2. refunds[j] < Attempts + MaxStalled
    BY <1>1, <1>2, <2>1 DEF Counted, Spent, RefundedSince
  <2>3. CASE j \in Subscribed
    BY <1>2, <1>7, <2>1, <2>2, <2>3 DEF Refund, Abstract!Refund
  <2>4. CASE j \notin Subscribed
    BY <1>1, <1>7, <2>4 DEF Refund
  <2> QED BY <2>3, <2>4
<1>8. CASE Settle(j)
  <2>1. queue[j] = "active"
    BY <1>1, <1>8 DEF Settle, Worker
  <2>2. key \in [Jobs -> {"none", "pending", "completed", "failed"}]
    BY DEF Inv, TypeOK
  <2> QED BY <1>2, <1>8, <2>1, <2>2 DEF Settle, Throw, vm, Abstract!GiveUp
<1>9. CASE \/ Deliver(j) \/ LookUp(j) \/ SkipCompleted(j)
           \/ ProxmoxRefuses(j) \/ ReleasePool(j) \/ UpdateStatus(j)
           \/ NodeIdRefused(j) \/ Finish(j) \/ MarkError(j) \/ Recover(j)
  BY <1>9 DEF Deliver, LookUp, SkipCompleted, ProxmoxRefuses, ReleasePool,
     UpdateStatus, NodeIdRefused, Finish, MarkError, Recover, vm
<1>10. CASE \/ LookUpFails(j) \/ WriteFails(j) \/ CleanupFails(j)
            \/ FailKeyFails(j) \/ Crash(j)
  BY <1>10 DEF LookUpFails, WriteFails, CleanupFails, FailKeyFails, Crash,
     Throw, vm
<1> QED BY <1>4, <1>5, <1>6, <1>7, <1>8, <1>9, <1>10 DEF Process, Fail

\* A step of a producer is one of AbstractJobs, or nothing happens.
LEMMA ProducerMaps ==
  ASSUME NEW c \in Callers, Enqueue(c) \/ EnqueueFails(c)
  PROVE  Abstract!Request(KeyOf[c]) \/ UNCHANGED <<key, runs, refunds>>
<1>1. CASE CreateKey(c)
  BY <1>1 DEF CreateKey, KeyIsNew, vm, Abstract!Request
<1>2. CASE FindKey(c) \/ KeyConflict(c) \/ AddJob(c) \/ EnqueueFails(c)
  BY <1>2 DEF FindKey, KeyConflict, AddJob, EnqueueFails, vm
<1> QED BY <1>1, <1>2 DEF Enqueue

\* Whatever fails, crashes or is retried, producers may rely on AbstractJobs:
\* carried out before the key completes, not after, and no more often than
\* BullMQ hands a job out.
THEOREM JobsRefinement == Spec => ImplementsAbstractJobs
<1>1. Init => Abstract!Init
  BY DEF Init, Abstract!Init
<1>2. ASSUME Inv, AllCounted, [Next]_vars
      PROVE  [Abstract!Next]_(Abstract!vars)
  <2>1. ASSUME NEW c \in Callers, Enqueue(c) \/ EnqueueFails(c)
        PROVE  [Abstract!Next]_(Abstract!vars)
    <3>1. KeyOf[c] \in Jobs
      OBVIOUS
    <3> QED BY <2>1, <3>1, ProducerMaps DEF Abstract!Next, Abstract!vars
  <2>2. ASSUME NEW j \in Jobs, Process(j) \/ Fail(j)
        PROVE  [Abstract!Next]_(Abstract!vars)
    BY <1>2, <2>2, WorkerMaps DEF AllCounted, Abstract!Next, Abstract!vars
  <2>3. CASE UNCHANGED vars
    BY <2>3 DEF vars, Abstract!vars
  <2> QED BY <1>2, <2>1, <2>2, <2>3 DEF Next
<1> QED BY <1>1, <1>2, Invariance, CountedInvariance, PTL
        DEF Spec, ImplementsAbstractJobs, Abstract!Spec
=============================================================================
