---------------------------- MODULE ResourcePool ----------------------------
(***************************************************************************)
(* ResourcePoolService on PostgreSQL: the purchased totals of each pool    *)
(* and the part of them that each VM holds.                                *)
(*                                                                         *)
(* Calls run concurrently at READ COMMITTED, one statement per step.       *)
(* SELECT ... FOR UPDATE, UPDATE and DELETE lock the rows they name until  *)
(* the transaction ends; what a transaction wrote is visible to the others *)
(* from its commit on.  releaseResources and deletePool look before they   *)
(* open their transaction.  lockPoolByUserId locks every pool of the VM's  *)
(* owner, in one step here, and its caller works with whichever comes      *)
(* first.                                                                  *)
(***************************************************************************)
EXTENDS Sums

CONSTANTS Pools, Vms,    \* the ids of pools and of virtual machines
          Dims,          \* cores, memoryMb, diskGb, ips
          ResizedDims,   \* the ones a resize checks and writes: all but ips
          PoolOwner,     \* the userId of each pool
          VmOwner,       \* the userId of each VM
          Requests,      \* the concurrent calls
          Calls,         \* what a call can ask for
          NoPool, NoRequest

Size == [Dims -> Nat]

ASSUME VmsAssumption == IsFiniteSet(Vms)
ASSUME NoneAssumption == NoPool \notin Pools /\ NoRequest \notin Requests
ASSUME CallsAssumption ==
    /\ ResizedDims \subseteq Dims
    /\ Calls \subseteq [op : {"create", "update", "delete",
                              "allocate", "release", "resize"},
                        pool : Pools, vm : Vms, size : Size]

VARIABLES
    status,    \* each pool row: not yet created, live, or deleted
    total,     \* the purchased totals of each pool
    home,      \* the pool of the VM's committed allocation, or NoPool
    size,      \* the amounts of that allocation
    poolHolder, rowHolder,  \* who holds the pool row, the VM's allocation row
    call,      \* what each request asks for
    pc,        \* how far each request is
    chosen,    \* poolRows[0] of a resize
    others     \* what its sumAllocationsExcludingVm returned

vars == <<status, total, home, size, poolHolder, rowHolder,
          call, pc, chosen, others>>

tables == <<status, total, home, size, call>>
locals == <<chosen, others>>

Nothing == [d \in Dims |-> 0]

\* found: looked outside the transaction; locked, summed, checked: the steps
\* of an admission check; written: everything but the commit is done.
InTx == {"found", "locked", "summed", "checked", "written"}
Phases == {"new", "committed", "failed"} \cup InTx

Init ==
    /\ status \in [Pools -> {"unborn", "live"}]
    /\ total \in [Pools -> {c.size : c \in Calls}]
    /\ home = [v \in Vms |-> NoPool]
    /\ size = [v \in Vms |-> Nothing]
    /\ poolHolder = [p \in Pools |-> NoRequest]
    /\ rowHolder = [v \in Vms |-> NoRequest]
    /\ call \in [Requests -> Calls]
    /\ pc = [r \in Requests |-> "new"]
    /\ chosen = [r \in Requests |-> NoPool]
    /\ others = [r \in Requests |-> Nothing]

Op(r) == call[r].op
Pool(r) == call[r].pool
Vm(r) == call[r].vm
Need(r) == call[r].size

Live(p) == status[p] = "live"

\* SUM of the allocations of pool p, for the VMs in V.
UsedBy(V, p) ==
    [d \in Dims |->
        SumOver([v \in Vms |-> IF home[v] = p THEN size[v][d] ELSE 0], V)]

Used(p) == UsedBy(Vms, p)

HasAllocations(p) == \E v \in Vms : home[v] = p

\* Mutant: allocations go with their pool, or are not protected at all.
NotRestricted(p) == FALSE

\* ON DELETE RESTRICT of ResourceAllocation_poolId_fkey.
Restricted(p) == HasAllocations(p)

PoolFree(p, r) == poolHolder[p] \in {NoRequest, r}
RowFree(r) == rowHolder[Vm(r)] \in {NoRequest, r}

Goto(r, phase) == pc' = [pc EXCEPT ![r] = phase]

\* Mutant: SELECT without FOR UPDATE.
LockNothing(r, P) == UNCHANGED poolHolder

LockPools(r, P) ==
    poolHolder' = [p \in Pools |-> IF p \in P THEN r ELSE poolHolder[p]]

LockRow(r) == rowHolder' = [rowHolder EXCEPT ![Vm(r)] = r]

\* Mutant: the allocation row stays locked.
UnlockPools(r) ==
    /\ poolHolder' =
          [p \in Pools |-> IF poolHolder[p] = r THEN NoRequest ELSE poolHolder[p]]
    /\ UNCHANGED rowHolder

\* The end of a transaction frees the rows it holds.
Unlock(r) ==
    /\ poolHolder' =
          [p \in Pools |-> IF poolHolder[p] = r THEN NoRequest ELSE poolHolder[p]]
    /\ rowHolder' =
          [v \in Vms |-> IF rowHolder[v] = r THEN NoRequest ELSE rowHolder[v]]

Rollback(r) ==
    /\ Goto(r, "failed")
    /\ Unlock(r)
    /\ UNCHANGED <<tables, locals>>

\* The answer of a call that finds nothing to do.
AnswerAtOnce(r) ==
    /\ Goto(r, "committed")
    /\ UNCHANGED <<tables, locals, poolHolder, rowHolder>>

-----------------------------------------------------------------------------
(* createPool, updatePool, deletePool.                                     *)

CreatePool(r) ==
    /\ Op(r) = "create" /\ pc[r] = "new"
    /\ status[Pool(r)] = "unborn"
    /\ status' = [status EXCEPT ![Pool(r)] = "live"]
    /\ total' = [total EXCEPT ![Pool(r)] = Need(r)]
    /\ Goto(r, "committed")
    /\ UNCHANGED <<home, size, call, locals, poolHolder, rowHolder>>

\* The UPDATE of updatePool: the totals are not compared with what is used.
WritePool(r) ==
    /\ Op(r) = "update" /\ pc[r] = "new"
    /\ Live(Pool(r)) /\ PoolFree(Pool(r), r)
    /\ LockPools(r, {Pool(r)})
    /\ Goto(r, "written")
    /\ UNCHANGED <<tables, locals, rowHolder>>

\* The check of deletePool, outside its transaction.
FindEmptyPool(r) ==
    /\ Op(r) = "delete" /\ pc[r] = "new"
    /\ Live(Pool(r)) /\ ~HasAllocations(Pool(r))
    /\ Goto(r, "found")
    /\ UNCHANGED <<tables, locals, poolHolder, rowHolder>>

RefuseDelete(r) ==
    /\ Op(r) = "delete" /\ pc[r] = "new"
    /\ Live(Pool(r)) /\ HasAllocations(Pool(r))
    /\ Rollback(r)

\* The DELETE.
RemovePool(r) ==
    /\ Op(r) = "delete" /\ pc[r] = "found"
    /\ Live(Pool(r)) /\ PoolFree(Pool(r), r)
    /\ ~Restricted(Pool(r))
    /\ LockPools(r, {Pool(r)})
    /\ Goto(r, "written")
    /\ UNCHANGED <<tables, locals, rowHolder>>

PoolInUse(r) ==
    /\ Op(r) = "delete" /\ pc[r] = "found"
    /\ Live(Pool(r)) /\ PoolFree(Pool(r), r) /\ Restricted(Pool(r))
    /\ Rollback(r)

\* "Resource pool not found", or P2025 from an UPDATE or DELETE.
PoolMissing(r) ==
    /\ \/ Op(r) \in {"update", "delete", "allocate"} /\ pc[r] = "new"
       \/ Op(r) = "delete" /\ pc[r] = "found"
    /\ ~Live(Pool(r))
    /\ Rollback(r)

-----------------------------------------------------------------------------
(* allocateResources, in the transaction of createVm, adminCreateVm or its *)
(* own.                                                                    *)

LockPool(r) ==
    /\ Op(r) = "allocate" /\ pc[r] = "new"
    /\ Live(Pool(r)) /\ PoolFree(Pool(r), r)
    /\ LockPools(r, {Pool(r)})
    /\ Goto(r, "locked")
    /\ UNCHANGED <<tables, locals, rowHolder>>

Fits(r) == \A d \in Dims : Need(r)[d] <= total[Pool(r)][d] - Used(Pool(r))[d]

Admit(r) ==
    /\ Op(r) = "allocate" /\ pc[r] = "locked"
    /\ Fits(r)
    /\ Goto(r, "checked")
    /\ UNCHANGED <<tables, locals, poolHolder, rowHolder>>

Refuse(r) ==
    /\ Op(r) = "allocate" /\ pc[r] = "locked"
    /\ ~Fits(r)
    /\ Rollback(r)

InsertAllocation(r) ==
    /\ Op(r) = "allocate" /\ pc[r] = "checked" /\ RowFree(r)
    /\ home[Vm(r)] = NoPool
    /\ LockRow(r)
    /\ Goto(r, "written")
    /\ UNCHANGED <<tables, locals, poolHolder>>

\* The unique index on vmId.
AlreadyAllocated(r) ==
    /\ Op(r) = "allocate" /\ pc[r] = "checked" /\ RowFree(r)
    /\ home[Vm(r)] # NoPool
    /\ Rollback(r)

-----------------------------------------------------------------------------
(* releaseResources.                                                       *)

FindAllocation(r) ==
    /\ Op(r) = "release" /\ pc[r] = "new"
    /\ home[Vm(r)] # NoPool
    /\ Goto(r, "found")
    /\ UNCHANGED <<tables, locals, poolHolder, rowHolder>>

NothingToRelease(r) ==
    /\ Op(r) = "release" /\ pc[r] = "new"
    /\ home[Vm(r)] = NoPool
    /\ AnswerAtOnce(r)

DeleteAllocation(r) ==
    /\ Op(r) = "release" /\ pc[r] = "found" /\ RowFree(r)
    /\ home[Vm(r)] # NoPool
    /\ LockRow(r)
    /\ Goto(r, "written")
    /\ UNCHANGED <<tables, locals, poolHolder>>

\* P2025: another release was first.
AlreadyReleased(r) ==
    /\ Op(r) = "release" /\ pc[r] = "found" /\ RowFree(r)
    /\ home[Vm(r)] = NoPool
    /\ Rollback(r)

-----------------------------------------------------------------------------
(* resizeAllocation, called by the job consumer.                           *)

OwnersPools(r) == {p \in Pools : Live(p) /\ PoolOwner[p] = VmOwner[Vm(r)]}

LockUserPools(r) ==
    /\ Op(r) = "resize" /\ pc[r] = "new"
    /\ \A p \in OwnersPools(r) : PoolFree(p, r)
    /\ LockPools(r, OwnersPools(r))
    /\ \E p \in OwnersPools(r) : chosen' = [chosen EXCEPT ![r] = p]
    /\ Goto(r, "locked")
    /\ UNCHANGED <<tables, others, rowHolder>>

NoUserPool(r) ==
    /\ Op(r) = "resize" /\ pc[r] = "new"
    /\ OwnersPools(r) = {}
    /\ Rollback(r)

SumOthers(r) ==
    /\ Op(r) = "resize" /\ pc[r] = "locked"
    /\ others' = [others EXCEPT ![r] = UsedBy(Vms \ {Vm(r)}, chosen[r])]
    /\ Goto(r, "summed")
    /\ UNCHANGED <<tables, chosen, poolHolder, rowHolder>>

\* The growth, not the new size, is compared with what the other VMs leave.
GrowthFits(r) ==
    \A d \in ResizedDims :
        Need(r)[d] - size[Vm(r)][d] <= total[chosen[r]][d] - others[r][d]

AdmitResize(r) ==
    /\ Op(r) = "resize" /\ pc[r] = "summed"
    /\ home[Vm(r)] # NoPool => GrowthFits(r)
    /\ Goto(r, "checked")
    /\ UNCHANGED <<tables, locals, poolHolder, rowHolder>>

RefuseResize(r) ==
    /\ Op(r) = "resize" /\ pc[r] = "summed"
    /\ home[Vm(r)] # NoPool /\ ~GrowthFits(r)
    /\ Rollback(r)

UpdateAllocation(r) ==
    /\ Op(r) = "resize" /\ pc[r] = "checked" /\ RowFree(r)
    /\ home[Vm(r)] # NoPool
    /\ LockRow(r)
    /\ Goto(r, "written")
    /\ UNCHANGED <<tables, locals, poolHolder>>

\* P2025: there is no allocation to update.
NoAllocation(r) ==
    /\ Op(r) = "resize" /\ pc[r] = "checked" /\ RowFree(r)
    /\ home[Vm(r)] = NoPool
    /\ Rollback(r)

-----------------------------------------------------------------------------
(* The end of a transaction.                                               *)

Resized(r) ==
    [d \in Dims |-> IF d \in ResizedDims THEN Need(r)[d] ELSE size[Vm(r)][d]]

CommitPool(r) ==
    /\ pc[r] = "written" /\ Op(r) \in {"update", "delete"}
    /\ IF Op(r) = "update"
       THEN total' = [total EXCEPT ![Pool(r)] = Need(r)] /\ UNCHANGED status
       ELSE status' = [status EXCEPT ![Pool(r)] = "gone"] /\ UNCHANGED total
    /\ Goto(r, "committed")
    /\ Unlock(r)
    /\ UNCHANGED <<home, size, call, locals>>

CommitAllocation(r) ==
    /\ pc[r] = "written" /\ Op(r) = "allocate"
    /\ home' = [home EXCEPT ![Vm(r)] = Pool(r)]
    /\ size' = [size EXCEPT ![Vm(r)] = Need(r)]
    /\ Goto(r, "committed")
    /\ Unlock(r)
    /\ UNCHANGED <<status, total, call, locals>>

CommitRelease(r) ==
    /\ pc[r] = "written" /\ Op(r) = "release"
    /\ home' = [home EXCEPT ![Vm(r)] = NoPool]
    /\ size' = [size EXCEPT ![Vm(r)] = Nothing]
    /\ Goto(r, "committed")
    /\ Unlock(r)
    /\ UNCHANGED <<status, total, call, locals>>

CommitResize(r) ==
    /\ pc[r] = "written" /\ Op(r) = "resize"
    /\ size' = [size EXCEPT ![Vm(r)] = Resized(r)]
    /\ Goto(r, "committed")
    /\ Unlock(r)
    /\ UNCHANGED <<status, total, home, call, locals>>

\* A lost connection, the transaction timeout or a crash.
Abort(r) ==
    /\ pc[r] \in InTx
    /\ Rollback(r)

Step(r) ==
    \/ CreatePool(r) \/ WritePool(r) \/ FindEmptyPool(r) \/ RefuseDelete(r)
    \/ RemovePool(r) \/ PoolInUse(r) \/ PoolMissing(r)
    \/ LockPool(r) \/ Admit(r) \/ Refuse(r)
    \/ InsertAllocation(r) \/ AlreadyAllocated(r)
    \/ FindAllocation(r) \/ NothingToRelease(r)
    \/ DeleteAllocation(r) \/ AlreadyReleased(r)
    \/ LockUserPools(r) \/ NoUserPool(r) \/ SumOthers(r)
    \/ AdmitResize(r) \/ RefuseResize(r)
    \/ UpdateAllocation(r) \/ NoAllocation(r)
    \/ CommitPool(r) \/ CommitAllocation(r) \/ CommitRelease(r)
    \/ CommitResize(r)

Next == \E r \in Requests : Step(r) \/ Abort(r)

Fairness == \A r \in Requests : WF_vars(Step(r))

Spec == Init /\ [][Next]_vars

FairSpec == Spec /\ Fairness

-----------------------------------------------------------------------------
(* Properties.                                                             *)

TypeOK ==
    /\ status \in [Pools -> {"unborn", "live", "gone"}]
    /\ total \in [Pools -> Size]
    /\ home \in [Vms -> Pools \cup {NoPool}]
    /\ size \in [Vms -> Size]
    /\ poolHolder \in [Pools -> Requests \cup {NoRequest}]
    /\ rowHolder \in [Vms -> Requests \cup {NoRequest}]
    /\ call \in [Requests -> Calls]
    /\ pc \in [Requests -> Phases]
    /\ chosen \in [Requests -> Pools \cup {NoPool}]
    /\ others \in [Requests -> [Dims -> Int]]

\* The pool is the only one of its owner and gets only the owner's VMs.  It is
\* so for every pool that createVm alone fills; ResourcePool.userId is not
\* unique, and adminCreateVm and POST /resource-pools/allocate do not compare
\* the owners.
Private(p) ==
    /\ \A q \in Pools : PoolOwner[q] = PoolOwner[p] => q = p
    /\ \A c \in Calls : c.op = "allocate" /\ c.pool = p =>
           VmOwner[c.vm] = PoolOwner[p]

\* An allocation is committed only into room that is still there at its
\* commit, in every dimension, whatever allocations, resizes, releases and
\* new totals ran since its check.
AllocationFits ==
    [][\A r \in Requests :
         CommitAllocation(r) /\ Private(Pool(r)) =>
             \A d \in Dims : Used(Pool(r))'[d] <= total'[Pool(r)][d]]_vars

\* A resize overshoots the total by at most the VM's old size, and concurrent
\* resizes do not add up.
ResizeBounded ==
    [][\A r \in Requests, p \in Pools :
         CommitResize(r) /\ home[Vm(r)] = p /\ Private(p) =>
             \A d \in ResizedDims :
                 Used(p)'[d] <= total[p][d] + size[Vm(r)][d]]_vars

\* A pool is never deleted under an allocation, although deletePool looks
\* before its transaction and an allocation may come in between.
AllocationsHavePools == \A v \in Vms : home[v] # NoPool => Live(home[v])

\* No two calls wait for each other's pool and allocation rows.
EveryCallAnswered ==
    \A r \in Requests :
        Op(r) # "create" => <>(pc[r] \in {"committed", "failed"})

\* The pool implements its promise: whatever was checked and whenever, at the
\* commit of a call its checks hold on the tables as they are then, so that
\* the commit is the indivisible step, and everything else stutters.
Abstract == INSTANCE AbstractPool WITH
    PrivatePools <- {p \in Pools : Private(p)},
    Sizes <- {c.size : c \in Calls},
    done <- {r \in Requests : pc[r] = "committed"}

ImplementsAbstractPool == Abstract!Spec
=============================================================================
