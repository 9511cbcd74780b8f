------------------------- MODULE PoolPurchaseProofs -------------------------
(***************************************************************************)
(* Resource pools and what customers buy, for every set of pools, of       *)
(* finitely many VMs and users, of calls and of items.                     *)
(*                                                                         *)
(* Pools come first.  What an admission check has found stays true until   *)
(* the commit because the transaction holds a pool row (Exclusive), and    *)
(* every step of another call that would add to the pool, enlarge an       *)
(* allocation in it or change its totals needs that row too (Undisturbed). *)
(* With the rows of allocations, held likewise (RowsHeld), every commit is *)
(* an indivisible step of AbstractPool.                                    *)
(*                                                                         *)
(* Then purchases: a limit holds because the row of a voucher is held from *)
(* the conditional update to the commit (VoucherHeld), or because checks   *)
(* of the item did not overlap (CheckedAlone); a failure has a cause       *)
(* because of what each phase has credited and debited (PaidSoFar).        *)
(***************************************************************************)
EXTENDS ResourcePool, Purchases, SumsProofs

USE NoneAssumption

\* The steps between the lock of a pool row and the commit.
Holding(r) ==
    /\ Op(r) \in {"update", "delete", "allocate", "resize"}
    /\ pc[r] \in {"locked", "summed", "checked", "written"}

LockedPool(r) == IF Op(r) = "resize" THEN chosen[r] ELSE Pool(r)

Exclusive(r) ==
    Holding(r) =>
        /\ LockedPool(r) \in Pools
        /\ Live(LockedPool(r))
        /\ poolHolder[LockedPool(r)] = r
        /\ Op(r) = "resize" => PoolOwner[LockedPool(r)] = VmOwner[Vm(r)]

\* A DELETE that succeeded found no allocation.
StillEmpty(r) ==
    Op(r) = "delete" /\ pc[r] = "written" => ~HasAllocations(Pool(r))

\* What allocateResources checked is still so.
StillFits(r) ==
    \A p \in Pools :
        /\ Op(r) = "allocate" /\ pc[r] \in {"checked", "written"}
        /\ Pool(r) = p /\ Private(p)
        => \A d \in Dims : Used(p)[d] + Need(r)[d] <= total[p][d]

\* The sum a resize took is not exceeded.
SumStands(r) ==
    \A p \in Pools, v \in Vms :
        /\ Op(r) = "resize" /\ pc[r] = "summed"
        /\ chosen[r] = p /\ Private(p) /\ Vm(r) = v
        => \A d \in ResizedDims : UsedBy(Vms \ {v}, p)[d] <= others[r][d]

\* The growth that a resize checked still fits.
StillGrows(r) ==
    \A p \in Pools, v \in Vms :
        /\ Op(r) = "resize" /\ pc[r] \in {"checked", "written"}
        /\ chosen[r] = p /\ Private(p) /\ Vm(r) = v /\ home[v] = p
        => \A d \in ResizedDims :
               UsedBy(Vms \ {v}, p)[d] + Need(r)[d] - size[v][d] <= total[p][d]

RequestInv(r) ==
    /\ Exclusive(r)
    /\ StillEmpty(r)
    /\ StillFits(r)
    /\ SumStands(r)
    /\ StillGrows(r)

\* An allocation was asked for by some call, in a pool that still exists.
Homes ==
    \A v \in Vms : home[v] # NoPool =>
        /\ Live(home[v])
        /\ \E c \in Calls : c.op = "allocate" /\ c.pool = home[v] /\ c.vm = v

Inv ==
    /\ TypeOK
    /\ Homes
    /\ \A r \in Requests : RequestInv(r)

-----------------------------------------------------------------------------
(* Types.                                                                  *)

\* What a request asks for is well typed.
LEMMA CallTypes ==
  ASSUME TypeOK, NEW r \in Requests
  PROVE  /\ Pool(r) \in Pools /\ Vm(r) \in Vms /\ Need(r) \in Size
         /\ Op(r) \in {"create", "update", "delete",
                       "allocate", "release", "resize"}
         /\ call[r] \in Calls
  BY CallsAssumption DEF TypeOK, Pool, Vm, Need, Op

\* A request never changes what it asks for.
LEMMA CallStable ==
  ASSUME call' = call
  PROVE  \A r : /\ Op(r)' = Op(r) /\ Pool(r)' = Pool(r)
                /\ Vm(r)' = Vm(r) /\ Need(r)' = Need(r)
  BY DEF Op, Pool, Vm, Need

\* What VM v takes of dimension d of pool p.
Share(p, d) == [v \in Vms |-> IF home[v] = p THEN size[v][d] ELSE 0]

\* Every share is a natural number.
LEMMA ShareType ==
  ASSUME TypeOK, NEW p, NEW d \in Dims, NEW v \in Vms
  PROVE  /\ Share(p, d)[v] \in Nat
         /\ Share(p, d)[v] = IF home[v] = p THEN size[v][d] ELSE 0
<1>1. size[v][d] \in Nat
  BY DEF TypeOK, Size
<1> QED BY <1>1 DEF Share

\* A usage is the sum of the shares, and an integer.
LEMMA UsedByShares ==
  ASSUME TypeOK, NEW p, NEW d \in Dims, NEW V \in SUBSET Vms
  PROVE  /\ UsedBy(V, p)[d] = SumOver(Share(p, d), V)
         /\ UsedBy(V, p)[d] \in Int
         /\ IsFiniteSet(V)
<1>1. IsFiniteSet(V)
  BY VmsAssumption, FS_Subset
<1>2. UsedBy(V, p)[d] = SumOver(Share(p, d), V)
  BY DEF UsedBy, Share
<1>3. \A v \in V : Share(p, d)[v] \in Int
  BY ShareType
<1>4. SumOver(Share(p, d), V) \in Int
  BY <1>1, <1>3, SumType
<1> QED BY <1>1, <1>2, <1>4

\* A usage has a value in every dimension.
LEMMA UsedByType ==
  ASSUME TypeOK, NEW p, NEW V \in SUBSET Vms
  PROVE  UsedBy(V, p) \in [Dims -> Int]
<1>1. \A d \in Dims : UsedBy(V, p)[d] \in Int
  BY UsedByShares
<1>2. UsedBy(V, p) = [d \in Dims |-> UsedBy(V, p)[d]]
  BY DEF UsedBy
<1> QED BY <1>1, <1>2

\* And in the next state.
LEMMA UsedByTypeNext ==
  ASSUME TypeOK', NEW p, NEW V \in SUBSET Vms
  PROVE  UsedBy(V, p)' \in [Dims -> Int]
<1> DEFINE share(d) == [v \in Vms |-> IF home'[v] = p THEN size'[v][d] ELSE 0]
<1>1. IsFiniteSet(V)
  BY VmsAssumption, FS_Subset
<1>2. ASSUME NEW d \in Dims
      PROVE  SumOver(share(d), V) \in Int
  <2>1. \A v \in V : share(d)[v] \in Int
    BY DEF TypeOK, Size
  <2> HIDE DEF share
  <2> QED BY <1>1, <2>1, SumType
<1>3. UsedBy(V, p)' = [d \in Dims |-> SumOver(share(d), V)]
  <2>1. \A d \in Dims : SumOver(share(d), V) =
           SumOver([v \in Vms |-> IF home'[v] = p THEN size'[v][d] ELSE 0], V)
    OBVIOUS
  <2> QED BY <2>1 DEF UsedBy
<1> QED BY <1>2, <1>3

\* A resized allocation keeps naturals in every dimension.
LEMMA ResizedType ==
  ASSUME TypeOK, NEW r \in Requests
  PROVE  Resized(r) \in Size
<1>1. Need(r) \in Size /\ size[Vm(r)] \in Size
  BY CallTypes DEF TypeOK
<1> QED BY <1>1 DEF Resized, Size

\* The empty tables are well typed.
LEMMA InitTypeOK == Init => TypeOK
<1> SUFFICES ASSUME Init PROVE TypeOK
  OBVIOUS
<1>1. \A c \in Calls : c.size \in Size
  BY CallsAssumption
<1>2. Nothing \in Size /\ Nothing \in [Dims -> Int]
  BY DEF Nothing, Size
<1> QED BY <1>1, <1>2 DEF Init, TypeOK, Phases, InTx

\* Every step keeps the types.
LEMMA StepTypeOK ==
  ASSUME TypeOK, [Next]_vars
  PROVE  TypeOK'
<1>1. ASSUME NEW r \in Requests, Step(r) \/ Abort(r)
      PROVE  TypeOK'
  <2>1. Nothing \in Size
    BY DEF Nothing, Size
  <2>2. UsedBy(Vms \ {Vm(r)}, chosen[r]) \in [Dims -> Int]
    BY UsedByType
  <2>3. \A p \in OwnersPools(r) : p \in Pools
    BY DEF OwnersPools
  <2> USE CallTypes, ResizedType, <2>1, <2>2, <2>3
      DEF TypeOK, Phases, InTx, tables, locals, Goto, LockPools, LockRow,
          Unlock, Rollback, AnswerAtOnce
  <2>4. CASE CreatePool(r)         BY <2>4 DEF CreatePool
  <2>5. CASE WritePool(r)          BY <2>5 DEF WritePool
  <2>6. CASE FindEmptyPool(r)      BY <2>6 DEF FindEmptyPool
  <2>7. CASE RefuseDelete(r)       BY <2>7 DEF RefuseDelete
  <2>8. CASE RemovePool(r)         BY <2>8 DEF RemovePool
  <2>9. CASE PoolInUse(r)          BY <2>9 DEF PoolInUse
  <2>10. CASE PoolMissing(r)       BY <2>10 DEF PoolMissing
  <2>11. CASE LockPool(r)          BY <2>11 DEF LockPool
  <2>12. CASE Admit(r)             BY <2>12 DEF Admit
  <2>13. CASE Refuse(r)            BY <2>13 DEF Refuse
  <2>14. CASE InsertAllocation(r)  BY <2>14 DEF InsertAllocation
  <2>15. CASE AlreadyAllocated(r)  BY <2>15 DEF AlreadyAllocated
  <2>16. CASE FindAllocation(r)    BY <2>16 DEF FindAllocation
  <2>17. CASE NothingToRelease(r)  BY <2>17 DEF NothingToRelease
  <2>18. CASE DeleteAllocation(r)  BY <2>18 DEF DeleteAllocation
  <2>19. CASE AlreadyReleased(r)   BY <2>19 DEF AlreadyReleased
  <2>20. CASE LockUserPools(r)     BY <2>20 DEF LockUserPools
  <2>21. CASE NoUserPool(r)        BY <2>21 DEF NoUserPool
  <2>22. CASE SumOthers(r)         BY <2>22 DEF SumOthers
  <2>23. CASE AdmitResize(r)       BY <2>23 DEF AdmitResize
  <2>24. CASE RefuseResize(r)      BY <2>24 DEF RefuseResize
  <2>25. CASE UpdateAllocation(r)  BY <2>25 DEF UpdateAllocation
  <2>26. CASE NoAllocation(r)      BY <2>26 DEF NoAllocation
  <2>27. CASE CommitPool(r)
    <3>1. status' \in [Pools -> {"unborn", "live", "gone"}]
      BY <2>27 DEF CommitPool
    <3>2. total' \in [Pools -> Size]
      BY <2>27 DEF CommitPool
    <3> QED BY <2>27, <3>1, <3>2 DEF CommitPool
  <2>28. CASE CommitAllocation(r)  BY <2>28 DEF CommitAllocation
  <2>29. CASE CommitRelease(r)     BY <2>29 DEF CommitRelease
  <2>30. CASE CommitResize(r)      BY <2>30 DEF CommitResize
  <2>31. CASE Abort(r)             BY <2>31 DEF Abort
  <2> QED BY <1>1, <2>4, <2>5, <2>6, <2>7, <2>8, <2>9, <2>10, <2>11, <2>12,
             <2>13, <2>14, <2>15, <2>16, <2>17, <2>18, <2>19, <2>20, <2>21,
             <2>22, <2>23, <2>24, <2>25, <2>26, <2>27, <2>28, <2>29, <2>30,
             <2>31 DEF Step
<1>2. CASE UNCHANGED vars
  BY <1>2 DEF vars, TypeOK
<1> QED BY <1>1, <1>2 DEF Next

\* The types of every variable hold in every reachable state.
THEOREM TypeCorrect == Spec => []TypeOK
  BY InitTypeOK, StepTypeOK, PTL DEF Spec

-----------------------------------------------------------------------------
(* What the step of one call leaves alone.                                 *)

\* The steps that write a table.
Writes(s) ==
    \/ CreatePool(s) \/ CommitPool(s) \/ CommitAllocation(s)
    \/ CommitRelease(s) \/ CommitResize(s)

\* A call moves neither the progress nor the local variables of another one,
\* and takes no pool row that another one holds; only Writes(s) touches a table.
LEMMA StepFrame ==
  ASSUME TypeOK, NEW s \in Requests, Step(s) \/ Abort(s)
  PROVE  /\ call' = call
         /\ \A q \in Requests \ {s} :
              /\ pc'[q] = pc[q]
              /\ chosen'[q] = chosen[q]
              /\ others'[q] = others[q]
         /\ \A p \in Pools : poolHolder[p] \in Requests \ {s} =>
              poolHolder'[p] = poolHolder[p]
         /\ Writes(s) \/ UNCHANGED tables
<1> USE CallTypes
    DEF TypeOK, tables, locals, Goto, Unlock, Rollback, Writes
<1>1. CASE CreatePool(s)        BY <1>1 DEF CreatePool
<1>2. CASE CommitPool(s)        BY <1>2 DEF CommitPool
<1>3. CASE CommitAllocation(s)  BY <1>3 DEF CommitAllocation
<1>4. CASE CommitRelease(s)     BY <1>4 DEF CommitRelease
<1>5. CASE CommitResize(s)      BY <1>5 DEF CommitResize
<1>6. CASE WritePool(s)         BY <1>6 DEF WritePool, LockPools, PoolFree
<1>7. CASE RemovePool(s)        BY <1>7 DEF RemovePool, LockPools, PoolFree
<1>8. CASE LockPool(s)          BY <1>8 DEF LockPool, LockPools, PoolFree
<1>9. CASE LockUserPools(s)
  BY <1>9 DEF LockUserPools, LockPools, PoolFree, OwnersPools
<1>10. CASE SumOthers(s)        BY <1>10 DEF SumOthers
<1>11. CASE \/ FindEmptyPool(s) \/ Admit(s) \/ InsertAllocation(s)
            \/ FindAllocation(s) \/ NothingToRelease(s) \/ DeleteAllocation(s)
            \/ AdmitResize(s) \/ UpdateAllocation(s)
  BY <1>11 DEF FindEmptyPool, Admit, InsertAllocation, FindAllocation,
     NothingToRelease, AnswerAtOnce, DeleteAllocation, AdmitResize,
     UpdateAllocation
<1>12. CASE Rollback(s)
  BY <1>12
<1>13. Abort(s) \/ RefuseDelete(s) \/ PoolInUse(s) \/ PoolMissing(s)
       \/ Refuse(s) \/ AlreadyAllocated(s) \/ AlreadyReleased(s)
       \/ NoUserPool(s) \/ RefuseResize(s) \/ NoAllocation(s) => Rollback(s)
  BY DEF Abort, RefuseDelete, PoolInUse, PoolMissing, Refuse,
     AlreadyAllocated, AlreadyReleased, NoUserPool, RefuseResize, NoAllocation
<1> QED BY <1>1, <1>2, <1>3, <1>4, <1>5, <1>6, <1>7, <1>8, <1>9, <1>10,
           <1>11, <1>12, <1>13 DEF Step

\* No two calls hold the same pool.
LEMMA OneHolder ==
  ASSUME Inv, NEW r \in Requests, NEW s \in Requests, r # s,
         Holding(r), Holding(s)
  PROVE  LockedPool(r) # LockedPool(s)
  BY DEF Inv, RequestInv, Exclusive

\* The owner of an allocation in a private pool is the pool's owner, so that
\* a resize of it holds that pool.
LEMMA ResizeHoldsHome ==
  ASSUME Inv, NEW r \in Requests, Op(r) = "resize", Holding(r),
         NEW p \in Pools, Private(p), home[Vm(r)] = p
  PROVE  LockedPool(r) = p
<1>1. Vm(r) \in Vms
  BY CallTypes DEF Inv
<1>2. home[Vm(r)] # NoPool
  OBVIOUS
<1>3. PICK c \in Calls : c.op = "allocate" /\ c.pool = p /\ c.vm = Vm(r)
  BY <1>1, <1>2 DEF Inv, Homes
<1>4. VmOwner[Vm(r)] = PoolOwner[p]
  BY <1>3 DEF Private
<1>5. /\ LockedPool(r) \in Pools
      /\ PoolOwner[LockedPool(r)] = VmOwner[Vm(r)]
  BY DEF Inv, RequestInv, Exclusive
<1> QED BY <1>4, <1>5 DEF Private

\* A pool whose row another call holds keeps its state and totals, gains no
\* allocation, and in a private one no allocation changes size.
LEMMA Undisturbed ==
  ASSUME Inv, NEW r \in Requests, NEW s \in Requests, r # s, Holding(r),
         Step(s) \/ Abort(s), NEW p, p = LockedPool(r)
  PROVE  /\ p \in Pools /\ poolHolder'[p] = r
         /\ status'[p] = status[p] /\ total'[p] = total[p]
         /\ \A v \in Vms : home'[v] = p => home[v] = p
         /\ Private(p) => \A v \in Vms : home'[v] = p => size'[v] = size[v]
<1>1. p \in Pools /\ poolHolder[p] = r /\ Live(p)
  BY DEF Inv, RequestInv, Exclusive
<1>2. poolHolder'[p] = r
  BY <1>1, StepFrame DEF Inv
<1>3. Holding(s) => LockedPool(s) # p
  BY OneHolder
<1>4. CASE UNCHANGED tables
  BY <1>1, <1>2, <1>4 DEF tables
<1> USE CallTypes DEF Inv, TypeOK, Holding, LockedPool
<1>5. CASE CreatePool(s)
  <2>1. Pool(s) # p
    BY <1>1, <1>5 DEF CreatePool, Live
  <2> QED BY <1>1, <1>2, <1>5, <2>1 DEF CreatePool
<1>6. CASE CommitPool(s)
  <2>1. Pool(s) # p
    BY <1>3, <1>6 DEF CommitPool
  <2>2. status'[p] = status[p] /\ total'[p] = total[p]
    BY <1>1, <1>6, <2>1 DEF CommitPool
  <2> QED BY <1>1, <1>2, <1>6, <2>2 DEF CommitPool
<1>7. CASE CommitAllocation(s)
  <2>1. Pool(s) # p
    BY <1>3, <1>7 DEF CommitAllocation
  <2> QED BY <1>1, <1>2, <1>7, <2>1 DEF CommitAllocation
<1>8. CASE CommitRelease(s)
  BY <1>1, <1>2, <1>8 DEF CommitRelease
<1>9. CASE CommitResize(s)
  <2>1. Holding(s)
    BY <1>9 DEF CommitResize
  <2>2. Private(p) => home[Vm(s)] # p
    BY <1>1, <1>3, <1>9, <2>1, ResizeHoldsHome DEF CommitResize
  <2> QED BY <1>1, <1>2, <1>9, <2>2 DEF CommitResize
<1> QED BY <1>4, <1>5, <1>6, <1>7, <1>8, <1>9, StepFrame DEF Writes

\* So its usage, by any of the VMs, does not grow.
LEMMA UsageHeld ==
  ASSUME Inv, TypeOK', NEW r \in Requests, NEW s \in Requests, r # s,
         Holding(r), Step(s) \/ Abort(s), NEW p, p = LockedPool(r), Private(p),
         NEW V \in SUBSET Vms, NEW d \in Dims
  PROVE  UsedBy(V, p)'[d] <= UsedBy(V, p)[d]
<1> DEFINE old == Share(p, d)
           new == [v \in Vms |-> IF home'[v] = p THEN size'[v][d] ELSE 0]
<1>1. UsedBy(V, p)[d] = SumOver(old, V) /\ IsFiniteSet(V)
  BY UsedByShares DEF Inv
<1>2. UsedBy(V, p)'[d] = SumOver(new, V)
  BY DEF UsedBy
<1>3. ASSUME NEW v \in V
      PROVE  new[v] \in Int /\ old[v] \in Int /\ new[v] <= old[v]
  <2>1. old[v] \in Nat /\ old[v] = IF home[v] = p THEN size[v][d] ELSE 0
    BY ShareType DEF Inv
  <2>2. new[v] = IF home'[v] = p THEN size'[v][d] ELSE 0
    OBVIOUS
  <2>3. home'[v] = p => home[v] = p /\ size'[v] = size[v]
    BY Undisturbed
  <2> HIDE DEF old, new
  <2> QED BY <2>1, <2>2, <2>3
<1> HIDE DEF old, new
<1>4. SumOver(new, V) <= SumOver(old, V)
  BY <1>1, <1>3, SumMonotonic
<1> QED BY <1>1, <1>2, <1>4

-----------------------------------------------------------------------------
(* The invariant.                                                          *)

\* A step of another call keeps what a call relies on.
LEMMA OthersInv ==
  ASSUME Inv, TypeOK', NEW r \in Requests, NEW s \in Requests, r # s,
         Step(s) \/ Abort(s)
  PROVE  RequestInv(r)'
<1>1. /\ pc'[r] = pc[r] /\ chosen'[r] = chosen[r] /\ others'[r] = others[r]
      /\ Op(r)' = Op(r) /\ Pool(r)' = Pool(r)
      /\ Vm(r)' = Vm(r) /\ Need(r)' = Need(r)
  BY StepFrame, CallStable DEF Inv
<1>2. Holding(r)' <=> Holding(r)
  BY <1>1 DEF Holding
<1>3. LockedPool(r)' = LockedPool(r)
  BY <1>1 DEF LockedPool
<1> SUFFICES ASSUME Holding(r) PROVE RequestInv(r)'
  BY <1>1, <1>2
  DEF RequestInv, Exclusive, StillEmpty, StillFits, SumStands, StillGrows, Holding
<1>4. PICK p \in Pools : p = LockedPool(r)
  BY DEF Inv, RequestInv, Exclusive
<1>5. /\ poolHolder'[p] = r
      /\ status'[p] = status[p] /\ total'[p] = total[p]
      /\ \A v \in Vms : home'[v] = p => home[v] = p
      /\ Private(p) => \A v \in Vms : home'[v] = p => size'[v] = size[v]
  BY <1>4, Undisturbed
<1>6. RequestInv(r)
  BY DEF Inv
<1>7. Exclusive(r)'
  BY <1>1, <1>3, <1>4, <1>5, <1>6 DEF RequestInv, Exclusive, Live
<1>8. StillEmpty(r)'
  BY <1>1, <1>4, <1>5, <1>6
  DEF RequestInv, StillEmpty, HasAllocations, LockedPool
<1>9. StillFits(r)'
  <2> SUFFICES ASSUME Op(r) = "allocate", pc[r] \in {"checked", "written"},
                      Pool(r) = p, Private(p), NEW d \in Dims
               PROVE  Used(p)'[d] + Need(r)[d] <= total'[p][d]
    BY <1>1, <1>4 DEF StillFits, LockedPool
  <2>1. Used(p)[d] + Need(r)[d] <= total[p][d]
    BY <1>6 DEF RequestInv, StillFits
  <2>2. Used(p)'[d] <= Used(p)[d]
    BY <1>4, UsageHeld DEF Used
  <2>3. Used(p)[d] \in Int /\ Used(p)'[d] \in Int
    BY UsedByShares, UsedByTypeNext DEF Inv, Used
  <2>4. Need(r)[d] \in Int /\ total[p][d] \in Int
    BY CallTypes DEF Inv, TypeOK, Size
  <2> QED BY <1>5, <2>1, <2>2, <2>3, <2>4
<1>10. SumStands(r)'
  <2> SUFFICES ASSUME NEW v \in Vms, Vm(r) = v, Op(r) = "resize",
                      pc[r] = "summed", chosen[r] = p, Private(p),
                      NEW d \in ResizedDims
               PROVE  UsedBy(Vms \ {v}, p)'[d] <= others[r][d]
    BY <1>1, <1>4 DEF SumStands, LockedPool
  <2>1. UsedBy(Vms \ {v}, p)[d] <= others[r][d]
    BY <1>6 DEF RequestInv, SumStands
  <2>2. d \in Dims
    BY CallsAssumption
  <2>3. UsedBy(Vms \ {v}, p)'[d] <= UsedBy(Vms \ {v}, p)[d]
    BY <1>4, <2>2, UsageHeld
  <2>4. UsedBy(Vms \ {v}, p)[d] \in Int /\ UsedBy(Vms \ {v}, p)'[d] \in Int
    BY <2>2, UsedByShares, UsedByTypeNext DEF Inv
  <2>5. others[r][d] \in Int
    BY <2>2 DEF Inv, TypeOK
  <2> QED BY <2>1, <2>3, <2>4, <2>5
<1>11. StillGrows(r)'
  <2> SUFFICES ASSUME NEW v \in Vms, Vm(r) = v, Op(r) = "resize",
                      pc[r] \in {"checked", "written"}, chosen[r] = p,
                      Private(p), home'[v] = p, NEW d \in ResizedDims
               PROVE  UsedBy(Vms \ {v}, p)'[d] + Need(r)[d] - size'[v][d]
                        <= total'[p][d]
    BY <1>1, <1>4 DEF StillGrows, LockedPool
  <2>1. home[v] = p /\ size'[v] = size[v]
    BY <1>5
  <2>2. UsedBy(Vms \ {v}, p)[d] + Need(r)[d] - size[v][d] <= total[p][d]
    BY <1>6, <2>1 DEF RequestInv, StillGrows
  <2>3. d \in Dims
    BY CallsAssumption
  <2>4. UsedBy(Vms \ {v}, p)'[d] <= UsedBy(Vms \ {v}, p)[d]
    BY <1>4, <2>3, UsageHeld
  <2>5. UsedBy(Vms \ {v}, p)[d] \in Int /\ UsedBy(Vms \ {v}, p)'[d] \in Int
    BY <2>3, UsedByShares, UsedByTypeNext DEF Inv
  <2>6. Need(r)[d] \in Int /\ size[v][d] \in Int /\ total[p][d] \in Int
    BY <2>3, CallTypes DEF Inv, TypeOK, Size
  <2> QED BY <1>5, <2>1, <2>2, <2>4, <2>5, <2>6
<1> QED BY <1>7, <1>8, <1>9, <1>10, <1>11 DEF RequestInv

\* Nothing is asked of a call that holds no pool.
LEMMA IdleInv ==
  ASSUME NEW r \in Requests, ~Holding(r)'
  PROVE  RequestInv(r)'
  BY DEF RequestInv, Exclusive, StillEmpty, StillFits, SumStands, StillGrows,
         Holding

\* Usages do not change with the tables.
LEMMA UsageFrame ==
  ASSUME UNCHANGED tables, NEW p, NEW V
  PROVE  UsedBy(V, p)' = UsedBy(V, p) /\ Used(p)' = Used(p)
  BY DEF UsedBy, Used, tables

\* The step of a call establishes what the call relies on next.
LEMMA OwnInv ==
  ASSUME Inv, TypeOK', NEW r \in Requests, Step(r) \/ Abort(r)
  PROVE  RequestInv(r)'
<1>1. /\ Op(r)' = Op(r) /\ Pool(r)' = Pool(r)
      /\ Vm(r)' = Vm(r) /\ Need(r)' = Need(r)
  BY StepFrame, CallStable DEF Inv
<1>2. /\ Pool(r) \in Pools /\ Vm(r) \in Vms
      /\ RequestInv(r) /\ pc \in [Requests -> Phases]
  BY CallTypes DEF Inv, TypeOK
<1>3. CASE pc'[r] \notin {"locked", "summed", "checked", "written"}
  BY <1>3, IdleInv DEF Holding
<1>4. CASE WritePool(r) \/ RemovePool(r) \/ LockPool(r)
  <2>1. /\ Op(r) \in {"update", "delete", "allocate"} /\ Live(Pool(r))
        /\ poolHolder'[Pool(r)] = r /\ UNCHANGED tables
        /\ pc'[r] = IF Op(r) = "allocate" THEN "locked" ELSE "written"
    BY <1>2, <1>4 DEF WritePool, RemovePool, LockPool, LockPools, Goto
  <2>2. Exclusive(r)'
    BY <1>1, <1>2, <2>1 DEF Exclusive, LockedPool, Live, tables
  <2>3. StillEmpty(r)'
    <3> SUFFICES ASSUME Op(r) = "delete" PROVE ~HasAllocations(Pool(r))'
      BY <1>1 DEF StillEmpty
    <3>1. ~HasAllocations(Pool(r))
      BY <1>4 DEF RemovePool, WritePool, LockPool, Restricted
    <3> QED BY <1>1, <2>1, <3>1 DEF HasAllocations, tables
  <2>4. StillFits(r)' /\ SumStands(r)' /\ StillGrows(r)'
    BY <1>1, <2>1 DEF StillFits, SumStands, StillGrows
  <2> QED BY <2>2, <2>3, <2>4 DEF RequestInv
<1>5. CASE LockUserPools(r)
  <2>1. /\ Op(r) = "resize" /\ pc'[r] = "locked" /\ UNCHANGED tables
    BY <1>2, <1>5 DEF LockUserPools, Goto
  <2>2. PICK p \in OwnersPools(r) : chosen' = [chosen EXCEPT ![r] = p]
    BY <1>5 DEF LockUserPools
  <2>3. p \in Pools /\ Live(p) /\ PoolOwner[p] = VmOwner[Vm(r)]
    BY DEF OwnersPools
  <2>4. chosen'[r] = p /\ poolHolder'[p] = r
    BY <1>5, <2>2, <2>3 DEF LockUserPools, LockPools, Inv, TypeOK
  <2>5. Exclusive(r)'
    BY <1>1, <2>1, <2>3, <2>4 DEF Exclusive, LockedPool, Live, tables
  <2> QED BY <1>1, <2>1, <2>5
          DEF RequestInv, StillEmpty, StillFits, SumStands, StillGrows
<1>6. CASE \/ Admit(r) \/ InsertAllocation(r) \/ SumOthers(r)
           \/ AdmitResize(r) \/ UpdateAllocation(r)
  <2>1. /\ Op(r) \in {"allocate", "resize"} /\ Holding(r)
        /\ UNCHANGED <<tables, chosen, poolHolder>>
    BY <1>6 DEF Admit, InsertAllocation, SumOthers, AdmitResize,
       UpdateAllocation, Holding, locals
  <2>2. Exclusive(r)'
    BY <1>1, <1>2, <2>1 DEF Exclusive, RequestInv, LockedPool, Live, tables
  <2>3. StillEmpty(r)'
    BY <1>1, <2>1 DEF StillEmpty
  <2>4. /\ total' = total /\ home' = home /\ size' = size
        /\ \A p \in Pools : Used(p)' = Used(p)
        /\ \A p \in Pools, v \in Vms :
             UsedBy(Vms \ {v}, p)' = UsedBy(Vms \ {v}, p)
    BY <2>1, UsageFrame DEF tables
  <2>5. CASE Admit(r)
    <3>1. Op(r) = "allocate" /\ pc'[r] = "checked"
      BY <1>2, <2>5 DEF Admit, Goto
    <3>2. StillFits(r)'
      <4> SUFFICES ASSUME NEW p \in Pools, Pool(r) = p, NEW d \in Dims
                   PROVE  Used(p)[d] + Need(r)[d] <= total[p][d]
        BY <1>1, <2>4 DEF StillFits
      <4>1. Need(r)[d] <= total[p][d] - Used(p)[d]
        BY <2>5 DEF Admit, Fits
      <4>2. Used(p)[d] \in Int
        BY UsedByShares DEF Inv, Used
      <4>3. Need(r)[d] \in Int /\ total[p][d] \in Int
        BY CallTypes DEF Inv, TypeOK, Size
      <4> QED BY <4>1, <4>2, <4>3
    <3> QED BY <1>1, <2>2, <2>3, <3>1, <3>2
            DEF RequestInv, SumStands, StillGrows
  <2>6. CASE InsertAllocation(r)
    <3>1. Op(r) = "allocate" /\ pc[r] = "checked" /\ pc'[r] = "written"
      BY <1>2, <2>6 DEF InsertAllocation, Goto
    <3>2. StillFits(r)'
      BY <1>1, <1>2, <2>4, <3>1 DEF RequestInv, StillFits
    <3> QED BY <1>1, <2>2, <2>3, <3>1, <3>2
            DEF RequestInv, SumStands, StillGrows
  <2>7. CASE SumOthers(r)
    <3>1. /\ Op(r) = "resize" /\ pc'[r] = "summed"
          /\ others'[r] = UsedBy(Vms \ {Vm(r)}, chosen[r])
      BY <1>2, <2>7 DEF SumOthers, Goto, Inv, TypeOK
    <3>2. SumStands(r)'
      <4> SUFFICES ASSUME NEW p \in Pools, NEW v \in Vms, chosen[r] = p,
                          Vm(r) = v, NEW d \in ResizedDims
                   PROVE  UsedBy(Vms \ {v}, p)[d] <= others'[r][d]
        BY <1>1, <2>1, <2>4 DEF SumStands
      <4>1. d \in Dims
        BY CallsAssumption
      <4>2. UsedBy(Vms \ {v}, p)[d] \in Int
        BY <4>1, UsedByShares DEF Inv
      <4> QED BY <3>1, <4>2
    <3> QED BY <1>1, <2>2, <2>3, <3>1, <3>2
            DEF RequestInv, StillFits, StillGrows
  <2>8. CASE AdmitResize(r)
    <3>1. Op(r) = "resize" /\ pc[r] = "summed" /\ pc'[r] = "checked"
      BY <1>2, <2>8 DEF AdmitResize, Goto
    <3>2. StillGrows(r)'
      <4> SUFFICES ASSUME NEW p \in Pools, NEW v \in Vms, chosen[r] = p,
                          Private(p), Vm(r) = v, home[v] = p,
                          NEW d \in ResizedDims
                   PROVE  UsedBy(Vms \ {v}, p)[d] + Need(r)[d] - size[v][d]
                            <= total[p][d]
        BY <1>1, <2>1, <2>4 DEF StillGrows
      <4>1. Need(r)[d] - size[v][d] <= total[p][d] - others[r][d]
        BY <2>8 DEF AdmitResize, GrowthFits
      <4>2. UsedBy(Vms \ {v}, p)[d] <= others[r][d]
        BY <1>2, <3>1 DEF RequestInv, SumStands
      <4>3. d \in Dims
        BY CallsAssumption
      <4>4. UsedBy(Vms \ {v}, p)[d] \in Int
        BY <4>3, UsedByShares DEF Inv
      <4>5. /\ Need(r)[d] \in Int /\ size[v][d] \in Int
            /\ total[p][d] \in Int /\ others[r][d] \in Int
        BY <4>3, CallTypes DEF Inv, TypeOK, Size
      <4> QED BY <4>1, <4>2, <4>4, <4>5
    <3> QED BY <1>1, <2>2, <2>3, <3>1, <3>2
            DEF RequestInv, StillFits, SumStands
  <2>9. CASE UpdateAllocation(r)
    <3>1. Op(r) = "resize" /\ pc[r] = "checked" /\ pc'[r] = "written"
      BY <1>2, <2>9 DEF UpdateAllocation, Goto
    <3>2. StillGrows(r)'
      BY <1>1, <1>2, <2>1, <2>4, <3>1 DEF RequestInv, StillGrows
    <3> QED BY <1>1, <2>2, <2>3, <3>1, <3>2
            DEF RequestInv, StillFits, SumStands
  <2> QED BY <1>6, <2>5, <2>6, <2>7, <2>8, <2>9
<1>7. CASE DeleteAllocation(r)
  <2>1. Op(r) = "release"
    BY <1>7 DEF DeleteAllocation
  <2> QED BY <1>1, <2>1, IdleInv DEF Holding
<1>8. \/ WritePool(r) \/ RemovePool(r) \/ LockPool(r) \/ LockUserPools(r)
      \/ Admit(r) \/ InsertAllocation(r) \/ SumOthers(r)
      \/ AdmitResize(r) \/ UpdateAllocation(r) \/ DeleteAllocation(r)
      \/ pc'[r] \notin {"locked", "summed", "checked", "written"}
  <2>1. /\ Goto(r, "found") => pc'[r] = "found"
        /\ Goto(r, "failed") => pc'[r] = "failed"
        /\ Goto(r, "committed") => pc'[r] = "committed"
    BY <1>2 DEF Goto
  <2> QED BY <2>1
          DEF Step, Abort, Rollback, AnswerAtOnce, CreatePool, FindEmptyPool,
              RefuseDelete, PoolInUse, PoolMissing, Refuse, AlreadyAllocated,
              FindAllocation, NothingToRelease, AlreadyReleased, NoUserPool,
              RefuseResize, NoAllocation, CommitPool, CommitAllocation,
              CommitRelease, CommitResize
<1> QED BY <1>3, <1>4, <1>5, <1>6, <1>7, <1>8

\* Nothing is allocated and nobody has begun.
LEMMA InitInv == Init => Inv
<1> SUFFICES ASSUME Init PROVE Inv
  OBVIOUS
<1>1. TypeOK
  BY InitTypeOK
<1>2. Homes
  BY DEF Init, Homes
<1>3. \A r \in Requests : RequestInv(r)
  BY DEF Init, RequestInv, Exclusive, StillEmpty, StillFits, SumStands,
     StillGrows, Holding
<1> QED BY <1>1, <1>2, <1>3 DEF Inv

\* No step takes a pool from under an allocation.
LEMMA StepHomes ==
  ASSUME Inv, NEW r \in Requests, Step(r) \/ Abort(r)
  PROVE  Homes'
<1> USE DEF Inv, TypeOK, Homes, Live
<1>1. /\ Pool(r) \in Pools /\ Vm(r) \in Vms /\ call[r] \in Calls
      /\ RequestInv(r)
  BY CallTypes
<1>2. CASE UNCHANGED tables
  BY <1>2 DEF tables
<1>3. CASE CreatePool(r)
  BY <1>1, <1>3 DEF CreatePool
<1>4. CASE CommitPool(r)
  <2>1. CASE Op(r) = "update"
    BY <1>4, <2>1 DEF CommitPool
  <2>2. CASE Op(r) = "delete"
    <3>1. \A v \in Vms : home[v] # Pool(r)
      BY <1>1, <1>4, <2>2 DEF CommitPool, RequestInv, StillEmpty, HasAllocations
    <3> QED BY <1>1, <1>4, <2>2, <3>1 DEF CommitPool
  <2> QED BY <1>4, <2>1, <2>2 DEF CommitPool
<1>5. CASE CommitAllocation(r)
  <2>1. Live(Pool(r))
    BY <1>1, <1>5
    DEF CommitAllocation, RequestInv, Exclusive, Holding, LockedPool
  <2>2. call[r].op = "allocate" /\ call[r].pool = Pool(r) /\ call[r].vm = Vm(r)
    BY <1>5 DEF CommitAllocation, Op, Pool, Vm
  <2>3. home' = [home EXCEPT ![Vm(r)] = Pool(r)] /\ status' = status
    BY <1>5 DEF CommitAllocation
  <2> SUFFICES ASSUME NEW v \in Vms, home'[v] # NoPool
               PROVE  /\ status'[home'[v]] = "live"
                      /\ \E c \in Calls : /\ c.op = "allocate"
                                          /\ c.pool = home'[v] /\ c.vm = v
    OBVIOUS
  <2>4. CASE v = Vm(r)
    BY <1>1, <2>1, <2>2, <2>3, <2>4
  <2>5. CASE v # Vm(r)
    BY <2>3, <2>5
  <2> QED BY <2>4, <2>5
<1>6. CASE CommitRelease(r)
  BY <1>1, <1>6 DEF CommitRelease
<1>7. CASE CommitResize(r)
  BY <1>7 DEF CommitResize
<1> QED BY <1>2, <1>3, <1>4, <1>5, <1>6, <1>7, StepFrame DEF Writes

\* Every step keeps the invariant.
LEMMA StepInv ==
  ASSUME Inv, [Next]_vars
  PROVE  Inv'
<1>1. TypeOK'
  BY StepTypeOK DEF Inv
<1>2. ASSUME NEW s \in Requests, Step(s) \/ Abort(s)
      PROVE  Inv'
  <2>1. \A r \in Requests : RequestInv(r)'
    BY <1>1, <1>2, OthersInv, OwnInv
  <2>2. Homes'
    BY <1>2, StepHomes
  <2> QED BY <1>1, <2>1, <2>2 DEF Inv
<1>3. CASE UNCHANGED vars
  <2>1. UNCHANGED <<tables, pc, chosen, others, poolHolder>> /\ call' = call
    BY <1>3 DEF vars, tables
  <2>2. Homes'
    BY <2>1 DEF Inv, Homes, Live, tables
  <2>3. ASSUME NEW r \in Requests
        PROVE  RequestInv(r)'
    <3>1. RequestInv(r)
      BY DEF Inv
    <3>2. \A p, V : UsedBy(V, p)' = UsedBy(V, p) /\ Used(p)' = Used(p)
      BY <2>1, UsageFrame
    <3>3. Exclusive(r)' /\ StillEmpty(r)'
      BY <2>1, <3>1, CallStable
      DEF RequestInv, Exclusive, StillEmpty, Holding, LockedPool, Live,
          HasAllocations, tables
    <3>4. StillFits(r)' /\ SumStands(r)' /\ StillGrows(r)'
      BY <2>1, <3>1, <3>2, CallStable
      DEF RequestInv, StillFits, SumStands, StillGrows, tables
    <3> QED BY <3>3, <3>4 DEF RequestInv
  <2> QED BY <1>1, <2>2, <2>3 DEF Inv
<1> QED BY <1>2, <1>3 DEF Next

\* The inductive invariant holds in every reachable state.
THEOREM Invariance == Spec => []Inv
  BY InitInv, StepInv, PTL DEF Spec

-----------------------------------------------------------------------------
(* The properties.                                                         *)

\* A pool is never deleted under an allocation, although deletePool checks
\* before its transaction: the DELETE's own check and the row lock decide.
THEOREM AllocationsHavePoolsHolds == Spec => []AllocationsHavePools
<1>1. Inv => AllocationsHavePools
  BY DEF Inv, Homes, AllocationsHavePools
<1> QED BY <1>1, Invariance, PTL

\* An allocation that commits in a private pool fits in all dimensions.
THEOREM AllocationFitsHolds == Spec => AllocationFits
<1>1. ASSUME Inv, TypeOK', NEW r \in Requests, CommitAllocation(r),
             NEW p \in Pools, Pool(r) = p, Private(p), NEW d \in Dims
      PROVE  Used(p)'[d] <= total'[p][d]
  <2> DEFINE v == Vm(r)
             old == Share(p, d)
             new == [w \in Vms |-> IF home'[w] = p THEN size'[w][d] ELSE 0]
  <2>1. v \in Vms /\ Need(r) \in Size
    BY <1>1, CallTypes DEF Inv
  <2>2. Used(p)[d] = SumOver(old, Vms) /\ Used(p)[d] \in Int
    BY <1>1, UsedByShares DEF Inv, Used
  <2>3. Used(p)'[d] = SumOver(new, Vms)
    BY DEF Used, UsedBy
  <2>4. home' = [home EXCEPT ![v] = p] /\ size' = [size EXCEPT ![v] = Need(r)]
        /\ total' = total /\ pc[r] = "written" /\ Op(r) = "allocate"
    BY <1>1 DEF CommitAllocation
  <2>5. \A w \in Vms : old[w] \in Nat
    BY <1>1, ShareType DEF Inv
  <2>6. \A w \in Vms \ {v} : old[w] = new[w]
    BY <1>1, <2>1, <2>4, ShareType DEF Inv, TypeOK
  <2>7. new[v] = Need(r)[d] /\ Need(r)[d] \in Nat
    BY <1>1, <2>1, <2>4 DEF Inv, TypeOK, Size
  <2>8. \A w \in Vms : old[w] \in Int /\ new[w] \in Int
    BY <2>5, <2>6, <2>7
  <2> HIDE DEF old, new, v
  <2>9. SumOver(new, Vms) = SumOver(old, Vms) - old[v] + new[v]
    BY <2>1, <2>6, <2>8, VmsAssumption, SumUpdate
  <2>10. Used(p)[d] + Need(r)[d] <= total[p][d]
    BY <1>1, <2>4 DEF Inv, RequestInv, StillFits
  <2>11. total[p][d] \in Int /\ old[v] \in Nat
    BY <1>1, <2>1, <2>5 DEF Inv, TypeOK, Size
  <2> QED BY <2>2, <2>3, <2>4, <2>7, <2>9, <2>10, <2>11
<1>2. ASSUME Inv, TypeOK'
      PROVE  \A r \in Requests :
               CommitAllocation(r) /\ Private(Pool(r)) =>
                 \A d \in Dims : Used(Pool(r))'[d] <= total'[Pool(r)][d]
  <2> SUFFICES ASSUME NEW r \in Requests, CommitAllocation(r),
                      Private(Pool(r)), NEW d \in Dims
               PROVE  Used(Pool(r))'[d] <= total'[Pool(r)][d]
    OBVIOUS
  <2>1. PICK p \in Pools : p = Pool(r)
    BY <1>2, CallTypes DEF Inv
  <2>2. Used(p)'[d] <= total'[p][d]
    BY <1>1, <1>2, <2>1
  <2>3. Pool(r)' = Pool(r)
    BY CallStable DEF CommitAllocation
  <2> QED BY <2>1, <2>2, <2>3 DEF Used, UsedBy
<1>3. Spec => []TypeOK
  BY TypeCorrect
<1> QED BY <1>2, <1>3, Invariance, PTL DEF AllocationFits

\* A resize that commits in a private pool exceeds the total by at most what
\* its VM had before, however many resizes ran.
THEOREM ResizeBoundedHolds == Spec => ResizeBounded
<1>1. ASSUME Inv, NEW r \in Requests, NEW p \in Pools, CommitResize(r),
             home[Vm(r)] = p, Private(p), NEW d \in ResizedDims
      PROVE  Used(p)'[d] <= total[p][d] + size[Vm(r)][d]
  <2> DEFINE old == Share(p, d)
             new == [w \in Vms |-> IF home'[w] = p THEN size'[w][d] ELSE 0]
  <2>1. PICK v \in Vms : v = Vm(r)
    BY <1>1, CallTypes DEF Inv
  <2>2. d \in Dims
    BY CallsAssumption
  <2>3. /\ home' = home /\ size' = [size EXCEPT ![v] = Resized(r)]
        /\ pc[r] = "written" /\ Op(r) = "resize"
    BY <1>1, <2>1 DEF CommitResize
  <2>4. Resized(r)[d] = Need(r)[d] /\ Need(r)[d] \in Nat
    BY <1>1, <2>2, CallTypes DEF Inv, Resized, Size
  <2>5. chosen[r] = p
    BY <1>1, <2>3, ResizeHoldsHome DEF Holding, LockedPool
  <2>6. UsedBy(Vms \ {v}, p)[d] + Need(r)[d] - size[v][d] <= total[p][d]
    BY <1>1, <2>1, <2>3, <2>5 DEF Inv, RequestInv, StillGrows
  <2>7. /\ UsedBy(Vms \ {v}, p)[d] = SumOver(old, Vms \ {v})
        /\ UsedBy(Vms \ {v}, p)[d] \in Int /\ IsFiniteSet(Vms \ {v})
    BY <1>1, <2>2, UsedByShares DEF Inv
  <2>8. Used(p)'[d] = SumOver(new, Vms)
    BY <2>2 DEF Used, UsedBy
  <2>9. \A w \in Vms : old[w] \in Nat
    BY <1>1, <2>2, ShareType DEF Inv
  <2>10. \A w \in Vms \ {v} : old[w] = new[w]
    BY <1>1, <2>2, <2>3, ShareType DEF Inv, TypeOK
  <2>11. new[v] = Need(r)[d]
    BY <1>1, <2>1, <2>3, <2>4 DEF Inv, TypeOK
  <2>12. size[v][d] \in Int /\ total[p][d] \in Int
    BY <1>1, <2>2 DEF Inv, TypeOK, Size
  <2> HIDE DEF old, new
  <2>13. \A w \in Vms : new[w] \in Int
    BY <2>4, <2>9, <2>10, <2>11
  <2>14. SumOver(new, Vms) = new[v] + SumOver(new, Vms \ {v})
    BY <2>13, VmsAssumption, SumRemove
  <2>15. SumOver(old, Vms \ {v}) = SumOver(new, Vms \ {v})
    BY <2>7, <2>10, SumCongruence
  <2> QED BY <2>1, <2>4, <2>6, <2>7, <2>8, <2>11, <2>12, <2>14, <2>15
<1>2. Inv => \A r \in Requests, p \in Pools :
               CommitResize(r) /\ home[Vm(r)] = p /\ Private(p) =>
                 \A d \in ResizedDims :
                   Used(p)'[d] <= total[p][d] + size[Vm(r)][d]
  BY <1>1
<1> QED BY <1>2, Invariance, PTL DEF ResizeBounded

-----------------------------------------------------------------------------
(* The refinement of AbstractPool.                                         *)

\* From the statement that writes an allocation to the commit, its row is
\* held, and what the statement found of it (there, or not) is still so.
RowHeld(r) ==
    pc[r] = "written" /\ Op(r) \in {"allocate", "release", "resize"} =>
        /\ rowHolder[Vm(r)] = r
        /\ home[Vm(r)] = NoPool <=> Op(r) = "allocate"

RowsHeld == \A r \in Requests : RowHeld(r)

\* A call keeps the rows that another one holds and the homes in them, and
\* takes a row only together with what it finds there.
LEMMA StepRows ==
  ASSUME TypeOK, RowsHeld, NEW s \in Requests, Step(s) \/ Abort(s)
  PROVE  /\ RowHeld(s)'
         /\ \A v \in Vms : rowHolder[v] \in Requests \ {s} =>
                rowHolder'[v] = rowHolder[v] /\ home'[v] = home[v]
<1> USE CallTypes, CallStable
    DEF TypeOK, tables, locals, Goto, Unlock, Rollback, RowHeld, RowsHeld
<1>1. CASE CreatePool(s)        BY <1>1 DEF CreatePool
<1>2. CASE CommitPool(s)        BY <1>2 DEF CommitPool
<1>3. CASE CommitAllocation(s)  BY <1>3 DEF CommitAllocation
<1>4. CASE CommitRelease(s)     BY <1>4 DEF CommitRelease
<1>5. CASE CommitResize(s)      BY <1>5 DEF CommitResize
<1>6. CASE InsertAllocation(s)
  BY <1>6 DEF InsertAllocation, LockRow, RowFree
<1>7. CASE DeleteAllocation(s)
  BY <1>7 DEF DeleteAllocation, LockRow, RowFree
<1>8. CASE UpdateAllocation(s)
  BY <1>8 DEF UpdateAllocation, LockRow, RowFree
<1>9. CASE \/ WritePool(s) \/ RemovePool(s) \/ LockPool(s)
           \/ LockUserPools(s) \/ SumOthers(s)
  BY <1>9 DEF WritePool, RemovePool, LockPool, LockUserPools, SumOthers
<1>10. CASE \/ FindEmptyPool(s) \/ Admit(s) \/ FindAllocation(s)
            \/ NothingToRelease(s) \/ AdmitResize(s)
  BY <1>10 DEF FindEmptyPool, Admit, FindAllocation, NothingToRelease,
     AnswerAtOnce, AdmitResize
<1>11. CASE Rollback(s)
  BY <1>11
<1>12. Abort(s) \/ RefuseDelete(s) \/ PoolInUse(s) \/ PoolMissing(s)
       \/ Refuse(s) \/ AlreadyAllocated(s) \/ AlreadyReleased(s)
       \/ NoUserPool(s) \/ RefuseResize(s) \/ NoAllocation(s) => Rollback(s)
  BY DEF Abort, RefuseDelete, PoolInUse, PoolMissing, Refuse,
     AlreadyAllocated, AlreadyReleased, NoUserPool, RefuseResize, NoAllocation
<1> QED BY <1>1, <1>2, <1>3, <1>4, <1>5, <1>6, <1>7, <1>8, <1>9, <1>10,
           <1>11, <1>12 DEF Step

\* Every step keeps RowsHeld.
LEMMA StepRowsHeld ==
  ASSUME TypeOK, RowsHeld, [Next]_vars
  PROVE  RowsHeld'
<1>1. ASSUME NEW s \in Requests, Step(s) \/ Abort(s), NEW r \in Requests
      PROVE  RowHeld(r)'
  <2>1. CASE r = s
    BY <1>1, <2>1, StepRows
  <2>2. CASE r # s
    <3>1. pc'[r] = pc[r] /\ call' = call
      BY <1>1, <2>2, StepFrame
    <3>2. Vm(r) \in Vms /\ Vm(r)' = Vm(r) /\ Op(r)' = Op(r)
      BY <3>1, CallTypes, CallStable
    <3>3. rowHolder[Vm(r)] = r =>
              rowHolder'[Vm(r)] = r /\ home'[Vm(r)] = home[Vm(r)]
      BY <1>1, <2>2, <3>2, StepRows
    <3> QED BY <3>1, <3>2, <3>3 DEF RowsHeld, RowHeld
  <2> QED BY <2>1, <2>2
<1>2. CASE UNCHANGED vars
  BY <1>2, CallStable DEF vars, RowsHeld, RowHeld
<1> QED BY <1>1, <1>2 DEF Next, RowsHeld

\* The rows of allocations are held in every reachable state.
THEOREM RowsHeldInvariance == Spec => []RowsHeld
<1>1. Init => RowsHeld
  BY DEF Init, RowsHeld, RowHeld
<1> QED BY <1>1, StepRowsHeld, TypeCorrect, PTL DEF Spec

\* Both specifications sum the same shares.
LEMMA HeldIsUsed ==
  ASSUME NEW V, NEW p, NEW d \in Dims
  PROVE  Abstract!Held(V, p, d) = UsedBy(V, p)[d]
  BY DEF Abstract!Held, Abstract!SumOver, Abstract!Pick, UsedBy, SumOver, Pick

\* The calls that have happened, in the terms of AbstractPool.
Done == {r \in Requests : pc[r] = "committed"}

\* A commit makes its call one that has happened, no other step does.
LEMMA DoneStep ==
  ASSUME TypeOK, NEW r \in Requests, pc[r] # "committed",
         NEW phase \in Phases, Goto(r, phase)
  PROVE  /\ phase = "committed" => r \notin Done /\ Done' = Done \cup {r}
         /\ phase # "committed" => Done' = Done
<1>1. pc' = [pc EXCEPT ![r] = phase] /\ pc \in [Requests -> Phases]
  BY DEF Goto, TypeOK
<1>2. \A q \in Requests : pc'[q] = IF q = r THEN phase ELSE pc[q]
  BY <1>1
<1> QED BY <1>2 DEF Done

\* Only commits, creations and idle releases are visible to the callers.
LEMMA StepDone ==
  ASSUME TypeOK, NEW r \in Requests, Step(r) \/ Abort(r)
  PROVE  \/ Writes(r) \/ NothingToRelease(r)
         \/ UNCHANGED <<status, total, home, size>> /\ Done' = Done
<1> DEFINE Idle == UNCHANGED <<status, total, home, size>> /\ Done' = Done
<1>1. ASSUME NEW phase \in Phases \ {"committed"}, pc[r] # "committed",
             Goto(r, phase), UNCHANGED tables
      PROVE  Idle
  BY <1>1, DoneStep DEF tables
<1>2. CASE Abort(r)
  <2>1. Rollback(r) /\ pc[r] # "committed"
    BY <1>2 DEF Abort, InTx
  <2> QED BY <1>1, <2>1 DEF Rollback, Phases
<1>3. CASE \/ WritePool(r) \/ RemovePool(r) \/ LockPool(r)
           \/ LockUserPools(r) \/ SumOthers(r)
  BY <1>1, <1>3 DEF WritePool, RemovePool, LockPool, LockUserPools, SumOthers,
     Phases, InTx, tables
<1>4. CASE \/ FindEmptyPool(r) \/ Admit(r) \/ FindAllocation(r)
           \/ AdmitResize(r) \/ InsertAllocation(r) \/ DeleteAllocation(r)
           \/ UpdateAllocation(r)
  BY <1>1, <1>4 DEF FindEmptyPool, Admit, FindAllocation, AdmitResize,
     InsertAllocation, DeleteAllocation, UpdateAllocation, Phases, InTx, tables
<1>5. CASE \/ RefuseDelete(r) \/ PoolInUse(r) \/ PoolMissing(r)
           \/ Refuse(r) \/ AlreadyAllocated(r) \/ AlreadyReleased(r)
           \/ NoUserPool(r) \/ RefuseResize(r) \/ NoAllocation(r)
  <2>1. Rollback(r) /\ pc[r] # "committed"
    BY <1>5 DEF RefuseDelete, PoolInUse, PoolMissing, Refuse,
       AlreadyAllocated, AlreadyReleased, NoUserPool, RefuseResize,
       NoAllocation
  <2> QED BY <1>1, <2>1 DEF Rollback, Phases
<1> QED BY <1>2, <1>3, <1>4, <1>5 DEF Step, Writes

\* The commit of an update or a delete is one of AbstractPool: the row is
\* held since the statement that found it, and is still empty if it goes.
LEMMA PoolCommitMaps ==
  ASSUME Inv, NEW r \in Requests, CommitPool(r)
  PROVE  \E p \in Pools :
            Abstract!Delete(p) \/ \E s \in {c.size : c \in Calls} :
                Abstract!Update(p, s)
<1>1. Pool(r) \in Pools /\ call[r] \in Calls /\ Need(r) = call[r].size
  BY CallTypes DEF Inv, Need
<1>2. Holding(r) /\ LockedPool(r) = Pool(r)
  BY DEF CommitPool, Holding, LockedPool
<1>3. status[Pool(r)] = "live"
  BY <1>2 DEF Inv, RequestInv, Exclusive, Live
<1>4. CASE Op(r) = "update"
  <2>1. Abstract!Update(Pool(r), Need(r))
    BY <1>3, <1>4 DEF CommitPool, Abstract!Update
  <2> QED BY <1>1, <2>1
<1>5. CASE Op(r) = "delete"
  <2>1. ~HasAllocations(Pool(r))
    BY <1>5 DEF CommitPool, Inv, RequestInv, StillEmpty
  <2>2. Abstract!Delete(Pool(r))
    BY <1>3, <1>5, <2>1 DEF CommitPool, HasAllocations, Abstract!Delete
  <2> QED BY <1>1, <2>2
<1> QED BY <1>4, <1>5 DEF CommitPool

\* The commit of an allocation is one of AbstractPool: it fits and the VM has
\* none.
LEMMA AllocationCommitMaps ==
  ASSUME Inv, RowsHeld, NEW r \in Requests, CommitAllocation(r)
  PROVE  Abstract!Allocate(Vm(r), Pool(r), Need(r))
<1>1. Op(r) = "allocate" /\ pc[r] = "written"
  BY DEF CommitAllocation
<1>2. status[Pool(r)] = "live"
  BY <1>1 DEF Inv, RequestInv, Exclusive, Live, Holding, LockedPool
<1>3. home[Vm(r)] = NoPool
  BY <1>1 DEF RowsHeld, RowHeld
<1>4. ASSUME Private(Pool(r)), NEW d \in Dims
      PROVE  Abstract!Held(Vms, Pool(r), d) + Need(r)[d] <= total[Pool(r)][d]
  <2>1. Pool(r) \in Pools
    BY CallTypes DEF Inv
  <2>2. Used(Pool(r))[d] + Need(r)[d] <= total[Pool(r)][d]
    BY <1>1, <1>4, <2>1 DEF Inv, RequestInv, StillFits
  <2> QED BY <2>2, HeldIsUsed DEF Used
<1> QED BY <1>2, <1>3, <1>4 DEF CommitAllocation, Abstract!Allocate

\* The commit of a release is one of AbstractPool: the row is still there.
LEMMA ReleaseCommitMaps ==
  ASSUME RowsHeld, NEW r \in Requests, CommitRelease(r)
  PROVE  Abstract!Release(Vm(r))
<1>1. home[Vm(r)] # NoPool
  BY DEF RowsHeld, RowHeld, CommitRelease
<1> QED BY <1>1 DEF CommitRelease, Nothing, Abstract!Release

\* The commit of a resize is one of AbstractPool: the pool it locked and
\* checked is the one its VM is in, and the growth still fits.
LEMMA ResizeCommitMaps ==
  ASSUME Inv, RowsHeld, NEW r \in Requests, CommitResize(r)
  PROVE  Abstract!Resize(Vm(r), Need(r))
<1> DEFINE v == Vm(r)
           p == home[v]
<1>1. Op(r) = "resize" /\ pc[r] = "written"
  BY DEF CommitResize
<1>2. v \in Vms /\ p # NoPool /\ p \in Pools
  BY <1>1, CallTypes DEF RowsHeld, RowHeld, Inv, TypeOK
<1>3. ASSUME Private(p), NEW d \in ResizedDims
      PROVE  Abstract!Held(Vms \ {v}, p, d) + Need(r)[d] - size[v][d]
                <= total[p][d]
  <2>1. chosen[r] = p
    BY <1>1, <1>2, <1>3, ResizeHoldsHome DEF Holding, LockedPool
  <2>2. UsedBy(Vms \ {v}, p)[d] + Need(r)[d] - size[v][d] <= total[p][d]
    BY <1>1, <1>2, <1>3, <2>1 DEF Inv, RequestInv, StillGrows
  <2>3. d \in Dims
    BY CallsAssumption
  <2> QED BY <2>2, <2>3, HeldIsUsed
<1>4. size' = [size EXCEPT ![v] =
                 [d \in Dims |-> IF d \in ResizedDims THEN Need(r)[d]
                                 ELSE size[v][d]]]
  BY DEF CommitResize, Resized
<1> QED BY <1>2, <1>3, <1>4 DEF CommitResize, Abstract!Resize

\* Whatever calls overlap, wait or abort, callers may reason with AbstractPool:
\* every call is one step, and its checks hold on the tables of that step.
THEOREM PoolRefinement == Spec => ImplementsAbstractPool
<1> DEFINE Sizes == {c.size : c \in Calls}
<1>1. Init => Abstract!Init
  BY DEF Init, Nothing, Abstract!Init
<1>2. ASSUME Inv, RowsHeld, [Next]_vars
      PROVE  [Abstract!Next]_(Abstract!vars)
  <2>1. ASSUME NEW r \in Requests, Step(r) \/ Abort(r),
               Writes(r) \/ NothingToRelease(r)
        PROVE  Abstract!Next
    <3>1. r \notin Done /\ Done' = Done \cup {r}
      <4>1. Goto(r, "committed") /\ pc[r] # "committed"
        BY <2>1 DEF Writes, NothingToRelease, AnswerAtOnce, CreatePool,
           CommitPool, CommitAllocation, CommitRelease, CommitResize
      <4> QED BY <1>2, <4>1, DoneStep DEF Inv, Phases
    <3>2. Pool(r) \in Pools /\ Vm(r) \in Vms /\ Need(r) \in Sizes
      BY <1>2, CallTypes DEF Inv, Need
    <3>3. CASE CreatePool(r)
      <4>1. Abstract!Create(Pool(r), Need(r))
        BY <3>3 DEF CreatePool, Abstract!Create
      <4> QED BY <3>1, <3>2, <4>1 DEF Done, Abstract!Next, Abstract!Happen
    <3>4. CASE CommitPool(r)
      <4>1. \E p \in Pools : Abstract!Delete(p)
                \/ \E s \in Sizes : Abstract!Update(p, s)
        BY <1>2, <3>4, PoolCommitMaps
      <4> QED BY <3>1, <4>1 DEF Done, Abstract!Next, Abstract!Happen
    <3>5. CASE CommitAllocation(r)
      <4>1. Abstract!Allocate(Vm(r), Pool(r), Need(r))
        BY <1>2, <3>5, AllocationCommitMaps
      <4> QED BY <3>1, <3>2, <4>1 DEF Done, Abstract!Next, Abstract!Happen
    <3>6. CASE CommitRelease(r)
      <4>1. Abstract!Release(Vm(r))
        BY <1>2, <3>6, ReleaseCommitMaps
      <4> QED BY <3>1, <3>2, <4>1 DEF Done, Abstract!Next, Abstract!Happen
    <3>7. CASE CommitResize(r)
      <4>1. Abstract!Resize(Vm(r), Need(r))
        BY <1>2, <3>7, ResizeCommitMaps
      <4> QED BY <3>1, <3>2, <4>1 DEF Done, Abstract!Next, Abstract!Happen
    <3>8. CASE NothingToRelease(r)
      <4>1. Abstract!Nothing
        BY <3>8 DEF NothingToRelease, AnswerAtOnce, tables, Abstract!Nothing
      <4> QED BY <3>1, <4>1 DEF Done, Abstract!Next, Abstract!Happen
    <3> QED BY <2>1, <3>3, <3>4, <3>5, <3>6, <3>7, <3>8 DEF Writes
  <2>2. ASSUME UNCHANGED <<status, total, home, size>>, Done' = Done
        PROVE  UNCHANGED Abstract!vars
    BY <2>2 DEF Done, Abstract!vars
  <2>3. CASE UNCHANGED vars
    BY <2>2, <2>3 DEF vars, Done
  <2> QED BY <1>2, <2>1, <2>2, <2>3, StepDone DEF Next, Inv
<1> QED BY <1>1, <1>2, Invariance, RowsHeldInvariance, PTL
        DEF Spec, ImplementsAbstractPool, Abstract!Spec

HIDE NoneAssumption

-----------------------------------------------------------------------------
(* Purchases.                                                              *)

\* The call whose redemption or purchase is stored has come to its end.
StoredCallsEnded == \A c \in rows : stage[c] \in {"stored", "done"}

\* What a call has credited and debited, phase by phase, and why it failed.
PaidAt(c) ==
    /\ stage[c] \in {"new", "begun", "checked", "taken"} => got[c] = 0 /\ spent[c] = 0
    /\ stage[c] = "owing" =>
         /\ spent[c] = 0
         /\ IF KindOf(c) = "plan_coupon" THEN got[c] = Amount[Item(c)] ELSE got[c] = 0
    /\ stage[c] = "half" => KindOf(c) = "referral" /\ spent[c] = 0 /\ got[c] = offer[c].referrer
PaidSoFar == \A c \in Orders : PaidAt(c)

\* FailureHasCause of one call.
FailedAt(c) ==
    stage[c] = "failed" /\ got[c] + spent[c] > 0 =>
        \/ c \in faulty
        \/ KindOf(c) = "plan_coupon" /\ spent[c] = 0 /\ got[c] = Amount[Item(c)]
        \/ KindOf(c) = "referral" /\ got[c] = offer[c].referrer /\ offer[c].referee = 0
        \/ Item(c) \in deleted

\* The transaction that redeems a voucher holds its row from the conditional
\* update on: what it found is still true when it commits.
HeldAt(c) ==
    c \in open /\ KindOf(c) \in Vouchers /\ stage[c] \in {"taken", "owing", "paid"} =>
        /\ holder[Item(c)] = c
        /\ Limit[Item(c)] > 0 => uses[Item(c)] < Limit[Item(c)]
        /\ StoredBy(User(c), Item(c)) = {}
VoucherHeld == \A c \in Orders : HeldAt(c)

\* A call that has checked the limit of a code or a package is alone with it, and
\* still below it, unless checks overlapped.
Underway(c) == stage[c] \notin {"new", "done", "failed"}
BelowLimit(c) ==
    Limit[Item(c)] > 0 =>
        IF KindOf(c) = "referral" THEN uses[Item(c)] < Limit[Item(c)]
        ELSE Cardinality(StoredBy(User(c), Item(c))) < Limit[Item(c)]
AloneAt(c) ==
    KindOf(c) \in {"referral", "package"} /\ Item(c) \notin overlapped /\ Underway(c) =>
        /\ \A d \in Orders : Item(d) = Item(c) /\ Underway(d) => d = c
        /\ BelowLimit(c)
CheckedAlone == \A c \in Orders : AloneAt(c)

PurInv ==
    /\ PurTypeOK /\ StoredCallsEnded /\ PaidSoFar /\ FailureHasCause
    /\ VoucherHeld /\ CheckedAlone /\ LimitsHold

-----------------------------------------------------------------------------
\* A step keeps wallets and what calls credited and debited numbers.
LEMMA MoneyTypes ==
    ASSUME PurInv, PurNext
    PROVE  balance' \in [Users -> Nat] /\ got' \in [Orders -> Nat] /\ spent' \in [Orders -> Nat]
  <1>t. /\ balance \in [Users -> Nat] /\ uses \in [Items -> Nat]
        /\ rows \subseteq Orders /\ open \subseteq Orders /\ jobs \subseteq Orders
        /\ owner \in [Items -> Users \cup {None}]
        /\ closed \subseteq Items /\ deleted \subseteq Items
        /\ reward \in [referrer : Nat, referee : Nat]
        /\ ask \in [Orders -> Asks] /\ stage \in [Orders -> Stages]
        /\ offer \in [Orders -> [referrer : Nat, referee : Nat]]
        /\ got \in [Orders -> Nat] /\ spent \in [Orders -> Nat]
        /\ faulty \subseteq Orders /\ overlapped \subseteq Items /\ faults \in Nat
        /\ \A c \in Orders : Item(c) \in Items /\ User(c) \in Users
        /\ Amount \in [Items -> Nat] /\ Price \in [Items -> Nat]
    BY PurchasesAssumption DEF PurInv, PurTypeOK, Item, User
  <1>1. ASSUME NEW c \in Orders, BeginRedeem(c)
       PROVE  balance' \in [Users -> Nat] /\ got' \in [Orders -> Nat] /\ spent' \in [Orders -> Nat]
    BY <1>1, <1>t DEF BeginRedeem, items, process, history
  <1>2. ASSUME NEW c \in Orders, TakeVoucher(c)
       PROVE  balance' \in [Users -> Nat] /\ got' \in [Orders -> Nat] /\ spent' \in [Orders -> Nat]
    BY <1>2, <1>t DEF TakeVoucher, items, process, history
  <1>3. ASSUME NEW c \in Orders, CreditVoucher(c)
       PROVE  balance' \in [Users -> Nat] /\ got' \in [Orders -> Nat] /\ spent' \in [Orders -> Nat]
    <2>1. /\ balance' = [balance EXCEPT ![User(c)] = @ + Amount[Item(c)]]
          /\ got' = [got EXCEPT ![c] = @ + Amount[Item(c)]] /\ spent' = spent
      BY <1>3 DEF CreditVoucher, Credit
    <2>2. /\ Amount[Item(c)] \in Nat /\ User(c) \in Users
          /\ balance[User(c)] + Amount[Item(c)] \in Nat /\ got[c] + Amount[Item(c)] \in Nat
      BY <1>t
    <2>3. balance' \in [Users -> Nat]
      BY <2>1, <2>2, <1>t
    <2>4. got' \in [Orders -> Nat]
      BY <2>1, <2>2, <1>t
    <2> QED
      BY <2>1, <2>3, <2>4, <1>t
  <1>4. ASSUME NEW c \in Orders, RefuseVoucher(c)
       PROVE  balance' \in [Users -> Nat] /\ got' \in [Orders -> Nat] /\ spent' \in [Orders -> Nat]
    BY <1>4, <1>t DEF RefuseVoucher, items, process, history
  <1>5. ASSUME NEW c \in Orders, CheckReferral(c)
       PROVE  balance' \in [Users -> Nat] /\ got' \in [Orders -> Nat] /\ spent' \in [Orders -> Nat]
    BY <1>5, <1>t DEF CheckReferral, items, process, history
  <1>6. ASSUME NEW c \in Orders, BeginReferral(c)
       PROVE  balance' \in [Users -> Nat] /\ got' \in [Orders -> Nat] /\ spent' \in [Orders -> Nat]
    BY <1>6, <1>t DEF BeginReferral, items, process, history
  <1>7. ASSUME NEW c \in Orders, UseReferral(c)
       PROVE  balance' \in [Users -> Nat] /\ got' \in [Orders -> Nat] /\ spent' \in [Orders -> Nat]
    BY <1>7, <1>t DEF UseReferral, items, process, history
  <1>8. ASSUME NEW c \in Orders, CreditReferrer(c)
       PROVE  balance' \in [Users -> Nat] /\ got' \in [Orders -> Nat] /\ spent' \in [Orders -> Nat]
    <2>1. /\ balance' = [balance EXCEPT ![owner[Item(c)]] = @ + offer[c].referrer]
          /\ got' = [got EXCEPT ![c] = @ + offer[c].referrer] /\ spent' = spent
          /\ offer[c].referrer \in Nat
      BY <1>8, <1>t DEF CreditReferrer, Credit
    <2>2. /\ got[c] + offer[c].referrer \in Nat
          /\ \A u \in Users : balance[u] + offer[c].referrer \in Nat
      BY <2>1, <1>t
    <2>3. balance' \in [Users -> Nat]
      BY <2>1, <2>2, <1>t
    <2>4. got' \in [Orders -> Nat]
      BY <2>1, <2>2, <1>t
    <2> QED
      BY <2>1, <2>3, <2>4, <1>t
  <1>9. ASSUME NEW c \in Orders, CreditReferee(c)
       PROVE  balance' \in [Users -> Nat] /\ got' \in [Orders -> Nat] /\ spent' \in [Orders -> Nat]
    <2>1. /\ balance' = [balance EXCEPT ![User(c)] = @ + offer[c].referee]
          /\ got' = [got EXCEPT ![c] = @ + offer[c].referee] /\ spent' = spent
          /\ offer[c].referee \in Nat
      BY <1>9, <1>t DEF CreditReferee, Credit
    <2> QED
      BY <2>1, <1>t
  <1>10. ASSUME NEW c \in Orders, RefuseReferral(c)
       PROVE  balance' \in [Users -> Nat] /\ got' \in [Orders -> Nat] /\ spent' \in [Orders -> Nat]
    BY <1>10, <1>t DEF RefuseReferral, items, process, history
  <1>11. ASSUME NEW c \in Orders, CheckPurchase(c)
       PROVE  balance' \in [Users -> Nat] /\ got' \in [Orders -> Nat] /\ spent' \in [Orders -> Nat]
    BY <1>11, <1>t DEF CheckPurchase, items, process, history
  <1>12. ASSUME NEW c \in Orders, BeginPurchase(c)
       PROVE  balance' \in [Users -> Nat] /\ got' \in [Orders -> Nat] /\ spent' \in [Orders -> Nat]
    BY <1>12, <1>t DEF BeginPurchase, items, process, history
  <1>13. ASSUME NEW c \in Orders, BuyAddOn(c)
       PROVE  balance' \in [Users -> Nat] /\ got' \in [Orders -> Nat] /\ spent' \in [Orders -> Nat]
    BY <1>13, <1>t DEF BuyAddOn, items, process, history
  <1>14. ASSUME NEW c \in Orders, QueueAddOn(c)
       PROVE  balance' \in [Users -> Nat] /\ got' \in [Orders -> Nat] /\ spent' \in [Orders -> Nat]
    BY <1>14, <1>t DEF QueueAddOn, items, process, history
  <1>15. ASSUME NEW c \in Orders, Pay(c)
       PROVE  balance' \in [Users -> Nat] /\ got' \in [Orders -> Nat] /\ spent' \in [Orders -> Nat]
    <2>1. /\ balance' = [balance EXCEPT ![User(c)] = @ - Price[Item(c)]] /\ got' = got
          /\ spent' = [spent EXCEPT ![c] = @ + Price[Item(c)]]
          /\ Price[Item(c)] \in Nat /\ balance[User(c)] >= Price[Item(c)]
      BY <1>15, <1>t DEF Pay, Debit, CanDebit
    <2> QED
      BY <2>1, <1>t
  <1>16. ASSUME NEW c \in Orders, RefusePurchase(c)
       PROVE  balance' \in [Users -> Nat] /\ got' \in [Orders -> Nat] /\ spent' \in [Orders -> Nat]
    BY <1>16, <1>t DEF RefusePurchase, items, process, history
  <1>17. ASSUME NEW c \in Orders, Commit(c)
       PROVE  balance' \in [Users -> Nat] /\ got' \in [Orders -> Nat] /\ spent' \in [Orders -> Nat]
    BY <1>17, <1>t DEF Commit, items, process, history
  <1>18. ASSUME NEW c \in Orders, LosePackage(c)
       PROVE  balance' \in [Users -> Nat] /\ got' \in [Orders -> Nat] /\ spent' \in [Orders -> Nat]
    BY <1>18, <1>t DEF LosePackage, items, process, history
  <1>19. ASSUME NEW c \in Orders, GiveUp(c)
       PROVE  balance' \in [Users -> Nat] /\ got' \in [Orders -> Nat] /\ spent' \in [Orders -> Nat]
    BY <1>19, <1>t DEF GiveUp, items, process, history
  <1>20. ASSUME NEW c \in Orders, Timeout(c)
       PROVE  balance' \in [Users -> Nat] /\ got' \in [Orders -> Nat] /\ spent' \in [Orders -> Nat]
    BY <1>20, <1>t DEF Timeout, items, process, history
  <1>21. ASSUME NEW c \in Orders, NoticeRollback(c)
       PROVE  balance' \in [Users -> Nat] /\ got' \in [Orders -> Nat] /\ spent' \in [Orders -> Nat]
    BY <1>21, <1>t DEF NoticeRollback, items, process, history
  <1>22. ASSUME NEW i \in Wanted, Close(i)
       PROVE  balance' \in [Users -> Nat] /\ got' \in [Orders -> Nat] /\ spent' \in [Orders -> Nat]
    BY <1>22, <1>t DEF Close, items, process, history
  <1>23. ASSUME NEW i \in Wanted, DeletePackage(i)
       PROVE  balance' \in [Users -> Nat] /\ got' \in [Orders -> Nat] /\ spent' \in [Orders -> Nat]
    BY <1>23, <1>t DEF DeletePackage, items, process, history
  <1>24. ASSUME NEW u \in Users, NEW i \in Wanted, GenerateCode(u, i)
       PROVE  balance' \in [Users -> Nat] /\ got' \in [Orders -> Nat] /\ spent' \in [Orders -> Nat]
    BY <1>24, <1>t DEF GenerateCode, items, process, history
  <1>25. ASSUME NEW new \in Rewards, UpdateSettings(new)
       PROVE  balance' \in [Users -> Nat] /\ got' \in [Orders -> Nat] /\ spent' \in [Orders -> Nat]
    BY <1>25, <1>t DEF UpdateSettings, items, process, history
  <1> QED
    BY <1>1, <1>2, <1>3, <1>4, <1>5, <1>6, <1>7, <1>8, <1>9, <1>10, <1>11, <1>12, <1>13,
       <1>14, <1>15, <1>16, <1>17, <1>18, <1>19, <1>20, <1>21, <1>22, <1>23, <1>24, <1>25 DEF
       PurNext, PurStep

\* A step keeps the rows.
LEMMA RowTypes ==
    ASSUME PurInv, PurNext
    PROVE  /\ uses' \in [Items -> Nat] /\ owner' \in [Items -> Users \cup {None}]
           /\ rows' \subseteq Orders /\ open' \subseteq Orders /\ jobs' \subseteq Orders
           /\ closed' \subseteq Items /\ deleted' \subseteq Items
           /\ faulty' \subseteq Orders /\ overlapped' \subseteq Items /\ faults' \in Nat
  <1>t. /\ balance \in [Users -> Nat] /\ uses \in [Items -> Nat]
        /\ rows \subseteq Orders /\ open \subseteq Orders /\ jobs \subseteq Orders
        /\ owner \in [Items -> Users \cup {None}]
        /\ closed \subseteq Items /\ deleted \subseteq Items
        /\ reward \in [referrer : Nat, referee : Nat]
        /\ ask \in [Orders -> Asks] /\ stage \in [Orders -> Stages]
        /\ offer \in [Orders -> [referrer : Nat, referee : Nat]]
        /\ got \in [Orders -> Nat] /\ spent \in [Orders -> Nat]
        /\ faulty \subseteq Orders /\ overlapped \subseteq Items /\ faults \in Nat
        /\ \A c \in Orders : Item(c) \in Items /\ User(c) \in Users
        /\ Amount \in [Items -> Nat] /\ Price \in [Items -> Nat]
    BY PurchasesAssumption DEF PurInv, PurTypeOK, Item, User
  <1>51. Wanted \subseteq Items
    BY <1>t DEF Wanted, Item
  <1>1. ASSUME NEW c \in Orders, BeginRedeem(c)
       PROVE  /\ uses' \in [Items -> Nat] /\ owner' \in [Items -> Users \cup {None}]
           /\ rows' \subseteq Orders /\ open' \subseteq Orders /\ jobs' \subseteq Orders
           /\ closed' \subseteq Items /\ deleted' \subseteq Items
           /\ faulty' \subseteq Orders /\ overlapped' \subseteq Items /\ faults' \in Nat
    BY <1>1, <1>t DEF BeginRedeem, Begin, items, process, history
  <1>2. ASSUME NEW c \in Orders, TakeVoucher(c)
       PROVE  /\ uses' \in [Items -> Nat] /\ owner' \in [Items -> Users \cup {None}]
           /\ rows' \subseteq Orders /\ open' \subseteq Orders /\ jobs' \subseteq Orders
           /\ closed' \subseteq Items /\ deleted' \subseteq Items
           /\ faulty' \subseteq Orders /\ overlapped' \subseteq Items /\ faults' \in Nat
    BY <1>2, <1>t DEF TakeVoucher, items, process, history
  <1>3. ASSUME NEW c \in Orders, CreditVoucher(c)
       PROVE  /\ uses' \in [Items -> Nat] /\ owner' \in [Items -> Users \cup {None}]
           /\ rows' \subseteq Orders /\ open' \subseteq Orders /\ jobs' \subseteq Orders
           /\ closed' \subseteq Items /\ deleted' \subseteq Items
           /\ faulty' \subseteq Orders /\ overlapped' \subseteq Items /\ faults' \in Nat
    BY <1>3, <1>t DEF CreditVoucher, items, process, history
  <1>4. ASSUME NEW c \in Orders, RefuseVoucher(c)
       PROVE  /\ uses' \in [Items -> Nat] /\ owner' \in [Items -> Users \cup {None}]
           /\ rows' \subseteq Orders /\ open' \subseteq Orders /\ jobs' \subseteq Orders
           /\ closed' \subseteq Items /\ deleted' \subseteq Items
           /\ faulty' \subseteq Orders /\ overlapped' \subseteq Items /\ faults' \in Nat
    BY <1>4, <1>t DEF RefuseVoucher, Fail, End, items, process, history
  <1>5. ASSUME NEW c \in Orders, CheckReferral(c)
       PROVE  /\ uses' \in [Items -> Nat] /\ owner' \in [Items -> Users \cup {None}]
           /\ rows' \subseteq Orders /\ open' \subseteq Orders /\ jobs' \subseteq Orders
           /\ closed' \subseteq Items /\ deleted' \subseteq Items
           /\ faulty' \subseteq Orders /\ overlapped' \subseteq Items /\ faults' \in Nat
    BY <1>5, <1>t DEF CheckReferral, Overlap, items, process, history
  <1>6. ASSUME NEW c \in Orders, BeginReferral(c)
       PROVE  /\ uses' \in [Items -> Nat] /\ owner' \in [Items -> Users \cup {None}]
           /\ rows' \subseteq Orders /\ open' \subseteq Orders /\ jobs' \subseteq Orders
           /\ closed' \subseteq Items /\ deleted' \subseteq Items
           /\ faulty' \subseteq Orders /\ overlapped' \subseteq Items /\ faults' \in Nat
    BY <1>6, <1>t DEF BeginReferral, Begin, items, process, history
  <1>7. ASSUME NEW c \in Orders, UseReferral(c)
       PROVE  /\ uses' \in [Items -> Nat] /\ owner' \in [Items -> Users \cup {None}]
           /\ rows' \subseteq Orders /\ open' \subseteq Orders /\ jobs' \subseteq Orders
           /\ closed' \subseteq Items /\ deleted' \subseteq Items
           /\ faulty' \subseteq Orders /\ overlapped' \subseteq Items /\ faults' \in Nat
    BY <1>7, <1>t DEF UseReferral, items, process, history
  <1>8. ASSUME NEW c \in Orders, CreditReferrer(c)
       PROVE  /\ uses' \in [Items -> Nat] /\ owner' \in [Items -> Users \cup {None}]
           /\ rows' \subseteq Orders /\ open' \subseteq Orders /\ jobs' \subseteq Orders
           /\ closed' \subseteq Items /\ deleted' \subseteq Items
           /\ faulty' \subseteq Orders /\ overlapped' \subseteq Items /\ faults' \in Nat
    BY <1>8, <1>t DEF CreditReferrer, items, process, history
  <1>9. ASSUME NEW c \in Orders, CreditReferee(c)
       PROVE  /\ uses' \in [Items -> Nat] /\ owner' \in [Items -> Users \cup {None}]
           /\ rows' \subseteq Orders /\ open' \subseteq Orders /\ jobs' \subseteq Orders
           /\ closed' \subseteq Items /\ deleted' \subseteq Items
           /\ faulty' \subseteq Orders /\ overlapped' \subseteq Items /\ faults' \in Nat
    BY <1>9, <1>t DEF CreditReferee, items, process, history
  <1>10. ASSUME NEW c \in Orders, RefuseReferral(c)
       PROVE  /\ uses' \in [Items -> Nat] /\ owner' \in [Items -> Users \cup {None}]
           /\ rows' \subseteq Orders /\ open' \subseteq Orders /\ jobs' \subseteq Orders
           /\ closed' \subseteq Items /\ deleted' \subseteq Items
           /\ faulty' \subseteq Orders /\ overlapped' \subseteq Items /\ faults' \in Nat
    BY <1>10, <1>t DEF RefuseReferral, Fail, End, items, process, history
  <1>11. ASSUME NEW c \in Orders, CheckPurchase(c)
       PROVE  /\ uses' \in [Items -> Nat] /\ owner' \in [Items -> Users \cup {None}]
           /\ rows' \subseteq Orders /\ open' \subseteq Orders /\ jobs' \subseteq Orders
           /\ closed' \subseteq Items /\ deleted' \subseteq Items
           /\ faulty' \subseteq Orders /\ overlapped' \subseteq Items /\ faults' \in Nat
    BY <1>11, <1>t DEF CheckPurchase, Overlap, items, process, history
  <1>12. ASSUME NEW c \in Orders, BeginPurchase(c)
       PROVE  /\ uses' \in [Items -> Nat] /\ owner' \in [Items -> Users \cup {None}]
           /\ rows' \subseteq Orders /\ open' \subseteq Orders /\ jobs' \subseteq Orders
           /\ closed' \subseteq Items /\ deleted' \subseteq Items
           /\ faulty' \subseteq Orders /\ overlapped' \subseteq Items /\ faults' \in Nat
    BY <1>12, <1>t DEF BeginPurchase, Begin, items, process, history
  <1>13. ASSUME NEW c \in Orders, BuyAddOn(c)
       PROVE  /\ uses' \in [Items -> Nat] /\ owner' \in [Items -> Users \cup {None}]
           /\ rows' \subseteq Orders /\ open' \subseteq Orders /\ jobs' \subseteq Orders
           /\ closed' \subseteq Items /\ deleted' \subseteq Items
           /\ faulty' \subseteq Orders /\ overlapped' \subseteq Items /\ faults' \in Nat
    BY <1>13, <1>t DEF BuyAddOn, items, process, history
  <1>14. ASSUME NEW c \in Orders, QueueAddOn(c)
       PROVE  /\ uses' \in [Items -> Nat] /\ owner' \in [Items -> Users \cup {None}]
           /\ rows' \subseteq Orders /\ open' \subseteq Orders /\ jobs' \subseteq Orders
           /\ closed' \subseteq Items /\ deleted' \subseteq Items
           /\ faulty' \subseteq Orders /\ overlapped' \subseteq Items /\ faults' \in Nat
    BY <1>14, <1>t DEF QueueAddOn, items, process, history
  <1>15. ASSUME NEW c \in Orders, Pay(c)
       PROVE  /\ uses' \in [Items -> Nat] /\ owner' \in [Items -> Users \cup {None}]
           /\ rows' \subseteq Orders /\ open' \subseteq Orders /\ jobs' \subseteq Orders
           /\ closed' \subseteq Items /\ deleted' \subseteq Items
           /\ faulty' \subseteq Orders /\ overlapped' \subseteq Items /\ faults' \in Nat
    BY <1>15, <1>t DEF Pay, items, process, history
  <1>16. ASSUME NEW c \in Orders, RefusePurchase(c)
       PROVE  /\ uses' \in [Items -> Nat] /\ owner' \in [Items -> Users \cup {None}]
           /\ rows' \subseteq Orders /\ open' \subseteq Orders /\ jobs' \subseteq Orders
           /\ closed' \subseteq Items /\ deleted' \subseteq Items
           /\ faulty' \subseteq Orders /\ overlapped' \subseteq Items /\ faults' \in Nat
    BY <1>16, <1>t DEF RefusePurchase, Fail, End, items, process, history
  <1>17. ASSUME NEW c \in Orders, Commit(c)
       PROVE  /\ uses' \in [Items -> Nat] /\ owner' \in [Items -> Users \cup {None}]
           /\ rows' \subseteq Orders /\ open' \subseteq Orders /\ jobs' \subseteq Orders
           /\ closed' \subseteq Items /\ deleted' \subseteq Items
           /\ faulty' \subseteq Orders /\ overlapped' \subseteq Items /\ faults' \in Nat
    BY <1>17, <1>t DEF Commit, End, items, process, history
  <1>18. ASSUME NEW c \in Orders, LosePackage(c)
       PROVE  /\ uses' \in [Items -> Nat] /\ owner' \in [Items -> Users \cup {None}]
           /\ rows' \subseteq Orders /\ open' \subseteq Orders /\ jobs' \subseteq Orders
           /\ closed' \subseteq Items /\ deleted' \subseteq Items
           /\ faulty' \subseteq Orders /\ overlapped' \subseteq Items /\ faults' \in Nat
    BY <1>18, <1>t DEF LosePackage, Fail, End, items, process, history
  <1>19. ASSUME NEW c \in Orders, GiveUp(c)
       PROVE  /\ uses' \in [Items -> Nat] /\ owner' \in [Items -> Users \cup {None}]
           /\ rows' \subseteq Orders /\ open' \subseteq Orders /\ jobs' \subseteq Orders
           /\ closed' \subseteq Items /\ deleted' \subseteq Items
           /\ faulty' \subseteq Orders /\ overlapped' \subseteq Items /\ faults' \in Nat
    BY <1>19, <1>t DEF GiveUp, Fail, End, items, process, history
  <1>20. ASSUME NEW c \in Orders, Timeout(c)
       PROVE  /\ uses' \in [Items -> Nat] /\ owner' \in [Items -> Users \cup {None}]
           /\ rows' \subseteq Orders /\ open' \subseteq Orders /\ jobs' \subseteq Orders
           /\ closed' \subseteq Items /\ deleted' \subseteq Items
           /\ faulty' \subseteq Orders /\ overlapped' \subseteq Items /\ faults' \in Nat
    BY <1>20, <1>t DEF Timeout, End, items, process, history
  <1>21. ASSUME NEW c \in Orders, NoticeRollback(c)
       PROVE  /\ uses' \in [Items -> Nat] /\ owner' \in [Items -> Users \cup {None}]
           /\ rows' \subseteq Orders /\ open' \subseteq Orders /\ jobs' \subseteq Orders
           /\ closed' \subseteq Items /\ deleted' \subseteq Items
           /\ faulty' \subseteq Orders /\ overlapped' \subseteq Items /\ faults' \in Nat
    BY <1>21, <1>t DEF NoticeRollback, Fail, End, items, process, history
  <1>22. ASSUME NEW i \in Wanted, Close(i)
       PROVE  /\ uses' \in [Items -> Nat] /\ owner' \in [Items -> Users \cup {None}]
           /\ rows' \subseteq Orders /\ open' \subseteq Orders /\ jobs' \subseteq Orders
           /\ closed' \subseteq Items /\ deleted' \subseteq Items
           /\ faulty' \subseteq Orders /\ overlapped' \subseteq Items /\ faults' \in Nat
    <2>1. i \in Items
      BY <1>22, <1>51
    <2>2. /\ closed' \in {closed, closed \cup {i}} /\ deleted' \in {deleted, deleted \cup {i}}
          /\ uses' = uses /\ owner' = owner /\ rows' = rows /\ open' = open /\ jobs' = jobs
          /\ faulty' = faulty /\ overlapped' = overlapped /\ faults' = faults
      BY <1>22 DEF Close, process, history
    <2> QED
      BY <2>1, <2>2, <1>t
  <1>23. ASSUME NEW i \in Wanted, DeletePackage(i)
       PROVE  /\ uses' \in [Items -> Nat] /\ owner' \in [Items -> Users \cup {None}]
           /\ rows' \subseteq Orders /\ open' \subseteq Orders /\ jobs' \subseteq Orders
           /\ closed' \subseteq Items /\ deleted' \subseteq Items
           /\ faulty' \subseteq Orders /\ overlapped' \subseteq Items /\ faults' \in Nat
    <2>1. i \in Items
      BY <1>23, <1>51
    <2>2. /\ closed' \in {closed, closed \cup {i}} /\ deleted' \in {deleted, deleted \cup {i}}
          /\ uses' = uses /\ owner' = owner /\ rows' = rows /\ open' = open /\ jobs' = jobs
          /\ faulty' = faulty /\ overlapped' = overlapped /\ faults' = faults
      BY <1>23 DEF DeletePackage, process, history
    <2> QED
      BY <2>1, <2>2, <1>t
  <1>24. ASSUME NEW u \in Users, NEW i \in Wanted, GenerateCode(u, i)
       PROVE  /\ uses' \in [Items -> Nat] /\ owner' \in [Items -> Users \cup {None}]
           /\ rows' \subseteq Orders /\ open' \subseteq Orders /\ jobs' \subseteq Orders
           /\ closed' \subseteq Items /\ deleted' \subseteq Items
           /\ faulty' \subseteq Orders /\ overlapped' \subseteq Items /\ faults' \in Nat
    BY <1>24, <1>t DEF GenerateCode, items, process, history
  <1>25. ASSUME NEW new \in Rewards, UpdateSettings(new)
       PROVE  /\ uses' \in [Items -> Nat] /\ owner' \in [Items -> Users \cup {None}]
           /\ rows' \subseteq Orders /\ open' \subseteq Orders /\ jobs' \subseteq Orders
           /\ closed' \subseteq Items /\ deleted' \subseteq Items
           /\ faulty' \subseteq Orders /\ overlapped' \subseteq Items /\ faults' \in Nat
    BY <1>25, <1>t DEF UpdateSettings, items, process, history
  <1> QED
    BY <1>1, <1>2, <1>3, <1>4, <1>5, <1>6, <1>7, <1>8, <1>9, <1>10, <1>11, <1>12, <1>13,
       <1>14, <1>15, <1>16, <1>17, <1>18, <1>19, <1>20, <1>21, <1>22, <1>23, <1>24, <1>25 DEF
       PurNext, PurStep

\* A step keeps the locals of calls.
LEMMA LocalTypes ==
    ASSUME PurInv, PurNext
    PROVE  /\ ask' = ask /\ stage' \in [Orders -> Stages]
           /\ offer' \in [Orders -> [referrer : Nat, referee : Nat]]
  <1>t. /\ balance \in [Users -> Nat] /\ uses \in [Items -> Nat]
        /\ rows \subseteq Orders /\ open \subseteq Orders /\ jobs \subseteq Orders
        /\ owner \in [Items -> Users \cup {None}]
        /\ closed \subseteq Items /\ deleted \subseteq Items
        /\ reward \in [referrer : Nat, referee : Nat]
        /\ ask \in [Orders -> Asks] /\ stage \in [Orders -> Stages]
        /\ offer \in [Orders -> [referrer : Nat, referee : Nat]]
        /\ got \in [Orders -> Nat] /\ spent \in [Orders -> Nat]
        /\ faulty \subseteq Orders /\ overlapped \subseteq Items /\ faults \in Nat
        /\ \A c \in Orders : Item(c) \in Items /\ User(c) \in Users
        /\ Amount \in [Items -> Nat] /\ Price \in [Items -> Nat]
    BY PurchasesAssumption DEF PurInv, PurTypeOK, Item, User
  <1>1. ASSUME NEW c \in Orders, BeginRedeem(c)
       PROVE  /\ ask' = ask /\ stage' \in [Orders -> Stages]
           /\ offer' \in [Orders -> [referrer : Nat, referee : Nat]]
    BY <1>1, <1>t DEF BeginRedeem, Reach, items, process, history, Stages
  <1>2. ASSUME NEW c \in Orders, TakeVoucher(c)
       PROVE  /\ ask' = ask /\ stage' \in [Orders -> Stages]
           /\ offer' \in [Orders -> [referrer : Nat, referee : Nat]]
    BY <1>2, <1>t DEF TakeVoucher, Reach, items, process, history, Stages
  <1>3. ASSUME NEW c \in Orders, CreditVoucher(c)
       PROVE  /\ ask' = ask /\ stage' \in [Orders -> Stages]
           /\ offer' \in [Orders -> [referrer : Nat, referee : Nat]]
    BY <1>3, <1>t DEF CreditVoucher, Reach, items, process, history, Stages
  <1>4. ASSUME NEW c \in Orders, RefuseVoucher(c)
       PROVE  /\ ask' = ask /\ stage' \in [Orders -> Stages]
           /\ offer' \in [Orders -> [referrer : Nat, referee : Nat]]
    BY <1>4, <1>t DEF RefuseVoucher, Reach, Fail, items, process, history, Stages
  <1>5. ASSUME NEW c \in Orders, CheckReferral(c)
       PROVE  /\ ask' = ask /\ stage' \in [Orders -> Stages]
           /\ offer' \in [Orders -> [referrer : Nat, referee : Nat]]
    BY <1>5, <1>t DEF CheckReferral, Reach, items, process, history, Stages
  <1>6. ASSUME NEW c \in Orders, BeginReferral(c)
       PROVE  /\ ask' = ask /\ stage' \in [Orders -> Stages]
           /\ offer' \in [Orders -> [referrer : Nat, referee : Nat]]
    BY <1>6, <1>t DEF BeginReferral, Reach, items, process, history, Stages
  <1>7. ASSUME NEW c \in Orders, UseReferral(c)
       PROVE  /\ ask' = ask /\ stage' \in [Orders -> Stages]
           /\ offer' \in [Orders -> [referrer : Nat, referee : Nat]]
    BY <1>7, <1>t DEF UseReferral, Reach, items, process, history, Stages
  <1>8. ASSUME NEW c \in Orders, CreditReferrer(c)
       PROVE  /\ ask' = ask /\ stage' \in [Orders -> Stages]
           /\ offer' \in [Orders -> [referrer : Nat, referee : Nat]]
    BY <1>8, <1>t DEF CreditReferrer, Reach, items, process, history, Stages
  <1>9. ASSUME NEW c \in Orders, CreditReferee(c)
       PROVE  /\ ask' = ask /\ stage' \in [Orders -> Stages]
           /\ offer' \in [Orders -> [referrer : Nat, referee : Nat]]
    BY <1>9, <1>t DEF CreditReferee, Reach, items, process, history, Stages
  <1>10. ASSUME NEW c \in Orders, RefuseReferral(c)
       PROVE  /\ ask' = ask /\ stage' \in [Orders -> Stages]
           /\ offer' \in [Orders -> [referrer : Nat, referee : Nat]]
    BY <1>10, <1>t DEF RefuseReferral, Reach, Fail, items, process, history, Stages
  <1>11. ASSUME NEW c \in Orders, CheckPurchase(c)
       PROVE  /\ ask' = ask /\ stage' \in [Orders -> Stages]
           /\ offer' \in [Orders -> [referrer : Nat, referee : Nat]]
    BY <1>11, <1>t DEF CheckPurchase, Reach, items, process, history, Stages
  <1>12. ASSUME NEW c \in Orders, BeginPurchase(c)
       PROVE  /\ ask' = ask /\ stage' \in [Orders -> Stages]
           /\ offer' \in [Orders -> [referrer : Nat, referee : Nat]]
    BY <1>12, <1>t DEF BeginPurchase, Reach, items, process, history, Stages
  <1>13. ASSUME NEW c \in Orders, BuyAddOn(c)
       PROVE  /\ ask' = ask /\ stage' \in [Orders -> Stages]
           /\ offer' \in [Orders -> [referrer : Nat, referee : Nat]]
    BY <1>13, <1>t DEF BuyAddOn, Reach, items, process, history, Stages
  <1>14. ASSUME NEW c \in Orders, QueueAddOn(c)
       PROVE  /\ ask' = ask /\ stage' \in [Orders -> Stages]
           /\ offer' \in [Orders -> [referrer : Nat, referee : Nat]]
    BY <1>14, <1>t DEF QueueAddOn, Reach, items, process, history, Stages
  <1>15. ASSUME NEW c \in Orders, Pay(c)
       PROVE  /\ ask' = ask /\ stage' \in [Orders -> Stages]
           /\ offer' \in [Orders -> [referrer : Nat, referee : Nat]]
    BY <1>15, <1>t DEF Pay, Reach, items, process, history, Stages
  <1>16. ASSUME NEW c \in Orders, RefusePurchase(c)
       PROVE  /\ ask' = ask /\ stage' \in [Orders -> Stages]
           /\ offer' \in [Orders -> [referrer : Nat, referee : Nat]]
    BY <1>16, <1>t DEF RefusePurchase, Reach, Fail, items, process, history, Stages
  <1>17. ASSUME NEW c \in Orders, Commit(c)
       PROVE  /\ ask' = ask /\ stage' \in [Orders -> Stages]
           /\ offer' \in [Orders -> [referrer : Nat, referee : Nat]]
    BY <1>17, <1>t DEF Commit, Reach, items, process, history, Stages
  <1>18. ASSUME NEW c \in Orders, LosePackage(c)
       PROVE  /\ ask' = ask /\ stage' \in [Orders -> Stages]
           /\ offer' \in [Orders -> [referrer : Nat, referee : Nat]]
    BY <1>18, <1>t DEF LosePackage, Reach, Fail, items, process, history, Stages
  <1>19. ASSUME NEW c \in Orders, GiveUp(c)
       PROVE  /\ ask' = ask /\ stage' \in [Orders -> Stages]
           /\ offer' \in [Orders -> [referrer : Nat, referee : Nat]]
    BY <1>19, <1>t DEF GiveUp, Reach, Fail, items, process, history, Stages
  <1>20. ASSUME NEW c \in Orders, Timeout(c)
       PROVE  /\ ask' = ask /\ stage' \in [Orders -> Stages]
           /\ offer' \in [Orders -> [referrer : Nat, referee : Nat]]
    BY <1>20, <1>t DEF Timeout, items, process, history, Stages
  <1>21. ASSUME NEW c \in Orders, NoticeRollback(c)
       PROVE  /\ ask' = ask /\ stage' \in [Orders -> Stages]
           /\ offer' \in [Orders -> [referrer : Nat, referee : Nat]]
    BY <1>21, <1>t DEF NoticeRollback, Reach, Fail, items, process, history, Stages
  <1>22. ASSUME NEW i \in Wanted, Close(i)
       PROVE  /\ ask' = ask /\ stage' \in [Orders -> Stages]
           /\ offer' \in [Orders -> [referrer : Nat, referee : Nat]]
    BY <1>22, <1>t DEF Close, items, process, history, Stages
  <1>23. ASSUME NEW i \in Wanted, DeletePackage(i)
       PROVE  /\ ask' = ask /\ stage' \in [Orders -> Stages]
           /\ offer' \in [Orders -> [referrer : Nat, referee : Nat]]
    BY <1>23, <1>t DEF DeletePackage, items, process, history, Stages
  <1>24. ASSUME NEW u \in Users, NEW i \in Wanted, GenerateCode(u, i)
       PROVE  /\ ask' = ask /\ stage' \in [Orders -> Stages]
           /\ offer' \in [Orders -> [referrer : Nat, referee : Nat]]
    BY <1>24, <1>t DEF GenerateCode, items, process, history, Stages
  <1>25. ASSUME NEW new \in Rewards, UpdateSettings(new)
       PROVE  /\ ask' = ask /\ stage' \in [Orders -> Stages]
           /\ offer' \in [Orders -> [referrer : Nat, referee : Nat]]
    BY <1>25, <1>t DEF UpdateSettings, items, process, history, Stages
  <1> QED
    BY <1>1, <1>2, <1>3, <1>4, <1>5, <1>6, <1>7, <1>8, <1>9, <1>10, <1>11, <1>12, <1>13,
       <1>14, <1>15, <1>16, <1>17, <1>18, <1>19, <1>20, <1>21, <1>22, <1>23, <1>24, <1>25 DEF
       PurNext, PurStep

\* A step keeps the settings of rewards.
LEMMA RewardTypes ==
    ASSUME PurInv, PurNext
    PROVE  reward' \in [referrer : Nat, referee : Nat]
  <1>t. /\ balance \in [Users -> Nat] /\ uses \in [Items -> Nat]
        /\ rows \subseteq Orders /\ open \subseteq Orders /\ jobs \subseteq Orders
        /\ owner \in [Items -> Users \cup {None}]
        /\ closed \subseteq Items /\ deleted \subseteq Items
        /\ reward \in [referrer : Nat, referee : Nat]
        /\ ask \in [Orders -> Asks] /\ stage \in [Orders -> Stages]
        /\ offer \in [Orders -> [referrer : Nat, referee : Nat]]
        /\ got \in [Orders -> Nat] /\ spent \in [Orders -> Nat]
        /\ faulty \subseteq Orders /\ overlapped \subseteq Items /\ faults \in Nat
        /\ \A c \in Orders : Item(c) \in Items /\ User(c) \in Users
        /\ Amount \in [Items -> Nat] /\ Price \in [Items -> Nat]
    BY PurchasesAssumption DEF PurInv, PurTypeOK, Item, User
  <1>1. ASSUME NEW c \in Orders, BeginRedeem(c)
       PROVE  reward' \in [referrer : Nat, referee : Nat]
    BY <1>1, <1>t DEF BeginRedeem, items, process, history
  <1>2. ASSUME NEW c \in Orders, TakeVoucher(c)
       PROVE  reward' \in [referrer : Nat, referee : Nat]
    BY <1>2, <1>t DEF TakeVoucher, items, process, history
  <1>3. ASSUME NEW c \in Orders, CreditVoucher(c)
       PROVE  reward' \in [referrer : Nat, referee : Nat]
    BY <1>3, <1>t DEF CreditVoucher, items, process, history
  <1>4. ASSUME NEW c \in Orders, RefuseVoucher(c)
       PROVE  reward' \in [referrer : Nat, referee : Nat]
    BY <1>4, <1>t DEF RefuseVoucher, items, process, history
  <1>5. ASSUME NEW c \in Orders, CheckReferral(c)
       PROVE  reward' \in [referrer : Nat, referee : Nat]
    BY <1>5, <1>t DEF CheckReferral, items, process, history
  <1>6. ASSUME NEW c \in Orders, BeginReferral(c)
       PROVE  reward' \in [referrer : Nat, referee : Nat]
    BY <1>6, <1>t DEF BeginReferral, items, process, history
  <1>7. ASSUME NEW c \in Orders, UseReferral(c)
       PROVE  reward' \in [referrer : Nat, referee : Nat]
    BY <1>7, <1>t DEF UseReferral, items, process, history
  <1>8. ASSUME NEW c \in Orders, CreditReferrer(c)
       PROVE  reward' \in [referrer : Nat, referee : Nat]
    BY <1>8, <1>t DEF CreditReferrer, items, process, history
  <1>9. ASSUME NEW c \in Orders, CreditReferee(c)
       PROVE  reward' \in [referrer : Nat, referee : Nat]
    BY <1>9, <1>t DEF CreditReferee, items, process, history
  <1>10. ASSUME NEW c \in Orders, RefuseReferral(c)
       PROVE  reward' \in [referrer : Nat, referee : Nat]
    BY <1>10, <1>t DEF RefuseReferral, items, process, history
  <1>11. ASSUME NEW c \in Orders, CheckPurchase(c)
       PROVE  reward' \in [referrer : Nat, referee : Nat]
    BY <1>11, <1>t DEF CheckPurchase, items, process, history
  <1>12. ASSUME NEW c \in Orders, BeginPurchase(c)
       PROVE  reward' \in [referrer : Nat, referee : Nat]
    BY <1>12, <1>t DEF BeginPurchase, items, process, history
  <1>13. ASSUME NEW c \in Orders, BuyAddOn(c)
       PROVE  reward' \in [referrer : Nat, referee : Nat]
    BY <1>13, <1>t DEF BuyAddOn, items, process, history
  <1>14. ASSUME NEW c \in Orders, QueueAddOn(c)
       PROVE  reward' \in [referrer : Nat, referee : Nat]
    BY <1>14, <1>t DEF QueueAddOn, items, process, history
  <1>15. ASSUME NEW c \in Orders, Pay(c)
       PROVE  reward' \in [referrer : Nat, referee : Nat]
    BY <1>15, <1>t DEF Pay, items, process, history
  <1>16. ASSUME NEW c \in Orders, RefusePurchase(c)
       PROVE  reward' \in [referrer : Nat, referee : Nat]
    BY <1>16, <1>t DEF RefusePurchase, items, process, history
  <1>17. ASSUME NEW c \in Orders, Commit(c)
       PROVE  reward' \in [referrer : Nat, referee : Nat]
    BY <1>17, <1>t DEF Commit, items, process, history
  <1>18. ASSUME NEW c \in Orders, LosePackage(c)
       PROVE  reward' \in [referrer : Nat, referee : Nat]
    BY <1>18, <1>t DEF LosePackage, items, process, history
  <1>19. ASSUME NEW c \in Orders, GiveUp(c)
       PROVE  reward' \in [referrer : Nat, referee : Nat]
    BY <1>19, <1>t DEF GiveUp, items, process, history
  <1>20. ASSUME NEW c \in Orders, Timeout(c)
       PROVE  reward' \in [referrer : Nat, referee : Nat]
    BY <1>20, <1>t DEF Timeout, items, process, history
  <1>21. ASSUME NEW c \in Orders, NoticeRollback(c)
       PROVE  reward' \in [referrer : Nat, referee : Nat]
    BY <1>21, <1>t DEF NoticeRollback, items, process, history
  <1>22. ASSUME NEW i \in Wanted, Close(i)
       PROVE  reward' \in [referrer : Nat, referee : Nat]
    BY <1>22, <1>t DEF Close, items, process, history
  <1>23. ASSUME NEW i \in Wanted, DeletePackage(i)
       PROVE  reward' \in [referrer : Nat, referee : Nat]
    BY <1>23, <1>t DEF DeletePackage, items, process, history
  <1>24. ASSUME NEW u \in Users, NEW i \in Wanted, GenerateCode(u, i)
       PROVE  reward' \in [referrer : Nat, referee : Nat]
    BY <1>24, <1>t DEF GenerateCode, items, process, history
  <1>25. ASSUME NEW new \in Rewards, UpdateSettings(new)
       PROVE  reward' \in [referrer : Nat, referee : Nat]
    <2>1. new \in [referrer : Nat, referee : Nat]
      BY PurchasesAssumption
    <2> QED
      BY <1>25, <2>1, <1>t DEF UpdateSettings
  <1> QED
    BY <1>1, <1>2, <1>3, <1>4, <1>5, <1>6, <1>7, <1>8, <1>9, <1>10, <1>11, <1>12, <1>13,
       <1>14, <1>15, <1>16, <1>17, <1>18, <1>19, <1>20, <1>21, <1>22, <1>23, <1>24, <1>25 DEF
       PurNext, PurStep

\* A step keeps the row locks.
LEMMA LockTypes ==
    ASSUME PurInv, PurNext
    PROVE  holder' \in [Items \cup Users -> Orders \cup {None}]
  <1>t. /\ balance \in [Users -> Nat] /\ uses \in [Items -> Nat]
        /\ rows \subseteq Orders /\ open \subseteq Orders /\ jobs \subseteq Orders
        /\ owner \in [Items -> Users \cup {None}]
        /\ closed \subseteq Items /\ deleted \subseteq Items
        /\ reward \in [referrer : Nat, referee : Nat]
        /\ ask \in [Orders -> Asks] /\ stage \in [Orders -> Stages]
        /\ offer \in [Orders -> [referrer : Nat, referee : Nat]]
        /\ got \in [Orders -> Nat] /\ spent \in [Orders -> Nat]
        /\ faulty \subseteq Orders /\ overlapped \subseteq Items /\ faults \in Nat
        /\ \A c \in Orders : Item(c) \in Items /\ User(c) \in Users
        /\ Amount \in [Items -> Nat] /\ Price \in [Items -> Nat]
    BY PurchasesAssumption DEF PurInv, PurTypeOK, Item, User
  <1>51. holder \in [Items \cup Users -> Orders \cup {None}]
    BY DEF PurInv, PurTypeOK
  <1>1. ASSUME NEW c \in Orders, BeginRedeem(c)
       PROVE  holder' \in [Items \cup Users -> Orders \cup {None}]
    BY <1>1, <1>t, <1>51 DEF BeginRedeem, items, process, history
  <1>2. ASSUME NEW c \in Orders, TakeVoucher(c)
       PROVE  holder' \in [Items \cup Users -> Orders \cup {None}]
    BY <1>2, <1>t, <1>51 DEF TakeVoucher, items, process, history
  <1>3. ASSUME NEW c \in Orders, CreditVoucher(c)
       PROVE  holder' \in [Items \cup Users -> Orders \cup {None}]
    BY <1>3, <1>t, <1>51 DEF CreditVoucher, items, process, history
  <1>4. ASSUME NEW c \in Orders, RefuseVoucher(c)
       PROVE  holder' \in [Items \cup Users -> Orders \cup {None}]
    BY <1>4, <1>t, <1>51 DEF RefuseVoucher, Fail, End, items, process, history
  <1>5. ASSUME NEW c \in Orders, CheckReferral(c)
       PROVE  holder' \in [Items \cup Users -> Orders \cup {None}]
    BY <1>5, <1>t, <1>51 DEF CheckReferral, items, process, history
  <1>6. ASSUME NEW c \in Orders, BeginReferral(c)
       PROVE  holder' \in [Items \cup Users -> Orders \cup {None}]
    BY <1>6, <1>t, <1>51 DEF BeginReferral, items, process, history
  <1>7. ASSUME NEW c \in Orders, UseReferral(c)
       PROVE  holder' \in [Items \cup Users -> Orders \cup {None}]
    BY <1>7, <1>t, <1>51 DEF UseReferral, items, process, history
  <1>8. ASSUME NEW c \in Orders, CreditReferrer(c)
       PROVE  holder' \in [Items \cup Users -> Orders \cup {None}]
    BY <1>8, <1>t, <1>51 DEF CreditReferrer, items, process, history
  <1>9. ASSUME NEW c \in Orders, CreditReferee(c)
       PROVE  holder' \in [Items \cup Users -> Orders \cup {None}]
    BY <1>9, <1>t, <1>51 DEF CreditReferee, items, process, history
  <1>10. ASSUME NEW c \in Orders, RefuseReferral(c)
       PROVE  holder' \in [Items \cup Users -> Orders \cup {None}]
    BY <1>10, <1>t, <1>51 DEF RefuseReferral, Fail, End, items, process, history
  <1>11. ASSUME NEW c \in Orders, CheckPurchase(c)
       PROVE  holder' \in [Items \cup Users -> Orders \cup {None}]
    BY <1>11, <1>t, <1>51 DEF CheckPurchase, items, process, history
  <1>12. ASSUME NEW c \in Orders, BeginPurchase(c)
       PROVE  holder' \in [Items \cup Users -> Orders \cup {None}]
    BY <1>12, <1>t, <1>51 DEF BeginPurchase, items, process, history
  <1>13. ASSUME NEW c \in Orders, BuyAddOn(c)
       PROVE  holder' \in [Items \cup Users -> Orders \cup {None}]
    BY <1>13, <1>t, <1>51 DEF BuyAddOn, items, process, history
  <1>14. ASSUME NEW c \in Orders, QueueAddOn(c)
       PROVE  holder' \in [Items \cup Users -> Orders \cup {None}]
    BY <1>14, <1>t, <1>51 DEF QueueAddOn, items, process, history
  <1>15. ASSUME NEW c \in Orders, Pay(c)
       PROVE  holder' \in [Items \cup Users -> Orders \cup {None}]
    BY <1>15, <1>t, <1>51 DEF Pay, items, process, history
  <1>16. ASSUME NEW c \in Orders, RefusePurchase(c)
       PROVE  holder' \in [Items \cup Users -> Orders \cup {None}]
    BY <1>16, <1>t, <1>51 DEF RefusePurchase, Fail, End, items, process, history
  <1>17. ASSUME NEW c \in Orders, Commit(c)
       PROVE  holder' \in [Items \cup Users -> Orders \cup {None}]
    BY <1>17, <1>t, <1>51 DEF Commit, End, items, process, history
  <1>18. ASSUME NEW c \in Orders, LosePackage(c)
       PROVE  holder' \in [Items \cup Users -> Orders \cup {None}]
    BY <1>18, <1>t, <1>51 DEF LosePackage, Fail, End, items, process, history
  <1>19. ASSUME NEW c \in Orders, GiveUp(c)
       PROVE  holder' \in [Items \cup Users -> Orders \cup {None}]
    BY <1>19, <1>t, <1>51 DEF GiveUp, Fail, End, items, process, history
  <1>20. ASSUME NEW c \in Orders, Timeout(c)
       PROVE  holder' \in [Items \cup Users -> Orders \cup {None}]
    BY <1>20, <1>t, <1>51 DEF Timeout, End, items, process, history
  <1>21. ASSUME NEW c \in Orders, NoticeRollback(c)
       PROVE  holder' \in [Items \cup Users -> Orders \cup {None}]
    BY <1>21, <1>t, <1>51 DEF NoticeRollback, Fail, End, items, process, history
  <1>22. ASSUME NEW i \in Wanted, Close(i)
       PROVE  holder' \in [Items \cup Users -> Orders \cup {None}]
    BY <1>22, <1>t, <1>51 DEF Close, items, process, history
  <1>23. ASSUME NEW i \in Wanted, DeletePackage(i)
       PROVE  holder' \in [Items \cup Users -> Orders \cup {None}]
    BY <1>23, <1>t, <1>51 DEF DeletePackage, items, process, history
  <1>24. ASSUME NEW u \in Users, NEW i \in Wanted, GenerateCode(u, i)
       PROVE  holder' \in [Items \cup Users -> Orders \cup {None}]
    BY <1>24, <1>t, <1>51 DEF GenerateCode, items, process, history
  <1>25. ASSUME NEW new \in Rewards, UpdateSettings(new)
       PROVE  holder' \in [Items \cup Users -> Orders \cup {None}]
    BY <1>25, <1>t, <1>51 DEF UpdateSettings, items, process, history
  <1> QED
    BY <1>1, <1>2, <1>3, <1>4, <1>5, <1>6, <1>7, <1>8, <1>9, <1>10, <1>11, <1>12, <1>13,
       <1>14, <1>15, <1>16, <1>17, <1>18, <1>19, <1>20, <1>21, <1>22, <1>23, <1>24, <1>25 DEF
       PurNext, PurStep

\* A step keeps what calls have paid and why they failed.
LEMMA PaidStep ==
    ASSUME PurInv, PurNext
    PROVE  PaidSoFar' /\ FailureHasCause'
  <1>t. /\ stage \in [Orders -> Stages] /\ got \in [Orders -> Nat] /\ spent \in [Orders -> Nat]
        /\ offer \in [Orders -> [referrer : Nat, referee : Nat]]
        /\ Amount \in [Items -> Nat] /\ Price \in [Items -> Nat]
        /\ \A c \in Orders : Item(c) \in Items
        /\ PaidSoFar /\ FailureHasCause
    BY PurchasesAssumption DEF PurInv, PurTypeOK, Item
  <1>41. ask' = ask
    BY LocalTypes
  <1>42. \A c \in Orders : Item(c)' = Item(c) /\ User(c)' = User(c) /\ KindOf(c)' = KindOf(c)
    BY <1>41 DEF Item, User, KindOf
  <1>43. ASSUME NEW c \in Orders, stage'[c] = stage[c], got'[c] = got[c], spent'[c] = spent[c],
                offer'[c] = offer[c], faulty \subseteq faulty', deleted \subseteq deleted'
         PROVE  PaidAt(c)' /\ FailedAt(c)'
    BY <1>t, <1>42, <1>43 DEF PaidSoFar, PaidAt, FailureHasCause, FailedAt
  <1>44. ASSUME NEW c \in Orders, PaidAt(c)', FailedAt(c)',
                \A d \in Orders \ {c} :
                    /\ stage'[d] = stage[d] /\ got'[d] = got[d]
                    /\ spent'[d] = spent[d] /\ offer'[d] = offer[d],
                faulty \subseteq faulty', deleted \subseteq deleted'
         PROVE  PaidSoFar' /\ FailureHasCause'
    BY <1>t, <1>42, <1>43, <1>44 DEF PaidSoFar, PaidAt, FailureHasCause, FailedAt
  <1>45. ASSUME stage' = stage, got' = got, spent' = spent, offer' = offer,
                faulty \subseteq faulty', deleted \subseteq deleted'
         PROVE  PaidSoFar' /\ FailureHasCause'
    BY <1>t, <1>42, <1>43, <1>45 DEF PaidSoFar, PaidAt, FailureHasCause, FailedAt
  <1>1. ASSUME NEW c \in Orders, BeginRedeem(c)
       PROVE  PaidSoFar' /\ FailureHasCause'
    <2>1. /\ \A d \in Orders \ {c} :
               /\ stage'[d] = stage[d] /\ got'[d] = got[d]
               /\ spent'[d] = spent[d] /\ offer'[d] = offer[d]
          /\ faulty \subseteq faulty' /\ deleted \subseteq deleted'
      BY <1>1, <1>t DEF BeginRedeem, At, Reach, items, process, history
    <2>2. PaidAt(c)'
      BY <1>1, <1>t, <1>42 DEF BeginRedeem, At, Reach, process, history, PaidSoFar, PaidAt
    <2>3. FailedAt(c)'
      BY <1>1, <1>t, <1>42 DEF BeginRedeem, At, Reach, items, process, history, PaidSoFar,
         PaidAt, FailureHasCause, FailedAt
    <2> QED
      BY <2>1, <2>2, <2>3, <1>44
  <1>2. ASSUME NEW c \in Orders, TakeVoucher(c)
       PROVE  PaidSoFar' /\ FailureHasCause'
    <2>1. /\ \A d \in Orders \ {c} :
               /\ stage'[d] = stage[d] /\ got'[d] = got[d]
               /\ spent'[d] = spent[d] /\ offer'[d] = offer[d]
          /\ faulty \subseteq faulty' /\ deleted \subseteq deleted'
      BY <1>2, <1>t DEF TakeVoucher, At, Reach, items, process, history
    <2>2. PaidAt(c)'
      BY <1>2, <1>t, <1>42 DEF TakeVoucher, At, Reach, process, history, PaidSoFar, PaidAt
    <2>3. FailedAt(c)'
      BY <1>2, <1>t, <1>42 DEF TakeVoucher, At, Reach, items, process, history, PaidSoFar,
         PaidAt, FailureHasCause, FailedAt
    <2> QED
      BY <2>1, <2>2, <2>3, <1>44
  <1>3. ASSUME NEW c \in Orders, CreditVoucher(c)
       PROVE  PaidSoFar' /\ FailureHasCause'
    <2>1. /\ \A d \in Orders \ {c} :
               /\ stage'[d] = stage[d] /\ got'[d] = got[d]
               /\ spent'[d] = spent[d] /\ offer'[d] = offer[d]
          /\ faulty \subseteq faulty' /\ deleted \subseteq deleted'
      BY <1>3, <1>t DEF CreditVoucher, At, Reach, Credit, items, process, history
    <2>2. PaidAt(c)'
      BY <1>3, <1>t, <1>42 DEF CreditVoucher, At, Reach, Credit, process, history, PaidSoFar,
         PaidAt
    <2>3. FailedAt(c)'
      BY <1>3, <1>t, <1>42 DEF CreditVoucher, At, Reach, Credit, items, process, history,
         PaidSoFar, PaidAt, FailureHasCause, FailedAt
    <2> QED
      BY <2>1, <2>2, <2>3, <1>44
  <1>4. ASSUME NEW c \in Orders, RefuseVoucher(c)
       PROVE  PaidSoFar' /\ FailureHasCause'
    <2>1. /\ \A d \in Orders \ {c} :
               /\ stage'[d] = stage[d] /\ got'[d] = got[d]
               /\ spent'[d] = spent[d] /\ offer'[d] = offer[d]
          /\ faulty \subseteq faulty' /\ deleted \subseteq deleted'
      BY <1>4, <1>t DEF RefuseVoucher, At, Reach, Fail, items, process, history
    <2>2. PaidAt(c)'
      BY <1>4, <1>t, <1>42 DEF RefuseVoucher, At, Reach, Fail, process, history, PaidSoFar, PaidAt
    <2>3. FailedAt(c)'
      BY <1>4, <1>t, <1>42 DEF RefuseVoucher, At, Reach, Fail, items, process, history,
         PaidSoFar, PaidAt, FailureHasCause, FailedAt
    <2> QED
      BY <2>1, <2>2, <2>3, <1>44
  <1>5. ASSUME NEW c \in Orders, CheckReferral(c)
       PROVE  PaidSoFar' /\ FailureHasCause'
    <2>1. /\ \A d \in Orders \ {c} :
               /\ stage'[d] = stage[d] /\ got'[d] = got[d]
               /\ spent'[d] = spent[d] /\ offer'[d] = offer[d]
          /\ faulty \subseteq faulty' /\ deleted \subseteq deleted'
      BY <1>5, <1>t DEF CheckReferral, At, Reach, items, process, history
    <2>2. PaidAt(c)'
      BY <1>5, <1>t, <1>42 DEF CheckReferral, At, Reach, process, history, PaidSoFar, PaidAt
    <2>3. FailedAt(c)'
      BY <1>5, <1>t, <1>42 DEF CheckReferral, At, Reach, items, process, history, PaidSoFar,
         PaidAt, FailureHasCause, FailedAt
    <2> QED
      BY <2>1, <2>2, <2>3, <1>44
  <1>6. ASSUME NEW c \in Orders, BeginReferral(c)
       PROVE  PaidSoFar' /\ FailureHasCause'
    <2>1. /\ \A d \in Orders \ {c} :
               /\ stage'[d] = stage[d] /\ got'[d] = got[d]
               /\ spent'[d] = spent[d] /\ offer'[d] = offer[d]
          /\ faulty \subseteq faulty' /\ deleted \subseteq deleted'
      BY <1>6, <1>t DEF BeginReferral, At, Reach, items, process, history
    <2>2. PaidAt(c)'
      BY <1>6, <1>t, <1>42 DEF BeginReferral, At, Reach, process, history, PaidSoFar, PaidAt
    <2>3. FailedAt(c)'
      BY <1>6, <1>t, <1>42 DEF BeginReferral, At, Reach, items, process, history, PaidSoFar,
         PaidAt, FailureHasCause, FailedAt
    <2> QED
      BY <2>1, <2>2, <2>3, <1>44
  <1>7. ASSUME NEW c \in Orders, UseReferral(c)
       PROVE  PaidSoFar' /\ FailureHasCause'
    <2>1. /\ \A d \in Orders \ {c} :
               /\ stage'[d] = stage[d] /\ got'[d] = got[d]
               /\ spent'[d] = spent[d] /\ offer'[d] = offer[d]
          /\ faulty \subseteq faulty' /\ deleted \subseteq deleted'
      BY <1>7, <1>t DEF UseReferral, At, Reach, items, process, history
    <2>2. PaidAt(c)'
      BY <1>7, <1>t, <1>42 DEF UseReferral, At, Reach, process, history, PaidSoFar, PaidAt
    <2>3. FailedAt(c)'
      BY <1>7, <1>t, <1>42 DEF UseReferral, At, Reach, items, process, history, PaidSoFar,
         PaidAt, FailureHasCause, FailedAt
    <2> QED
      BY <2>1, <2>2, <2>3, <1>44
  <1>8. ASSUME NEW c \in Orders, CreditReferrer(c)
       PROVE  PaidSoFar' /\ FailureHasCause'
    <2>1. /\ \A d \in Orders \ {c} :
               /\ stage'[d] = stage[d] /\ got'[d] = got[d]
               /\ spent'[d] = spent[d] /\ offer'[d] = offer[d]
          /\ faulty \subseteq faulty' /\ deleted \subseteq deleted'
      BY <1>8, <1>t DEF CreditReferrer, At, Reach, Credit, items, process, history
    <2>2. PaidAt(c)'
      BY <1>8, <1>t, <1>42 DEF CreditReferrer, At, Reach, Credit, process, history, PaidSoFar,
         PaidAt
    <2>3. FailedAt(c)'
      BY <1>8, <1>t, <1>42 DEF CreditReferrer, At, Reach, Credit, items, process, history,
         PaidSoFar, PaidAt, FailureHasCause, FailedAt
    <2> QED
      BY <2>1, <2>2, <2>3, <1>44
  <1>9. ASSUME NEW c \in Orders, CreditReferee(c)
       PROVE  PaidSoFar' /\ FailureHasCause'
    <2>1. /\ \A d \in Orders \ {c} :
               /\ stage'[d] = stage[d] /\ got'[d] = got[d]
               /\ spent'[d] = spent[d] /\ offer'[d] = offer[d]
          /\ faulty \subseteq faulty' /\ deleted \subseteq deleted'
      BY <1>9, <1>t DEF CreditReferee, At, Reach, Credit, items, process, history
    <2>2. PaidAt(c)'
      BY <1>9, <1>t, <1>42 DEF CreditReferee, At, Reach, Credit, process, history, PaidSoFar,
         PaidAt
    <2>3. FailedAt(c)'
      BY <1>9, <1>t, <1>42 DEF CreditReferee, At, Reach, Credit, items, process, history,
         PaidSoFar, PaidAt, FailureHasCause, FailedAt
    <2> QED
      BY <2>1, <2>2, <2>3, <1>44
  <1>10. ASSUME NEW c \in Orders, RefuseReferral(c)
       PROVE  PaidSoFar' /\ FailureHasCause'
    <2>1. /\ \A d \in Orders \ {c} :
               /\ stage'[d] = stage[d] /\ got'[d] = got[d]
               /\ spent'[d] = spent[d] /\ offer'[d] = offer[d]
          /\ faulty \subseteq faulty' /\ deleted \subseteq deleted'
      BY <1>10, <1>t DEF RefuseReferral, At, Reach, Fail, items, process, history
    <2>2. PaidAt(c)'
      BY <1>10, <1>t, <1>42 DEF RefuseReferral, At, Reach, Fail, process, history, PaidSoFar,
         PaidAt
    <2>3. FailedAt(c)'
      BY <1>10, <1>t, <1>42 DEF RefuseReferral, At, Reach, Fail, items, process, history,
         PaidSoFar, PaidAt, FailureHasCause, FailedAt
    <2> QED
      BY <2>1, <2>2, <2>3, <1>44
  <1>11. ASSUME NEW c \in Orders, CheckPurchase(c)
       PROVE  PaidSoFar' /\ FailureHasCause'
    <2>1. /\ \A d \in Orders \ {c} :
               /\ stage'[d] = stage[d] /\ got'[d] = got[d]
               /\ spent'[d] = spent[d] /\ offer'[d] = offer[d]
          /\ faulty \subseteq faulty' /\ deleted \subseteq deleted'
      BY <1>11, <1>t DEF CheckPurchase, At, Reach, items, process, history
    <2>2. PaidAt(c)'
      BY <1>11, <1>t, <1>42 DEF CheckPurchase, At, Reach, process, history, PaidSoFar, PaidAt
    <2>3. FailedAt(c)'
      BY <1>11, <1>t, <1>42 DEF CheckPurchase, At, Reach, items, process, history, PaidSoFar,
         PaidAt, FailureHasCause, FailedAt
    <2> QED
      BY <2>1, <2>2, <2>3, <1>44
  <1>12. ASSUME NEW c \in Orders, BeginPurchase(c)
       PROVE  PaidSoFar' /\ FailureHasCause'
    <2>1. /\ \A d \in Orders \ {c} :
               /\ stage'[d] = stage[d] /\ got'[d] = got[d]
               /\ spent'[d] = spent[d] /\ offer'[d] = offer[d]
          /\ faulty \subseteq faulty' /\ deleted \subseteq deleted'
      BY <1>12, <1>t DEF BeginPurchase, At, Reach, items, process, history
    <2>2. PaidAt(c)'
      BY <1>12, <1>t, <1>42 DEF BeginPurchase, At, Reach, process, history, PaidSoFar, PaidAt
    <2>3. FailedAt(c)'
      BY <1>12, <1>t, <1>42 DEF BeginPurchase, At, Reach, items, process, history, PaidSoFar,
         PaidAt, FailureHasCause, FailedAt
    <2> QED
      BY <2>1, <2>2, <2>3, <1>44
  <1>13. ASSUME NEW c \in Orders, BuyAddOn(c)
       PROVE  PaidSoFar' /\ FailureHasCause'
    <2>1. /\ \A d \in Orders \ {c} :
               /\ stage'[d] = stage[d] /\ got'[d] = got[d]
               /\ spent'[d] = spent[d] /\ offer'[d] = offer[d]
          /\ faulty \subseteq faulty' /\ deleted \subseteq deleted'
      BY <1>13, <1>t DEF BuyAddOn, At, Reach, items, process, history
    <2>2. PaidAt(c)'
      BY <1>13, <1>t, <1>42 DEF BuyAddOn, At, Reach, process, history, PaidSoFar, PaidAt
    <2>3. FailedAt(c)'
      BY <1>13, <1>t, <1>42 DEF BuyAddOn, At, Reach, items, process, history, PaidSoFar, PaidAt,
         FailureHasCause, FailedAt
    <2> QED
      BY <2>1, <2>2, <2>3, <1>44
  <1>14. ASSUME NEW c \in Orders, QueueAddOn(c)
       PROVE  PaidSoFar' /\ FailureHasCause'
    <2>1. /\ \A d \in Orders \ {c} :
               /\ stage'[d] = stage[d] /\ got'[d] = got[d]
               /\ spent'[d] = spent[d] /\ offer'[d] = offer[d]
          /\ faulty \subseteq faulty' /\ deleted \subseteq deleted'
      BY <1>14, <1>t DEF QueueAddOn, At, Reach, items, process, history
    <2>2. PaidAt(c)'
      BY <1>14, <1>t, <1>42 DEF QueueAddOn, At, Reach, process, history, PaidSoFar, PaidAt
    <2>3. FailedAt(c)'
      BY <1>14, <1>t, <1>42 DEF QueueAddOn, At, Reach, items, process, history, PaidSoFar,
         PaidAt, FailureHasCause, FailedAt
    <2> QED
      BY <2>1, <2>2, <2>3, <1>44
  <1>15. ASSUME NEW c \in Orders, Pay(c)
       PROVE  PaidSoFar' /\ FailureHasCause'
    <2>1. /\ \A d \in Orders \ {c} :
               /\ stage'[d] = stage[d] /\ got'[d] = got[d]
               /\ spent'[d] = spent[d] /\ offer'[d] = offer[d]
          /\ faulty \subseteq faulty' /\ deleted \subseteq deleted'
      BY <1>15, <1>t DEF Pay, Reach, Debit, items, process, history
    <2>2. PaidAt(c)'
      BY <1>15, <1>t, <1>42 DEF Pay, Reach, Debit, process, history, PaidSoFar, PaidAt
    <2>3. FailedAt(c)'
      BY <1>15, <1>t, <1>42 DEF Pay, Reach, Debit, items, process, history, PaidSoFar, PaidAt,
         FailureHasCause, FailedAt
    <2> QED
      BY <2>1, <2>2, <2>3, <1>44
  <1>16. ASSUME NEW c \in Orders, RefusePurchase(c)
       PROVE  PaidSoFar' /\ FailureHasCause'
    <2>1. /\ \A d \in Orders \ {c} :
               /\ stage'[d] = stage[d] /\ got'[d] = got[d]
               /\ spent'[d] = spent[d] /\ offer'[d] = offer[d]
          /\ faulty \subseteq faulty' /\ deleted \subseteq deleted'
      BY <1>16, <1>t DEF RefusePurchase, At, Reach, Fail, items, process, history
    <2>2. PaidAt(c)'
      BY <1>16, <1>t, <1>42 DEF RefusePurchase, At, Reach, Fail, process, history, PaidSoFar,
         PaidAt
    <2>3. FailedAt(c)'
      BY <1>16, <1>t, <1>42 DEF RefusePurchase, At, Reach, Fail, items, process, history,
         PaidSoFar, PaidAt, FailureHasCause, FailedAt
    <2> QED
      BY <2>1, <2>2, <2>3, <1>44
  <1>17. ASSUME NEW c \in Orders, Commit(c)
       PROVE  PaidSoFar' /\ FailureHasCause'
    <2>1. /\ \A d \in Orders \ {c} :
               /\ stage'[d] = stage[d] /\ got'[d] = got[d]
               /\ spent'[d] = spent[d] /\ offer'[d] = offer[d]
          /\ faulty \subseteq faulty' /\ deleted \subseteq deleted'
      BY <1>17, <1>t DEF Commit, Reach, items, process, history
    <2>2. PaidAt(c)'
      BY <1>17, <1>t, <1>42 DEF Commit, Reach, process, history, PaidSoFar, PaidAt
    <2>3. FailedAt(c)'
      BY <1>17, <1>t, <1>42 DEF Commit, Reach, items, process, history, PaidSoFar, PaidAt,
         FailureHasCause, FailedAt
    <2> QED
      BY <2>1, <2>2, <2>3, <1>44
  <1>18. ASSUME NEW c \in Orders, LosePackage(c)
       PROVE  PaidSoFar' /\ FailureHasCause'
    <2>1. /\ \A d \in Orders \ {c} :
               /\ stage'[d] = stage[d] /\ got'[d] = got[d]
               /\ spent'[d] = spent[d] /\ offer'[d] = offer[d]
          /\ faulty \subseteq faulty' /\ deleted \subseteq deleted'
      BY <1>18, <1>t DEF LosePackage, Reach, Fail, items, process, history
    <2>2. PaidAt(c)'
      BY <1>18, <1>t, <1>42 DEF LosePackage, Reach, Fail, process, history, PaidSoFar, PaidAt
    <2>3. FailedAt(c)'
      BY <1>18, <1>t, <1>42 DEF LosePackage, Reach, Fail, items, process, history, PaidSoFar,
         PaidAt, FailureHasCause, FailedAt
    <2> QED
      BY <2>1, <2>2, <2>3, <1>44
  <1>19. ASSUME NEW c \in Orders, GiveUp(c)
       PROVE  PaidSoFar' /\ FailureHasCause'
    <2>1. /\ \A d \in Orders \ {c} :
               /\ stage'[d] = stage[d] /\ got'[d] = got[d]
               /\ spent'[d] = spent[d] /\ offer'[d] = offer[d]
          /\ faulty \subseteq faulty' /\ deleted \subseteq deleted'
      BY <1>19, <1>t DEF GiveUp, Reach, Fail, items, process, history
    <2>2. PaidAt(c)'
      BY <1>19, <1>t, <1>42 DEF GiveUp, Reach, Fail, process, history, PaidSoFar, PaidAt
    <2>3. FailedAt(c)'
      BY <1>19, <1>t, <1>42 DEF GiveUp, Reach, Fail, items, process, history, PaidSoFar, PaidAt,
         FailureHasCause, FailedAt
    <2> QED
      BY <2>1, <2>2, <2>3, <1>44
  <1>20. ASSUME NEW c \in Orders, Timeout(c)
       PROVE  PaidSoFar' /\ FailureHasCause'
    BY <1>20, <1>45 DEF Timeout, items, process, history
  <1>21. ASSUME NEW c \in Orders, NoticeRollback(c)
       PROVE  PaidSoFar' /\ FailureHasCause'
    <2>1. /\ \A d \in Orders \ {c} :
               /\ stage'[d] = stage[d] /\ got'[d] = got[d]
               /\ spent'[d] = spent[d] /\ offer'[d] = offer[d]
          /\ faulty \subseteq faulty' /\ deleted \subseteq deleted'
      BY <1>21, <1>t DEF NoticeRollback, At, Reach, Fail, items, process, history
    <2>2. PaidAt(c)'
      BY <1>21, <1>t, <1>42 DEF NoticeRollback, At, Reach, Fail, process, history, PaidSoFar,
         PaidAt
    <2>3. FailedAt(c)'
      BY <1>21, <1>t, <1>42 DEF NoticeRollback, At, Reach, Fail, items, process, history,
         PaidSoFar, PaidAt, FailureHasCause, FailedAt
    <2> QED
      BY <2>1, <2>2, <2>3, <1>44
  <1>22. ASSUME NEW i \in Wanted, Close(i)
       PROVE  PaidSoFar' /\ FailureHasCause'
    BY <1>22, <1>45 DEF Close, items, process, history
  <1>23. ASSUME NEW i \in Wanted, DeletePackage(i)
       PROVE  PaidSoFar' /\ FailureHasCause'
    BY <1>23, <1>45 DEF DeletePackage, items, process, history
  <1>24. ASSUME NEW u \in Users, NEW i \in Wanted, GenerateCode(u, i)
       PROVE  PaidSoFar' /\ FailureHasCause'
    BY <1>24, <1>45 DEF GenerateCode, items, process, history
  <1>25. ASSUME NEW new \in Rewards, UpdateSettings(new)
       PROVE  PaidSoFar' /\ FailureHasCause'
    BY <1>25, <1>45 DEF UpdateSettings, items, process, history
  <1> QED
    BY <1>1, <1>2, <1>3, <1>4, <1>5, <1>6, <1>7, <1>8, <1>9, <1>10, <1>11, <1>12, <1>13,
       <1>14, <1>15, <1>16, <1>17, <1>18, <1>19, <1>20, <1>21, <1>22, <1>23, <1>24, <1>25 DEF
       PurNext, PurStep

\* No call asks for anything else than it began with, and what overlapped stays so.
LEMMA AskStays ==
    ASSUME PurInv, PurNext
    PROVE  /\ ask' = ask
           /\ \A c \in Orders : Item(c)' = Item(c) /\ User(c)' = User(c) /\ KindOf(c)' = KindOf(c)
  <1>1. ask' = ask
    BY LocalTypes
  <1> QED
    BY <1>1 DEF Item, User, KindOf

\* What overlapped stays so.
LEMMA OverlappedStay ==
    ASSUME PurInv, PurNext
    PROVE  overlapped \subseteq overlapped'
  <1>1. ASSUME NEW c \in Orders, BeginRedeem(c)
       PROVE  overlapped \subseteq overlapped'
    BY <1>1 DEF BeginRedeem, items, process, history
  <1>2. ASSUME NEW c \in Orders, TakeVoucher(c)
       PROVE  overlapped \subseteq overlapped'
    BY <1>2 DEF TakeVoucher, items, process, history
  <1>3. ASSUME NEW c \in Orders, CreditVoucher(c)
       PROVE  overlapped \subseteq overlapped'
    BY <1>3 DEF CreditVoucher, items, process, history
  <1>4. ASSUME NEW c \in Orders, RefuseVoucher(c)
       PROVE  overlapped \subseteq overlapped'
    BY <1>4 DEF RefuseVoucher, items, process, history
  <1>5. ASSUME NEW c \in Orders, CheckReferral(c)
       PROVE  overlapped \subseteq overlapped'
    BY <1>5 DEF CheckReferral, Overlap, items, process, history
  <1>6. ASSUME NEW c \in Orders, BeginReferral(c)
       PROVE  overlapped \subseteq overlapped'
    BY <1>6 DEF BeginReferral, items, process, history
  <1>7. ASSUME NEW c \in Orders, UseReferral(c)
       PROVE  overlapped \subseteq overlapped'
    BY <1>7 DEF UseReferral, items, process, history
  <1>8. ASSUME NEW c \in Orders, CreditReferrer(c)
       PROVE  overlapped \subseteq overlapped'
    BY <1>8 DEF CreditReferrer, items, process, history
  <1>9. ASSUME NEW c \in Orders, CreditReferee(c)
       PROVE  overlapped \subseteq overlapped'
    BY <1>9 DEF CreditReferee, items, process, history
  <1>10. ASSUME NEW c \in Orders, RefuseReferral(c)
       PROVE  overlapped \subseteq overlapped'
    BY <1>10 DEF RefuseReferral, items, process, history
  <1>11. ASSUME NEW c \in Orders, CheckPurchase(c)
       PROVE  overlapped \subseteq overlapped'
    BY <1>11 DEF CheckPurchase, Overlap, items, process, history
  <1>12. ASSUME NEW c \in Orders, BeginPurchase(c)
       PROVE  overlapped \subseteq overlapped'
    BY <1>12 DEF BeginPurchase, items, process, history
  <1>13. ASSUME NEW c \in Orders, BuyAddOn(c)
       PROVE  overlapped \subseteq overlapped'
    BY <1>13 DEF BuyAddOn, items, process, history
  <1>14. ASSUME NEW c \in Orders, QueueAddOn(c)
       PROVE  overlapped \subseteq overlapped'
    BY <1>14 DEF QueueAddOn, items, process, history
  <1>15. ASSUME NEW c \in Orders, Pay(c)
       PROVE  overlapped \subseteq overlapped'
    BY <1>15 DEF Pay, items, process, history
  <1>16. ASSUME NEW c \in Orders, RefusePurchase(c)
       PROVE  overlapped \subseteq overlapped'
    BY <1>16 DEF RefusePurchase, items, process, history
  <1>17. ASSUME NEW c \in Orders, Commit(c)
       PROVE  overlapped \subseteq overlapped'
    BY <1>17 DEF Commit, items, process, history
  <1>18. ASSUME NEW c \in Orders, LosePackage(c)
       PROVE  overlapped \subseteq overlapped'
    BY <1>18 DEF LosePackage, items, process, history
  <1>19. ASSUME NEW c \in Orders, GiveUp(c)
       PROVE  overlapped \subseteq overlapped'
    BY <1>19 DEF GiveUp, items, process, history
  <1>20. ASSUME NEW c \in Orders, Timeout(c)
       PROVE  overlapped \subseteq overlapped'
    BY <1>20 DEF Timeout, items, process, history
  <1>21. ASSUME NEW c \in Orders, NoticeRollback(c)
       PROVE  overlapped \subseteq overlapped'
    BY <1>21 DEF NoticeRollback, items, process, history
  <1>22. ASSUME NEW i \in Wanted, Close(i)
       PROVE  overlapped \subseteq overlapped'
    BY <1>22 DEF Close, items, process, history
  <1>23. ASSUME NEW i \in Wanted, DeletePackage(i)
       PROVE  overlapped \subseteq overlapped'
    BY <1>23 DEF DeletePackage, items, process, history
  <1>24. ASSUME NEW u \in Users, NEW i \in Wanted, GenerateCode(u, i)
       PROVE  overlapped \subseteq overlapped'
    BY <1>24 DEF GenerateCode, items, process, history
  <1>25. ASSUME NEW new \in Rewards, UpdateSettings(new)
       PROVE  overlapped \subseteq overlapped'
    BY <1>25 DEF UpdateSettings, items, process, history
  <1> QED
    BY <1>1, <1>2, <1>3, <1>4, <1>5, <1>6, <1>7, <1>8, <1>9, <1>10, <1>11, <1>12, <1>13,
       <1>14, <1>15, <1>16, <1>17, <1>18, <1>19, <1>20, <1>21, <1>22, <1>23, <1>24, <1>25 DEF
       PurNext, PurStep

\* Rows and counters change at a commit alone.
LEMMA RowsChange ==
    ASSUME PurInv, PurNext
    PROVE  (\E d \in Orders : Commit(d)) \/ (rows' = rows /\ uses' = uses)
  <1>1. ASSUME NEW c \in Orders, BeginRedeem(c)
       PROVE  (\E d \in Orders : Commit(d)) \/ (rows' = rows /\ uses' = uses)
    BY <1>1 DEF BeginRedeem, items, process, history
  <1>2. ASSUME NEW c \in Orders, TakeVoucher(c)
       PROVE  (\E d \in Orders : Commit(d)) \/ (rows' = rows /\ uses' = uses)
    BY <1>2 DEF TakeVoucher, items, process, history
  <1>3. ASSUME NEW c \in Orders, CreditVoucher(c)
       PROVE  (\E d \in Orders : Commit(d)) \/ (rows' = rows /\ uses' = uses)
    BY <1>3 DEF CreditVoucher, items, process, history
  <1>4. ASSUME NEW c \in Orders, RefuseVoucher(c)
       PROVE  (\E d \in Orders : Commit(d)) \/ (rows' = rows /\ uses' = uses)
    BY <1>4 DEF RefuseVoucher, items, process, history
  <1>5. ASSUME NEW c \in Orders, CheckReferral(c)
       PROVE  (\E d \in Orders : Commit(d)) \/ (rows' = rows /\ uses' = uses)
    BY <1>5 DEF CheckReferral, items, process, history
  <1>6. ASSUME NEW c \in Orders, BeginReferral(c)
       PROVE  (\E d \in Orders : Commit(d)) \/ (rows' = rows /\ uses' = uses)
    BY <1>6 DEF BeginReferral, items, process, history
  <1>7. ASSUME NEW c \in Orders, UseReferral(c)
       PROVE  (\E d \in Orders : Commit(d)) \/ (rows' = rows /\ uses' = uses)
    BY <1>7 DEF UseReferral, items, process, history
  <1>8. ASSUME NEW c \in Orders, CreditReferrer(c)
       PROVE  (\E d \in Orders : Commit(d)) \/ (rows' = rows /\ uses' = uses)
    BY <1>8 DEF CreditReferrer, items, process, history
  <1>9. ASSUME NEW c \in Orders, CreditReferee(c)
       PROVE  (\E d \in Orders : Commit(d)) \/ (rows' = rows /\ uses' = uses)
    BY <1>9 DEF CreditReferee, items, process, history
  <1>10. ASSUME NEW c \in Orders, RefuseReferral(c)
       PROVE  (\E d \in Orders : Commit(d)) \/ (rows' = rows /\ uses' = uses)
    BY <1>10 DEF RefuseReferral, items, process, history
  <1>11. ASSUME NEW c \in Orders, CheckPurchase(c)
       PROVE  (\E d \in Orders : Commit(d)) \/ (rows' = rows /\ uses' = uses)
    BY <1>11 DEF CheckPurchase, items, process, history
  <1>12. ASSUME NEW c \in Orders, BeginPurchase(c)
       PROVE  (\E d \in Orders : Commit(d)) \/ (rows' = rows /\ uses' = uses)
    BY <1>12 DEF BeginPurchase, items, process, history
  <1>13. ASSUME NEW c \in Orders, BuyAddOn(c)
       PROVE  (\E d \in Orders : Commit(d)) \/ (rows' = rows /\ uses' = uses)
    BY <1>13 DEF BuyAddOn, items, process, history
  <1>14. ASSUME NEW c \in Orders, QueueAddOn(c)
       PROVE  (\E d \in Orders : Commit(d)) \/ (rows' = rows /\ uses' = uses)
    BY <1>14 DEF QueueAddOn, items, process, history
  <1>15. ASSUME NEW c \in Orders, Pay(c)
       PROVE  (\E d \in Orders : Commit(d)) \/ (rows' = rows /\ uses' = uses)
    BY <1>15 DEF Pay, items, process, history
  <1>16. ASSUME NEW c \in Orders, RefusePurchase(c)
       PROVE  (\E d \in Orders : Commit(d)) \/ (rows' = rows /\ uses' = uses)
    BY <1>16 DEF RefusePurchase, items, process, history
  <1>17. ASSUME NEW c \in Orders, Commit(c)
       PROVE  (\E d \in Orders : Commit(d)) \/ (rows' = rows /\ uses' = uses)
    BY <1>17
  <1>18. ASSUME NEW c \in Orders, LosePackage(c)
       PROVE  (\E d \in Orders : Commit(d)) \/ (rows' = rows /\ uses' = uses)
    BY <1>18 DEF LosePackage, items, process, history
  <1>19. ASSUME NEW c \in Orders, GiveUp(c)
       PROVE  (\E d \in Orders : Commit(d)) \/ (rows' = rows /\ uses' = uses)
    BY <1>19 DEF GiveUp, items, process, history
  <1>20. ASSUME NEW c \in Orders, Timeout(c)
       PROVE  (\E d \in Orders : Commit(d)) \/ (rows' = rows /\ uses' = uses)
    BY <1>20 DEF Timeout, items, process, history
  <1>21. ASSUME NEW c \in Orders, NoticeRollback(c)
       PROVE  (\E d \in Orders : Commit(d)) \/ (rows' = rows /\ uses' = uses)
    BY <1>21 DEF NoticeRollback, items, process, history
  <1>22. ASSUME NEW i \in Wanted, Close(i)
       PROVE  (\E d \in Orders : Commit(d)) \/ (rows' = rows /\ uses' = uses)
    BY <1>22 DEF Close, items, process, history
  <1>23. ASSUME NEW i \in Wanted, DeletePackage(i)
       PROVE  (\E d \in Orders : Commit(d)) \/ (rows' = rows /\ uses' = uses)
    BY <1>23 DEF DeletePackage, items, process, history
  <1>24. ASSUME NEW u \in Users, NEW i \in Wanted, GenerateCode(u, i)
       PROVE  (\E d \in Orders : Commit(d)) \/ (rows' = rows /\ uses' = uses)
    BY <1>24 DEF GenerateCode, items, process, history
  <1>25. ASSUME NEW new \in Rewards, UpdateSettings(new)
       PROVE  (\E d \in Orders : Commit(d)) \/ (rows' = rows /\ uses' = uses)
    BY <1>25 DEF UpdateSettings, items, process, history
  <1> QED
    BY <1>1, <1>2, <1>3, <1>4, <1>5, <1>6, <1>7, <1>8, <1>9, <1>10, <1>11, <1>12, <1>13,
       <1>14, <1>15, <1>16, <1>17, <1>18, <1>19, <1>20, <1>21, <1>22, <1>23, <1>24, <1>25 DEF
       PurNext, PurStep

\* The calls with stored rows have come to their end.
LEMMA EndedStep ==
    ASSUME PurInv, PurNext
    PROVE  StoredCallsEnded'
  <1>t. stage \in [Orders -> Stages] /\ rows \subseteq Orders /\ StoredCallsEnded
    BY DEF PurInv, PurTypeOK
  <1>1. ASSUME NEW c \in Orders, BeginRedeem(c)
       PROVE  StoredCallsEnded'
    BY <1>1, <1>t DEF BeginRedeem, At, Reach, items, process, history, StoredCallsEnded
  <1>2. ASSUME NEW c \in Orders, TakeVoucher(c)
       PROVE  StoredCallsEnded'
    BY <1>2, <1>t DEF TakeVoucher, At, Reach, items, process, history, StoredCallsEnded
  <1>3. ASSUME NEW c \in Orders, CreditVoucher(c)
       PROVE  StoredCallsEnded'
    BY <1>3, <1>t DEF CreditVoucher, At, Reach, items, process, history, StoredCallsEnded
  <1>4. ASSUME NEW c \in Orders, RefuseVoucher(c)
       PROVE  StoredCallsEnded'
    BY <1>4, <1>t DEF RefuseVoucher, At, Reach, Fail, items, process, history, StoredCallsEnded
  <1>5. ASSUME NEW c \in Orders, CheckReferral(c)
       PROVE  StoredCallsEnded'
    BY <1>5, <1>t DEF CheckReferral, At, Reach, items, process, history, StoredCallsEnded
  <1>6. ASSUME NEW c \in Orders, BeginReferral(c)
       PROVE  StoredCallsEnded'
    BY <1>6, <1>t DEF BeginReferral, At, Reach, items, process, history, StoredCallsEnded
  <1>7. ASSUME NEW c \in Orders, UseReferral(c)
       PROVE  StoredCallsEnded'
    BY <1>7, <1>t DEF UseReferral, At, Reach, items, process, history, StoredCallsEnded
  <1>8. ASSUME NEW c \in Orders, CreditReferrer(c)
       PROVE  StoredCallsEnded'
    BY <1>8, <1>t DEF CreditReferrer, At, Reach, items, process, history, StoredCallsEnded
  <1>9. ASSUME NEW c \in Orders, CreditReferee(c)
       PROVE  StoredCallsEnded'
    BY <1>9, <1>t DEF CreditReferee, At, Reach, items, process, history, StoredCallsEnded
  <1>10. ASSUME NEW c \in Orders, RefuseReferral(c)
       PROVE  StoredCallsEnded'
    BY <1>10, <1>t DEF RefuseReferral, At, Reach, Fail, items, process, history, StoredCallsEnded
  <1>11. ASSUME NEW c \in Orders, CheckPurchase(c)
       PROVE  StoredCallsEnded'
    BY <1>11, <1>t DEF CheckPurchase, At, Reach, items, process, history, StoredCallsEnded
  <1>12. ASSUME NEW c \in Orders, BeginPurchase(c)
       PROVE  StoredCallsEnded'
    BY <1>12, <1>t DEF BeginPurchase, At, Reach, items, process, history, StoredCallsEnded
  <1>13. ASSUME NEW c \in Orders, BuyAddOn(c)
       PROVE  StoredCallsEnded'
    BY <1>13, <1>t DEF BuyAddOn, At, Reach, items, process, history, StoredCallsEnded
  <1>14. ASSUME NEW c \in Orders, QueueAddOn(c)
       PROVE  StoredCallsEnded'
    BY <1>14, <1>t DEF QueueAddOn, At, Reach, items, process, history, StoredCallsEnded
  <1>15. ASSUME NEW c \in Orders, Pay(c)
       PROVE  StoredCallsEnded'
    BY <1>15, <1>t DEF Pay, Reach, items, process, history, StoredCallsEnded
  <1>16. ASSUME NEW c \in Orders, RefusePurchase(c)
       PROVE  StoredCallsEnded'
    BY <1>16, <1>t DEF RefusePurchase, At, Reach, Fail, items, process, history, StoredCallsEnded
  <1>17. ASSUME NEW c \in Orders, Commit(c)
       PROVE  StoredCallsEnded'
    BY <1>17, <1>t DEF Commit, Reach, items, process, history, StoredCallsEnded
  <1>18. ASSUME NEW c \in Orders, LosePackage(c)
       PROVE  StoredCallsEnded'
    BY <1>18, <1>t DEF LosePackage, Reach, Fail, items, process, history, StoredCallsEnded
  <1>19. ASSUME NEW c \in Orders, GiveUp(c)
       PROVE  StoredCallsEnded'
    BY <1>19, <1>t DEF GiveUp, NeedsConnection, At, Reach, Fail, items, StoredCallsEnded
  <1>20. ASSUME NEW c \in Orders, Timeout(c)
       PROVE  StoredCallsEnded'
    BY <1>20, <1>t DEF Timeout, items, process, history, StoredCallsEnded
  <1>21. ASSUME NEW c \in Orders, NoticeRollback(c)
       PROVE  StoredCallsEnded'
    BY <1>21, <1>t DEF NoticeRollback, At, Reach, Fail, items, process, history, StoredCallsEnded
  <1>22. ASSUME NEW i \in Wanted, Close(i)
       PROVE  StoredCallsEnded'
    BY <1>22, <1>t DEF Close, items, process, history, StoredCallsEnded
  <1>23. ASSUME NEW i \in Wanted, DeletePackage(i)
       PROVE  StoredCallsEnded'
    BY <1>23, <1>t DEF DeletePackage, items, process, history, StoredCallsEnded
  <1>24. ASSUME NEW u \in Users, NEW i \in Wanted, GenerateCode(u, i)
       PROVE  StoredCallsEnded'
    BY <1>24, <1>t DEF GenerateCode, items, process, history, StoredCallsEnded
  <1>25. ASSUME NEW new \in Rewards, UpdateSettings(new)
       PROVE  StoredCallsEnded'
    BY <1>25, <1>t DEF UpdateSettings, items, process, history, StoredCallsEnded
  <1> QED
    BY <1>1, <1>2, <1>3, <1>4, <1>5, <1>6, <1>7, <1>8, <1>9, <1>10, <1>11, <1>12, <1>13,
       <1>14, <1>15, <1>16, <1>17, <1>18, <1>19, <1>20, <1>21, <1>22, <1>23, <1>24, <1>25 DEF
       PurNext, PurStep

\* A step keeps what holders of vouchers rely on.
LEMMA HeldStep ==
    ASSUME PurInv, PurNext
    PROVE  VoucherHeld'
  <1>t. /\ stage \in [Orders -> Stages] /\ rows \subseteq Orders /\ open \subseteq Orders
        /\ VoucherHeld /\ ask \in [Orders -> Asks] /\ uses \in [Items -> Nat]
        /\ holder \in [Items \cup Users -> Orders \cup {None}]
        /\ \A c \in Orders : Item(c) \in Items /\ User(c) \in Users
        /\ \A c \in Orders : c # None
    BY PurchasesAssumption DEF PurInv, PurTypeOK, Item, User
  <1>41. \A c \in Orders : Item(c)' = Item(c) /\ User(c)' = User(c) /\ KindOf(c)' = KindOf(c)
    BY AskStays
  <1>42. ASSUME NEW c \in Orders, rows' = rows, uses' = uses, stage'[c] = stage[c],
                c \in open' => c \in open, holder[Item(c)] = c => holder'[Item(c)] = c
         PROVE  HeldAt(c)'
    <2>1. \A u, i : StoredBy(u, i)' = StoredBy(u, i)
      <3>1. \A d \in rows : Item(d)' = Item(d) /\ User(d)' = User(d)
        BY <1>t, <1>41
      <3> QED
        BY <3>1, <1>42 DEF StoredBy, Stored
    <2> QED
      BY <1>t, <1>41, <1>42, <2>1 DEF VoucherHeld, HeldAt
  <1>43. ASSUME NEW c \in Orders, rows' = rows, uses' = uses, HeldAt(c)',
                \A d \in Orders \ {c} : stage'[d] = stage[d] /\ (d \in open' => d \in open),
                \A l \in Items : holder[l] \in Orders \ {c} => holder'[l] = holder[l]
         PROVE  VoucherHeld'
    <2> SUFFICES ASSUME NEW d \in Orders, d # c
                 PROVE  HeldAt(d)'
      BY <1>43 DEF VoucherHeld
    <2> QED
      BY <1>t, <1>42, <1>43
  <1>44. ASSUME rows' = rows, uses' = uses, stage' = stage, open' = open, holder' = holder
         PROVE  VoucherHeld'
    BY <1>42, <1>44 DEF VoucherHeld
  <1>1. ASSUME NEW c \in Orders, BeginRedeem(c)
       PROVE  VoucherHeld'
    <2>1. /\ rows' = rows /\ uses' = uses
          /\ \A d \in Orders \ {c} : stage'[d] = stage[d] /\ (d \in open' => d \in open)
          /\ \A l \in Items : holder[l] \in Orders \ {c} => holder'[l] = holder[l]
      BY <1>1, <1>t DEF BeginRedeem, Reach, Begin, items, process, history
    <2>2. HeldAt(c)'
      BY <1>1, <1>t, <1>41 DEF BeginRedeem, At, Reach, Vouchers, HeldAt
    <2> QED
      BY <2>1, <2>2, <1>43
  <1>2. ASSUME NEW c \in Orders, TakeVoucher(c)
       PROVE  VoucherHeld'
    <2>1. /\ rows' = rows /\ uses' = uses
          /\ \A d \in Orders \ {c} : stage'[d] = stage[d] /\ (d \in open' => d \in open)
          /\ \A l \in Items : holder[l] \in Orders \ {c} => holder'[l] = holder[l]
      BY <1>2, <1>t DEF TakeVoucher, Reach, items, process, history
    <2>2. HeldAt(c)'
      <3>1. StoredBy(User(c), Item(c))' = StoredBy(User(c), Item(c)) /\ holder'[Item(c)] = c
        BY <1>2, <2>1, <1>t, AskStays DEF TakeVoucher, StoredBy, Stored, Item, User
      <3> QED
        BY <1>2, <2>1, <3>1, <1>41, <1>t DEF TakeVoucher, At, HeldAt
    <2> QED
      BY <2>1, <2>2, <1>43
  <1>3. ASSUME NEW c \in Orders, CreditVoucher(c)
       PROVE  VoucherHeld'
    <2>1. /\ rows' = rows /\ uses' = uses
          /\ \A d \in Orders \ {c} : stage'[d] = stage[d] /\ (d \in open' => d \in open)
          /\ \A l \in Items : holder[l] \in Orders \ {c} => holder'[l] = holder[l]
      BY <1>3, <1>t DEF CreditVoucher, Reach, items, process, history
    <2>2. HeldAt(c)'
      <3>1. ask' = ask /\ holder' = holder /\ open' = open
        BY <1>3, <1>41, AskStays DEF CreditVoucher, process
      <3>2. HeldAt(c) /\ \A u, i : StoredBy(u, i)' = StoredBy(u, i)
        BY <3>1, <2>1, <1>t DEF VoucherHeld, StoredBy, Stored, Item, User
      <3> QED
        BY <1>3, <2>1, <3>1, <3>2, <1>41, <1>t DEF CreditVoucher, At, Reach, HeldAt
    <2> QED
      BY <2>1, <2>2, <1>43
  <1>4. ASSUME NEW c \in Orders, RefuseVoucher(c)
       PROVE  VoucherHeld'
    <2>1. /\ rows' = rows /\ uses' = uses
          /\ \A d \in Orders \ {c} : stage'[d] = stage[d] /\ (d \in open' => d \in open)
          /\ \A l \in Items : holder[l] \in Orders \ {c} => holder'[l] = holder[l]
      BY <1>4, <1>t DEF RefuseVoucher, Reach, Fail, End, items, process, history
    <2>2. HeldAt(c)'
      BY <1>4, <1>t, <1>41 DEF RefuseVoucher, At, Reach, Fail, HeldAt
    <2> QED
      BY <2>1, <2>2, <1>43
  <1>5. ASSUME NEW c \in Orders, CheckReferral(c)
       PROVE  VoucherHeld'
    <2>1. /\ rows' = rows /\ uses' = uses
          /\ \A d \in Orders \ {c} : stage'[d] = stage[d] /\ (d \in open' => d \in open)
          /\ \A l \in Items : holder[l] \in Orders \ {c} => holder'[l] = holder[l]
      BY <1>5, <1>t DEF CheckReferral, Reach, items, process, history
    <2>2. HeldAt(c)'
      BY <1>5, <1>t, <1>41 DEF CheckReferral, At, Reach, Vouchers, HeldAt
    <2> QED
      BY <2>1, <2>2, <1>43
  <1>6. ASSUME NEW c \in Orders, BeginReferral(c)
       PROVE  VoucherHeld'
    <2>1. /\ rows' = rows /\ uses' = uses
          /\ \A d \in Orders \ {c} : stage'[d] = stage[d] /\ (d \in open' => d \in open)
          /\ \A l \in Items : holder[l] \in Orders \ {c} => holder'[l] = holder[l]
      BY <1>6, <1>t DEF BeginReferral, Reach, Begin, items, process, history
    <2>2. HeldAt(c)'
      BY <1>6, <1>t, <1>41 DEF BeginReferral, At, Reach, Vouchers, HeldAt
    <2> QED
      BY <2>1, <2>2, <1>43
  <1>7. ASSUME NEW c \in Orders, UseReferral(c)
       PROVE  VoucherHeld'
    <2>1. /\ rows' = rows /\ uses' = uses
          /\ \A d \in Orders \ {c} : stage'[d] = stage[d] /\ (d \in open' => d \in open)
          /\ \A l \in Items : holder[l] \in Orders \ {c} => holder'[l] = holder[l]
      BY <1>7, <1>t DEF UseReferral, Reach, items, process, history
    <2>2. HeldAt(c)'
      BY <1>7, <1>t, <1>41 DEF UseReferral, At, Reach, Vouchers, HeldAt
    <2> QED
      BY <2>1, <2>2, <1>43
  <1>8. ASSUME NEW c \in Orders, CreditReferrer(c)
       PROVE  VoucherHeld'
    <2>1. /\ rows' = rows /\ uses' = uses
          /\ \A d \in Orders \ {c} : stage'[d] = stage[d] /\ (d \in open' => d \in open)
          /\ \A l \in Items : holder[l] \in Orders \ {c} => holder'[l] = holder[l]
      BY <1>8, <1>t DEF CreditReferrer, Reach, items, process, history
    <2>2. HeldAt(c)'
      BY <1>8, <1>t, <1>41 DEF CreditReferrer, At, Reach, Vouchers, HeldAt
    <2> QED
      BY <2>1, <2>2, <1>43
  <1>9. ASSUME NEW c \in Orders, CreditReferee(c)
       PROVE  VoucherHeld'
    <2>1. /\ rows' = rows /\ uses' = uses
          /\ \A d \in Orders \ {c} : stage'[d] = stage[d] /\ (d \in open' => d \in open)
          /\ \A l \in Items : holder[l] \in Orders \ {c} => holder'[l] = holder[l]
      BY <1>9, <1>t DEF CreditReferee, Reach, items, process, history
    <2>2. HeldAt(c)'
      BY <1>9, <1>t, <1>41 DEF CreditReferee, At, Reach, Vouchers, HeldAt
    <2> QED
      BY <2>1, <2>2, <1>43
  <1>10. ASSUME NEW c \in Orders, RefuseReferral(c)
       PROVE  VoucherHeld'
    <2>1. /\ rows' = rows /\ uses' = uses
          /\ \A d \in Orders \ {c} : stage'[d] = stage[d] /\ (d \in open' => d \in open)
          /\ \A l \in Items : holder[l] \in Orders \ {c} => holder'[l] = holder[l]
      BY <1>10, <1>t DEF RefuseReferral, Reach, Fail, End, items, process, history
    <2>2. HeldAt(c)'
      BY <1>10, <1>t, <1>41 DEF RefuseReferral, At, Reach, Fail, Vouchers, HeldAt
    <2> QED
      BY <2>1, <2>2, <1>43
  <1>11. ASSUME NEW c \in Orders, CheckPurchase(c)
       PROVE  VoucherHeld'
    <2>1. /\ rows' = rows /\ uses' = uses
          /\ \A d \in Orders \ {c} : stage'[d] = stage[d] /\ (d \in open' => d \in open)
          /\ \A l \in Items : holder[l] \in Orders \ {c} => holder'[l] = holder[l]
      BY <1>11, <1>t DEF CheckPurchase, Reach, items, process, history
    <2>2. HeldAt(c)'
      BY <1>11, <1>t, <1>41 DEF CheckPurchase, At, Reach, Vouchers, HeldAt
    <2> QED
      BY <2>1, <2>2, <1>43
  <1>12. ASSUME NEW c \in Orders, BeginPurchase(c)
       PROVE  VoucherHeld'
    <2>1. /\ rows' = rows /\ uses' = uses
          /\ \A d \in Orders \ {c} : stage'[d] = stage[d] /\ (d \in open' => d \in open)
          /\ \A l \in Items : holder[l] \in Orders \ {c} => holder'[l] = holder[l]
      BY <1>12, <1>t DEF BeginPurchase, Reach, Begin, items, process, history
    <2>2. HeldAt(c)'
      BY <1>12, <1>t, <1>41 DEF BeginPurchase, At, Reach, Vouchers, HeldAt
    <2> QED
      BY <2>1, <2>2, <1>43
  <1>13. ASSUME NEW c \in Orders, BuyAddOn(c)
       PROVE  VoucherHeld'
    <2>1. /\ rows' = rows /\ uses' = uses
          /\ \A d \in Orders \ {c} : stage'[d] = stage[d] /\ (d \in open' => d \in open)
          /\ \A l \in Items : holder[l] \in Orders \ {c} => holder'[l] = holder[l]
      BY <1>13, <1>t DEF BuyAddOn, Reach, items, process, history
    <2>2. HeldAt(c)'
      BY <1>13, <1>t, <1>41 DEF BuyAddOn, At, Reach, Vouchers, HeldAt
    <2> QED
      BY <2>1, <2>2, <1>43
  <1>14. ASSUME NEW c \in Orders, QueueAddOn(c)
       PROVE  VoucherHeld'
    <2>1. /\ rows' = rows /\ uses' = uses
          /\ \A d \in Orders \ {c} : stage'[d] = stage[d] /\ (d \in open' => d \in open)
          /\ \A l \in Items : holder[l] \in Orders \ {c} => holder'[l] = holder[l]
      BY <1>14, <1>t DEF QueueAddOn, Reach, items, process, history
    <2>2. HeldAt(c)'
      <3>1. ask' = ask /\ holder' = holder /\ open' = open
        BY <1>14, <1>41, AskStays DEF QueueAddOn, process
      <3>2. HeldAt(c) /\ \A u, i : StoredBy(u, i)' = StoredBy(u, i)
        BY <3>1, <2>1, <1>t DEF VoucherHeld, StoredBy, Stored, Item, User
      <3> QED
        BY <1>14, <2>1, <3>1, <3>2, <1>41, <1>t DEF QueueAddOn, At, Reach, HeldAt
    <2> QED
      BY <2>1, <2>2, <1>43
  <1>15. ASSUME NEW c \in Orders, Pay(c)
       PROVE  VoucherHeld'
    <2>1. /\ rows' = rows /\ uses' = uses
          /\ \A d \in Orders \ {c} : stage'[d] = stage[d] /\ (d \in open' => d \in open)
          /\ \A l \in Items : holder[l] \in Orders \ {c} => holder'[l] = holder[l]
      BY <1>15, <1>t DEF Pay, Reach, items, process, history
    <2>2. HeldAt(c)'
      <3>1. ask' = ask /\ holder' = holder /\ open' = open
        BY <1>15, <1>41, AskStays DEF Pay, process
      <3>2. HeldAt(c) /\ \A u, i : StoredBy(u, i)' = StoredBy(u, i)
        BY <3>1, <2>1, <1>t DEF VoucherHeld, StoredBy, Stored, Item, User
      <3> QED
        BY <1>15, <2>1, <3>1, <3>2, <1>41, <1>t DEF Pay, At, Reach, HeldAt
    <2> QED
      BY <2>1, <2>2, <1>43
  <1>16. ASSUME NEW c \in Orders, RefusePurchase(c)
       PROVE  VoucherHeld'
    <2>1. /\ rows' = rows /\ uses' = uses
          /\ \A d \in Orders \ {c} : stage'[d] = stage[d] /\ (d \in open' => d \in open)
          /\ \A l \in Items : holder[l] \in Orders \ {c} => holder'[l] = holder[l]
      BY <1>16, <1>t DEF RefusePurchase, Reach, Fail, End, items, process, history
    <2>2. HeldAt(c)'
      BY <1>16, <1>t, <1>41 DEF RefusePurchase, At, Reach, Fail, Vouchers, HeldAt
    <2> QED
      BY <2>1, <2>2, <1>43
  <1>17. ASSUME NEW c \in Orders, Commit(c)
       PROVE  VoucherHeld'
    <2>1. /\ c \notin rows /\ rows' = rows \cup {c} /\ stage'[c] \notin {"taken", "owing", "paid"}
          /\ \A d \in Orders \ {c} : stage'[d] = stage[d] /\ (d \in open' => d \in open)
          /\ \A l \in Items : holder[l] \in Orders \ {c} => holder'[l] = holder[l]
          /\ \A i \in Items : i # Item(c) => uses'[i] = uses[i]
          /\ stage[c] = "paid" /\ (c \in open \/ KindOf(c) = "addon")
      BY <1>17, <1>t DEF Commit, End, Reach, PurInv, StoredCallsEnded
    <2>2. ASSUME NEW d \in Orders, d # c, d \in open', KindOf(d) \in Vouchers,
                 stage'[d] \in {"taken", "owing", "paid"}
          PROVE  /\ holder'[Item(d)] = d
                 /\ Limit[Item(d)] > 0 => uses'[Item(d)] < Limit[Item(d)]
                 /\ StoredBy(User(d), Item(d))' = {}
      <3>1. /\ holder[Item(d)] = d
            /\ Limit[Item(d)] > 0 => uses[Item(d)] < Limit[Item(d)]
            /\ StoredBy(User(d), Item(d)) = {}
        BY <2>1, <2>2, <1>t DEF VoucherHeld, HeldAt
      <3>2. Item(d) # Item(c)
        BY <2>1, <2>2, <3>1, <1>t DEF VoucherHeld, HeldAt, KindOf, Vouchers
      <3>3. StoredBy(User(d), Item(d))' = StoredBy(User(d), Item(d))
        BY <2>1, <3>2, <1>t, <1>41, AskStays DEF StoredBy, Stored, Item, User
      <3> QED
        BY <2>1, <3>1, <3>2, <3>3, <1>t
    <2> QED
      BY <2>1, <2>2, <1>41 DEF VoucherHeld, HeldAt
  <1>18. ASSUME NEW c \in Orders, LosePackage(c)
       PROVE  VoucherHeld'
    <2>1. /\ rows' = rows /\ uses' = uses
          /\ \A d \in Orders \ {c} : stage'[d] = stage[d] /\ (d \in open' => d \in open)
          /\ \A l \in Items : holder[l] \in Orders \ {c} => holder'[l] = holder[l]
      BY <1>18, <1>t DEF LosePackage, Reach, Fail, End, items, process, history
    <2>2. HeldAt(c)'
      BY <1>18, <1>t, <1>41 DEF LosePackage, Reach, Fail, Vouchers, HeldAt
    <2> QED
      BY <2>1, <2>2, <1>43
  <1>19. ASSUME NEW c \in Orders, GiveUp(c)
       PROVE  VoucherHeld'
    <2>1. /\ rows' = rows /\ uses' = uses
          /\ \A d \in Orders \ {c} : stage'[d] = stage[d] /\ (d \in open' => d \in open)
          /\ \A l \in Items : holder[l] \in Orders \ {c} => holder'[l] = holder[l]
      BY <1>19, <1>t DEF GiveUp, Reach, Fail, End, items, process, history
    <2>2. HeldAt(c)'
      BY <1>19, <1>t, <1>41 DEF GiveUp, Reach, Fail, Vouchers, HeldAt
    <2> QED
      BY <2>1, <2>2, <1>43
  <1>20. ASSUME NEW c \in Orders, Timeout(c)
       PROVE  VoucherHeld'
    <2>1. /\ rows' = rows /\ uses' = uses
          /\ \A d \in Orders \ {c} : stage'[d] = stage[d] /\ (d \in open' => d \in open)
          /\ \A l \in Items : holder[l] \in Orders \ {c} => holder'[l] = holder[l]
      BY <1>20, <1>t DEF Timeout, End, items, process, history
    <2>2. HeldAt(c)'
      BY <1>20 DEF Timeout, End, HeldAt
    <2> QED
      BY <2>1, <2>2, <1>43
  <1>21. ASSUME NEW c \in Orders, NoticeRollback(c)
       PROVE  VoucherHeld'
    <2>1. /\ rows' = rows /\ uses' = uses
          /\ \A d \in Orders \ {c} : stage'[d] = stage[d] /\ (d \in open' => d \in open)
          /\ \A l \in Items : holder[l] \in Orders \ {c} => holder'[l] = holder[l]
      BY <1>21, <1>t DEF NoticeRollback, Reach, Fail, End, items, process, history
    <2>2. HeldAt(c)'
      BY <1>21, <1>t, <1>41 DEF NoticeRollback, At, Reach, Fail, Vouchers, HeldAt
    <2> QED
      BY <2>1, <2>2, <1>43
  <1>22. ASSUME NEW i \in Wanted, Close(i)
       PROVE  VoucherHeld'
    BY <1>22, <1>44 DEF Close, items, process, history
  <1>23. ASSUME NEW i \in Wanted, DeletePackage(i)
       PROVE  VoucherHeld'
    BY <1>23, <1>44 DEF DeletePackage, items, process, history
  <1>24. ASSUME NEW u \in Users, NEW i \in Wanted, GenerateCode(u, i)
       PROVE  VoucherHeld'
    BY <1>24, <1>44 DEF GenerateCode, items, process, history
  <1>25. ASSUME NEW new \in Rewards, UpdateSettings(new)
       PROVE  VoucherHeld'
    BY <1>25, <1>44 DEF UpdateSettings, items, process, history
  <1> QED
    BY <1>1, <1>2, <1>3, <1>4, <1>5, <1>6, <1>7, <1>8, <1>9, <1>10, <1>11, <1>12, <1>13,
       <1>14, <1>15, <1>16, <1>17, <1>18, <1>19, <1>20, <1>21, <1>22, <1>23, <1>24, <1>25 DEF
       PurNext, PurStep

\* A step keeps what calls that checked a limit rely on.
LEMMA AloneStep ==
    ASSUME PurInv, PurNext
    PROVE  CheckedAlone'
  <1>t. /\ stage \in [Orders -> Stages] /\ rows \subseteq Orders /\ overlapped \subseteq overlapped'
        /\ CheckedAlone /\ ask \in [Orders -> Asks] /\ uses \in [Items -> Nat]
        /\ \A c \in Orders : Item(c) \in Items /\ User(c) \in Users
    BY OverlappedStay, PurchasesAssumption DEF PurInv, PurTypeOK, Item, User
  <1>41. ask' = ask /\ \A c : Item(c)' = Item(c) /\ User(c)' = User(c) /\ KindOf(c)' = KindOf(c)
    BY AskStays DEF Item, User, KindOf
  <1>42. ASSUME rows' = rows, uses' = uses
         PROVE  \A c : BelowLimit(c)' <=> BelowLimit(c)
    BY <1>41, <1>42 DEF BelowLimit, StoredBy, Stored, Item, User, KindOf
  <1>43. ASSUME rows' = rows, uses' = uses, \A c \in Orders : Underway(c)' => Underway(c)
         PROVE  CheckedAlone'
    <2> SUFFICES ASSUME NEW c \in Orders
                 PROVE  AloneAt(c)'
      BY DEF CheckedAlone
    <2>1. AloneAt(c)
      BY <1>t DEF CheckedAlone
    <2> QED
      BY <1>t, <1>41, <1>42, <1>43, <2>1 DEF AloneAt
  <1>44. ASSUME NEW c \in Orders, rows' = rows, uses' = uses,
                \A d \in Orders \ {c} : stage'[d] = stage[d],
                AloneAt(c)',
                \/ KindOf(c) \notin {"referral", "package"}
                \/ Item(c) \in overlapped'
                \/ \A d \in Orders : Item(d) = Item(c) => ~Underway(d)
         PROVE  CheckedAlone'
    <2>1. \A d \in Orders \ {c} : Underway(d)' = Underway(d)
      BY <1>44 DEF Underway
    <2>2. ASSUME NEW d \in Orders, d # c
          PROVE  AloneAt(d)'
      <3>1. AloneAt(d) /\ (Underway(d)' = Underway(d))
        BY <1>t, <2>1, <2>2 DEF CheckedAlone
      <3>2. Item(d) = Item(c) => KindOf(d) = KindOf(c)
        BY DEF KindOf
      <3> QED
        BY <1>t, <1>41, <1>42, <1>44, <2>1, <2>2, <3>1, <3>2 DEF AloneAt
    <2> QED
      BY <1>44, <2>2 DEF CheckedAlone
  <1>45. ASSUME NEW c \in Orders, rows' = rows, uses' = uses, Overlap(c), BelowLimit(c),
                \A d \in Orders \ {c} : stage'[d] = stage[d]
         PROVE  CheckedAlone'
    <2>1. CASE Checking(Item(c)) = {}
      <3>1. \A d \in Orders : Item(d) = Item(c) => ~Underway(d)
        BY <2>1 DEF Checking, Underway
      <3>2. AloneAt(c)'
        BY <3>1, <1>41, <1>42, <1>45 DEF AloneAt, Underway
      <3> QED
        BY <3>1, <3>2, <1>44, <1>45
    <2>2. CASE Checking(Item(c)) # {}
      <3>1. Item(c) \in overlapped'
        BY <1>45, <2>2 DEF Overlap
      <3>2. AloneAt(c)'
        BY <3>1, <1>41 DEF AloneAt
      <3> QED
        BY <3>1, <3>2, <1>44, <1>45
    <2> QED
      BY <2>1, <2>2
  <1>1. ASSUME NEW c \in Orders, BeginRedeem(c)
       PROVE  CheckedAlone'
    <2>1. /\ rows' = rows /\ uses' = uses /\ KindOf(c) \notin {"referral", "package"}
          /\ \A d \in Orders \ {c} : stage'[d] = stage[d]
      BY <1>1, <1>t DEF BeginRedeem, At, Reach, items, Vouchers
    <2>2. AloneAt(c)'
      BY <2>1, <1>41 DEF AloneAt
    <2> QED
      BY <2>1, <2>2, <1>44
  <1>2. ASSUME NEW c \in Orders, TakeVoucher(c)
       PROVE  CheckedAlone'
    <2>1. rows' = rows /\ uses' = uses
      BY <1>2 DEF TakeVoucher, items
    <2>2. \A d \in Orders : Underway(d)' => Underway(d)
      BY <1>2, <1>t DEF TakeVoucher, At, Reach, Underway
    <2> QED
      BY <2>1, <2>2, <1>43
  <1>3. ASSUME NEW c \in Orders, CreditVoucher(c)
       PROVE  CheckedAlone'
    <2>1. rows' = rows /\ uses' = uses
      BY <1>3 DEF CreditVoucher, items
    <2>2. \A d \in Orders : Underway(d)' => Underway(d)
      BY <1>3, <1>t DEF CreditVoucher, At, Reach, Underway
    <2> QED
      BY <2>1, <2>2, <1>43
  <1>4. ASSUME NEW c \in Orders, RefuseVoucher(c)
       PROVE  CheckedAlone'
    <2>1. rows' = rows /\ uses' = uses
      BY <1>4 DEF RefuseVoucher, items
    <2>2. \A d \in Orders : Underway(d)' => Underway(d)
      BY <1>4, <1>t DEF RefuseVoucher, At, Reach, Fail, Underway
    <2> QED
      BY <2>1, <2>2, <1>43
  <1>5. ASSUME NEW c \in Orders, CheckReferral(c)
       PROVE  CheckedAlone'
    <2>1. /\ rows' = rows /\ uses' = uses /\ Overlap(c)
          /\ \A d \in Orders \ {c} : stage'[d] = stage[d]
      BY <1>5, <1>t DEF CheckReferral, Reach, items
    <2>2. BelowLimit(c)
      BY <1>5 DEF CheckReferral, At, BelowLimit
    <2> QED
      BY <2>1, <2>2, <1>45
  <1>6. ASSUME NEW c \in Orders, BeginReferral(c)
       PROVE  CheckedAlone'
    <2>1. rows' = rows /\ uses' = uses
      BY <1>6 DEF BeginReferral, items
    <2>2. \A d \in Orders : Underway(d)' => Underway(d)
      BY <1>6, <1>t DEF BeginReferral, At, Reach, Underway
    <2> QED
      BY <2>1, <2>2, <1>43
  <1>7. ASSUME NEW c \in Orders, UseReferral(c)
       PROVE  CheckedAlone'
    <2>1. rows' = rows /\ uses' = uses
      BY <1>7 DEF UseReferral, items
    <2>2. \A d \in Orders : Underway(d)' => Underway(d)
      BY <1>7, <1>t DEF UseReferral, At, Reach, Underway
    <2> QED
      BY <2>1, <2>2, <1>43
  <1>8. ASSUME NEW c \in Orders, CreditReferrer(c)
       PROVE  CheckedAlone'
    <2>1. rows' = rows /\ uses' = uses
      BY <1>8 DEF CreditReferrer, items
    <2>2. \A d \in Orders : Underway(d)' => Underway(d)
      BY <1>8, <1>t DEF CreditReferrer, At, Reach, Underway
    <2> QED
      BY <2>1, <2>2, <1>43
  <1>9. ASSUME NEW c \in Orders, CreditReferee(c)
       PROVE  CheckedAlone'
    <2>1. rows' = rows /\ uses' = uses
      BY <1>9 DEF CreditReferee, items
    <2>2. \A d \in Orders : Underway(d)' => Underway(d)
      BY <1>9, <1>t DEF CreditReferee, At, Reach, Underway
    <2> QED
      BY <2>1, <2>2, <1>43
  <1>10. ASSUME NEW c \in Orders, RefuseReferral(c)
       PROVE  CheckedAlone'
    <2>1. rows' = rows /\ uses' = uses
      BY <1>10 DEF RefuseReferral, items
    <2>2. \A d \in Orders : Underway(d)' => Underway(d)
      BY <1>10, <1>t DEF RefuseReferral, At, Reach, Fail, Underway
    <2> QED
      BY <2>1, <2>2, <1>43
  <1>11. ASSUME NEW c \in Orders, CheckPurchase(c)
       PROVE  CheckedAlone'
    <2>1. /\ rows' = rows /\ uses' = uses /\ Overlap(c)
          /\ \A d \in Orders \ {c} : stage'[d] = stage[d]
      BY <1>11, <1>t DEF CheckPurchase, Reach, items
    <2>2. CASE KindOf(c) = "package"
      <3>1. BelowLimit(c)
        BY <1>11, <2>2 DEF CheckPurchase, BelowLimit, Purchased
      <3> QED
        BY <2>1, <3>1, <1>45
    <2>3. CASE KindOf(c) = "coupon"
      <3>1. AloneAt(c)'
        BY <2>3, <1>41 DEF AloneAt
      <3> QED
        BY <2>1, <2>3, <3>1, <1>44
    <2> QED
      BY <1>11, <2>2, <2>3 DEF CheckPurchase, At
  <1>12. ASSUME NEW c \in Orders, BeginPurchase(c)
       PROVE  CheckedAlone'
    <2>1. rows' = rows /\ uses' = uses
      BY <1>12 DEF BeginPurchase, items
    <2>2. \A d \in Orders : Underway(d)' => Underway(d)
      BY <1>12, <1>t DEF BeginPurchase, At, Reach, Underway
    <2> QED
      BY <2>1, <2>2, <1>43
  <1>13. ASSUME NEW c \in Orders, BuyAddOn(c)
       PROVE  CheckedAlone'
    <2>1. /\ rows' = rows /\ uses' = uses /\ KindOf(c) \notin {"referral", "package"}
          /\ \A d \in Orders \ {c} : stage'[d] = stage[d]
      BY <1>13, <1>t DEF BuyAddOn, At, Reach, items, Vouchers
    <2>2. AloneAt(c)'
      BY <2>1, <1>41 DEF AloneAt
    <2> QED
      BY <2>1, <2>2, <1>44
  <1>14. ASSUME NEW c \in Orders, QueueAddOn(c)
       PROVE  CheckedAlone'
    <2>1. rows' = rows /\ uses' = uses
      BY <1>14 DEF QueueAddOn, items
    <2>2. \A d \in Orders : Underway(d)' => Underway(d)
      BY <1>14, <1>t DEF QueueAddOn, At, Reach, Underway
    <2> QED
      BY <2>1, <2>2, <1>43
  <1>15. ASSUME NEW c \in Orders, Pay(c)
       PROVE  CheckedAlone'
    <2>1. rows' = rows /\ uses' = uses
      BY <1>15 DEF Pay, items
    <2>2. \A d \in Orders : Underway(d)' => Underway(d)
      BY <1>15, <1>t DEF Pay, Reach, Underway
    <2> QED
      BY <2>1, <2>2, <1>43
  <1>16. ASSUME NEW c \in Orders, RefusePurchase(c)
       PROVE  CheckedAlone'
    <2>1. rows' = rows /\ uses' = uses
      BY <1>16 DEF RefusePurchase, items
    <2>2. \A d \in Orders : Underway(d)' => Underway(d)
      BY <1>16, <1>t DEF RefusePurchase, At, Reach, Fail, Underway
    <2> QED
      BY <2>1, <2>2, <1>43
  <1>17. ASSUME NEW c \in Orders, Commit(c)
       PROVE  CheckedAlone'
    <2>1. /\ rows' = rows \cup {c} /\ stage[c] = "paid"
          /\ \A d \in Orders \ {c} : stage'[d] = stage[d]
          /\ \A i \in Items : i # Item(c) => uses'[i] = uses[i]
          /\ KindOf(c) # "addon" => stage'[c] = "done"
      BY <1>17, <1>t DEF Commit, Reach
    <2>2. /\ Underway(c) /\ (KindOf(c) # "addon" => ~Underway(c)')
          /\ \A d \in Orders \ {c} : Underway(d)' = Underway(d)
      BY <2>1 DEF Underway
    <2>3. ASSUME NEW d \in Orders, KindOf(d) \in {"referral", "package"},
                 Item(d) \notin overlapped',
                 Underway(d)'
          PROVE  AloneAt(d)'
      <3>1. d # c /\ Underway(d) /\ Item(d) \notin overlapped /\ AloneAt(d)
        BY <1>t, <2>2, <2>3 DEF CheckedAlone
      <3>2. Item(d) # Item(c)
        BY <2>2, <2>3, <3>1 DEF AloneAt
      <3>3. /\ uses'[Item(d)] = uses[Item(d)]
            /\ StoredBy(User(d), Item(d))' = StoredBy(User(d), Item(d))
        BY <2>1, <3>2, <1>t, <1>41 DEF StoredBy, Stored, Item, User
      <3>4. BelowLimit(d)'
        BY <2>3, <3>1, <3>3, <1>41 DEF AloneAt, BelowLimit
      <3>5. \A e \in Orders : Item(e) = Item(d) /\ Underway(e)' => e = d
        BY <2>2, <2>3, <3>1, <3>2 DEF AloneAt
      <3> QED
        BY <3>4, <3>5, <1>41 DEF AloneAt
    <2> QED
      BY <2>3, <1>41 DEF CheckedAlone, AloneAt
  <1>18. ASSUME NEW c \in Orders, LosePackage(c)
       PROVE  CheckedAlone'
    <2>1. rows' = rows /\ uses' = uses
      BY <1>18 DEF LosePackage, items
    <2>2. \A d \in Orders : Underway(d)' => Underway(d)
      BY <1>18, <1>t DEF LosePackage, Reach, Fail, Underway
    <2> QED
      BY <2>1, <2>2, <1>43
  <1>19. ASSUME NEW c \in Orders, GiveUp(c)
       PROVE  CheckedAlone'
    <2>1. rows' = rows /\ uses' = uses
      BY <1>19 DEF GiveUp, items
    <2>2. \A d \in Orders : Underway(d)' => Underway(d)
      BY <1>19, <1>t DEF GiveUp, Reach, Fail, Underway
    <2> QED
      BY <2>1, <2>2, <1>43
  <1>20. ASSUME NEW c \in Orders, Timeout(c)
       PROVE  CheckedAlone'
    <2>1. rows' = rows /\ uses' = uses
      BY <1>20 DEF Timeout, items
    <2>2. \A d \in Orders : Underway(d)' => Underway(d)
      BY <1>20, <1>t DEF Timeout, Underway
    <2> QED
      BY <2>1, <2>2, <1>43
  <1>21. ASSUME NEW c \in Orders, NoticeRollback(c)
       PROVE  CheckedAlone'
    <2>1. rows' = rows /\ uses' = uses
      BY <1>21 DEF NoticeRollback, items
    <2>2. \A d \in Orders : Underway(d)' => Underway(d)
      BY <1>21, <1>t DEF NoticeRollback, At, Reach, Fail, Underway
    <2> QED
      BY <2>1, <2>2, <1>43
  <1>22. ASSUME NEW i \in Wanted, Close(i)
       PROVE  CheckedAlone'
    <2>1. rows' = rows /\ uses' = uses
      BY <1>22 DEF Close
    <2>2. \A d \in Orders : Underway(d)' => Underway(d)
      BY <1>22, <1>t DEF Close, Underway
    <2> QED
      BY <2>1, <2>2, <1>43
  <1>23. ASSUME NEW i \in Wanted, DeletePackage(i)
       PROVE  CheckedAlone'
    <2>1. rows' = rows /\ uses' = uses
      BY <1>23 DEF DeletePackage
    <2>2. \A d \in Orders : Underway(d)' => Underway(d)
      BY <1>23, <1>t DEF DeletePackage, Underway
    <2> QED
      BY <2>1, <2>2, <1>43
  <1>24. ASSUME NEW u \in Users, NEW i \in Wanted, GenerateCode(u, i)
       PROVE  CheckedAlone'
    <2>1. rows' = rows /\ uses' = uses
      BY <1>24 DEF GenerateCode
    <2>2. \A d \in Orders : Underway(d)' => Underway(d)
      BY <1>24, <1>t DEF GenerateCode, Underway
    <2> QED
      BY <2>1, <2>2, <1>43
  <1>25. ASSUME NEW new \in Rewards, UpdateSettings(new)
       PROVE  CheckedAlone'
    <2>1. rows' = rows /\ uses' = uses
      BY <1>25 DEF UpdateSettings
    <2>2. \A d \in Orders : Underway(d)' => Underway(d)
      BY <1>25, <1>t DEF UpdateSettings, Underway
    <2> QED
      BY <2>1, <2>2, <1>43
  <1> QED
    BY <1>1, <1>2, <1>3, <1>4, <1>5, <1>6, <1>7, <1>8, <1>9, <1>10, <1>11, <1>12, <1>13,
       <1>14, <1>15, <1>16, <1>17, <1>18, <1>19, <1>20, <1>21, <1>22, <1>23, <1>24, <1>25 DEF
       PurNext, PurStep

\* A commit keeps the limits: its transaction held the row of the voucher, or was
\* alone with the item it had checked.
LEMMA CommitLimits ==
    ASSUME PurInv, PurNext, NEW c \in Orders, Commit(c)
    PROVE  LimitsHold'
  <1>t. /\ rows \subseteq Orders /\ uses \in [Items -> Nat] /\ LimitsHold
  /\ overlapped' = overlapped
        /\ Limit \in [Items -> Nat] /\ Item(c) \in Items /\ User(c) \in Users /\ IsFiniteSet(Orders)
    BY PurchasesAssumption DEF PurInv, PurTypeOK, Item, User, Commit, history
  <1>1. /\ c \notin rows /\ rows' = rows \cup {c} /\ stage[c] = "paid"
        /\ c \in open \/ KindOf(c) = "addon"
        /\ uses' = IF KindOf(c) \in Vouchers \cup {"referral"}
                   THEN [uses EXCEPT ![Item(c)] = @ + 1] ELSE uses
    BY DEF Commit, PurInv, StoredCallsEnded
  <1>2. /\ \A i : Stored(i)' = IF i = Item(c) THEN Stored(i) \cup {c} ELSE Stored(i)
        /\ \A u, i : StoredBy(u, i)' =
             IF i = Item(c) /\ u = User(c) THEN StoredBy(u, i) \cup {c} ELSE StoredBy(u, i)
    BY <1>1, AskStays DEF Stored, StoredBy, Item, User
  <1>3. /\ \A i : IsFiniteSet(Stored(i)) /\ c \notin Stored(i)
        /\ \A u, i : IsFiniteSet(StoredBy(u, i)) /\ c \notin StoredBy(u, i)
    <2>1. \A i : Stored(i) \subseteq Orders /\ c \notin Stored(i)
      BY <1>t, <1>1 DEF Stored
    <2>2. \A u, i : StoredBy(u, i) \subseteq Orders /\ c \notin StoredBy(u, i)
      BY <2>1 DEF StoredBy
    <2> QED
      BY <1>t, <2>1, <2>2, FS_Subset
  <1>4. /\ \A i : Cardinality(Stored(i) \cup {c}) = Cardinality(Stored(i)) + 1
        /\ \A u, i : Cardinality(StoredBy(u, i) \cup {c}) = Cardinality(StoredBy(u, i)) + 1
        /\ \A u, i : Cardinality(StoredBy(u, i)) \in Nat
    BY <1>3, FS_AddElement, FS_CardinalityType
  <1>o. PICK o \in Users : o = User(c)
    BY <1>t
  <1>5. ASSUME NEW i \in Items, Kind[i] \in Vouchers
        PROVE  VoucherWithinLimit(i)'
    <2>1. VoucherWithinLimit(i)
      BY <1>t, <1>5 DEF LimitsHold
    <2>2. CASE i = Item(c)
      <3>1. HeldAt(c) /\ c \in open /\ KindOf(c) \in Vouchers
        BY <1>1, <1>5, <2>2 DEF PurInv, VoucherHeld, KindOf, Vouchers
      <3>2. (Limit[i] > 0 => uses[i] < Limit[i]) /\ StoredBy(User(c), i) = {}
        BY <1>1, <2>2, <3>1 DEF HeldAt
      <3>3. uses'[i] = uses[i] + 1 /\ uses[i] \in Nat /\ Limit[i] \in Nat
        BY <1>1, <1>t, <2>2, <3>1
      <3>4. uses'[i] = Cardinality(Stored(i)')
        BY <1>2, <1>4, <2>1, <2>2, <3>3 DEF VoucherWithinLimit
      <3>5. Cardinality(StoredBy(o, i)') = 1
        <4>1. StoredBy(o, i)' = StoredBy(o, i) \cup {c}
          BY <1>2, <1>o, <2>2
        <4>2. Cardinality(StoredBy(o, i)) = 0
          BY <1>o, <3>2, FS_EmptySet
        <4> QED
          BY <1>4, <4>1, <4>2
      <3>6. ASSUME NEW u \in Users
            PROVE  Cardinality(StoredBy(u, i)') <= 1
        <4>1. CASE u # o
          BY <1>2, <1>o, <2>1, <4>1 DEF VoucherWithinLimit
        <4> QED
          BY <3>5, <4>1
      <3> QED
        BY <3>2, <3>3, <3>4, <3>6 DEF VoucherWithinLimit
    <2>3. CASE i # Item(c)
      <3>1. uses'[i] = uses[i] /\ Stored(i)' = Stored(i) /\ \A u : StoredBy(u, i)' = StoredBy(u, i)
        BY <1>1, <1>2, <1>t, <2>3
      <3> QED
        BY <2>1, <3>1 DEF VoucherWithinLimit
    <2> QED
      BY <2>2, <2>3
  <1>6. ASSUME NEW i \in Items, Kind[i] \in {"referral", "package"}
        PROVE  CheckedWithinLimit(i)'
    <2>1. CheckedWithinLimit(i)
      BY <1>t, <1>6 DEF LimitsHold
    <2> SUFFICES ASSUME i \notin overlapped, Limit[i] > 0
                 PROVE  IF Kind[i] = "referral" THEN uses'[i] <= Limit[i]
                        ELSE \A u \in Users : Cardinality(StoredBy(u, i)') <= Limit[i]
      BY <1>t DEF CheckedWithinLimit
    <2>2. CASE i = Item(c)
      <3>1. AloneAt(c) /\ Underway(c) /\ KindOf(c) = Kind[i]
        BY <1>1, <2>2 DEF PurInv, CheckedAlone, Underway, KindOf
      <3>2. BelowLimit(c)
        BY <1>6, <2>2, <3>1 DEF AloneAt
      <3>3. CASE Kind[i] = "referral"
        <4>1. uses'[i] = uses[i] + 1 /\ uses[i] < Limit[i] /\ uses[i] \in Nat /\ Limit[i] \in Nat
          BY <1>1, <1>t, <2>2, <3>1, <3>2, <3>3 DEF BelowLimit
        <4> QED
          BY <3>3, <4>1
      <3>4. CASE Kind[i] # "referral"
        <4>1. /\ Cardinality(StoredBy(o, i)) < Limit[i]
              /\ Limit[i] \in Nat /\ Cardinality(StoredBy(o, i)) \in Nat
          BY <1>4, <1>o, <1>t, <2>2, <3>1, <3>2, <3>4 DEF BelowLimit
        <4>2. Cardinality(StoredBy(o, i)') = Cardinality(StoredBy(o, i)) + 1
          BY <1>2, <1>4, <1>o, <2>2
        <4>3. ASSUME NEW u \in Users, u # o
              PROVE  Cardinality(StoredBy(u, i)') <= Limit[i]
          <5>1. StoredBy(u, i)' = StoredBy(u, i)
            BY <1>2, <1>o, <4>3
          <5> QED
            BY <2>1, <3>4, <5>1 DEF CheckedWithinLimit
        <4> QED
          BY <3>4, <4>1, <4>2, <4>3
      <3> QED
        BY <3>3, <3>4
    <2>3. CASE i # Item(c)
      <3>1. uses'[i] = uses[i] /\ \A u : StoredBy(u, i)' = StoredBy(u, i)
        BY <1>1, <1>2, <1>t, <2>3
      <3> QED
        BY <2>1, <3>1 DEF CheckedWithinLimit
    <2> QED
      BY <2>2, <2>3
  <1> QED
    BY <1>5, <1>6 DEF LimitsHold

\* Vouchers, codes and packages stay within their limits in every step.
LEMMA LimitsStep ==
    ASSUME PurInv, PurNext
    PROVE  LimitsHold'
  <1>1. CASE \E d \in Orders : Commit(d)
    BY <1>1, CommitLimits
  <1>2. CASE rows' = rows /\ uses' = uses
    <2>1. /\ \A i : Stored(i)' = Stored(i)
          /\ \A u, i : StoredBy(u, i)' = StoredBy(u, i)
      BY <1>2, AskStays DEF Stored, StoredBy, Item, User
    <2>2. LimitsHold /\ overlapped \subseteq overlapped'
      BY OverlappedStay DEF PurInv
    <2>3. ASSUME NEW i \in Items, Kind[i] \in Vouchers
          PROVE  VoucherWithinLimit(i)'
      BY <1>2, <2>1, <2>2, <2>3 DEF LimitsHold, VoucherWithinLimit
    <2>4. ASSUME NEW i \in Items, Kind[i] \in {"referral", "package"}
          PROVE  CheckedWithinLimit(i)'
      BY <1>2, <2>1, <2>2, <2>4 DEF LimitsHold, CheckedWithinLimit
    <2> QED
      BY <2>3, <2>4 DEF LimitsHold
  <1> QED
    BY <1>1, <1>2, RowsChange

-----------------------------------------------------------------------------
\* At first nothing is under way and nothing stored.
LEMMA PurInitInv == ASSUME PurInit PROVE PurInv
  <1>1. PurTypeOK
    <2>1. reward \in [referrer : Nat, referee : Nat]
      BY PurchasesAssumption DEF PurInit
    <2>2. owner \in [Items -> Users \cup {None}] /\ ask \in [Orders -> Asks]
      BY DEF PurInit
    <2>3. balance \in [Users -> Nat]
      BY PurchasesAssumption DEF PurInit
    <2> QED
      BY <2>1, <2>2, <2>3 DEF PurInit, PurTypeOK, Stages
  <1>2. \A i : Stored(i) = {} /\ \A u : StoredBy(u, i) = {}
    BY DEF PurInit, Stored, StoredBy
  <1>3. LimitsHold
    <2>1. Limit \in [Items -> Nat] /\ Cardinality({}) = 0 /\ \A i \in Items : uses[i] = 0
      BY FS_EmptySet, PurchasesAssumption DEF PurInit
    <2>2. ASSUME NEW i \in Items
          PROVE  VoucherWithinLimit(i) /\ CheckedWithinLimit(i)
      <3>1. uses[i] = 0 /\ Limit[i] \in Nat
        BY <2>1
      <3>2. Cardinality(Stored(i)) = 0 /\ \A u : Cardinality(StoredBy(u, i)) = 0
        BY <1>2, <2>1
      <3> QED
        BY <3>1, <3>2 DEF VoucherWithinLimit, CheckedWithinLimit
    <2> QED
      BY <2>2 DEF LimitsHold
  <1>4. StoredCallsEnded /\ PaidSoFar /\ FailureHasCause /\ VoucherHeld /\ CheckedAlone
    BY DEF PurInit, StoredCallsEnded, PaidSoFar, PaidAt, FailureHasCause, VoucherHeld, HeldAt,
       CheckedAlone, AloneAt, Underway
  <1> QED
    BY <1>1, <1>3, <1>4 DEF PurInv

\* A stuttering step changes nothing.
LEMMA PurStutterInv == ASSUME PurInv, UNCHANGED purVars PROVE PurInv'
  <1> USE DEF purVars, items, process, history
  <1>1. PurTypeOK'
    BY DEF PurInv, PurTypeOK
  <1>2. StoredCallsEnded'
    BY DEF PurInv, StoredCallsEnded
  <1>3. PaidSoFar' /\ FailureHasCause'
    BY DEF PurInv, PaidSoFar, PaidAt, FailureHasCause, KindOf, Item
  <1>4. \A i, u : Stored(i)' = Stored(i) /\ StoredBy(u, i)' = StoredBy(u, i)
    BY DEF Stored, StoredBy, Item, User
  <1>5. VoucherHeld'
    BY <1>4 DEF PurInv, VoucherHeld, HeldAt, KindOf, Item, User, StoredBy, Stored
  <1>6. CheckedAlone'
    BY <1>4 DEF PurInv, CheckedAlone, AloneAt, Underway, BelowLimit, KindOf, Item, User, StoredBy,
       Stored
  <1>7. LimitsHold'
    BY <1>4 DEF PurInv, LimitsHold, VoucherWithinLimit, CheckedWithinLimit
  <1> QED
    BY <1>1, <1>2, <1>3, <1>5, <1>6, <1>7 DEF PurInv

LEMMA PurInvStep == PurInv /\ [PurNext]_purVars => PurInv'
  <1> SUFFICES ASSUME PurInv, [PurNext]_purVars
               PROVE  PurInv'
    OBVIOUS
  <1>1. CASE PurNext
    <2>1. PurTypeOK'
      BY <1>1, MoneyTypes, RowTypes, LocalTypes, RewardTypes, LockTypes DEF PurTypeOK, PurInv
    <2> QED
      BY <1>1, <2>1, EndedStep, PaidStep, HeldStep, AloneStep, LimitsStep DEF PurInv
  <1>2. CASE UNCHANGED purVars
    BY <1>2, PurStutterInv
  <1> QED
    BY <1>1, <1>2

\* The variables of Purchases hold what the columns and locals can hold.
THEOREM PurchasesTypes == PurSpec => []PurTypeOK
  <1>1. PurInit => PurInv
    BY PurInitInv
  <1>2. PurInv /\ [PurNext]_purVars => PurInv'
    BY PurInvStep
  <1>3. PurInv => PurTypeOK
    BY DEF PurInv
  <1> QED
    BY <1>1, <1>2, <1>3, PTL DEF PurSpec

\* redeemVoucher, redeemReferral, purchasePackage: however calls interleave, wait and
\* time out, a voucher keeps its limit, and codes and packages keep theirs unless
\* their checks overlapped.
THEOREM PurchasesLimitsHold == PurSpec => []LimitsHold
  <1>1. PurInit => PurInv
    BY PurInitInv
  <1>2. PurInv /\ [PurNext]_purVars => PurInv'
    BY PurInvStep
  <1>3. PurInv => LimitsHold
    BY DEF PurInv
  <1> QED
    BY <1>1, <1>2, <1>3, PTL DEF PurSpec

\* A call that failed left the wallets alone, or one of the causes is there that the
\* property names.
THEOREM PurchasesFailureHasCause == PurSpec => []FailureHasCause
  <1>1. PurInit => PurInv
    BY PurInitInv
  <1>2. PurInv /\ [PurNext]_purVars => PurInv'
    BY PurInvStep
  <1>3. PurInv => FailureHasCause
    BY DEF PurInv
  <1> QED
    BY <1>1, <1>2, <1>3, PTL DEF PurSpec
=============================================================================
