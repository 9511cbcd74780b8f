---------------------------- MODULE AbstractPool ----------------------------
(***************************************************************************)
(* What resource pools promise the callers that create, resize and delete  *)
(* VMs: a call is one indivisible step and happens at most once.  In that  *)
(* step an allocation of a pool that only its owner uses fits, the growth  *)
(* of a resize fits beside the other VMs, a VM has at most one allocation, *)
(* and a pool that goes is empty.                                          *)
(***************************************************************************)
EXTENDS Sums

CONSTANTS Pools, Vms,
          PrivatePools,       \* the pools that only their owner uses
          Dims, ResizedDims,  \* what is bought; what a resize checks of it
          Sizes,              \* the amounts, for each of Dims, that callers ask for
          Requests,           \* the calls
          NoPool

VARIABLES status, total,  \* the pools: unborn, live or gone; what was bought
          home, size,     \* the VMs: their pool, and what they hold of it
          done            \* the calls that have happened

vars == <<status, total, home, size, done>>

Init ==
    /\ status \in [Pools -> {"unborn", "live"}]
    /\ total \in [Pools -> Sizes]
    /\ home = [v \in Vms |-> NoPool]
    /\ size = [v \in Vms |-> [d \in Dims |-> 0]]
    /\ done = {}

\* What the VMs in V hold of dimension d of pool p.
Held(V, p, d) ==
    SumOver([v \in Vms |-> IF home[v] = p THEN size[v][d] ELSE 0], V)

Create(p, s) ==
    /\ status[p] = "unborn"
    /\ status' = [status EXCEPT ![p] = "live"]
    /\ total' = [total EXCEPT ![p] = s]
    /\ UNCHANGED <<home, size>>

Update(p, s) ==
    /\ status[p] = "live"
    /\ total' = [total EXCEPT ![p] = s]
    /\ UNCHANGED <<status, home, size>>

Delete(p) ==
    /\ status[p] = "live"
    /\ \A v \in Vms : home[v] # p
    /\ status' = [status EXCEPT ![p] = "gone"]
    /\ UNCHANGED <<total, home, size>>

Allocate(v, p, s) ==
    /\ status[p] = "live" /\ home[v] = NoPool
    /\ p \in PrivatePools =>
           \A d \in Dims : Held(Vms, p, d) + s[d] <= total[p][d]
    /\ home' = [home EXCEPT ![v] = p]
    /\ size' = [size EXCEPT ![v] = s]
    /\ UNCHANGED <<status, total>>

Release(v) ==
    /\ home[v] # NoPool
    /\ home' = [home EXCEPT ![v] = NoPool]
    /\ size' = [size EXCEPT ![v] = [d \in Dims |-> 0]]
    /\ UNCHANGED <<status, total>>

Resize(v, s) ==
    /\ home[v] # NoPool
    /\ home[v] \in PrivatePools =>
           \A d \in ResizedDims :
               Held(Vms \ {v}, home[v], d) + s[d] - size[v][d] <= total[home[v]][d]
    /\ size' = [size EXCEPT ![v] =
                   [d \in Dims |-> IF d \in ResizedDims THEN s[d] ELSE size[v][d]]]
    /\ UNCHANGED <<status, total, home>>

\* A release that finds no allocation has nothing to change.
Nothing == UNCHANGED <<status, total, home, size>>

Happen(r) ==
    /\ r \notin done /\ done' = done \cup {r}
    /\ \/ \E p \in Pools, s \in Sizes : Create(p, s) \/ Update(p, s)
       \/ \E p \in Pools : Delete(p)
       \/ \E v \in Vms, p \in Pools, s \in Sizes : Allocate(v, p, s)
       \/ \E v \in Vms : Release(v)
       \/ \E v \in Vms, s \in Sizes : Resize(v, s)
       \/ Nothing

Next == \E r \in Requests : Happen(r)

Spec == Init /\ [][Next]_vars
=============================================================================
