--------------------------- MODULE MCResourcePool ---------------------------
EXTENDS ResourcePool

CONSTANTS p1, v1, v2

\* A large and a small request; only the large one asks for an address.
Large == [cores |-> 3, ips |-> 1]
Small == [cores |-> 1, ips |-> 0]

MCDims == {"cores", "ips"}
MCResizedDims == {"cores"}

MCCalls == [op : {"create", "update", "delete", "allocate", "release", "resize"},
            pool : Pools, vm : Vms, size : {Large, Small}]

\* Everything belongs to one user.
OneOwner(S) == [x \in S |-> "u1"]
MCPoolOwner == OneOwner(Pools)
MCVmOwner == OneOwner(Vms)

\* Calls that differ only in fields their operation ignores are the same; only
\* v1 is released and resized.
Canonical(c) ==
    /\ c.op \in {"create", "update", "delete"} => c.vm = v1
    /\ c.op \in {"delete", "release"} => c.size = Small
    /\ c.op \in {"release", "resize"} => c.pool = p1 /\ c.vm = v1

CanonicalCalls == {c \in MCCalls : Canonical(c)}
=============================================================================
