SPECIFICATION FairSpec
CONSTANTS
  p1 = p1
  v1 = v1
  v2 = v2
  Pools = {p1}
  Vms = {v1, v2}
  Dims <- MCDims
  ResizedDims <- MCResizedDims
  PoolOwner <- MCPoolOwner
  VmOwner <- MCVmOwner
  Requests = {r1, r2, r3}
  Calls <- CanonicalCalls
  NoPool = NoPool
  NoRequest = NoRequest
PROPERTIES AllocationFits ImplementsAbstractPool 
CHECK_DEADLOCK FALSE
