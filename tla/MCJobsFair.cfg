SPECIFICATION FairSpec
CONSTANTS
  create = create
  delete = delete
  c1 = c1
  c2 = c2
  c3 = c3
  Jobs = {create, delete}
  Callers = {c1, c3}
  KeyOf <- FewKeyOf
  Creates = {create}
  Deletes = {delete}
  Addressed = {create, delete}
  NodeIsRow = FALSE
  Subscribed = {}
  Attempts = 2
  MaxStalled = 1
  Workers = 1
  Faults = {"lookup", "proxmox", "effect", "catch", "crash"}
  MaxFaults = 3
PROPERTIES EveryJobEnds
CHECK_DEADLOCK FALSE
