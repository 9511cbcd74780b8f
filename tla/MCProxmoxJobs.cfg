SPECIFICATION Spec
CONSTANTS
  create = create
  delete = delete
  c1 = c1
  c2 = c2
  c3 = c3
  Jobs = {create, delete}
  Callers = {c1, c2, c3}
  KeyOf <- MCKeyOf
  Creates = {create}
  Deletes = {delete}
  Addressed = {create, delete}
  NodeIsRow = TRUE
  Subscribed = {create}
  Attempts = 3
  MaxStalled = 1
  Workers = 2
  Faults = {"enqueue", "proxmox", "effect", "crash"}
  MaxFaults = 3
INVARIANTS OneEnqueuePerKey  
 
CHECK_DEADLOCK FALSE
