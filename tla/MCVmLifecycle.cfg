SPECIFICATION Spec
CONSTANTS
  None = None
  Foreign = Foreign
  v0 = v0
  v1 = v1
  v2 = v2
  b0 = b0
  b1 = b1
  s1 = s1
  i1 = i1
  r1 = r1
  r2 = r2
  r3 = r3
  Vms = {v0, v1, v2}
  Backups = {b0, b1}
  Snapshots = {s1}
  Ips = {i1}
  Ids = {100, 101, 102}
  PoolOf <- MCPoolOf
  Old = {v0}
  OldBackups = {b0}
  VmOf <- MCVmOf
  BackupLimit = 1
  Requests = {r1, r2, r3}
  CallsOf <- MCCallsOf
  MaxFaults = 1
INVARIANTS RunningOwnsMachine ForeignUntouched 
PROPERTIES AddressKept
CHECK_DEADLOCK FALSE
