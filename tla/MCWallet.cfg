SPECIFICATION FairSpec
CONSTANTS
  NoRequest = NoRequest
  u1 = u1
  u2 = u2
  Users = {u1, u2}
  Requests = {r1, r2, r3}
  Calls <- MCCalls
INVARIANTS Conservation 
PROPERTIES DebitAuditExact ImplementsAbstract 
CHECK_DEADLOCK FALSE
