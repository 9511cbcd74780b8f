SPECIFICATION SubFairSpec
CONSTANTS
  Absent = Absent
  u1 = u1
  u2 = u2
  r1 = r1
  r2 = r2
  s1 = s1
  s2 = s2
  s3 = s3
  Customers = {u1, u2}
  Subs = {s1}
  Ips = {i1}
  Plans <- MCPlans
  Owner <- MCOwner
  Price <- MCPrice
  Cores <- MCCores
  Changes <- MCChanges
  Discount <- MCDiscount
  Old = {s1}
  Addressed = {"create"}
  Spare = 1
  MaxSubs = 2
  Handlers = {r1}
  CallsOf <- OneSubCallsOf
  Balances = {1}
  Consumer = worker
  Runners = {worker, admin}
  MaxPeriods = 2
  MaxBreaks = 1
 
PROPERTIES EveryPeriodSettles
CHECK_DEADLOCK FALSE
