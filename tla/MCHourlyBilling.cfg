SPECIFICATION FairSpec
CONSTANTS
  None = None
  Vms = {v1}
  Cost <- MCCost
  Addressed = {"start"}
  Runners = {worker, admin}
  Consumer = worker
  Balances = {1}
  TopUp = 1
  MaxHour = 1
  MaxFaults = 1
  MaxAsked = 1
INVARIANTS HoursAccountedFor InvoicesBacked
CHECK_DEADLOCK FALSE
PROPERTIES OverdueGone
