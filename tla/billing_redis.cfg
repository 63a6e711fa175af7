SPECIFICATION RecoveringSpec

CONSTANTS
  Keys = {k1}
  Admins = {}
  NoDraft = NoDraft
  DefaultLimits <- MCDefaultLimits
  CreateRequests <- MCCreateRequests
  UpdateRequests <- MCUpdateRequests
  Recharges = {}
  MaxDeposits = 2
  Callers = {c1, c2, c3}
  KeyOf <- OneKey
  NotSeen = NotSeen
  PreDeductAmount = 1
  Usages <- MCUsages
  NoModel = NoModel
  UseRedis = TRUE
  DBMayFail = FALSE
  MaxFaults = 1
  MaxOverruns = 1
  k1 = k1
  c1 = c1
  c2 = c2
  c3 = c3
INVARIANT LockBudget
PROPERTY ReservationEnds
PROPERTY LockFreed

\* Every request is served once, so the system comes to rest.
CHECK_DEADLOCK FALSE
