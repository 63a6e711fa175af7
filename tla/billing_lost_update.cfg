SPECIFICATION Spec

CONSTANTS
  Keys = {k1}
  Admins = {a1}
  NoDraft = NoDraft
  DefaultLimits <- MCDefaultLimits
  CreateRequests <- MCCreateRequests
  UpdateRequests <- MCUpdateRequests
  Recharges = {1}
  MaxDeposits = 3
  Callers = {c1, c2}
  KeyOf <- OneKey
  NotSeen = NotSeen
  PreDeductAmount = 1
  Usages <- MCUsages
  NoModel = NoModel
  UseRedis = FALSE
  DBMayFail = FALSE
  MaxFaults = 1
  MaxOverruns = 1
  k1 = k1
  c1 = c1
  c2 = c2
  c3 = c3
INVARIANT AccurateTracking

\* Every request is served once, so the system comes to rest.
CHECK_DEADLOCK FALSE
