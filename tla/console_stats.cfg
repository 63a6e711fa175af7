SPECIFICATION ConsoleSpec

CONSTANTS
  Processes = {p1, p2}
  Clients = {t1, t2}
  Browsers = {b1, b2}
  Admin = Admin
  Root = Root
  Names = {bob}
  NoUser = NoUser
  Startup = Startup
  NoProcess = NoProcess
  AccessExpiry = 1
  RefreshExpiry = 2
  Viewers = {t1, t2}
  Keys = {k1, k2}
  Channels = {ch1}
  Workload <- MCWorkload
  NoFilter = NoFilter
  NoView = NoView
  PageSize = 1
  Situations <- MCSituations
  p1 = p1
  p2 = p2
  t1 = t1
  t2 = t2
  b1 = b1
  b2 = b2
  bob = bob
  k1 = k1
  k2 = k2
  ch1 = ch1

SYMMETRY Symmetry

INVARIANT AccountsTypeOK
INVARIANT DefaultsPresent
INVARIANT TokensBelong
INVARIANT ServedWereEntitled
INVARIANT StatsTypeOK
INVARIANT FiguresWithin
INVARIANT NeverFewer
INVARIANT NoLogSkipped
PROPERTY RefusedForCause

CHECK_DEADLOCK FALSE
