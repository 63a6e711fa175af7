SPECIFICATION FairGatewaySpec

CONSTANTS
  Keys = {k1}
  Admins = {}
  NoDraft = NoDraft
  DefaultLimits <- MCDefaultLimits
  CreateRequests <- MCCreateRequests
  UpdateRequests = {}
  Recharges = {}
  MaxDeposits = 2
  Callers = {c1, c2}
  KeyOf <- OneKey
  NotSeen = NotSeen
  PreDeductAmount = 1
  Usages <- MCUsages
  NoModel = NoModel
  UseRedis = FALSE
  DBMayFail = FALSE
  MaxFaults = 0
  MaxOverruns = 0
  Requests <- ChatRequests
  NoAnswer = NoAnswer
  NoLog = NoLog
  StartChannels <- MCStartChannels
  StartModels <- MCStartModels
  TokenCounts = {0, 2}
  MaxTokens = 2
  MinutesPerDay = 2
  MinuteTTL = 2
  DayTTL = 3
  StartMinute = 0
  MaxMinute = 0
  MaxAnswers = 2
  Channels = {ch1}
  ModelRows = {1}
  Names = {ch1, ch2}
  ModelIDs = {gpt}
  Priorities = {0, 1}
  Prices <- MCPrices
  Editors = {}
  NoEdit = NoEdit
  NoRow = NoRow
  k1 = k1
  c1 = c1
  c2 = c2
  ch1 = ch1
  ch2 = ch2
  gpt = gpt

INVARIANT GatewayTypeOK
INVARIANT QuotaMatchesLog
INVARIANT FailuresRepaid
PROPERTY RequestEnds

\* Every request is served once, so the system comes to rest.
CHECK_DEADLOCK FALSE
