SPECIFICATION MCSpec
CONSTANTS
  Calls = {c1, c2}
  Policies <- MCPolicies
  Default <- MCDefault
  TTL = 1
  Second = 2
  MaxRate = 2
  MaxBurst = 2
  MaxIdle = 4
  Clients = {k1, k2}
  QuotaDefault <- MCQuotaDefault
  QuotaConfigs <- MCQuotaConfigs
  Estimates <- MCEstimates
  Tokens = {1}
  Contexts = {1, 2}
  Prices = {2}
  QuotaTTL = 1
  DayMinutes = 1
  Horizon = 2
  MaxFaults = 1
  Posts = {p1, p2}
  MaxEdits = 3
  Requests = {r1, r2}
  Bodies <- MCBodies
  Limits <- MCLimits
  KeyTTL = 2
  MaxLookup = 1
  MaxWords = 2
  MaxTokens = 2
INVARIANTS ServicesTypeOK NeverOverspends NoOvercount OverrunIsBounded
INVARIANTS CountersBalance StreamsEndWithDone
PROPERTIES PolicyConverges NotStarved CopiesConverge RevocationHolds OneStatus DrainsWhenDown
CHECK_DEADLOCK FALSE
