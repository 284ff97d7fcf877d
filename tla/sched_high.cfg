SPECIFICATION Spec
CONSTANTS
  Requests = {r1, r2, r3}
  Models = {m1}
  Priorities = {"high", "low"}
  MaxDepth = 1
  MaxBatchSize = 1
  DialMayFail = TRUE
PROPERTY HighAlwaysAccepted
