SPECIFICATION FairSpec
CONSTANTS
  Requests = {r1, r2}
  Models = {m1, m2}
  Priorities = {"high", "low"}
  MaxDepth = 2
  MaxBatchSize = 1
  DialMayFail = TRUE
INVARIANTS OneLoopPerModel WaiterHasLoop
PROPERTIES EveryCallReturns QueueDrains
