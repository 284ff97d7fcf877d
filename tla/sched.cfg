SPECIFICATION Spec
CONSTANTS
  Requests = {r1, r2, r3}
  Models = {m1}
  Priorities = {"high", "low"}
  MaxDepth = 2
  MaxBatchSize = 2
  DialMayFail = TRUE
SYMMETRY Symmetry
INVARIANTS TypeOK DepthBounded SendNeverBlocks NoDoubleDispatch WaiterIsServed
  CountersBalance
PROPERTIES ImplementsContract
