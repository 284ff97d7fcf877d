SPECIFICATION Spec
CONSTANTS
  Cap = 3
  Percentile = 60
  MaxWaitMs = 30
  MinWaitMs = 5
  P99SLOMs = 500
  Busy = 1
  Crowded = 2
  MaxBatchSize = 2
  MaxDepth = 4
  Latencies = {100, 700, 800}
  MaxItems = 6
INVARIANTS P99IsRecent WindowShrinksWithLoad DrainIsTheLoop
PROPERTY DrainRespectsPriority
