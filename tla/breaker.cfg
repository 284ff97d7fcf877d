SPECIFICATION FairSpec
CONSTANTS
  Calls = {c1, c2, c3, c4}
  Threshold = 3
  SuccessReq = 2
  Timeout = 2
  MaxFailures = 6
INVARIANTS TypeOK BreakerShape
PROPERTIES Quarantine Recovery
