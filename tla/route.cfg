SPECIFICATION FairSpec
CONSTANTS
  Calls = {c1, c2}
  Catalog <- MCCatalog
  Jobs <- MCJobs
  Tables <- MCTables
  Fragile = {2}
  Window = 2
  Threshold = 2
  SuccessReq = 2
  Timeout = 1
INVARIANTS TypeOK HealthIsRecent LateFailuresBounded
PROPERTIES RoutesAround RecoversWhenPreferred
