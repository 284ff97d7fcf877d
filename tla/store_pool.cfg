SPECIFICATION FairSpec
CONSTANTS
  Loaders = {l1}
  Users = {u1, u2}
  MaxOpen = 1
  Models = 2
CHECK_DEADLOCK FALSE
PROPERTY LoadModelsReturns
