SPECIFICATION Spec
CONSTANTS
  Ids = {1, 2}
  Upserts = {u1, u2}
  Deletes = {d1}
  Evaluator = evaluator
  MaxRestarts = 1
INVARIANT WeightsOfActive
