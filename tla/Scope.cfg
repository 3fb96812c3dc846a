CONSTANTS
  Request = {r1, r2}
  Size = 1
  Prod = FALSE
  None = None
  Worker = {w1, w2}
  Me = w1
  Tables = 2
  MaxStops = 1
SPECIFICATION LifeSpec
INVARIANTS LifeTypeOK AcknowledgedIsDurable RefusedLeavesNothing PoolBounded ServingHasSchema
PROPERTIES NobodyStarves WorkersComeUp DrainEnds
CHECK_DEADLOCK FALSE
