SPECIFICATION Spec
CONSTANTS
  r1 = r1
  r2 = r2
  r3 = r3
  Requests = {r1, r2, r3}
  Asks <- MCAsks
  Upstreams <- MCUpstreams
  Serves <- MCServes
  Rate = 2
  Burst = 2
  PerSecond = 2
  MaxTime = 4
  MaxBack = 1
  MaxRetries = 1
  None = None
SYMMETRY Alike
CHECK_DEADLOCK FALSE
INVARIANTS
  WithinBudget
PROPERTIES
  RefusedOverBudget
