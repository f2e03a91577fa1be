SPECIFICATION Spec
CONSTANTS
  r1 = r1
  r2 = r2
  r3 = r3
  Requests = {r1}
  Asks <- LoginAsks
  Upstreams <- MCUpstreams
  Serves <- MCServes
  Rate = 1
  Burst = 2
  PerSecond = 1
  MaxTime = 3
  MaxBack = 1
  MaxRetries = 1
  None = None
CHECK_DEADLOCK FALSE
INVARIANTS
  LoginReachesIam
