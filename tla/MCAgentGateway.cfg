SPECIFICATION GatewayFairSpec
CONSTANTS
  p1 = p1
  p2 = p2
  p3 = p3
  r1 = r1
  r2 = r2
  r3 = r3
  big = big
  mini = mini
  haiku = haiku
  reasoner = reasoner
  nano = nano
  Providers <- ThreeProviders
  Rank <- ThreeRanks
  Specs <- Catalogue
  DefaultTier <- Balanced
  TaskTier <- Tasks
  Ask <- Asked
  Unnamed = Unnamed
  Requests = {r1, r2, r3}
  Streamed = {r3}
  Threshold = 2
  Cooldown = 1
  MaxTime = 1
  NoProvider = NoProvider
  QueueSize = 1
  Sentinel = Sentinel
CHECK_DEADLOCK FALSE
INVARIANTS
  BreakerConsistent
  FailedOnlyWhenExhausted
  UsageReachesSink
PROPERTIES
  NoCallDuringCooldown
  MeteredIsWritten
