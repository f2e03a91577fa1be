SPECIFICATION FairAuditSpec
CONSTANTS
  Consumers = {c1, c2}
  Events = {o1, s1}
  Poison = {}
  MaxRetries = 2
  MaxPoll = 1
  OffsetReset = "earliest"
  MaxLog = 2
  MaxFaults = 2
  NoOne = NoOne
  SecurityEvents = {s1}
  Orphans = {o1}
  FlushBatchSize = 2
  MaxDbFailures = 1
CHECK_DEADLOCK FALSE
INVARIANTS
  TablesAgree
  CommittedAccountedFor
PROPERTIES
  EventuallyDurable
