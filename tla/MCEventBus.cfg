SPECIFICATION FairBusSpec
CONSTANTS
  Events = {e1, e2}
  Poison = {p1}
  Consumers = {c1}
  MaxPublishRetries = 1
  MaxRetries = 1
  MaxPoll = 1
  OffsetReset = "earliest"
  MaxLog = 1
  MaxFaults = 1
  NoOne = NoOne
CHECK_DEADLOCK FALSE
INVARIANTS
  CopiesBounded
  PublishedNotLost
PROPERTIES
  PublishedIsSettled
