SPECIFICATION FairSpec
CONSTANTS
  Consumers = {c1, c2}
  Events = {e1}
  Poison = {p1}
  MaxRetries = 2
  MaxPoll = 2
  OffsetReset = "earliest"
  MaxLog = 3
  MaxFaults = 2
  NoOne = NoOne
CHECK_DEADLOCK FALSE
INVARIANTS
  CommittedSettled
  NoGapBehindPosition
  DeadLetterJustified
PROPERTIES
  ImplementsDelivery
  EventuallySettled
