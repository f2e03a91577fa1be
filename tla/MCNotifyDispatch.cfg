SPECIFICATION Spec
CONSTANTS
  s1 = s1
  s2 = s2
  s3 = s3
  k1 = k1
  k2 = k2
  hook = hook
  phone = phone
  fallback = fallback
  Sends = {s1, s2, s3}
  Creates = {k1, k2}
  Earlier = {hook, phone, fallback}
  EarlierRows <- MCEarlierRows
  Requests <- MCRequests
  Locales <- MCLocales
  PoolSize = 2
  None = None
CHECK_DEADLOCK FALSE
INVARIANTS
  LogTellsTimeline
  SentReached
PROPERTIES
  CallsEnd
