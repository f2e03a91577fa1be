SPECIFICATION FairSpec
CONSTANTS
  Calls = {c1, c2, c3}
  First = First
  Free = Free
CHECK_DEADLOCK FALSE
INVARIANTS
  RotationAtomic
  TokenSpentOnce
  SurvivorsOverlapped
PROPERTIES
  CallsEnd
