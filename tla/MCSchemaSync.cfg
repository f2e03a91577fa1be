SPECIFICATION Spec
CONSTANTS
  r1 = r1
  r2 = r2
  r3 = r3
  p1 = p1
  p2 = p2
  old = old
  new = new
  old2 = old2
  Runs = {r1, r2, r3}
  Replicas = {p1, p2}
  ReplicaOf <- MCReplicaOf
  Syncs = {r1, r2}
  Schemas = {old, old2, new}
  FingerprintOf <- MCFingerprintOf
  None = None
CHECK_DEADLOCK FALSE
PROPERTIES
  ShownNeverOlder
  SoloRunIsExact
  JobsTellTheTruth
  JobsEnd
