CONSTANTS
  r1 = r1  r2 = r2  old = old  new = new
  Replicas <- OneReplica
  VersionOf <- OneVersion
  Keys = {k1}
  Lanes = {a1}
  Writers = {w1}
  TTL = 2
  MaxFill = 2
  ScanCount = 1
  MaxWrites = 1
  MaxInbox = 1
SPECIFICATION Spec
INVARIANTS TTLBoundsStaleness
