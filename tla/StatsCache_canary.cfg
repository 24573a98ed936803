CONSTANTS
  r1 = r1  r2 = r2  old = old  new = new
  Replicas <- TwoReplicas
  VersionOf <- Canary
  Keys = {k1}
  Lanes = {a1}
  Writers = {w1}
  TTL = 1
  MaxFill = 1
  ScanCount = 1
  MaxWrites = 1
  MaxInbox = 1
SPECIFICATION Spec
INVARIANTS TypeOK StaleIsPending OwnShape StalenessBound
PROPERTIES KeepsContract
