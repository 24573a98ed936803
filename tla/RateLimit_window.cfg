CONSTANTS
  w1 = w1  w2 = w2  c1 = c1  c2 = c2  f1 = f1
  Workers <- TwoWorkers
  Clients <- TwoClients
  Routes <- OneRoute
  Limit = 2
  Window = 3
SPECIFICATION FairSpec
INVARIANTS TypeOK AdmissionBound
PROPERTIES NotLockedOut
