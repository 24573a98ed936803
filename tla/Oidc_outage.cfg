CONSTANTS
  q1 = q1  q2 = q2  k1 = k1  k2 = k2
  Requests <- TwoRequests
  Keys <- TwoKeys
  MaxChanges = 1
SPECIFICATION Spec
SYMMETRY Symmetry
INVARIANTS OutageAnswers503
