CONSTANTS
  MaxEvents = 5
  MaxCommits = 4
  Faults <- AllFaults
SPECIFICATION FairSpec
INVARIANTS TypeOK OpenIssueSettles ClosedIssueIsClean
PROPERTIES KeepsForeignWork ConfirmConsumed
CHECK_DEADLOCK FALSE
