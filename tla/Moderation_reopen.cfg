CONSTANTS
  MaxEvents = 3
  MaxCommits = 3
  Faults <- NoFaults
SPECIFICATION Spec
INVARIANTS ReopeningRestartsTriage
CHECK_DEADLOCK FALSE
