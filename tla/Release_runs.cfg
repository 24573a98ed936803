CONSTANTS
  OptedIn = TRUE
  MaxRuns = 3
  Inputs <- Asks
  Histories <- PastReleases
  Attempts = 2
  MaxHead = 1
  MaxFaults = 1
SPECIFICATION Spec
INVARIANTS OneCommitPerVersion PackagesMatchRelease NoOrphanRelease
PROPERTIES VersionAdvances
CHECK_DEADLOCK FALSE
