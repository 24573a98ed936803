CONSTANTS
  Failures <- AllSteps
  Environments <- TwoChanges
  NULL = NULL
  self = self
  cli = cli
  Others = {other}
  Runners = {self, other, cli}
  Ids = {1}
  Begin <- Databases
  Names <- OneName
  Powers <- OnePower
  PowerLists <- OneList
  MoreFields <- Level
  MaxFaults = 2
SPECIFICATION FairRollout
INVARIANTS RolloutTypeOK TaskEndsFirst AllReleased  SchemaMatchesRevision ServesAtHead HeroesSurvive V1ReadsValid

PROPERTIES ShutdownEnds RolloutCompletes
