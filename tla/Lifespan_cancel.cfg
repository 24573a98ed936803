CONSTANTS
  Failures <- AllSteps
  Environments <- TwoChanges
SPECIFICATION FairSpec
PROPERTIES CancellationPropagates
