SPECIFICATION Spec
CONSTANTS
  Checks <- MCChecks
  Dimension <- MCDimension
  Weight <- MCWeight
  Share <- MCShare
  Optional = {"FD-03"}
  DriftSample = 2
  MinOrders = 4
  MinValues = 4
  DropRiskLimit = 2
  Deployments <- MCDeployments
CHECK_DEADLOCK FALSE
INVARIANTS
  HandoffStandsOnEvidence
  PassedGatesAreClean
  ActivatedWorkflowsEnd
  HandoffTrail
  DiffTellsTruth
  ScoreIsEarned
  ShellAgreesWithPilots
  SafeToRerun
PROPERTIES
  ChoicesGoOnlyStale
