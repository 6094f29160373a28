SPECIFICATION Spec
CONSTANTS
  Projects = 2
  MaxIterations = 1
  MaxCIIterations = 1
  TriggerAttempts = 2
  PageSize = 2
  Deadline = 1
  Workflows = 1
  Conclusions = {"success", "failure"}
  MaxCrashes = 1
  RecursionLimit = 12
  None = None
CHECK_DEADLOCK FALSE
INVARIANTS
  TypeOK
  GreenMeansGreen
  PullRequestVerified
PROPERTIES
  LateVerdictCounts
  DeliveryEnds
