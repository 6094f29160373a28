SPECIFICATION Spec
CONSTANTS
  MaxIterations = 1
  MaxCIIterations = 1
  MaxFiles = 0
  RecursionLimit = 22
  Signatures = {s1}
  NoSig = NoSig
  Violations <- BoundaryNodes
  Errors <- FailingNodes
  StoreFails = TRUE
  LostWorkspaces = FALSE
  MaxRuns = 1
INVARIANTS
  CheckoutUntouched
PROPERTIES
  EventuallySettled
