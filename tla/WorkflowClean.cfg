SPECIFICATION Spec
CONSTANTS
  MaxIterations = 3
  MaxCIIterations = 2
  MaxFiles = 1
  RecursionLimit = 60
  Signatures = {s1, s2}
  NoSig = NoSig
  Violations = {}
  Errors = {}
  StoreFails = FALSE
  LostWorkspaces = FALSE
  MaxRuns = 1
INVARIANTS
  TypeOK
  LoopsBoundedByState
  ReviewIsBacked
