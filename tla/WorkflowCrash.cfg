SPECIFICATION Spec
CONSTANTS
  MaxIterations = 1
  MaxCIIterations = 1
  MaxFiles = 1
  RecursionLimit = 60
  Signatures = {s1}
  NoSig = NoSig
  Violations = {}
  Errors = {}
  StoreFails = FALSE
  LostWorkspaces = FALSE
  MaxRuns = 2
INVARIANTS
  CommitsTested
  CommitsGated
  PullRequestHasCommit
PROPERTIES
  BudgetsNeverRefunded
  EventuallySettled
