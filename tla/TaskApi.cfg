SPECIFICATION Spec
CONSTANTS
  c1 = c1
  c2 = c2
  Creates = {c1, c2}
  Fingerprints <- MCFingerprints
  Requests = {r1, r2}
  MaxNodes = 1
  MaxExecutions = 2
  MaxFailures = 1
INVARIANTS
  TypeOK
  OneTaskPerKey
  OneOpenQuestion
PROPERTIES
  DecisionsStick
  TaskSettles
CHECK_DEADLOCK FALSE
