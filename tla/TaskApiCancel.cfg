SPECIFICATION Spec
CONSTANTS
  c1 = c1
  c2 = c2
  Creates = {c1}
  Fingerprints <- MCFingerprints
  Requests = {r1}
  MaxNodes = 1
  MaxExecutions = 1
  MaxFailures = 0
PROPERTIES
  CancelStops
CHECK_DEADLOCK FALSE
