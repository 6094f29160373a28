SPECIFICATION Spec
CONSTANTS
  Worker = Worker
  Creator = Creator
  Requests = {r1}
  MaxDrops = 1
  MaxRollbacks = 1
INVARIANTS
  TypeOK
  LogIsOrdered
  NoDuplicateDelivery
  ShownIsDurable
PROPERTIES
  SettledStreamsEnd
CHECK_DEADLOCK FALSE
