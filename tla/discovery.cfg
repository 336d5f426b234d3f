CONSTANTS
  t1 = t1
  t2 = t2
  Application = Application
  Carrier <- MCCarrier
  Client <- MCClient
  Instance <- MCInstance
  MaxCallbackIx = 4
SPECIFICATION Spec
INVARIANTS
  HeartbeatsOfTheLiving
  ResultOnce
  TickCallsEachOnce
  ClientFreedLast
SYMMETRY MCSymmetry
CONSTRAINT MCFollowed
CHECK_DEADLOCK FALSE
