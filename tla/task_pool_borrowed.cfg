CONSTANTS
  p1 = p1
  p2 = p2
  t1 = t1
  t2 = t2
  t3 = t3
  WorkerThreadCount = 2
  Producer <- MCProducer
  Task <- MCTask
  Borrowed <- MCBorrowed
  Exhausting <- MCExhausting
SPECIFICATION Spec
INVARIANT
  BorrowedParametersSurvive
CHECK_DEADLOCK FALSE
