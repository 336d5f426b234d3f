CONSTANTS
  s1 = s1
  s2 = s2
  h1 = h1
  h2 = h2
  SendThread <- MCSendThread
  Handler <- MCHandler
  Top = 2
  TimeoutTicks = 2
  TimedOutLimit = 1
  AgeBound = 2
  MaxSent = 4
  MaxRecords = 2
SPECIFICATION Spec
SYMMETRY Symmetry
INVARIANTS
  LatestIsNewest
  RefusedWasOvertaken
CHECK_DEADLOCK FALSE
