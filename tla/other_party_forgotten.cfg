CONSTANTS
  s1 = s1
  s2 = s2
  h1 = h1
  h2 = h2
  SendThread <- MCOneSendThread
  Handler <- MCOneHandler
  Top = 2
  TimeoutTicks = 3
  TimedOutLimit = 2
  AgeBound = 9
  MaxSent = 4
  MaxRecords = 2
SPECIFICATION Spec
PROPERTY
  RememberedForTwoMinutes
CHECK_DEADLOCK FALSE
