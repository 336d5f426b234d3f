CONSTANTS
  a = a
  b = b
  Peer <- MCPeer
  Sender <- MCSender
  MaxMessageID = 2
  FailureLimit = 5
  MaxPassed = 2
SPECIFICATION FairSpec
PROPERTIES
  ImplementsFairDelivery
  Quiesces
  DyingHandlerDies
CHECK_DEADLOCK FALSE
