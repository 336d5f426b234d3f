CONSTANTS
  a = a
  b = b
  Peer <- MCPeer
  Sender <- MCPeer
  MaxMessageID = 2
  FailureLimit = 5
  MaxPassed = 1
SPECIFICATION Spec
INVARIANTS
  AcknowledgedIsDelivered
  ConfirmedIsAcknowledged
  UntrackedOnlyByCollision
SYMMETRY Symmetry
PROPERTY ImplementsDelivery
CONSTRAINT MCBounded
CHECK_DEADLOCK FALSE
