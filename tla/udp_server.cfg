CONSTANTS
  p1 = p1
  p2 = p2
  r1 = r1
  r2 = r2
  r3 = r3
  c1 = c1
  o1 = o1
  Task <- MCTask
  ConnectionRecord <- MCConnectionRecord
  PartyRecord <- MCPartyRecord
  Connection <- MCConnection
  Party <- MCParty
SPECIFICATION ServerSpec
INVARIANTS
  NothingFreedIsReachable
  TableHoldsTheLiving
  MarkedHandlerCallsBack
  DoomedIsPooled
  EndSystemFreesAll
SYMMETRY MCSymmetry
CONSTRAINT MCFollowed
CHECK_DEADLOCK FALSE
