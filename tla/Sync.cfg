CONSTANTS
  p1 = p1
  p2 = p2
  d1 = d1
  d2 = d2
SPECIFICATION Spec
CHECK_DEADLOCK FALSE
PROPERTIES
  PeersServed
  ChangesReachPeers
  KnownPeersConnect
