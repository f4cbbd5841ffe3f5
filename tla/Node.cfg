CONSTANTS
  p1 = p1
  p2 = p2
  n1 = n1
  n2 = n2
  n3 = n3
  h1 = h1
SPECIFICATION Spec
CHECK_DEADLOCK FALSE
PROPERTIES
  PeersReconnect
  GoesQuiet
