CONSTANTS
  x1 = x1
  x2 = x2
  x3 = x3
  y1 = y1
  y2 = y2
  m1 = m1
  m2 = m2
  n1 = n1
  n2 = n2
  u1 = u1
  u2 = u2
  u3 = u3
  u4 = u4
  z1 = z1
  z2 = z2
  k1 = k1
  none = none
SPECIFICATION Spec
SYMMETRY Symmetry
CHECK_DEADLOCK FALSE
INVARIANTS
  ReadyIsEarned
  CellsStayConsistent
  ReplicasAgree
  PassLeavesFittingCells
PROPERTY
  RegistrationsLast
