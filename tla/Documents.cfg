CONSTANTS
  c1 = c1
  c2 = c2
  d1 = d1
  d2 = d2
  o1 = o1
  none = none
SPECIFICATION Spec
CHECK_DEADLOCK FALSE
INVARIANTS
  
  
  WrittenReadsBack
  OrderDoesNotMatter
  AcceptedIsWithinBounds
