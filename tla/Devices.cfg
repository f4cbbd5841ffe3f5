CONSTANTS
  n1 = n1
  n2 = n2
  t1 = t1
  k1 = k1
  v1 = v1
  v2 = v2
  p1 = p1
  p2 = p2
  f1 = f1
  c1 = c1
  c2 = c2
  b1 = b1
  b2 = b2
  h1 = h1
  h2 = h2
  phone = phone
  none = none
SPECIFICATION Spec
CHECK_DEADLOCK FALSE
INVARIANTS
  
  
  NothingIsMissed
  
