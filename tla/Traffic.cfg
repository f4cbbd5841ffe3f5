CONSTANTS
  n1 = n1
  n2 = n2
  n3 = n3
  c1 = c1
  c2 = c2
  z1 = z1
  k1 = k1
  k2 = k2
  t1 = t1
  t2 = t2
  l1 = l1
  Absent = Absent
  Node = {n1, n2, n3}
  Cell = {c1, c2}
  Zone = {z1}
  Caller = {k1, k2}
  Request <- Messages
  Updates <- LaterTables
  InitTable <- StartTable
  Limit <- Limits
  TicksPerSecond = 2
  DropPolicy = "DropLowPriority"
  MaxTime = 2
  NoLimit = NoLimit
SPECIFICATION TrafficSpec
CHECK_DEADLOCK FALSE
INVARIANTS
  PermitFollowsHierarchy
  ClassesAreKept
PROPERTIES
  CallsEnd
  ServedInOrder
