CONSTANTS
  p1 = p1
  p2 = p2
  Clerk = {p}
  Rows = {r1, r2}
  a1 = a1
  a2 = a2
  NoKey = NoKey
  NoLimit = NoLimit
  House = house
SPECIFICATION Spec
CHECK_DEADLOCK FALSE
PROPERTY CallsAndJobsFinish
