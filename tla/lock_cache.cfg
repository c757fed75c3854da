SPECIFICATION FairSpec
CONSTANTS
  c1 = c1  c2 = c2  o1 = o1  s1 = s1  b1 = b1
  Client = {c1, c2}
  Operator = {}
  Session = {s1}
  UserSession = {s1}
  SidOf <- OneSid
  CacheTicks = 1
  QueryTicks = 2
  FastTask = TRUE
  MaxTime = 3
  None = None
INVARIANTS FreshEnough AtMostOneQuery
PROPERTY RequestsAnswered
CHECK_DEADLOCK FALSE
