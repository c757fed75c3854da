SPECIFICATION Spec
CONSTANTS
  c1 = c1  c2 = c2  o1 = o1  s1 = s1  b1 = b1
  Client = {c1}
  Operator = {o1}
  Session = {s1, b1}
  UserSession = {s1}
  SidOf <- SharedSid
  CacheTicks = 1
  QueryTicks = 2
  FastTask = FALSE
  MaxTime = 3
  None = None
INVARIANTS Inductive KilledGoneAfterGrace KillLeavesTrace
PROPERTY KillsOnlyWhatWasAsked
