SPECIFICATION FairSpec
CONSTANTS
  dA = dA  dB = dB  q1 = q1  q2 = q2  b1 = b1  b2 = b2  o1 = o1  o2 = o2  t1 = t1  t2 = t2
  Databases = {dA, dB}
  Query = {q1, q2}
  Bind = {b1, b2}
  BindsOf <- MCBindsOf
  Owner = {o1, o2}
  Name = {t1, t2}
  None = None
  CollapseAt = 1
  MaxAsked = 2
  MaxTables = 2
  MaxLines = 3
INVARIANT ShownIsWhatIs
PROPERTIES AnalysisOfItsPlan SpinnersEnd
