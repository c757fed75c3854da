SPECIFICATION FairSpec
CONSTANTS
  t1 = t1  t2 = t2  p1 = p1  p2 = p2  p3 = p3  l1 = l1  l2 = l2  l3 = l3  d1 = d1  a1 = a1  a2 = a2
  Caller = {t1, t2}
  Admin = {d1}
  Addr = {a1, a2}
  MaxRev = 1
  Pool = {p1, p2, p3}
  Lock = {l1, l2, l3}
  Nil = Nil
INVARIANT MapKnowsLivePools
PROPERTY CallsReturn
