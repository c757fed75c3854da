SPECIFICATION Spec
CONSTANTS
  r1 = r1  r2 = r2  r3 = r3  r4 = r4  r5 = r5
  Request = {r1, r2, r3, r4, r5}
  Name = {admin, u1}
  admin = admin  u1 = u1  p1 = p1  p2 = p2
  Root = admin
  Password = {p1, p2}
  Ttl = 1
  MaxTime = 2
  MaxMade = 2
  None = None
SYMMETRY RequestSymmetry
INVARIANTS FinishedDeletionRevokes RootAdminStays
PROPERTY CleanupSparesHonoured
CHECK_DEADLOCK FALSE
