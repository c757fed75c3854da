SPECIFICATION FairSpec
CONSTANTS
  dA = dA  dB = dB  r1 = r1
  Databases = {dA, dB}
  None = None
  Sid = {1}  Serial = {1, 2}
  MaxAsked = 2  MaxTimers = 2  MaxRounds = 2  MaxIncidents = 1
  Rdb = {r1}  Listed <- Order  Registrations <- Sets
  Gone = {gone}
  Account = {a1, a2}
  Profiles <- Rights
  MenuConst = {}  NavOnly = {n1}  MaxSaves = 1  MaxPerf = 2
INVARIANTS PanelsOfTheirDatabase PageOfAccount
PROPERTIES KillsWhomTheUserChose RightsKept PageGoesOn
