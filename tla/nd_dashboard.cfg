SPECIFICATION ChecksSpec
CONSTANTS
  dA = dA  dB = dB  h1 = h1  h2 = h2
  Databases = {dA, dB}
  None = None
  Holder = {h1, h2}
  ReturnsByHash = FALSE
  MaxOlder = 1
  Minute = {0, 1}  Place = {0, 1}
  Severity = {"CRIT", "INFO", "ERROR"}
INVARIANTS LoopsAsWanted FollowSelection CardsOfDatabase
PROPERTY PollingGoesOn
