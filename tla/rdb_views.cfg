SPECIFICATION RdbFairSpec
CONSTANTS
  s1 = s1  s2 = s2  s3 = s3  u1 = u1
  Session = {s1, s2, s3}
  Listed = {s1, s2}
  Unit = {u1}
  Unknown = Unknown
  LockAnswers <- Shapes
  MaxLoads = 2
  MaxCalls = 1
INVARIANTS PageIsCoherent TreeIsWhole
PROPERTIES KillsWhatWasConfirmed ReloadEnds
