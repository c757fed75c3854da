SPECIFICATION Spec
CONSTANTS
  d1 = d1  d2 = d2  k1 = k1  k2 = k2  m1 = m1  m2 = m2  m3 = m3  s1 = s1  s2 = s2
  Id = {d1, d2}
  Secret = {s1, s2}
  KeyId = {k1, k2}
  KeyValue = {m1, m2, m3}
  Generated = k1
  LegacyFile <- MixedFile
  MaxBoots = 4
  MaxEdits = 2
  None = None
INVARIANTS SecretsKept Healed
PROPERTY RotationLosesNothing
CHECK_DEADLOCK FALSE
SYMMETRY KeySymmetry
