SPECIFICATION FairSpec
CONSTANTS
  dA = dA  dB = dB
  Databases = {dA, dB}
  s1 = s1
  Session = {s1}
  SortsWhileWaiting = FALSE
  Blank = Blank
  Error = Error
  MaxSuperseded = 3
  MaxClicks = 1
INVARIANTS PageOfCurrentDatabase OneChainEach
PROPERTIES ListKeepsPromise WaitingEnds
