SPECIFICATION MinuteFairSpec
CONSTANTS
  Counts <- MCCounts
  MinuteTicks = 2
  WindowTicks = 3
  QueryLag = 1
  SaveMayFail = TRUE
  LastTick = 6
  HistoryMax = 3
  Nothing = Nothing
INVARIANT ShownWasMeasured
PROPERTIES FirstRowIsMaximum MinuteIsStored
CHECK_DEADLOCK FALSE
