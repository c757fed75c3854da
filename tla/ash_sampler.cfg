SPECIFICATION Spec
CONSTANTS
  MinuteTicks = 2
  Interval = 2
  GapCycles = 1
  BackfillMinutes = 2
  NearTicks = 1
  Live = {"cycle", "now"}
  BackfillConnects = TRUE
  DbRestarts = {2}
  MaxTime = 4
  None = None
INVARIANTS WatermarkIsHonest BackfillWholeMinutes
VIEW CategoryView
CHECK_DEADLOCK FALSE
