SPECIFICATION FairSpec
CONSTANTS
  Events = {"quit", "suspend", "speed"}
  Corrections = {"repeat", "skip"}
  MaxSkips = 1
  MaxSignals = 0
  ScreenFails = TRUE
  SharedOutput = FALSE
  PauseRender = TRUE
  LastFrame = 2
  Continuous = FALSE
PROPERTIES
  ShutdownCompletes
CHECK_DEADLOCK FALSE
