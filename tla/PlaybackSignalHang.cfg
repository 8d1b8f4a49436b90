SPECIFICATION FairSpec
CONSTANTS
  Events = {}
  Corrections = {}
  MaxSkips = 0
  MaxSignals = 1
  ScreenFails = FALSE
  SharedOutput = FALSE
  PauseRender = TRUE
  LastFrame = 1
  Continuous = TRUE
PROPERTIES
  ShutdownCompletes
CHECK_DEADLOCK FALSE
