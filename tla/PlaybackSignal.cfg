SPECIFICATION FairSpec
CONSTANTS
  Events = {"quit", "speed", "goto"}
  Corrections = {"repeat"}
  MaxSkips = 0
  MaxSignals = 2
  ScreenFails = FALSE
  SharedOutput = FALSE
  PauseRender = TRUE
  LastFrame = 1
  Continuous = TRUE
PROPERTIES
  FramesFlow
  HandlerReturns
CHECK_DEADLOCK FALSE
