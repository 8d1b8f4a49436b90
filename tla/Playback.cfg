SPECIFICATION Spec
CONSTANTS
  Events = {"quit", "suspend", "speed", "slow", "goto"}
  Corrections = {"repeat", "skip"}
  MaxSkips = 1
  MaxSignals = 1
  ScreenFails = TRUE
  SharedOutput = TRUE
  PauseRender = TRUE
  LastFrame = 3
  Continuous = TRUE
INVARIANTS
  ExclusiveBuffer
  NotBothWaiting
  SyncMeansPlayed
CHECK_DEADLOCK FALSE
