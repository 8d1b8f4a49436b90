SPECIFICATION FairSpec
CONSTANTS
  N = 3
  MaxCalls = 2
  PlaneLen = 8
  StartMayFail = TRUE
INVARIANTS
  ArgsStable
  RunWaitsForAll
  NoLostWakeup
  PlaneProcessed
PROPERTIES
  Implements
  CallReturns
  StopReturns
CHECK_DEADLOCK FALSE
