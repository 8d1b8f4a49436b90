CONSTANTS
  Readers = {r1, r2}
  Performer = P
  None = None
  MaxSize = 2
  MaxFails = 2
SPECIFICATION FairSpec
INVARIANTS ConvertAlone BufferStays
PROPERTIES NoFrameLost StopEnds FramesResume CallReturns
CHECK_DEADLOCK FALSE
