SPECIFICATION FairSpec
CONSTANTS
  Sessions = {s1, s2}
  Viewers = {v1}
  Nobody = Nobody
  MaxConnections = 2
  MaxFrames = 1
INVARIANT Paired
PROPERTIES GoneFreed FramesAnswered
CHECK_DEADLOCK FALSE
