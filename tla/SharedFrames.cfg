SPECIFICATION FairSpec
CONSTANTS
  Masters = {m1, m2}
  Readers = {r1}
  DeadMaster = DeadMaster
  DeadReader = DeadReader
  NoSegment = NoSegment
  MaxFiles = 2
  Nothing = Nothing
  MaxSegments = 2
INVARIANTS Exclusive Findable
PROPERTY LocksObtained
CHECK_DEADLOCK FALSE
