CONSTANTS
  Readers = {r1, r2}
  Performer = P
  None = None
  MaxSize = 2
  MaxFails = 1
SPECIFICATION Spec
INVARIANTS StoppedBeforeFreed
CHECK_DEADLOCK FALSE
