CONSTANTS
  Samples = {1, 2}
  Total <- MCTotal
  MaxSpeed = 2
  Slots = {0, 1}
  Loops = {1, 2}
  Speeds = {2}
  Numbers <- MCNumbers
  Programs <- MCPrograms
  MaxEvents = 2
SPECIFICATION FairSpec
INVARIANT SamplesExist
PROPERTIES StaysInside NormalLoops PingPongBounces SequenceGoesOn
