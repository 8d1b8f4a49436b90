CONSTANTS
  Threads = {p1, p2}
  Player = p1
  Messages = {m1, m2, m3, m4}
  Nothing = Nothing
  Size = 3
SPECIFICATION FairSpec
INVARIANT NotStarved
PROPERTIES LogSpec Shown SpinEnds
CHECK_DEADLOCK FALSE
