SPECIFICATION FairSpec
CONSTANTS
  c1 = c1
  c2 = c2
  c3 = c3
  Clients <- MCClients
  Script <- MCScript
  Letters <- MCLetters
  Nobody = Nobody
  Blank = Blank
  MaxConnections = 2
  RecvSize = 4
  BufSize = 7
  MaxPending = 3
INVARIANTS WholeReadsServed RecvFindsData
PROPERTIES ClosedForReason RoundEnds Served
CHECK_DEADLOCK FALSE
