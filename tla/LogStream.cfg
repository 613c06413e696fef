SPECIFICATION FairSpec
CONSTANTS
  c1 = c1
  c2 = c2
  Clients = {c1, c2}
  MaxProcs = 2
  MaxSubs = 2
  MaxEvents = 2
  Limits <- MCLimits
  Size = 3
  Backlog = 2
  ChanSize = 1
  SendSize = 2
INVARIANTS
  TypeOK
  NothingIsMissed
PROPERTY StreamsSettle
CHECK_DEADLOCK FALSE
