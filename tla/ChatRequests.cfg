SPECIFICATION Spec
CONSTANTS
  Sessions = {s1, s2}
  NoSession = NoSession
  Requests = {r1, r2, r3}
  MaxMessages = 3
  MaxBoots = 2
INVARIANTS
  TypeOK
  ViewSettles
  DiskKnowsSessions
  ActiveIsLive
  HistoriesAreKept
  ShutdownWaits
PROPERTY
  ImplementsRequestLock
SYMMETRY Symmetry
CHECK_DEADLOCK FALSE
