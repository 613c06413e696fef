SPECIFICATION Spec
CONSTANTS
  Sessions = {s1}
  Folders = {f1}
  NoFolder = NoFolder
  Clients = {c1}
  MaxRestarts = 1
  HasDuration = FALSE
  MaxProcs = 1
  MaxManual = 0
  MaxBoots = 2
  MaxFaults = 0
INVARIANT KillReachesRestoredProcess
CHECK_DEADLOCK FALSE
