SPECIFICATION FairSpec
CONSTANTS
  Sessions = {s1}
  Folders = {f1}
  NoFolder = NoFolder
  Clients = {c1}
  MaxRestarts = 1
  HasDuration = FALSE
  MaxProcs = 1
  MaxManual = 0
  MaxBoots = 1
  MaxFaults = 0
PROPERTY ShutdownCompletes
CHECK_DEADLOCK FALSE
