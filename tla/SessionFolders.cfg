SPECIFICATION Spec
CONSTANTS
  Sessions = {s1, s2}
  Folders = {f1}
  NoFolder = NoFolder
  Clients = {c1}
  MaxRestarts = 1
  HasDuration = TRUE
  MaxProcs = 2
  MaxManual = 1
  MaxBoots = 2
  MaxFaults = 1
INVARIANTS
  TypeOK
  FolderIsExclusive
  DiskKnowsStatus
  RunningIsWatched
SYMMETRY Symmetry
CHECK_DEADLOCK FALSE
