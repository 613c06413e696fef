SPECIFICATION FairSpec
CONSTANTS
  Sessions = {s1}
  Folders = {f1}
  NoFolder = NoFolder
  Clients = {c1}
  MaxRestarts = 1
  HasDuration = FALSE
  MaxProcs = 3
  MaxManual = 1
  MaxBoots = 2
  MaxFaults = 0
INVARIANTS
  NoRivalsWithoutRestart
  AutoRestartsAreBounded
PROPERTY
  DeadSessionIsNoticed
CHECK_DEADLOCK FALSE
