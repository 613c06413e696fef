SPECIFICATION Spec
CONSTANTS
  Sessions = {s1}
  NoSession = NoSession
  Requests = {r1}
  MaxMessages = 2
  MaxBoots = 2
INVARIANT RestartIsPossible
CHECK_DEADLOCK FALSE
