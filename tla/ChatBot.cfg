SPECIFICATION Spec
CONSTANTS
  MaxSessions = 3
  MaxUpdates = 4
  MaxRepos = 3
  PageSize = 2
  Limits <- SomeLimits
CHECK_DEADLOCK FALSE
INVARIANTS
  TypeOK
  PlainTextFinds
  PicksAreAsShown
