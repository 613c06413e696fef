SPECIFICATION FairSpec
CONSTANTS
  Settings <- MCSettings
  b1 = b1
  b2 = b2
  r1 = r1
  r2 = r2
  Browsers = {b1, b2}
  Requests = {r1, r2}
  MaxLogins = 2
  MaxTokens = 2
  MaxTime = 5
  SessionTTL = 4
  StateTTL = 1
  RevalidateEvery = 2
  RetryValidationIn = 1
INVARIANTS
  TypeOK
  AccessLossIsNoticed
  TokensStayUsable
  LoginsAreOwn
PROPERTIES
  EndedStaysEnded
  SessionsAreForgotten
CHECK_DEADLOCK FALSE
