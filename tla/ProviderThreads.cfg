SPECIFICATION FairSpec
CONSTANTS
  Kinds = {"codex", "claude", "gemini"}
  MaxSessions = 2
  MaxThreads = 2
  MaxRequests = 3
  Limits <- MCLimits
  PipeSize = 1
  MaxMessages = 3
  Adopters = {a1, a2}
INVARIANTS
  TypeOK
  SharedThreadsAreAdoptedEarly
  ThreadsAreContinued
  ObserversSeeAll
  ReplyIsWhatWasSaid
  ImagesStay
CHECK_DEADLOCK FALSE
PROPERTY RunsEnd
