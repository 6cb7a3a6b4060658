SPECIFICATION FairSpec
CONSTANTS
  p1 = p1
  Pairs = {p1}
  QueueDepth = 1
  Retain = 1
  MaxSeq = 4
  MaxLives = 3
  Crashes = TRUE
CHECK_DEADLOCK FALSE
INVARIANTS StoppedClean CursorAccounted
PROPERTIES ResumesFromDisk ShutdownCompletes EventuallyHandled
