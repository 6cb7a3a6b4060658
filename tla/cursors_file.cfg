SPECIFICATION FairSpec
CONSTANTS
  nil = nil
  NoCursor = nil
  Keys <- ThreeKeys
  Stamp <- Stamps
  Nodes <- Node
  WriteFails = TRUE
  MaxSeq = 2
  MaxLives = 2
CHECK_DEADLOCK FALSE
INVARIANTS ClosedExact
PROPERTIES KeepsCursors DiskMonotonic EventuallyOnDisk CloseCompletes
