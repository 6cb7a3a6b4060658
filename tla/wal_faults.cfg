SPECIFICATION Spec
CONSTANTS
  Readers = {r1}
  r1 = r1
  r2 = r2
  SegmentSize = 1
  MaxBytes = 2
  TTL = 0
  Faults = {"write", "torn", "newline", "rotate", "remove"}
  MaxSeq = 3
  MaxTime = 1
  MaxLives = 2
INVARIANTS SegmentsOrdered ReplayOrdered ReplayComplete IInv
