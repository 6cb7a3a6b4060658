SPECIFICATION Spec
CONSTANTS
  r1 = r1
  r2 = r2
  Readers = {}
  SegmentSize = 2
  MaxBytes = 3
  TTL = 3
  Faults = {"write", "rotate"}
  MaxSeq = 6
  MaxTime = 1
  MaxLives = 3
INVARIANT WindowComplete
PROPERTY SeqNeverReused
