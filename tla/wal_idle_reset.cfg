SPECIFICATION Spec
CONSTANTS
  r1 = r1
  r2 = r2
  Readers = {}
  SegmentSize = 2
  MaxBytes = 4
  TTL = 1
  Faults = {}
  MaxSeq = 4
  MaxTime = 3
  MaxLives = 2
PROPERTY SeqNeverReused
