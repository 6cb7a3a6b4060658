SPECIFICATION RSpec
CONSTANTS
  c1 = c1
  c2 = c2
  Readers = {c1}
  SegmentSize = 2
  MaxBytes = 3
  TTL = 5
  Faults = {"write", "rotate", "encode"}
  MaxSeq = 4
  MaxTime = 0
  MaxLives = 2
  MaxAhead = 1
  Buffer = 2
  Requests <- Filtered
  Content <- Envelopes
INVARIANTS SentIncreasing SentAsked HandOverComplete
