SPECIFICATION RSpec
CONSTANTS
  c1 = c1
  c2 = c2
  Readers = {c1}
  SegmentSize = 2
  MaxBytes = 9
  TTL = 5
  Faults = {}
  MaxSeq = 4
  MaxTime = 0
  MaxLives = 1
  MaxAhead = 1
  Buffer = 1
  Requests <- Everything
  Content <- Envelopes
INVARIANT NoSilentGap
