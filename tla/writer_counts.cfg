SPECIFICATION Spec
CONSTANTS
  Loops = {1, 2}
  QueueDepth = 1
  Recovered = 1
  MaxRecv = 2
  MaxErrors = 1
INVARIANTS CountersBalance EdgeContiguous BroadcastOrdered SnapshotCovers
