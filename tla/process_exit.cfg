SPECIFICATION FairSpec
CONSTANTS
  c1 = c1
  c2 = c2
  Clients = {c1, c2}
  Buffer = 1
  MaxSends = 3
  Configs <- CommandLines
CHECK_DEADLOCK FALSE
INVARIANTS DropsConserved NeverOverReported OpenWhileUsed ReleasesAll
PROPERTY EndsUnlessHeld
