SPECIFICATION FFairSpec
CONSTANTS
  s1 = s1
  s2 = s2
  a1 = a1
  a2 = a2
  absent = absent
  Absent = absent
  Objects = {s1}
  Values <- Churn
  MaxVersions = 3
  TargetPort = 80
  Static <- Repeated
  ChanCap = 2
CHECK_DEADLOCK FALSE
INVARIANTS RunsSupervised
PROPERTIES PublishesSnapshots FleetFollows RunStops
