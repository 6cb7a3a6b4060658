SPECIFICATION Spec
CONSTANTS
  none = none
  NoPod = none
  None = 0
  Host <- HostProc
  Pods <- WithHost
  Workload <- Workloads
  IPs = {1}
  Services <- OneService
  TargetPort <- SoloTarget
  Conditions <- AllReady
  Binds <- BindBoth80
  HasIndex = TRUE
  ResolvesVip = FALSE
  Identity <- Drifted
  TTL = 1
  Lossy = TRUE
  MaxWire = 1
  Running <- Single
  PodsServed = TRUE
  MaxStarts = 1
  MaxTime = 1
CHECK_DEADLOCK FALSE
INVARIANTS HitsAreCurrent OwnerAttribution DriftTolerated ExactResolvable
PROPERTY SweepInvisible
