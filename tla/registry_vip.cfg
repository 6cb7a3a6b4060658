SPECIFICATION Spec
CONSTANTS
  none = none
  NoPod = none
  None = 0
  Host <- HostProc
  Pods <- Three
  Workload <- Workloads
  IPs = {1, 2}
  Services <- TwoServices
  TargetPort <- Target
  Conditions <- COrNot
  Binds <- BindWild80
  HasIndex = TRUE
  ResolvesVip = TRUE
  Identity <- Agreed
  TTL = 1
  Lossy = FALSE
  MaxWire = 1
  Running <- Replicas
  PodsServed = FALSE
  MaxStarts = 1
  MaxTime = 0
CHECK_DEADLOCK FALSE
INVARIANTS VipReachesBackend FoldsToSolePort WildcardResolvable
