CONSTANTS
  p1 = p1
  p2 = p2
  A = A
  B = B
  C = C
  a1 = a1
  b1 = b1
  c2 = c2
  a2 = a2
  Process = {p1, p2}
  Watcher = Watcher
  HostThread = HostThread
  Camera = {A, B, C}
  Device = {a1, b1, c2, a2}
  NoDevice = NoDevice
  OwnerOf <- Owners
  CameraOf <- Cameras
  Workload <- Workloads
SPECIFICATION FairSpec
CHECK_DEADLOCK FALSE
INVARIANTS
  TypeOK
  HoldersAgree
  ConflictFree
  CostWithinLimit
  UsageEnds
PROPERTIES
  LocksAreLetGo
