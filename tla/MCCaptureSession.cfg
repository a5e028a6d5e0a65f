SPECIFICATION Spec
CONSTANTS
  t1 = t1
  t2 = t2
  d1 = d1
  Evictor = evictor
  Reaper = reaper
  NoDevice = noDevice
  Stale = stale
  Stream = {x1}
  MaxSessions = 2
  Client <- MCClient
  Device <- MCDevice
  Workload <- MCWorkload
INVARIANTS
  TypeOK
  ReleasedHoldsNothing
  ListenerAgrees
  CommittedIsLinked
  GroupAccounts
  DeathLeavesNothing
  NoDeadlock
CHECK_DEADLOCK FALSE
