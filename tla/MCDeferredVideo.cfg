SPECIFICATION Spec
CONSTANTS
  Video = {v1, v2, v3}
  Info = {a, b}
  Workload <- VideoWorkload
INVARIANTS
  TypeOK
  RunningSetAgrees
  BatteryIsWatched
PROPERTIES
  GateRespected
  BestFirst
  DeliveredStays
  RunEnds
CHECK_DEADLOCK FALSE
