CONSTANTS
  Worker = {w1, w2}
  Client = {c1}
  Task = {t1, t2, t3}
  NoTask = NoTask
  t1 = t1
  t2 = t2
  Workload <- Workloads
SPECIFICATION FairSpec
CHECK_DEADLOCK FALSE
INVARIANTS
  TypeOK
  NoLostWakeup
  TaskIsSomewhere
  SerialOneAtATime
PROPERTIES
  SubmittedRuns
  ShutdownEnds
