----------------------------- MODULE MCTaskPool -----------------------------
(***************************************************************************)
(* A pool of two workers and one thread that submits from outside; a task  *)
(* that runs submits as well.  A serial group has three tasks: one runs,   *)
(* one is at the head of the queue, one is behind it.                      *)
(***************************************************************************)
EXTENDS TaskPool

CONSTANTS t1, t2

Workloads ==
  {[use |-> "serial", tasks |-> Task],
   [use |-> "commands", tasks |-> {t1, t2}],
   [use |-> "parallel", tasks |-> {t1, t2}]}
=============================================================================
