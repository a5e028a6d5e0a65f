------------------------------ MODULE TaskPool ------------------------------
(***************************************************************************)
(* The thread pool and the task group of src/common/src/task_manager: the  *)
(* workers, the threads that submit tasks, and the thread that destroys    *)
(* the pool, step by step between two acquisitions of a lock.              *)
(*                                                                         *)
(* A pool serves either the command server, which submits to it directly   *)
(* (an urgent command to the front), or one task group of a task manager,  *)
(* which is serial or parallel.                                            *)
(***************************************************************************)
EXTENDS Naturals, FiniteSets, SequencesExt

CONSTANTS
  Worker,   \* threads of the pool
  Client,   \* other threads that submit
  Task,     \* what is submitted, each at most once
  NoTask,
  Workload  \* what a pool may be made for, and the tasks that will come

ASSUME ThreadsAssumption ==
  /\ IsFiniteSet(Worker) /\ IsFiniteSet(Client) /\ Worker \cap Client = {}
  /\ NoTask \notin Task
  /\ Workload \subseteq [use : {"commands", "serial", "parallel"}, tasks : SUBSET Task]

VARIABLES
  use,         \* "commands", "serial" or "parallel": what the pool is made for
  que,         \* BaseTaskGroup::que_
  inflight,    \* BaseTaskGroup::inflight_
  registered,  \* whether the registry holds the group
  tasks,       \* ThreadPool::tasks_
  isStopped,
  pc,          \* where each worker is in WorkerLoop and GetTask
  job,         \* the task a worker has taken
  sub,         \* what each thread is submitting, and how far it is
  teardown,    \* how far the destructor is
  status,      \* history: what became of each task
  late,        \* history: the workers falling asleep as the destructor notified
  overrun      \* history: a serial group was cancelled with a task in flight

group == <<que, inflight, registered>>
pool == <<tasks, isStopped>>
workers == <<pc, job>>
history == <<late, overrun>>
vars == <<use, group, pool, workers, sub, teardown, status, history>>

Thread == Worker \cup Client
Idle == [stage |-> "idle", task |-> NoTask, urgent |-> FALSE]
Stages == {"idle", "check", "push", "notify"}
Places == {"loop", "get", "falling", "asleep", "taken", "running", "completing", "exited"}

TypeOK ==
  /\ use \in {"commands", "serial", "parallel"}
  /\ que \in Seq(Task) /\ tasks \in Seq(Task)
  /\ inflight \in BOOLEAN /\ registered \in BOOLEAN /\ isStopped \in BOOLEAN
  /\ pc \in [Worker -> Places]
  /\ job \in [Worker -> Task \cup {NoTask}]
  /\ sub \in [Thread -> [stage : Stages, task : Task \cup {NoTask}, urgent : BOOLEAN]]
  /\ teardown \in {"none", "deregistered", "stopped", "joining", "done"}
  /\ status \in [Task -> {"new", "submitted", "started", "ended", "dropped"}]
  /\ late \subseteq Worker /\ overrun \in BOOLEAN

Init ==
  /\ \E work \in Workload :
       /\ use = work.use
       /\ status = [t \in Task |-> IF t \in work.tasks THEN "new" ELSE "ended"]
  /\ que = <<>> /\ tasks = <<>>
  /\ inflight = FALSE /\ registered = (use # "commands") /\ isStopped = FALSE
  /\ pc = [w \in Worker |-> "loop"]
  /\ job = [w \in Worker |-> NoTask]
  /\ sub = [t \in Thread |-> Idle]
  /\ teardown = "none"
  /\ late = {} /\ overrun = FALSE

-----------------------------------------------------------------------------
(* The locks.  ThreadPool::mutex_ is held across steps only by a worker     *)
(* that has found no task and is about to wait; BaseTaskGroup::mutex_ by a  *)
(* thread that is submitting to the pool for the group.                     *)

\* Mutant: the predicate of the wait is read without the lock.
PoolMutexFree_Unlocked == TRUE

PoolMutexFree == \A w \in Worker : pc[w] # "falling"
GroupMutexFree == use # "commands" => \A t \in Thread : sub[t].stage = "idle"

\* A task that runs holds its group, which the registry may have let go.
Holds(w) == use # "commands" /\ pc[w] \in {"running", "completing"}
GroupAlive == registered \/ \E w \in Worker : Holds(w)

\* The last one to let the group go destroys it, and what it queued.
GroupLetGo(mayLive) ==
  /\ que' = IF mayLive THEN que ELSE <<>>
  /\ status' = [t \in Task |-> IF ~mayLive /\ t \in ToSet(que) THEN "dropped" ELSE status[t]]

-----------------------------------------------------------------------------
(* Submitting. *)

Submitting(t, task, urgent) ==
  sub' = [sub EXCEPT ![t] = [stage |-> "check", task |-> task, urgent |-> urgent]]

\* A client, or a task that runs, may submit while the manager exists.
MaySubmit(t) ==
  /\ sub[t].stage = "idle"
  /\ IF t \in Worker THEN pc[t] = "running" ELSE teardown = "none"

\* CommandServerImpl::AddCommand and AddUrgentCommand.
AddCommand(t, task, urgent) ==
  /\ use = "commands" /\ MaySubmit(t) /\ status[task] = "new"
  /\ status' = [status EXCEPT ![task] = "submitted"]
  /\ Submitting(t, task, urgent)
  /\ UNCHANGED <<use, group, pool, workers, teardown, history>>

\* Mutant: the task stays in the queue as it goes to the pool.
Dispatch_NoPop(t, q, busy) ==
  IF q = <<>> \/ (use = "serial" /\ busy)
    THEN que' = q /\ inflight' = busy /\ sub' = [sub EXCEPT ![t] = Idle]
    ELSE que' = q /\ inflight' = TRUE /\ Submitting(t, Head(q), FALSE)

\* Mutant: a serial group does not wait for the task in flight.
Dispatch_Eager(t, q, busy) ==
  IF q = <<>>
    THEN que' = q /\ inflight' = busy /\ sub' = [sub EXCEPT ![t] = Idle]
    ELSE que' = Tail(q) /\ inflight' = TRUE /\ Submitting(t, Head(q), FALSE)

\* DispatchTaskUnlocked of a group whose queue is q: the next task goes to the
\* pool, unless the group is serial and one is in flight.
Dispatch(t, q, busy) ==
  IF q = <<>> \/ (use = "serial" /\ busy)
    THEN que' = q /\ inflight' = busy /\ sub' = [sub EXCEPT ![t] = Idle]
    ELSE que' = Tail(q) /\ inflight' = TRUE /\ Submitting(t, Head(q), FALSE)

SubmitTask(t, task) ==
  /\ use # "commands" /\ registered /\ MaySubmit(t) /\ GroupMutexFree /\ status[task] = "new"
  /\ status' = [status EXCEPT ![task] = "submitted"]
  /\ Dispatch(t, Append(que, task), inflight)
  /\ UNCHANGED <<use, registered, pool, workers, teardown, history>>

InFlight == {t \in Task : \/ \E i \in DOMAIN tasks : tasks[i] = t
                          \/ \E w \in Worker : job[w] = t
                          \/ \E s \in Thread : sub[s].task = t /\ sub[s].stage # "notify"}

CancelAllTasks ==
  /\ use # "commands" /\ teardown = "none" /\ GroupMutexFree
  /\ que # <<>> \/ inflight
  /\ que' = <<>>
  /\ status' = [t \in Task |-> IF t \in ToSet(que) THEN "dropped" ELSE status[t]]
  /\ inflight' = IF use = "serial" THEN FALSE ELSE inflight
  /\ overrun' = (overrun \/ (use = "serial" /\ InFlight # {}))
  /\ UNCHANGED <<use, registered, pool, workers, sub, teardown, late>>

\* ThreadPool::Submit: the flag is read without the lock ...
SubmitCheck(t) ==
  /\ sub[t].stage = "check"
  /\ IF isStopped
       THEN /\ status' = [status EXCEPT ![sub[t].task] = "dropped"]
            /\ sub' = [sub EXCEPT ![t] = Idle]
       ELSE sub' = [sub EXCEPT ![t].stage = "push"] /\ UNCHANGED status
  /\ UNCHANGED <<use, group, pool, workers, teardown, history>>

\* Mutant: the task was moved out before it is put in the queue.
SubmitPush_Moved(t) ==
  /\ sub[t].stage = "push" /\ PoolMutexFree
  /\ tasks' = Append(tasks, NoTask)
  /\ sub' = [sub EXCEPT ![t].stage = "notify"]
  /\ UNCHANGED <<use, group, isStopped, workers, teardown, status, history>>

SubmitPush(t) ==
  /\ sub[t].stage = "push" /\ PoolMutexFree
  /\ tasks' = IF sub[t].urgent THEN <<sub[t].task>> \o tasks ELSE Append(tasks, sub[t].task)
  /\ sub' = [sub EXCEPT ![t].stage = "notify"]
  /\ UNCHANGED <<use, group, isStopped, workers, teardown, status, history>>

\* ... and notify_one comes after it.
SubmitNotify(t) ==
  /\ sub[t].stage = "notify"
  /\ LET asleep == {w \in Worker : pc[w] = "asleep"}
     IN IF asleep = {} THEN UNCHANGED pc
        ELSE \E w \in asleep : pc' = [pc EXCEPT ![w] = "get"]
  /\ sub' = [sub EXCEPT ![t] = Idle]
  /\ UNCHANGED <<use, group, pool, job, teardown, status, history>>

-----------------------------------------------------------------------------
(* A worker. *)

Loop(w) ==
  /\ pc[w] = "loop"
  /\ pc' = [pc EXCEPT ![w] = IF isStopped THEN "exited" ELSE "get"]
  /\ UNCHANGED <<use, group, pool, job, sub, teardown, status, history>>

\* GetTask with the lock: the predicate of the wait, and what follows it.
GetTask(w) ==
  /\ pc[w] = "get" /\ PoolMutexFree
  /\ \/ /\ isStopped
        /\ pc' = [pc EXCEPT ![w] = "loop"]
        /\ UNCHANGED <<tasks, job>>
     \/ /\ ~isStopped /\ tasks # <<>>
        /\ job' = [job EXCEPT ![w] = Head(tasks)]
        /\ tasks' = Tail(tasks)
        /\ pc' = [pc EXCEPT ![w] = "taken"]
     \/ /\ ~isStopped /\ tasks = <<>>
        /\ pc' = [pc EXCEPT ![w] = "falling"]
        /\ UNCHANGED <<tasks, job>>
  /\ UNCHANGED <<use, group, isStopped, sub, teardown, status, history>>

FallAsleep(w) ==
  /\ pc[w] = "falling"
  /\ pc' = [pc EXCEPT ![w] = "asleep"]
  /\ UNCHANGED <<use, group, pool, job, sub, teardown, status, history>>

\* A condition variable may wake without a notification.
WakeSpuriously(w) ==
  /\ pc[w] = "asleep"
  /\ pc' = [pc EXCEPT ![w] = "get"]
  /\ UNCHANGED <<use, group, pool, job, sub, teardown, status, history>>

\* The task of a group that is gone does nothing.
StartTask(w) ==
  /\ pc[w] = "taken"
  /\ IF use = "commands" \/ GroupAlive
       THEN /\ status' = [status EXCEPT ![job[w]] = "started"]
            /\ pc' = [pc EXCEPT ![w] = "running"]
            /\ UNCHANGED job
       ELSE /\ status' = [status EXCEPT ![job[w]] = "dropped"]
            /\ pc' = [pc EXCEPT ![w] = "loop"]
            /\ job' = [job EXCEPT ![w] = NoTask]
  /\ UNCHANGED <<use, group, pool, sub, teardown, history>>

EndTask(w) ==
  /\ pc[w] = "running" /\ sub[w].stage = "idle"
  /\ status' = [status EXCEPT ![job[w]] = "ended"]
  /\ IF use = "commands"
       THEN pc' = [pc EXCEPT ![w] = "loop"] /\ job' = [job EXCEPT ![w] = NoTask]
       ELSE pc' = [pc EXCEPT ![w] = "completing"] /\ UNCHANGED job
  /\ UNCHANGED <<use, group, pool, sub, teardown, history>>

\* Mutant: the next task is not dispatched.
OnTaskComplete_NoDispatch(w) ==
  /\ pc[w] = "completing" /\ job[w] # NoTask /\ GroupMutexFree
  /\ job' = [job EXCEPT ![w] = NoTask]
  /\ inflight' = (inflight /\ use # "serial")
  /\ UNCHANGED <<use, que, registered, pool, pc, sub, teardown, status, history>>

\* OnTaskComplete under the group's lock ...
OnTaskComplete(w) ==
  /\ pc[w] = "completing" /\ job[w] # NoTask /\ GroupMutexFree
  /\ job' = [job EXCEPT ![w] = NoTask]
  /\ Dispatch(w, que, inflight /\ use # "serial")
  /\ UNCHANGED <<use, registered, pool, pc, teardown, status, history>>

\* ... and the end of the task's hold on the group.
ReleaseGroup(w) ==
  /\ pc[w] = "completing" /\ job[w] = NoTask /\ sub[w].stage = "idle"
  /\ pc' = [pc EXCEPT ![w] = "loop"]
  /\ GroupLetGo(registered \/ \E v \in Worker \ {w} : Holds(v))
  /\ UNCHANGED <<use, inflight, registered, pool, job, sub, teardown, history>>

-----------------------------------------------------------------------------
(* The destructors: TaskManager's takes the group out of the registry, then *)
(* ThreadPool's stops the workers and joins them.  No client is inside.     *)

DeregisterTaskGroup ==
  /\ teardown = "none" /\ \A c \in Client : sub[c].stage = "idle"
  /\ teardown' = "deregistered"
  /\ registered' = FALSE
  /\ GroupLetGo(\E w \in Worker : Holds(w))
  /\ UNCHANGED <<use, inflight, pool, workers, sub, history>>

StopPool ==
  /\ teardown = "deregistered"
  /\ teardown' = "stopped"
  /\ isStopped' = TRUE
  /\ UNCHANGED <<use, group, tasks, workers, sub, status, history>>

\* Mutant: only one of the sleeping workers is woken.
NotifyAll_One ==
  /\ teardown = "stopped"
  /\ teardown' = "joining"
  /\ LET asleep == {w \in Worker : pc[w] = "asleep"}
     IN IF asleep = {} THEN UNCHANGED pc
        ELSE \E w \in asleep : pc' = [pc EXCEPT ![w] = "get"]
  /\ late' = {w \in Worker : pc[w] = "falling"}
  /\ UNCHANGED <<use, group, pool, job, sub, status, overrun>>

\* notify_all reaches the workers that sleep, and no worker that is about to.
NotifyAll ==
  /\ teardown = "stopped"
  /\ teardown' = "joining"
  /\ pc' = [w \in Worker |-> IF pc[w] = "asleep" THEN "get" ELSE pc[w]]
  /\ late' = {w \in Worker : pc[w] = "falling"}
  /\ UNCHANGED <<use, group, pool, job, sub, status, overrun>>

Join ==
  /\ teardown = "joining" /\ \A w \in Worker : pc[w] = "exited"
  /\ teardown' = "done"
  /\ UNCHANGED <<use, group, pool, workers, sub, status, history>>

-----------------------------------------------------------------------------
Submitter(t) == SubmitCheck(t) \/ SubmitPush(t) \/ SubmitNotify(t)

WorkerStep(w) ==
  \/ Loop(w) \/ GetTask(w) \/ FallAsleep(w) \/ StartTask(w) \/ EndTask(w)
  \/ OnTaskComplete(w) \/ ReleaseGroup(w)

Destroyer == StopPool \/ NotifyAll \/ Join

Next ==
  \/ \E t \in Thread, task \in Task : SubmitTask(t, task)
  \/ \E t \in Thread, task \in Task, urgent \in BOOLEAN : AddCommand(t, task, urgent)
  \/ CancelAllTasks
  \/ \E t \in Thread : Submitter(t)
  \/ \E w \in Worker : WorkerStep(w) \/ WakeSpuriously(w)
  \/ DeregisterTaskGroup
  \/ Destroyer

Spec == Init /\ [][Next]_vars

\* Threads run and tasks end; a lock that is free again and again is acquired in
\* the end.  Nobody has to submit, to cancel or to destroy the pool.
Fairness ==
  /\ \A w \in Worker :
       /\ WF_vars(Loop(w) \/ FallAsleep(w) \/ StartTask(w) \/ EndTask(w) \/ ReleaseGroup(w))
       /\ SF_vars(GetTask(w)) /\ SF_vars(OnTaskComplete(w))
  /\ \A t \in Thread :
       /\ WF_vars(SubmitCheck(t) \/ SubmitNotify(t))
       /\ SF_vars(SubmitPush(t))
  /\ WF_vars(Destroyer)

FairSpec == Spec /\ Fairness
-----------------------------------------------------------------------------
\* A worker sleeps beside waiting tasks only while as many others, awake or about
\* to be woken, are on their way to them: no call of notify_one is lost, although
\* it comes after the lock is released.
NoLostWakeup ==
  ~isStopped /\ (\E w \in Worker : pc[w] = "asleep")
    => Len(tasks) <= Cardinality({w \in Worker : pc[w] \in {"loop", "get"}})
                       + Cardinality({t \in Thread : sub[t].stage = "notify"})

\* A task that was submitted and has not started is in exactly one place: the group's
\* queue, the pool's, the hands of the thread that submits it or of the worker that
\* has taken it.  None vanishes and none can run twice.
TaskIsSomewhere ==
  \A t \in Task : LET places == {<<"que", i>> : i \in {i \in DOMAIN que : que[i] = t}}
                           \cup {<<"tasks", i>> : i \in {i \in DOMAIN tasks : tasks[i] = t}}
                           \cup {<<"sub", s>> : s \in {s \in Thread : /\ sub[s].task = t
                                                                     /\ sub[s].stage # "notify"}}
                           \cup {<<"job", w>> : w \in {w \in Worker : pc[w] = "taken" /\ job[w] = t}}
                  IN Cardinality(places) = IF status[t] = "submitted" THEN 1 ELSE 0

\* A serial group has one task between its queue and its completion, unless it was
\* cancelled while it had one: CancelAllTasks forgets the task that runs.
SerialOneAtATime == use = "serial" /\ ~overrun => Cardinality(InFlight) <= 1

\* Every task that was submitted runs to its end or is dropped with its group, or the
\* pool stops: again and again there is none left.
SubmittedRuns == []<>(isStopped \/ \A t \in Task : status[t] \in {"new", "ended", "dropped"})

\* The destructor ends, unless a worker had found no task and was about to sleep when
\* it notified: the flag is set without the lock, and that worker is never woken.
ShutdownEnds == (teardown = "joining" /\ late = {}) ~> teardown = "done"
=============================================================================
