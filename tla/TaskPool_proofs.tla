--------------------------- MODULE TaskPool_proofs ---------------------------
(***************************************************************************)
(* For every number of workers, of threads that submit and of tasks: the   *)
(* pool keeps its types, no call of notify_one is lost, a serial group has *)
(* one task at a time below its queue, and a task that waits is in one     *)
(* place.                                                                  *)
(*                                                                         *)
(* None of the last three is inductive.  A wakeup counts for a task only   *)
(* because a worker that is about to sleep keeps the queue empty (Falling),*)
(* a serial group dispatches only one task because inflight_ is set        *)
(* whenever one is below (SerialOK), and a task moves from one place to    *)
(* the next only because the places are disjoint (PlacedOK).               *)
(***************************************************************************)
EXTENDS TaskPool, TLAPS, FiniteSetTheorems, SequenceTheorems

-----------------------------------------------------------------------------
(***************************************************************************)
(* Types: TypeOK, and what a thread that submits has in its hands.         *)
(***************************************************************************)
SubsOK ==
  \A t \in Thread : IF sub[t].stage = "idle" THEN sub[t].task = NoTask ELSE sub[t].task \in Task

\* Only the task of a group reports that it is complete.
PlacesOK == \A w \in Worker : pc[w] = "completing" => use # "commands"

Types == TypeOK /\ SubsOK /\ PlacesOK

LEMMA IdleType ==
  /\ Idle \in [stage : Stages, task : Task \cup {NoTask}, urgent : BOOLEAN]
  /\ Idle.stage = "idle" /\ Idle.task = NoTask
BY DEF Idle, Stages

LEMMA InitTypes == Init => Types
<1>. SUFFICES ASSUME Init
              PROVE  Types
  OBVIOUS
<1>1. use \in {"commands", "serial", "parallel"}
  BY ThreadsAssumption DEF Init
<1>2. status \in [Task -> {"new", "submitted", "started", "ended", "dropped"}]
  BY DEF Init
<1>3. sub \in [Thread -> [stage : Stages, task : Task \cup {NoTask}, urgent : BOOLEAN]] /\ SubsOK
  BY DEF Init, SubsOK, Idle, Stages
<1>4. /\ que \in Seq(Task) /\ tasks \in Seq(Task)
      /\ pc \in [Worker -> Places] /\ job \in [Worker -> Task \cup {NoTask}] /\ PlacesOK
  BY EmptySeq DEF Init, Places, PlacesOK
<1>5. /\ inflight \in BOOLEAN /\ registered \in BOOLEAN /\ isStopped \in BOOLEAN
      /\ teardown \in {"none", "deregistered", "stopped", "joining", "done"}
      /\ late \subseteq Worker /\ overrun \in BOOLEAN
  BY DEF Init
<1>. QED  BY <1>1, <1>2, <1>3, <1>4, <1>5 DEF Types, TypeOK

LEMMA GroupLetGoTypes ==
  ASSUME TypeOK, NEW mayLive, GroupLetGo(mayLive)
  PROVE  /\ que' \in Seq(Task)
         /\ status' \in [Task -> {"new", "submitted", "started", "ended", "dropped"}]
BY EmptySeq DEF TypeOK, GroupLetGo

LEMMA DispatchTypes ==
  ASSUME Types, NEW t \in Thread, NEW q \in Seq(Task), NEW busy \in BOOLEAN, Dispatch(t, q, busy)
  PROVE  /\ que' \in Seq(Task) /\ inflight' \in BOOLEAN
         /\ sub' \in [Thread -> [stage : Stages, task : Task \cup {NoTask}, urgent : BOOLEAN]]
         /\ SubsOK'
<1>1. q # <<>> => Tail(q) \in Seq(Task) /\ Head(q) \in Task
  BY HeadTailProperties
<1>2. CASE que' = q /\ inflight' = busy /\ sub' = [sub EXCEPT ![t] = Idle]
  <2>1. sub' \in [Thread -> [stage : Stages, task : Task \cup {NoTask}, urgent : BOOLEAN]]
    BY <1>2, IdleType DEF Types, TypeOK
  <2>2. SubsOK'
    BY <1>2, IdleType DEF Types, TypeOK, SubsOK
  <2>. QED  BY <1>2, <2>1, <2>2
<1>3. CASE /\ q # <<>>
           /\ que' = Tail(q) /\ inflight' = TRUE /\ Submitting(t, Head(q), FALSE)
  BY <1>1, <1>3, ThreadsAssumption DEF Types, TypeOK, SubsOK, Submitting, Stages
<1>. QED  BY <1>2, <1>3 DEF Dispatch

LEMMA SubmitTypes ==
  ASSUME Types, NEW t \in Thread, Submitter(t)
  PROVE  Types'
<1>1. CASE SubmitCheck(t)
  <2>1. /\ sub' \in [Thread -> [stage : Stages, task : Task \cup {NoTask}, urgent : BOOLEAN]]
        /\ SubsOK'
    BY <1>1, IdleType DEF SubmitCheck, Types, TypeOK, SubsOK, Stages
  <2>2. status' \in [Task -> {"new", "submitted", "started", "ended", "dropped"}]
    BY <1>1 DEF SubmitCheck, Types, TypeOK
  <2>. QED  BY <1>1, <2>1, <2>2 DEF SubmitCheck, Types, TypeOK, PlacesOK, group, pool, workers, history
<1>2. CASE SubmitPush(t)
  <2>1. sub[t].task \in Task
    BY <1>2 DEF SubmitPush, Types, SubsOK
  <2>2. /\ Append(tasks, sub[t].task) \in Seq(Task)
        /\ <<sub[t].task>> \o tasks \in Seq(Task)
    <3>1. <<sub[t].task>> \in Seq(Task)
      BY <2>1
    <3>. QED  BY <2>1, <3>1, ConcatProperties DEF Types, TypeOK
  <2>3. tasks' \in Seq(Task)
    BY <1>2, <2>2 DEF SubmitPush
  <2>. QED  BY <1>2, <2>3 DEF SubmitPush, Types, TypeOK, SubsOK, PlacesOK, Stages, group, workers, history
<1>3. CASE SubmitNotify(t)
  <2>1. pc' \in [Worker -> Places] /\ \A w \in Worker : pc'[w] = pc[w] \/ pc'[w] = "get"
    BY <1>3 DEF SubmitNotify, Types, TypeOK, Places
  <2>2. /\ sub' \in [Thread -> [stage : Stages, task : Task \cup {NoTask}, urgent : BOOLEAN]]
        /\ SubsOK'
    BY <1>3, IdleType DEF SubmitNotify, Types, TypeOK, SubsOK
  <2>. QED  BY <1>3, <2>1, <2>2 DEF SubmitNotify, Types, TypeOK, PlacesOK, group, pool, history
<1>. QED  BY <1>1, <1>2, <1>3 DEF Submitter

LEMMA WorkerTypes ==
  ASSUME Types, NEW w \in Worker, WorkerStep(w) \/ WakeSpuriously(w)
  PROVE  Types'
<1>1. CASE Loop(w) \/ FallAsleep(w) \/ WakeSpuriously(w)
  <2>1. CASE Loop(w)
    BY <2>1 DEF Loop, Types, TypeOK, SubsOK, PlacesOK, Places, group, pool, history
  <2>2. CASE FallAsleep(w)
    BY <2>2 DEF FallAsleep, Types, TypeOK, SubsOK, PlacesOK, Places, group, pool, history
  <2>3. CASE WakeSpuriously(w)
    BY <2>3 DEF WakeSpuriously, Types, TypeOK, SubsOK, PlacesOK, Places, group, pool, history
  <2>. QED  BY <1>1, <2>1, <2>2, <2>3
<1>2. CASE GetTask(w)
  <2>1. tasks # <<>> => Tail(tasks) \in Seq(Task) /\ Head(tasks) \in Task
    BY HeadTailProperties DEF Types, TypeOK
  <2>2. tasks' \in Seq(Task) /\ job' \in [Worker -> Task \cup {NoTask}]
    BY <1>2, <2>1 DEF GetTask, Types, TypeOK
  <2>3. pc' \in [Worker -> Places] /\ \A v \in Worker : pc'[v] = "completing" => pc[v] = "completing"
    BY <1>2 DEF GetTask, Types, TypeOK, Places
  <2>4. UNCHANGED <<use, group, isStopped, sub, teardown, status, history>>
    BY <1>2 DEF GetTask
  <2>. QED  BY <2>2, <2>3, <2>4 DEF Types, TypeOK, SubsOK, PlacesOK, group, history
<1>3. CASE StartTask(w) \/ EndTask(w)
  BY <1>3 DEF StartTask, EndTask, Types, TypeOK, SubsOK, PlacesOK, Places, group, pool, history
<1>4. CASE OnTaskComplete(w)
  <2>1. w \in Thread /\ que \in Seq(Task) /\ (inflight /\ use # "serial") \in BOOLEAN
    BY DEF Thread, Types, TypeOK
  <2>2. Dispatch(w, que, inflight /\ use # "serial")
    BY <1>4 DEF OnTaskComplete
  <2>3. /\ que' \in Seq(Task) /\ inflight' \in BOOLEAN
        /\ sub' \in [Thread -> [stage : Stages, task : Task \cup {NoTask}, urgent : BOOLEAN]]
        /\ SubsOK'
    BY <2>1, <2>2, DispatchTypes
  <2>. QED  BY <1>4, <2>3 DEF OnTaskComplete, Types, TypeOK, PlacesOK, pool, history
<1>5. CASE ReleaseGroup(w)
  <2>1. /\ que' \in Seq(Task)
        /\ status' \in [Task -> {"new", "submitted", "started", "ended", "dropped"}]
    BY <1>5, GroupLetGoTypes DEF ReleaseGroup, Types
  <2>. QED  BY <1>5, <2>1 DEF ReleaseGroup, Types, TypeOK, SubsOK, PlacesOK, Places, pool, history
<1>. QED  BY <1>1, <1>2, <1>3, <1>4, <1>5 DEF WorkerStep

LEMMA DestroyerTypes ==
  ASSUME Types, DeregisterTaskGroup \/ Destroyer
  PROVE  Types'
<1>1. CASE DeregisterTaskGroup
  <2>1. /\ que' \in Seq(Task)
        /\ status' \in [Task -> {"new", "submitted", "started", "ended", "dropped"}]
    BY <1>1, GroupLetGoTypes DEF DeregisterTaskGroup, Types
  <2>. QED  BY <1>1, <2>1 DEF DeregisterTaskGroup, Types, TypeOK, SubsOK, PlacesOK, pool, workers, history
<1>2. CASE StopPool \/ Join
  BY <1>2 DEF StopPool, Join, Types, TypeOK, SubsOK, PlacesOK, group, pool, workers, history
<1>3. CASE NotifyAll
  <2>1. pc' \in [Worker -> Places] /\ \A w \in Worker : pc'[w] = pc[w] \/ pc'[w] = "get"
    BY <1>3 DEF NotifyAll, Types, TypeOK, Places
  <2>. QED  BY <1>3, <2>1 DEF NotifyAll, Types, TypeOK, SubsOK, PlacesOK, group, pool, history
<1>. QED  BY <1>1, <1>2, <1>3 DEF Destroyer

LEMMA RequestTypes ==
  ASSUME Types, NEW t \in Thread, NEW task \in Task,
         SubmitTask(t, task) \/ \E urgent \in BOOLEAN : AddCommand(t, task, urgent)
  PROVE  Types'
<1>1. CASE SubmitTask(t, task)
  <2>1. Append(que, task) \in Seq(Task) /\ inflight \in BOOLEAN
    BY DEF Types, TypeOK
  <2>2. /\ que' \in Seq(Task) /\ inflight' \in BOOLEAN
        /\ sub' \in [Thread -> [stage : Stages, task : Task \cup {NoTask}, urgent : BOOLEAN]]
        /\ SubsOK'
    BY <1>1, <2>1, DispatchTypes DEF SubmitTask
  <2>. QED  BY <1>1, <2>2 DEF SubmitTask, Types, TypeOK, PlacesOK, pool, workers, history
<1>2. ASSUME NEW urgent \in BOOLEAN, AddCommand(t, task, urgent)
      PROVE  Types'
  BY <1>2, ThreadsAssumption DEF AddCommand, Submitting, Types, TypeOK, SubsOK, PlacesOK, Stages,
                                 group, pool, workers, history
<1>. QED  BY <1>1, <1>2

LEMMA CancelTypes ==
  ASSUME Types, CancelAllTasks
  PROVE  Types'
BY EmptySeq DEF CancelAllTasks, Types, TypeOK, SubsOK, PlacesOK, pool, workers

LEMMA TypesInductive ==
  ASSUME Types, [Next]_vars
  PROVE  Types'
<1>1. CASE UNCHANGED vars
  BY <1>1 DEF vars, group, pool, workers, history, Types, TypeOK, SubsOK, PlacesOK
<1>2. CASE Next
  BY <1>2, RequestTypes, CancelTypes, SubmitTypes, WorkerTypes, DestroyerTypes DEF Next
<1>. QED  BY <1>1, <1>2

(***************************************************************************)
(* A command that is queued, handed over or run is one that was submitted, *)
(* and the threads are at places of the code, for every number of threads. *)
(***************************************************************************)
THEOREM TypeCorrect == Spec => []TypeOK
<1>1. Spec => []Types
  BY InitTypes, TypesInductive, PTL DEF Spec
<1>2. Types => TypeOK
  BY DEF Types
<1>. QED  BY <1>1, <1>2, PTL
-----------------------------------------------------------------------------
(***************************************************************************)
(* The serial group.                                                       *)
(***************************************************************************)
Carries(t) == sub[t].stage \in {"check", "push"}

NoneBelow ==
  /\ tasks = <<>>
  /\ \A w \in Worker : job[w] = NoTask
  /\ \A t \in Thread : ~ Carries(t)

OneBelow ==
  /\ Len(tasks) <= 1
  /\ \A v, w \in Worker : job[v] # NoTask /\ job[w] # NoTask => v = w
  /\ \A s, t \in Thread : Carries(s) /\ Carries(t) => s = t
  /\ (\E t \in Thread : Carries(t)) => tasks = <<>> /\ \A w \in Worker : job[w] = NoTask
  /\ (\E w \in Worker : job[w] # NoTask) => tasks = <<>>

SerialOK == use = "serial" /\ ~ overrun => OneBelow /\ (inflight \/ NoneBelow)

\* What InFlight counts is below the group's queue.
LEMMA InFlightIsBelow ==
  ASSUME Types
  PROVE  /\ InFlight = {} => NoneBelow
         /\ OneBelow => \A t, u \in InFlight : t = u
<1>1. /\ \A i \in DOMAIN tasks : tasks[i] \in Task
      /\ tasks # <<>> => 1 \in DOMAIN tasks
      /\ Len(tasks) <= 1 => \A i, j \in DOMAIN tasks : i = j
      /\ tasks = <<>> => DOMAIN tasks = {}
  BY DEF Types, TypeOK
<1>2. \A w \in Worker : job[w] # NoTask => job[w] \in Task
  BY DEF Types, TypeOK
<1>3. \A t \in Thread : Carries(t) => sub[t].task \in Task /\ sub[t].stage # "notify"
  BY DEF Types, SubsOK, Carries
<1>4. \A t \in Thread, task \in Task : sub[t].task = task /\ sub[t].stage # "notify" => Carries(t)
  BY ThreadsAssumption DEF Types, TypeOK, SubsOK, Stages, Carries
<1>5. InFlight = {} => NoneBelow
  BY <1>1, <1>2, <1>3 DEF InFlight, NoneBelow
<1>6. OneBelow => \A t, u \in InFlight : t = u
  <2>. SUFFICES ASSUME OneBelow, NEW t \in InFlight, NEW u \in InFlight
                PROVE  t = u
    OBVIOUS
  <2>1. \A x \in InFlight : /\ x \in Task /\ x # NoTask
                            /\ \/ \E i \in DOMAIN tasks : tasks[i] = x
                               \/ \E w \in Worker : job[w] = x
                               \/ \E s \in Thread : Carries(s) /\ sub[s].task = x
    BY <1>4, ThreadsAssumption DEF InFlight
  <2>2. CASE \E s \in Thread : Carries(s)
    BY <1>1, <2>1, <2>2 DEF OneBelow
  <2>3. CASE (\A s \in Thread : ~ Carries(s)) /\ \E w \in Worker : job[w] # NoTask
    BY <1>1, <2>1, <2>3 DEF OneBelow
  <2>4. CASE (\A s \in Thread : ~ Carries(s)) /\ \A w \in Worker : job[w] = NoTask
    BY <1>1, <2>1, <2>4 DEF OneBelow
  <2>. QED  BY <2>2, <2>3, <2>4
<1>. QED  BY <1>5, <1>6

LEMMA NoneIsOne == NoneBelow => OneBelow
BY DEF NoneBelow, OneBelow

\* A dispatch puts a task below a group that has none there, or nothing.
LEMMA DispatchSerial ==
  ASSUME Types, Types', NEW t \in Thread, NEW q, NEW busy \in BOOLEAN, Dispatch(t, q, busy),
         UNCHANGED tasks, use = "serial",
         \A w \in Worker : job'[w] # NoTask => job[w] # NoTask,
         ~ Carries(t), OneBelow,
         busy \/ /\ tasks = <<>> /\ \A w \in Worker : job'[w] = NoTask
                 /\ \A s \in Thread : ~ Carries(s)
  PROVE  OneBelow' /\ (inflight' \/ NoneBelow')
<1>1. sub \in [Thread -> [stage : Stages, task : Task \cup {NoTask}, urgent : BOOLEAN]]
  BY DEF Types, TypeOK
<1>2. CASE inflight' = busy /\ sub' = [sub EXCEPT ![t] = Idle]
  <2>1. \A s \in Thread : Carries(s)' => Carries(s)
    BY <1>1, <1>2, IdleType DEF Carries
  <2>2. OneBelow'
    BY <2>1 DEF OneBelow
  <2>3. busy \/ NoneBelow'
    BY <2>1 DEF NoneBelow
  <2>. QED  BY <1>2, <2>2, <2>3
<1>3. CASE inflight' = TRUE /\ Submitting(t, Head(q), FALSE) /\ ~ busy
  <2>1. \A s \in Thread : Carries(s)' => s = t
    BY <1>1, <1>3 DEF Carries, Submitting
  <2>. QED  BY <1>3, <2>1 DEF OneBelow
<1>. QED  BY <1>2, <1>3 DEF Dispatch

LEMMA SubmitSerial ==
  ASSUME Types, NEW t \in Thread, Submitter(t), OneBelow, inflight \/ NoneBelow
  PROVE  OneBelow' /\ (inflight' \/ NoneBelow')
<1>1. sub \in [Thread -> [stage : Stages, task : Task \cup {NoTask}, urgent : BOOLEAN]]
  BY DEF Types, TypeOK
<1>2. CASE SubmitCheck(t) \/ SubmitNotify(t)
  <2>1. \A s \in Thread : Carries(s)' => Carries(s)
    BY <1>1, <1>2, IdleType DEF SubmitCheck, SubmitNotify, Carries
  <2>2. UNCHANGED <<tasks, job, inflight>>
    BY <1>2 DEF SubmitCheck, SubmitNotify, group, pool, workers
  <2>. QED  BY <2>1, <2>2 DEF OneBelow, NoneBelow
<1>3. CASE SubmitPush(t)
  <2>1. Carries(t) /\ UNCHANGED <<job, inflight>>
    BY <1>3 DEF SubmitPush, Carries, group, workers
  <2>2. tasks = <<>> /\ (\A w \in Worker : job[w] = NoTask) /\ inflight
    BY <2>1 DEF OneBelow, NoneBelow
  <2>3. Len(tasks') = 1
    BY <1>3, <2>2 DEF SubmitPush
  <2>4. \A s \in Thread : ~ Carries(s)'
    BY <1>1, <1>3, <2>1 DEF SubmitPush, Carries, OneBelow
  <2>. QED  BY <2>1, <2>2, <2>3, <2>4 DEF OneBelow
<1>. QED  BY <1>2, <1>3 DEF Submitter

LEMMA WorkerSerial ==
  ASSUME Types, Types', NEW w \in Worker, WorkerStep(w) \/ WakeSpuriously(w), use = "serial",
         OneBelow, inflight \/ NoneBelow
  PROVE  OneBelow' /\ (inflight' \/ NoneBelow')
<1>1. job \in [Worker -> Task \cup {NoTask}] /\ tasks \in Seq(Task)
  BY DEF Types, TypeOK
<1>2. CASE Loop(w) \/ FallAsleep(w) \/ WakeSpuriously(w) \/ EndTask(w) \/ ReleaseGroup(w)
  <2>1. UNCHANGED <<tasks, job, inflight, sub>>
    BY <1>2 DEF Loop, FallAsleep, WakeSpuriously, EndTask, ReleaseGroup, group, pool
  <2>. QED  BY <2>1 DEF OneBelow, NoneBelow, Carries
<1>3. CASE StartTask(w)
  <2>1. UNCHANGED <<tasks, inflight, sub>> /\ \A v \in Worker : job'[v] # NoTask => job[v] # NoTask
    BY <1>1, <1>3 DEF StartTask, group, pool
  <2>. QED  BY <2>1 DEF OneBelow, NoneBelow, Carries
<1>4. CASE GetTask(w) /\ UNCHANGED <<tasks, job>>
  BY <1>4 DEF GetTask, OneBelow, NoneBelow, Carries, group
<1>5. CASE GetTask(w) /\ tasks # <<>> /\ job' = [job EXCEPT ![w] = Head(tasks)] /\ tasks' = Tail(tasks)
  <2>1. /\ \A v \in Worker : job[v] = NoTask
        /\ \A s \in Thread : ~ Carries(s)
        /\ inflight
    BY <1>5 DEF OneBelow, NoneBelow
  <2>2. tasks' = <<>>
    <3>1. Len(tasks) = 1
      <4>1. Len(tasks) \in Nat /\ Len(tasks) # 0
        BY <1>1, <1>5
      <4>2. Len(tasks) <= 1
        BY DEF OneBelow
      <4>. QED  BY <4>1, <4>2
    <3>2. Len(Tail(tasks)) = 0 /\ Tail(tasks) \in Seq(Task)
      BY <1>1, <1>5, <3>1, HeadTailProperties
    <3>. QED  BY <1>5, <3>2, EmptySeq
  <2>3. \A v \in Worker : job'[v] # NoTask => v = w
    BY <1>1, <1>5, <2>1
  <2>4. UNCHANGED <<inflight, sub>>
    BY <1>5 DEF GetTask, group
  <2>. QED  BY <2>1, <2>2, <2>3, <2>4 DEF OneBelow, Carries
<1>6. CASE OnTaskComplete(w)
  <2>1. /\ job[w] # NoTask /\ UNCHANGED tasks /\ job' = [job EXCEPT ![w] = NoTask]
        /\ Dispatch(w, que, inflight /\ use # "serial")
        /\ \A s \in Thread : sub[s].stage = "idle"
    BY <1>6 DEF OnTaskComplete, GroupMutexFree, pool
  <2>2. tasks = <<>> /\ \A v \in Worker : job'[v] = NoTask
    BY <1>1, <2>1 DEF OneBelow
  <2>3. \A s \in Thread : ~ Carries(s)
    BY <2>1 DEF Carries
  <2>4. w \in Thread /\ (inflight /\ use # "serial") \in BOOLEAN
    BY DEF Thread
  <2>. QED  BY <2>1, <2>2, <2>3, <2>4, DispatchSerial
<1>7. GetTask(w) => UNCHANGED <<tasks, job>> \/ (/\ tasks # <<>> /\ tasks' = Tail(tasks)
                                                /\ job' = [job EXCEPT ![w] = Head(tasks)])
  BY DEF GetTask
<1>. QED  BY <1>2, <1>3, <1>4, <1>5, <1>6, <1>7 DEF WorkerStep

LEMMA SerialInductive ==
  ASSUME Types, Types', SerialOK, [Next]_vars
  PROVE  SerialOK'
<1>1. CASE UNCHANGED vars
  BY <1>1 DEF vars, group, pool, workers, history, SerialOK, OneBelow, NoneBelow, Carries
<1>2. ASSUME NEW t \in Thread, NEW task \in Task, SubmitTask(t, task)
      PROVE  SerialOK'
  <2>. SUFFICES ASSUME use = "serial", ~ overrun, OneBelow, inflight \/ NoneBelow
                PROVE  OneBelow' /\ (inflight' \/ NoneBelow')
    BY <1>2 DEF SubmitTask, SerialOK, history
  <2>1. /\ \A s \in Thread : ~ Carries(s)
        /\ UNCHANGED <<tasks, job>>
        /\ Dispatch(t, Append(que, task), inflight)
    BY <1>2 DEF SubmitTask, GroupMutexFree, Carries, pool, workers
  <2>2. inflight \in BOOLEAN
    BY DEF Types, TypeOK
  <2>. QED  BY <2>1, <2>2, DispatchSerial DEF NoneBelow
<1>3. ASSUME NEW t \in Thread, NEW task \in Task, NEW urgent \in BOOLEAN, AddCommand(t, task, urgent)
      PROVE  SerialOK'
  BY <1>3 DEF AddCommand, SerialOK
<1>4. CASE CancelAllTasks
  <2>. SUFFICES ASSUME use = "serial", ~ overrun'
                PROVE  OneBelow' /\ NoneBelow'
    BY <1>4 DEF CancelAllTasks, SerialOK
  <2>1. InFlight = {}
    BY <1>4 DEF CancelAllTasks
  <2>2. UNCHANGED <<tasks, job, sub>>
    BY <1>4 DEF CancelAllTasks, pool, workers
  <2>. QED  BY <2>1, <2>2, InFlightIsBelow, NoneIsOne DEF OneBelow, NoneBelow, Carries
<1>5. ASSUME NEW t \in Thread, Submitter(t)
      PROVE  SerialOK'
  <2>1. UNCHANGED <<use, overrun>>
    BY <1>5 DEF Submitter, SubmitCheck, SubmitPush, SubmitNotify, history
  <2>. QED  BY <1>5, <2>1, SubmitSerial DEF SerialOK
<1>6. ASSUME NEW w \in Worker, WorkerStep(w) \/ WakeSpuriously(w)
      PROVE  SerialOK'
  <2>1. UNCHANGED <<use, overrun>>
    BY <1>6 DEF WorkerStep, WakeSpuriously, Loop, GetTask, FallAsleep, StartTask, EndTask,
                OnTaskComplete, ReleaseGroup, history
  <2>. QED  BY <1>6, <2>1, WorkerSerial DEF SerialOK
<1>7. CASE DeregisterTaskGroup \/ Destroyer
  <2>1. UNCHANGED <<use, inflight, tasks, job, sub, overrun>>
    BY <1>7 DEF DeregisterTaskGroup, Destroyer, StopPool, NotifyAll, Join, group, pool, workers, history
  <2>. QED  BY <2>1 DEF SerialOK, OneBelow, NoneBelow, Carries
<1>. QED  BY <1>1, <1>2, <1>3, <1>4, <1>5, <1>6, <1>7 DEF Next

(***************************************************************************)
(* A serial group, which the managers use to be called back by one thread  *)
(* at a time, has at most one task between its queue and its completion,   *)
(* however many workers the pool has and whoever submits, unless it was    *)
(* cancelled over one.                                                     *)
(***************************************************************************)
THEOREM SerialHolds == Spec => []SerialOneAtATime
<1>1. Init => SerialOK
  BY IdleType DEF Init, SerialOK, OneBelow, NoneBelow, Carries
<1>2. Spec => [](Types /\ SerialOK)
  BY <1>1, InitTypes, TypesInductive, SerialInductive, PTL DEF Spec
<1>3. Types /\ SerialOK => SerialOneAtATime
  <2>. SUFFICES ASSUME Types, OneBelow
                PROVE  Cardinality(InFlight) <= 1
    BY DEF SerialOK, SerialOneAtATime
  <2>1. \A t, u \in InFlight : t = u
    BY InFlightIsBelow
  <2>2. CASE InFlight = {}
    BY <2>2, FS_EmptySet
  <2>3. CASE InFlight # {}
    <3>1. PICK t \in InFlight : TRUE
      BY <2>3
    <3>2. InFlight = {t}
      BY <2>1, <3>1
    <3>. QED  BY <3>2, FS_Singleton
  <2>. QED  BY <2>2, <2>3
<1>. QED  BY <1>2, <1>3, PTL
-----------------------------------------------------------------------------
(***************************************************************************)
(* The wakeups.                                                            *)
(***************************************************************************)
Awake == {w \in Worker : pc[w] \in {"loop", "get"}}
Notifying == {t \in Thread : sub[t].stage = "notify"}

Enough == Len(tasks) <= Cardinality(Awake) + Cardinality(Notifying)

Falling == (\E w \in Worker : pc[w] = "falling") => tasks = <<>>

WakeupOK == Falling /\ (~ isStopped /\ (\E w \in Worker : pc[w] = "asleep") => Enough)

LEMMA Finite ==
  /\ IsFiniteSet(Awake) /\ IsFiniteSet(Notifying)
  /\ Cardinality(Awake) \in Nat /\ Cardinality(Notifying) \in Nat
  /\ (IsFiniteSet(Awake) /\ IsFiniteSet(Notifying))'
  /\ (Cardinality(Awake) \in Nat /\ Cardinality(Notifying) \in Nat)'
<1>1. IsFiniteSet(Thread)
  BY ThreadsAssumption, FS_Union DEF Thread
<1>2. /\ Awake \in SUBSET Worker /\ Awake' \in SUBSET Worker
      /\ Notifying \in SUBSET Thread /\ Notifying' \in SUBSET Thread
  BY DEF Awake, Notifying
<1>3. IsFiniteSet(Awake) /\ IsFiniteSet(Awake') /\ IsFiniteSet(Notifying) /\ IsFiniteSet(Notifying')
  BY <1>1, <1>2, ThreadsAssumption, FS_Subset
<1>. QED  BY <1>3, FS_CardinalityType

\* Those on their way stay on their way.
LEMMA EnoughStays ==
  ASSUME Types, Enough, UNCHANGED tasks, Awake \subseteq Awake', Notifying \subseteq Notifying'
  PROVE  Enough'
<1>1. Cardinality(Awake) <= Cardinality(Awake') /\ Cardinality(Notifying) <= Cardinality(Notifying')
  BY Finite, FS_Subset
<1>2. Len(tasks) \in Nat
  BY DEF Types, TypeOK
<1>. QED  BY <1>1, <1>2, Finite DEF Enough

LEMMA WakeupStays ==
  ASSUME Types, WakeupOK, UNCHANGED tasks, isStopped => isStopped',
         \A w \in Worker : /\ pc'[w] = "falling" => pc[w] = "falling"
                           /\ pc'[w] = "asleep" => pc[w] = "asleep"
                           /\ pc[w] \in {"loop", "get"} /\ ~ isStopped' => pc'[w] \in {"loop", "get"},
         \A t \in Thread : sub[t].stage = "notify" => sub'[t].stage = "notify"
  PROVE  WakeupOK'
<1>1. Falling'
  BY DEF WakeupOK, Falling
<1>2. ASSUME ~ isStopped', \E w \in Worker : pc'[w] = "asleep"
      PROVE  Enough'
  <2>1. Enough
    BY <1>2 DEF WakeupOK
  <2>2. Awake \subseteq Awake' /\ Notifying \subseteq Notifying'
    BY <1>2 DEF Awake, Notifying
  <2>. QED  BY <2>1, <2>2, EnoughStays
<1>. QED  BY <1>1, <1>2 DEF WakeupOK

LEMMA SubmitWakeup ==
  ASSUME Types, WakeupOK, NEW t \in Thread, Submitter(t)
  PROVE  WakeupOK'
<1>1. /\ sub \in [Thread -> [stage : Stages, task : Task \cup {NoTask}, urgent : BOOLEAN]]
      /\ pc \in [Worker -> Places] /\ tasks \in Seq(Task) /\ Len(tasks) \in Nat
  BY DEF Types, TypeOK
<1>2. CASE SubmitCheck(t)
  <2>1. \A s \in Thread : sub[s].stage = "notify" => sub'[s].stage = "notify"
    BY <1>1, <1>2 DEF SubmitCheck
  <2>2. UNCHANGED <<tasks, isStopped, pc>>
    BY <1>2 DEF SubmitCheck, pool, workers
  <2>. QED  BY <2>1, <2>2, WakeupStays
<1>3. CASE SubmitPush(t)
  <2>1. UNCHANGED <<pc, isStopped>> /\ \A w \in Worker : pc[w] # "falling"
    BY <1>3 DEF SubmitPush, PoolMutexFree, workers
  <2>2. Len(tasks') = Len(tasks) + 1
    <3>1. sub[t].task \in Task
      BY <1>3 DEF SubmitPush, Types, SubsOK
    <3>2. <<sub[t].task>> \in Seq(Task) /\ Len(<<sub[t].task>>) = 1
      BY <3>1
    <3>3. Len(<<sub[t].task>> \o tasks) = 1 + Len(tasks)
      BY <1>1, <3>2, ConcatProperties
    <3>4. Len(Append(tasks, sub[t].task)) = Len(tasks) + 1
      BY <1>1, <3>1
    <3>. QED  BY <1>1, <1>3, <3>3, <3>4 DEF SubmitPush
  <2>3. Awake' = Awake /\ Notifying' = Notifying \cup {t} /\ t \notin Notifying
    BY <1>1, <1>3, <2>1 DEF SubmitPush, Awake, Notifying
  <2>4. Cardinality(Notifying') = Cardinality(Notifying) + 1
    BY <2>3, Finite, FS_AddElement
  <2>5. Enough => Enough'
    BY <1>1, <2>2, <2>3, <2>4, Finite DEF Enough
  <2>. QED  BY <2>1, <2>5 DEF WakeupOK, Falling
<1>4. CASE SubmitNotify(t)
  <2>1. UNCHANGED <<tasks, isStopped>> /\ sub' = [sub EXCEPT ![t] = Idle] /\ sub[t].stage = "notify"
    BY <1>4 DEF SubmitNotify, pool
  <2>2. CASE \A w \in Worker : pc[w] # "asleep"
    <3>1. UNCHANGED pc
      BY <1>4, <2>2 DEF SubmitNotify
    <3>. QED  BY <2>1, <2>2, <3>1 DEF WakeupOK, Falling
  <2>3. CASE \E w \in Worker : pc[w] = "asleep"
    <3>1. PICK w \in Worker : pc[w] = "asleep" /\ pc' = [pc EXCEPT ![w] = "get"]
      BY <1>4, <2>3 DEF SubmitNotify
    <3>2. Awake' = Awake \cup {w} /\ w \notin Awake
      BY <1>1, <3>1 DEF Awake
    <3>3. Notifying' = Notifying \ {t} /\ t \in Notifying
      BY <1>1, <2>1, IdleType DEF Notifying
    <3>4. /\ Cardinality(Awake') = Cardinality(Awake) + 1
          /\ Cardinality(Notifying') = Cardinality(Notifying) - 1
      BY <3>2, <3>3, Finite, FS_AddElement, FS_RemoveElement
    <3>5. Enough => Enough'
      BY <1>1, <2>1, <3>4, Finite DEF Enough
    <3>6. Falling'
      BY <1>1, <2>1, <3>1 DEF WakeupOK, Falling
    <3>. QED  BY <2>1, <2>3, <3>5, <3>6 DEF WakeupOK
  <2>. QED  BY <2>2, <2>3
<1>. QED  BY <1>2, <1>3, <1>4 DEF Submitter

LEMMA WorkerWakeup ==
  ASSUME Types, WakeupOK, NEW w \in Worker, WorkerStep(w) \/ WakeSpuriously(w)
  PROVE  WakeupOK'
<1>1. /\ sub \in [Thread -> [stage : Stages, task : Task \cup {NoTask}, urgent : BOOLEAN]]
      /\ pc \in [Worker -> Places] /\ tasks \in Seq(Task) /\ Len(tasks) \in Nat
  BY DEF Types, TypeOK
<1>2. CASE Loop(w) \/ WakeSpuriously(w) \/ StartTask(w) \/ EndTask(w) \/ ReleaseGroup(w)
  <2>1. UNCHANGED <<tasks, isStopped, sub>>
    BY <1>2 DEF Loop, WakeSpuriously, StartTask, EndTask, ReleaseGroup, pool
  <2>2. \A v \in Worker : /\ pc'[v] = "falling" => pc[v] = "falling"
                          /\ pc'[v] = "asleep" => pc[v] = "asleep"
                          /\ pc[v] \in {"loop", "get"} /\ ~ isStopped => pc'[v] \in {"loop", "get"}
    BY <1>1, <1>2 DEF Loop, WakeSpuriously, StartTask, EndTask, ReleaseGroup
  <2>. QED  BY <2>1, <2>2, WakeupStays
<1>3. CASE GetTask(w) /\ isStopped
  BY <1>1, <1>3 DEF GetTask, WakeupOK, Falling
<1>4. CASE GetTask(w) /\ ~ isStopped /\ tasks # <<>>
  <2>1. /\ pc' = [pc EXCEPT ![w] = "taken"] /\ tasks' = Tail(tasks) /\ pc[w] = "get"
        /\ UNCHANGED <<isStopped, sub>> /\ \A v \in Worker : pc[v] # "falling"
    BY <1>4 DEF GetTask, PoolMutexFree
  <2>2. Len(tasks') = Len(tasks) - 1
    BY <1>1, <1>4, <2>1, HeadTailProperties
  <2>3. Awake' = Awake \ {w} /\ w \in Awake /\ Notifying' = Notifying
    BY <1>1, <2>1 DEF Awake, Notifying
  <2>4. Cardinality(Awake') = Cardinality(Awake) - 1
    BY <2>3, Finite, FS_RemoveElement
  <2>5. Enough => Enough'
    BY <1>1, <2>2, <2>3, <2>4, Finite DEF Enough
  <2>. QED  BY <1>1, <2>1, <2>5 DEF WakeupOK, Falling
<1>5. CASE \/ GetTask(w) /\ ~ isStopped /\ tasks = <<>>
           \/ FallAsleep(w)
  <2>1. tasks = <<>> /\ UNCHANGED tasks
    BY <1>5 DEF GetTask, FallAsleep, WakeupOK, Falling, pool
  <2>2. Len(tasks') = 0
    BY <2>1
  <2>. QED  BY <2>1, <2>2, Finite DEF WakeupOK, Falling, Enough
<1>6. CASE OnTaskComplete(w)
  <2>1. UNCHANGED <<tasks, isStopped, pc>>
    BY <1>6 DEF OnTaskComplete, pool
  <2>2. \A t \in Thread : sub[t].stage # "notify"
    BY <1>6 DEF OnTaskComplete, GroupMutexFree, Types, PlacesOK
  <2>. QED  BY <2>1, <2>2, WakeupStays
<1>. QED  BY <1>2, <1>3, <1>4, <1>5, <1>6 DEF WorkerStep

LEMMA WakeupInductive ==
  ASSUME Types, WakeupOK, [Next]_vars
  PROVE  WakeupOK'
<1>0. /\ sub \in [Thread -> [stage : Stages, task : Task \cup {NoTask}, urgent : BOOLEAN]]
      /\ pc \in [Worker -> Places]
  BY DEF Types, TypeOK
<1>1. CASE UNCHANGED vars \/ CancelAllTasks \/ DeregisterTaskGroup \/ StopPool \/ Join
  <2>1. UNCHANGED <<tasks, pc, sub>>
    BY <1>1 DEF vars, CancelAllTasks, DeregisterTaskGroup, StopPool, Join, group, pool, workers
  <2>2. CASE UNCHANGED vars \/ CancelAllTasks \/ DeregisterTaskGroup \/ Join
    <3>1. UNCHANGED isStopped
      BY <2>2 DEF vars, CancelAllTasks, DeregisterTaskGroup, Join, pool
    <3>. QED  BY <2>1, <3>1, WakeupStays
  <2>3. CASE StopPool
    <3>1. isStopped'
      BY <2>3 DEF StopPool
    <3>. QED  BY <2>1, <3>1, WakeupStays
  <2>. QED  BY <1>1, <2>2, <2>3
<1>2. ASSUME NEW t \in Thread, NEW task \in Task,
             SubmitTask(t, task) \/ \E urgent \in BOOLEAN : AddCommand(t, task, urgent)
      PROVE  WakeupOK'
  <2>1. UNCHANGED <<tasks, isStopped, pc>> /\ sub[t].stage = "idle"
    BY <1>2 DEF SubmitTask, AddCommand, MaySubmit, pool, workers
  <2>2. \A s \in Thread : s # t => sub'[s] = sub[s]
    BY <1>0, <1>2 DEF SubmitTask, AddCommand, Dispatch, Submitting
  <2>. QED  BY <2>1, <2>2, WakeupStays
<1>3. CASE NotifyAll
  <2>1. /\ UNCHANGED <<tasks, isStopped, sub>>
        /\ \A w \in Worker : pc'[w] # "asleep" /\ (pc'[w] = "falling" => pc[w] = "falling")
    BY <1>0, <1>3 DEF NotifyAll, pool
  <2>. QED  BY <2>1 DEF WakeupOK, Falling
<1>. QED  BY <1>1, <1>2, <1>3, SubmitWakeup, WorkerWakeup DEF Next, Destroyer

(***************************************************************************)
(* notify_one is called after the lock is released and may come when the   *)
(* task is long gone, or find nobody asleep: yet, for every number of      *)
(* workers and submitters, no worker sleeps beside a task that nobody is   *)
(* on the way to.                                                          *)
(***************************************************************************)
THEOREM NoWakeupLost == Spec => []NoLostWakeup
<1>1. Init => WakeupOK
  BY DEF Init, WakeupOK, Falling
<1>2. Spec => [](Types /\ WakeupOK)
  BY <1>1, InitTypes, TypesInductive, WakeupInductive, PTL DEF Spec
<1>3. WakeupOK => NoLostWakeup
  BY DEF WakeupOK, Enough, Awake, Notifying, NoLostWakeup
<1>. QED  BY <1>2, <1>3, PTL
-----------------------------------------------------------------------------
(***************************************************************************)
(* The place of each task.  The count of TaskIsSomewhere is replaced by    *)
(* sets: what is queued, pooled, carried and taken, each place holding a   *)
(* task once and no two of them the same one.                              *)
(***************************************************************************)
Once(q) == \A i, j \in DOMAIN q : q[i] = q[j] => i = j

Carried == {sub[s].task : s \in {s \in Thread : Carries(s)}}
Taken == {job[w] : w \in {w \in Worker : pc[w] = "taken"}}

PlacedOnce ==
  /\ Once(que) /\ Once(tasks)
  /\ \A s, t \in Thread : Carries(s) /\ Carries(t) /\ sub[s].task = sub[t].task => s = t
  /\ \A v, w \in Worker : pc[v] = "taken" /\ pc[w] = "taken" /\ job[v] = job[w] => v = w

PlacedApart ==
  /\ \A t \in ToSet(que) : t \notin ToSet(tasks) /\ t \notin Carried /\ t \notin Taken
  /\ \A t \in ToSet(tasks) : t \notin Carried /\ t \notin Taken
  /\ \A t \in Carried : t \notin Taken

\* Who waits is submitted, and who is submitted waits; a task that runs is past that.
PlacedAsSubmitted ==
  /\ \A t \in Task : status[t] = "submitted" <=> t \in ToSet(que) \cup ToSet(tasks) \cup Carried \cup Taken
  /\ \A w \in Worker : pc[w] = "taken" => job[w] \in Task
  /\ \A w \in Worker : pc[w] = "running" => job[w] \in Task /\ status[job[w]] \notin {"new", "submitted"}

PlacedOK == PlacedOnce /\ PlacedApart /\ PlacedAsSubmitted

LEMMA TailPlaces ==
  ASSUME NEW S, NEW q \in Seq(S), q # <<>>, Once(q)
  PROVE  Once(Tail(q)) /\ ToSet(Tail(q)) = ToSet(q) \ {Head(q)} /\ Head(q) \in ToSet(q)
<1>1. /\ Tail(q) \in Seq(S) /\ Len(q) \in Nat \ {0} /\ Len(Tail(q)) = Len(q) - 1
      /\ \A i \in 1 .. Len(Tail(q)) : Tail(q)[i] = q[i + 1]
      /\ Head(q) = q[1] /\ DOMAIN q = 1 .. Len(q) /\ DOMAIN Tail(q) = 1 .. Len(q) - 1
  BY HeadTailProperties
<1>2. Once(Tail(q))
  BY <1>1 DEF Once
<1>3. \A x : x \in ToSet(Tail(q)) <=> x \in ToSet(q) /\ x # Head(q)
  <2>1. ASSUME NEW x, x \in ToSet(Tail(q))
        PROVE  x \in ToSet(q) /\ x # Head(q)
    BY <1>1, <2>1 DEF ToSet, Once
  <2>2. ASSUME NEW x, x \in ToSet(q), x # Head(q)
        PROVE  x \in ToSet(Tail(q))
    <3>1. PICK i \in 1 .. Len(q) : x = q[i]
      BY <1>1, <2>2 DEF ToSet
    <3>2. i - 1 \in 1 .. Len(q) - 1 /\ Tail(q)[i - 1] = q[(i - 1) + 1] /\ (i - 1) + 1 = i
      BY <1>1, <2>2, <3>1
    <3>. QED  BY <1>1, <3>1, <3>2 DEF ToSet
  <2>. QED  BY <2>1, <2>2
<1>4. Head(q) \in ToSet(q)
  BY <1>1 DEF ToSet
<1>. QED  BY <1>2, <1>3, <1>4

LEMMA AddedPlaces ==
  ASSUME NEW S, NEW q \in Seq(S), NEW x \in S, Once(q), x \notin ToSet(q)
  PROVE  /\ Once(Append(q, x)) /\ ToSet(Append(q, x)) = ToSet(q) \cup {x}
         /\ Once(<<x>> \o q) /\ ToSet(<<x>> \o q) = ToSet(q) \cup {x}
         /\ Append(q, x) \in Seq(S)
         /\ \A y : y \in ToSet(Append(q, x)) <=> y \in ToSet(q) \/ y = x
<1>1. /\ Len(q) \in Nat /\ DOMAIN q = 1 .. Len(q)
      /\ \A i \in 1 .. Len(q) : q[i] \in ToSet(q) /\ q[i] # x
      /\ \A y \in ToSet(q) : \E i \in 1 .. Len(q) : y = q[i]
  BY DEF ToSet
<1>2. /\ DOMAIN Append(q, x) = 1 .. Len(q) + 1
      /\ Append(q, x)[Len(q) + 1] = x /\ \A i \in 1 .. Len(q) : Append(q, x)[i] = q[i]
  BY <1>1
<1>3. Once(Append(q, x))
  BY <1>1, <1>2 DEF Once
<1>4. ToSet(Append(q, x)) = ToSet(q) \cup {x}
  <2>1. \A y \in ToSet(Append(q, x)) : y \in ToSet(q) \cup {x}
    BY <1>1, <1>2 DEF ToSet
  <2>2. ASSUME NEW y, y \in ToSet(q)
        PROVE  y \in ToSet(Append(q, x))
    <3>1. PICK i \in 1 .. Len(q) : y = q[i]
      BY <1>1, <2>2
    <3>2. i \in DOMAIN Append(q, x) /\ Append(q, x)[i] = y
      BY <1>1, <1>2, <3>1
    <3>. QED  BY <3>2 DEF ToSet
  <2>3. x \in ToSet(Append(q, x))
    <3>1. Len(q) + 1 \in DOMAIN Append(q, x) /\ Append(q, x)[Len(q) + 1] = x
      BY <1>1, <1>2
    <3>. QED  BY <3>1 DEF ToSet
  <2>. QED  BY <2>1, <2>2, <2>3
<1>. DEFINE f == <<x>> \o q
<1>5. /\ f \in Seq(S) /\ Len(f) = Len(q) + 1 /\ DOMAIN f = 1 .. Len(q) + 1
      /\ f[1] = x /\ \A i \in 2 .. Len(q) + 1 : f[i] = q[i - 1]
  <2>1. <<x>> \in Seq(S) /\ Len(<<x>>) = 1 /\ <<x>>[1] = x
    OBVIOUS
  <2>. QED  BY <1>1, <2>1, ConcatProperties
<1>. HIDE DEF f
<1>6. Once(f)
  <2>1. ASSUME NEW i \in 2 .. Len(q) + 1
        PROVE  f[i] = q[i - 1] /\ f[i] # x /\ i - 1 \in 1 .. Len(q)
    <3>1. i - 1 \in 1 .. Len(q)
      BY <1>1
    <3>. QED  BY <1>1, <1>5, <3>1
  <2>2. ASSUME NEW i \in 2 .. Len(q) + 1, NEW j \in 2 .. Len(q) + 1, f[i] = f[j]
        PROVE  i = j
    <3>1. i - 1 = j - 1
      BY <1>1, <2>1, <2>2 DEF Once
    <3>. QED  BY <1>1, <3>1
  <2>3. DOMAIN f = {1} \cup 2 .. Len(q) + 1
    BY <1>1, <1>5
  <2>. QED  BY <1>5, <2>1, <2>2, <2>3 DEF Once
<1>7. ToSet(f) = ToSet(q) \cup {x}
  <2>1. ASSUME NEW y \in ToSet(f)
        PROVE  y \in ToSet(q) \cup {x}
    <3>1. PICK i \in DOMAIN f : y = f[i]
      BY DEF ToSet
    <3>2. CASE i = 1
      BY <1>5, <3>1, <3>2
    <3>3. CASE i # 1
      <4>1. i \in 2 .. Len(q) + 1 /\ i - 1 \in 1 .. Len(q)
        BY <1>1, <1>5, <3>1, <3>3
      <4>. QED  BY <1>1, <1>5, <3>1, <4>1
    <3>. QED  BY <3>2, <3>3
  <2>2. ASSUME NEW i \in 1 .. Len(q)
        PROVE  i + 1 \in DOMAIN f /\ f[i + 1] = q[i]
    <3>1. i + 1 \in 2 .. Len(q) + 1 /\ i + 1 \in 1 .. Len(q) + 1 /\ (i + 1) - 1 = i
      BY <1>1
    <3>. QED  BY <1>5, <3>1
  <2>3. x \in ToSet(f)
    BY <1>1, <1>5 DEF ToSet
  <2>4. \A y \in ToSet(q) : y \in ToSet(f)
    BY <1>1, <2>2 DEF ToSet
  <2>. QED  BY <2>1, <2>3, <2>4
<1>. QED  BY <1>3, <1>4, <1>6, <1>7 DEF f

LEMMA NothingPlaced == Once(<<>>) /\ ToSet(<<>>) = {}
BY DEF Once, ToSet

\* Nothing that counts changes.
LEMMA PlacesStay ==
  ASSUME Types, PlacedOK, UNCHANGED <<que, tasks, status>>,
         \A s \in Thread : Carries(s)' <=> Carries(s),
         \A s \in Thread : Carries(s) => sub'[s].task = sub[s].task,
         \A w \in Worker : /\ pc'[w] = "taken" <=> pc[w] = "taken"
                           /\ pc'[w] = "running" => pc[w] = "running"
                           /\ pc[w] \in {"taken", "running"} => job'[w] = job[w]
  PROVE  PlacedOK'
<1>1. Carried' = Carried
  BY DEF Carried
<1>2. Taken' = Taken
  BY DEF Taken
<1>3. PlacedOnce'
  BY DEF PlacedOK, PlacedOnce
<1>4. PlacedApart'
  BY <1>1, <1>2 DEF PlacedOK, PlacedApart
<1>5. PlacedAsSubmitted'
  BY <1>1, <1>2 DEF PlacedOK, PlacedAsSubmitted
<1>. QED  BY <1>3, <1>4, <1>5 DEF PlacedOK

\* What a group that is cancelled or destroyed queued is dropped.
LEMMA DropPlaces ==
  ASSUME Types, PlacedOK, que' = <<>>, UNCHANGED tasks,
         status' = [t \in Task |-> IF t \in ToSet(que) THEN "dropped" ELSE status[t]],
         UNCHANGED <<sub, job>>,
         \A w \in Worker : /\ pc'[w] = "taken" <=> pc[w] = "taken"
                           /\ pc'[w] = "running" => pc[w] = "running"
  PROVE  PlacedOK'
<1>1. Carried' = Carried /\ Taken' = Taken
  BY DEF Carried, Taken, Carries
<1>2. PlacedOnce'
  BY NothingPlaced DEF PlacedOK, PlacedOnce, Carries
<1>3. PlacedApart'
  BY <1>1, NothingPlaced DEF PlacedOK, PlacedApart
<1>4. PlacedAsSubmitted'
  <2>1. \A t \in Task : status'[t] = "submitted" <=> t \in ToSet(tasks) \cup Carried \cup Taken
    BY DEF PlacedOK, PlacedApart, PlacedAsSubmitted
  <2>2. \A t \in Task : status[t] \notin {"new", "submitted"} => status'[t] \notin {"new", "submitted"}
    OBVIOUS
  <2>. QED  BY <1>1, <2>1, <2>2, NothingPlaced DEF PlacedOK, PlacedAsSubmitted
<1>. QED  BY <1>2, <1>3, <1>4 DEF PlacedOK

\* A dispatch moves the head of the queue into the hands of the thread.
LEMMA DispatchPlaces ==
  ASSUME Types, PlacedOK, NEW t \in Thread, NEW q \in Seq(Task), NEW busy \in BOOLEAN,
         Dispatch(t, q, busy), sub[t].stage = "idle", UNCHANGED <<tasks, pc>>,
         \A w \in Worker : pc[w] \in {"taken", "running"} => job'[w] = job[w],
         Once(q), \A x \in ToSet(q) : x \notin ToSet(tasks) /\ x \notin Carried /\ x \notin Taken,
         \A x \in Task : status'[x] = "submitted" <=> x \in ToSet(q) \cup ToSet(tasks) \cup Carried \cup Taken,
         \A x \in Task : status[x] \notin {"new", "submitted"} => status'[x] \notin {"new", "submitted"}
  PROVE  PlacedOK'
<1>0. sub \in [Thread -> [stage : Stages, task : Task \cup {NoTask}, urgent : BOOLEAN]] /\ ~ Carries(t)
  BY DEF Types, TypeOK, Carries
<1>1. Taken' = Taken
  BY DEF Taken
<1>2. CASE que' = q /\ sub' = [sub EXCEPT ![t] = Idle]
  <2>1. \A s \in Thread : (Carries(s)' <=> Carries(s)) /\ (Carries(s) => sub'[s] = sub[s])
    BY <1>0, <1>2, IdleType DEF Carries
  <2>2. Carried' = Carried
    BY <2>1 DEF Carried
  <2>3. PlacedOnce'
    BY <1>2, <2>1 DEF PlacedOK, PlacedOnce
  <2>4. PlacedApart'
    BY <1>1, <1>2, <2>2 DEF PlacedOK, PlacedApart
  <2>5. PlacedAsSubmitted'
    BY <1>1, <1>2, <2>2 DEF PlacedOK, PlacedAsSubmitted
  <2>. QED  BY <2>3, <2>4, <2>5 DEF PlacedOK
<1>3. CASE q # <<>> /\ que' = Tail(q) /\ Submitting(t, Head(q), FALSE)
  <2>1. Once(Tail(q)) /\ ToSet(que') = ToSet(q) \ {Head(q)} /\ Head(q) \in ToSet(q)
    BY <1>3, TailPlaces
  <2>2. /\ sub'[t].task = Head(q) /\ Carries(t)'
        /\ \A s \in Thread \ {t} : sub'[s] = sub[s] /\ (Carries(s)' <=> Carries(s))
    BY <1>0, <1>3 DEF Submitting, Carries
  <2>3. Carried' = Carried \cup {Head(q)}
    BY <1>0, <2>2 DEF Carried
  <2>4. PlacedOnce'
    <3>1. \A s \in Thread \ {t} : Carries(s)' => sub'[s].task # Head(q)
      BY <2>1, <2>2 DEF Carried
    <3>. QED  BY <1>3, <2>1, <2>2, <3>1 DEF PlacedOK, PlacedOnce
  <2>5. PlacedApart'
    BY <1>1, <2>1, <2>3 DEF PlacedOK, PlacedApart
  <2>6. PlacedAsSubmitted'
    BY <1>1, <2>1, <2>3 DEF PlacedOK, PlacedAsSubmitted
  <2>. QED  BY <2>4, <2>5, <2>6 DEF PlacedOK
<1>. QED  BY <1>2, <1>3 DEF Dispatch

LEMMA RequestPlaces ==
  ASSUME Types, PlacedOK, NEW t \in Thread, NEW task \in Task,
         SubmitTask(t, task) \/ \E urgent \in BOOLEAN : AddCommand(t, task, urgent)
  PROVE  PlacedOK'
<1>0. /\ sub \in [Thread -> [stage : Stages, task : Task \cup {NoTask}, urgent : BOOLEAN]]
      /\ que \in Seq(Task) /\ inflight \in BOOLEAN
      /\ status \in [Task -> {"new", "submitted", "started", "ended", "dropped"}]
  BY DEF Types, TypeOK
<1>1. /\ status[task] = "new" /\ status' = [status EXCEPT ![task] = "submitted"]
      /\ sub[t].stage = "idle" /\ UNCHANGED <<tasks, pc, job>>
  BY DEF SubmitTask, AddCommand, MaySubmit, pool, workers
<1>2. task \notin ToSet(que) /\ task \notin ToSet(tasks) /\ task \notin Carried /\ task \notin Taken
  BY <1>1 DEF PlacedOK, PlacedAsSubmitted
<1>3. CASE SubmitTask(t, task)
  <2>. DEFINE q == Append(que, task)
  <2>0. que \in Seq(Task) /\ task \in Task /\ task \notin ToSet(que) /\ Once(que)
    BY <1>0, <1>2 DEF PlacedOK, PlacedOnce
  <2>1. Once(q) /\ ToSet(q) = ToSet(que) \cup {task} /\ q \in Seq(Task)
    <3>1. /\ Once(Append(que, task)) /\ ToSet(Append(que, task)) = ToSet(que) \cup {task}
          /\ Append(que, task) \in Seq(Task)
      BY <2>0, AddedPlaces
    <3>. QED  BY <3>1, Zenon
  <2>2. Dispatch(t, q, inflight)
    BY <1>3 DEF SubmitTask
  <2>. HIDE DEF q
  <2>3. \A x \in ToSet(q) : x \notin ToSet(tasks) /\ x \notin Carried /\ x \notin Taken
    BY <1>2, <2>1 DEF PlacedOK, PlacedApart
  <2>4. \A x \in Task : status'[x] = "submitted" <=> x \in ToSet(q) \cup ToSet(tasks) \cup Carried \cup Taken
    BY <1>0, <1>1, <2>1 DEF PlacedOK, PlacedAsSubmitted
  <2>5. \A x \in Task : status[x] \notin {"new", "submitted"} => status'[x] \notin {"new", "submitted"}
    BY <1>0, <1>1
  <2>. QED  BY <1>0, <1>1, <2>1, <2>2, <2>3, <2>4, <2>5, DispatchPlaces
<1>4. ASSUME NEW urgent \in BOOLEAN, AddCommand(t, task, urgent)
      PROVE  PlacedOK'
  <2>1. UNCHANGED que /\ Submitting(t, task, urgent)
    BY <1>4 DEF AddCommand, group
  <2>2. /\ sub'[t].task = task /\ Carries(t)' /\ ~ Carries(t)
        /\ \A s \in Thread \ {t} : sub'[s] = sub[s] /\ (Carries(s)' <=> Carries(s))
    BY <1>0, <1>1, <2>1 DEF Submitting, Carries
  <2>3. Carried' = Carried \cup {task} /\ Taken' = Taken
    BY <1>1, <2>2 DEF Carried, Taken
  <2>4. PlacedOnce'
    <3>1. \A s \in Thread \ {t} : Carries(s)' => sub'[s].task # task
      BY <1>2, <2>2 DEF Carried
    <3>. QED  BY <1>1, <2>1, <2>2, <3>1 DEF PlacedOK, PlacedOnce
  <2>5. PlacedApart'
    BY <1>1, <1>2, <2>1, <2>3 DEF PlacedOK, PlacedApart
  <2>6. PlacedAsSubmitted'
    BY <1>0, <1>1, <2>1, <2>3 DEF PlacedOK, PlacedAsSubmitted
  <2>. QED  BY <2>4, <2>5, <2>6 DEF PlacedOK
<1>. QED  BY <1>3, <1>4

LEMMA SubmitPlaces ==
  ASSUME Types, PlacedOK, NEW t \in Thread, Submitter(t)
  PROVE  PlacedOK'
<1>0. /\ sub \in [Thread -> [stage : Stages, task : Task \cup {NoTask}, urgent : BOOLEAN]]
      /\ tasks \in Seq(Task) /\ pc \in [Worker -> Places]
      /\ status \in [Task -> {"new", "submitted", "started", "ended", "dropped"}]
  BY DEF Types, TypeOK
<1>1. Carries(t) => sub[t].task \in Task /\ sub[t].task \in Carried
  BY DEF Types, SubsOK, Carries, Carried
<1>2. CASE SubmitCheck(t) /\ ~ isStopped
  <2>1. UNCHANGED <<que, tasks, status, pc, job>>
    BY <1>2 DEF SubmitCheck, group, pool, workers
  <2>2. \A s \in Thread : (Carries(s)' <=> Carries(s)) /\ (Carries(s) => sub'[s].task = sub[s].task)
    BY <1>0, <1>2 DEF SubmitCheck, Carries
  <2>. QED  BY <2>1, <2>2, PlacesStay
<1>3. CASE (SubmitCheck(t) /\ isStopped) \/ SubmitPush(t)
  <2>1. /\ Carries(t) /\ ~ Carries(t)' /\ UNCHANGED <<que, pc, job>>
        /\ \A s \in Thread \ {t} : sub'[s] = sub[s] /\ (Carries(s)' <=> Carries(s))
    BY <1>0, <1>3, IdleType DEF SubmitCheck, SubmitPush, Carries, Stages, group, pool, workers
  <2>2. Carried' = Carried \ {sub[t].task} /\ Taken' = Taken
    <3>1. \A s \in Thread \ {t} : Carries(s) => sub[s].task # sub[t].task
      BY <2>1 DEF PlacedOK, PlacedOnce
    <3>. QED  BY <2>1, <3>1 DEF Carried, Taken
  <2>3. CASE SubmitCheck(t) /\ isStopped
    <3>1. status' = [status EXCEPT ![sub[t].task] = "dropped"] /\ UNCHANGED tasks
      BY <2>3 DEF SubmitCheck, pool
    <3>2. PlacedOnce'
      BY <2>1, <3>1 DEF PlacedOK, PlacedOnce
    <3>3. PlacedApart'
      BY <2>1, <2>2, <3>1 DEF PlacedOK, PlacedApart
    <3>4. PlacedAsSubmitted'
      BY <1>0, <1>1, <2>1, <2>2, <3>1 DEF PlacedOK, PlacedApart, PlacedAsSubmitted
    <3>. QED  BY <3>2, <3>3, <3>4 DEF PlacedOK
  <2>4. CASE SubmitPush(t)
    <3>1. UNCHANGED status
      BY <2>4 DEF SubmitPush
    <3>2. sub[t].task \notin ToSet(tasks)
      BY <1>1, <2>1 DEF PlacedOK, PlacedApart
    <3>3. Once(tasks') /\ ToSet(tasks') = ToSet(tasks) \cup {sub[t].task}
      BY <1>0, <1>1, <2>1, <2>4, <3>2, AddedPlaces DEF SubmitPush, PlacedOK, PlacedOnce
    <3>4. PlacedOnce'
      BY <2>1, <3>3 DEF PlacedOK, PlacedOnce
    <3>5. PlacedApart'
      BY <1>1, <2>1, <2>2, <3>3 DEF PlacedOK, PlacedApart
    <3>6. PlacedAsSubmitted'
      BY <1>1, <2>1, <2>2, <3>1, <3>3 DEF PlacedOK, PlacedAsSubmitted
    <3>. QED  BY <3>4, <3>5, <3>6 DEF PlacedOK
  <2>. QED  BY <1>3, <2>3, <2>4
<1>4. CASE SubmitNotify(t)
  <2>1. UNCHANGED <<que, tasks, status, job>>
    BY <1>4 DEF SubmitNotify, group, pool
  <2>2. \A s \in Thread : (Carries(s)' <=> Carries(s)) /\ (Carries(s) => sub'[s].task = sub[s].task)
    BY <1>0, <1>4, IdleType DEF SubmitNotify, Carries
  <2>3. \A w \in Worker : pc'[w] = pc[w] \/ (pc[w] = "asleep" /\ pc'[w] = "get")
    BY <1>0, <1>4 DEF SubmitNotify
  <2>4. \A w \in Worker : /\ pc'[w] = "taken" <=> pc[w] = "taken"
                          /\ pc'[w] = "running" => pc[w] = "running"
                          /\ pc[w] \in {"taken", "running"} => job'[w] = job[w]
    BY <2>1, <2>3
  <2>. QED  BY <2>1, <2>2, <2>4, PlacesStay
<1>. QED  BY <1>2, <1>3, <1>4 DEF Submitter

LEMMA WorkerPlaces ==
  ASSUME Types, PlacedOK, NEW w \in Worker, WorkerStep(w) \/ WakeSpuriously(w)
  PROVE  PlacedOK'
<1>0. /\ sub \in [Thread -> [stage : Stages, task : Task \cup {NoTask}, urgent : BOOLEAN]]
      /\ tasks \in Seq(Task) /\ que \in Seq(Task) /\ pc \in [Worker -> Places]
      /\ job \in [Worker -> Task \cup {NoTask}]
      /\ status \in [Task -> {"new", "submitted", "started", "ended", "dropped"}]
  BY DEF Types, TypeOK
<1>1. CASE \/ Loop(w) \/ FallAsleep(w) \/ WakeSpuriously(w)
           \/ GetTask(w) /\ UNCHANGED <<tasks, job>> /\ pc'[w] # "taken"
  <2>1. UNCHANGED <<que, tasks, status, sub, job>>
    BY <1>1 DEF Loop, FallAsleep, WakeSpuriously, GetTask, group, pool
  <2>2. \A v \in Worker : /\ pc'[v] = "taken" <=> pc[v] = "taken"
                          /\ pc'[v] = "running" => pc[v] = "running"
    BY <1>0, <1>1 DEF Loop, FallAsleep, WakeSpuriously, GetTask
  <2>. QED  BY <2>1, <2>2, PlacesStay DEF Carries
<1>2. CASE /\ GetTask(w) /\ tasks # <<>> /\ tasks' = Tail(tasks)
           /\ job' = [job EXCEPT ![w] = Head(tasks)] /\ pc' = [pc EXCEPT ![w] = "taken"]
  <2>1. UNCHANGED <<que, status, sub>> /\ pc[w] = "get"
    BY <1>2 DEF GetTask, group
  <2>2. /\ Once(tasks') /\ ToSet(tasks') = ToSet(tasks) \ {Head(tasks)}
        /\ Head(tasks) \in ToSet(tasks) /\ Head(tasks) \in Task
    BY <1>0, <1>2, TailPlaces, HeadTailProperties DEF PlacedOK, PlacedOnce
  <2>3. /\ pc'[w] = "taken" /\ job'[w] = Head(tasks)
        /\ \A v \in Worker \ {w} : pc'[v] = pc[v] /\ job'[v] = job[v]
    BY <1>0, <1>2
  <2>4. Taken' = Taken \cup {Head(tasks)} /\ Carried' = Carried
    BY <2>1, <2>3 DEF Taken, Carried, Carries
  <2>5. PlacedOnce'
    <3>1. \A v \in Worker \ {w} : pc[v] = "taken" => job[v] # Head(tasks)
      BY <2>2 DEF Taken, PlacedOK, PlacedApart
    <3>. QED  BY <2>1, <2>2, <2>3, <3>1 DEF PlacedOK, PlacedOnce, Carries
  <2>6. PlacedApart'
    BY <2>1, <2>2, <2>4 DEF PlacedOK, PlacedApart
  <2>7. PlacedAsSubmitted'
    BY <2>1, <2>2, <2>3, <2>4 DEF PlacedOK, PlacedAsSubmitted
  <2>. QED  BY <2>5, <2>6, <2>7 DEF PlacedOK
<1>3. CASE StartTask(w)
  <2>1. /\ pc[w] = "taken" /\ pc'[w] # "taken" /\ job[w] \in Task /\ job[w] \in Taken
        /\ UNCHANGED <<que, tasks, sub>>
        /\ \A v \in Worker \ {w} : pc'[v] = pc[v] /\ job'[v] = job[v]
    BY <1>0, <1>3 DEF StartTask, Taken, PlacedOK, PlacedAsSubmitted, group, pool
  <2>2. Taken' = Taken \ {job[w]} /\ Carried' = Carried
    <3>1. \A v \in Worker \ {w} : pc[v] = "taken" => job[v] # job[w]
      BY <2>1 DEF PlacedOK, PlacedOnce
    <3>. QED  BY <2>1, <3>1 DEF Taken, Carried, Carries
  <2>3. /\ \A t \in Task \ {job[w]} : status'[t] = status[t]
        /\ status'[job[w]] \notin {"new", "submitted"}
        /\ pc'[w] = "running" => job'[w] = job[w]
    BY <1>0, <1>3, <2>1 DEF StartTask
  <2>4. PlacedOnce'
    BY <2>1 DEF PlacedOK, PlacedOnce, Carries
  <2>5. PlacedApart'
    BY <2>1, <2>2 DEF PlacedOK, PlacedApart
  <2>6. PlacedAsSubmitted'
    <3>1. \A t \in Task : status'[t] = "submitted" <=> t \in ToSet(que) \cup ToSet(tasks) \cup Carried \cup Taken'
      BY <2>1, <2>2, <2>3 DEF PlacedOK, PlacedApart, PlacedAsSubmitted
    <3>2. \A v \in Worker : pc'[v] = "taken" => job'[v] \in Task
      BY <2>1 DEF PlacedOK, PlacedAsSubmitted
    <3>3. \A v \in Worker : pc'[v] = "running" => job'[v] \in Task /\ status'[job'[v]] \notin {"new", "submitted"}
      BY <2>1, <2>3 DEF PlacedOK, PlacedAsSubmitted
    <3>. QED  BY <2>1, <2>2, <3>1, <3>2, <3>3 DEF PlacedAsSubmitted
  <2>. QED  BY <2>4, <2>5, <2>6 DEF PlacedOK
<1>4. CASE EndTask(w)
  <2>1. /\ pc[w] = "running" /\ pc'[w] \notin {"taken", "running"}
        /\ UNCHANGED <<que, tasks, sub>>
        /\ \A v \in Worker \ {w} : pc'[v] = pc[v] /\ job'[v] = job[v]
    BY <1>0, <1>4 DEF EndTask, group, pool
  <2>2. Taken' = Taken /\ Carried' = Carried
    BY <2>1 DEF Taken, Carried, Carries
  <2>3. /\ job[w] \in Task /\ status[job[w]] \notin {"new", "submitted"}
        /\ status' = [status EXCEPT ![job[w]] = "ended"]
    BY <1>4, <2>1 DEF EndTask, PlacedOK, PlacedAsSubmitted
  <2>4. PlacedOnce'
    BY <2>1 DEF PlacedOK, PlacedOnce, Carries
  <2>5. PlacedApart'
    BY <2>1, <2>2 DEF PlacedOK, PlacedApart
  <2>6. PlacedAsSubmitted'
    BY <1>0, <2>1, <2>2, <2>3 DEF PlacedOK, PlacedAsSubmitted
  <2>. QED  BY <2>4, <2>5, <2>6 DEF PlacedOK
<1>5. CASE OnTaskComplete(w)
  <2>1. /\ Dispatch(w, que, inflight /\ use # "serial") /\ UNCHANGED <<tasks, pc, status>>
        /\ pc[w] = "completing" /\ job' = [job EXCEPT ![w] = NoTask]
        /\ w \in Thread /\ (inflight /\ use # "serial") \in BOOLEAN
    BY <1>5 DEF OnTaskComplete, Thread, pool
  <2>2. sub[w].stage = "idle"
    BY <1>5, <2>1 DEF OnTaskComplete, GroupMutexFree, Types, PlacesOK
  <2>3. \A v \in Worker : pc[v] \in {"taken", "running"} => job'[v] = job[v]
    BY <1>0, <2>1
  <2>. QED  BY <1>0, <2>1, <2>2, <2>3, DispatchPlaces DEF PlacedOK, PlacedOnce, PlacedApart, PlacedAsSubmitted
<1>6. CASE ReleaseGroup(w)
  <2>1. /\ UNCHANGED <<tasks, sub, job>>
        /\ \A v \in Worker : /\ pc'[v] = "taken" <=> pc[v] = "taken"
                             /\ pc'[v] = "running" => pc[v] = "running"
    BY <1>0, <1>6 DEF ReleaseGroup, pool
  <2>2. GroupLetGo(registered \/ \E v \in Worker \ {w} : Holds(v))
    BY <1>6 DEF ReleaseGroup
  <2>3. \/ que' = que /\ status' = status
        \/ que' = <<>> /\ status' = [t \in Task |-> IF t \in ToSet(que) THEN "dropped" ELSE status[t]]
    BY <1>0, <2>2 DEF GroupLetGo
  <2>. QED  BY <2>1, <2>3, PlacesStay, DropPlaces DEF Carries
<1>7. GetTask(w) =>
        \/ UNCHANGED <<tasks, job>> /\ pc'[w] # "taken"
        \/ /\ tasks # <<>> /\ tasks' = Tail(tasks)
           /\ job' = [job EXCEPT ![w] = Head(tasks)] /\ pc' = [pc EXCEPT ![w] = "taken"]
  BY <1>0 DEF GetTask
<1>. QED  BY <1>1, <1>2, <1>3, <1>4, <1>5, <1>6, <1>7 DEF WorkerStep

LEMMA PlacedInductive ==
  ASSUME Types, PlacedOK, [Next]_vars
  PROVE  PlacedOK'
<1>0. status \in [Task -> {"new", "submitted", "started", "ended", "dropped"}] /\ pc \in [Worker -> Places]
  BY DEF Types, TypeOK
<1>1. CASE UNCHANGED vars \/ StopPool \/ Join \/ NotifyAll
  <2>1. UNCHANGED <<que, tasks, status, sub, job>>
    BY <1>1 DEF vars, StopPool, Join, NotifyAll, group, pool, workers
  <2>2. \A v \in Worker : /\ pc'[v] = "taken" <=> pc[v] = "taken"
                          /\ pc'[v] = "running" => pc[v] = "running"
    BY <1>0, <1>1 DEF vars, StopPool, Join, NotifyAll, workers
  <2>. QED  BY <2>1, <2>2, PlacesStay DEF Carries
<1>2. CASE CancelAllTasks
  BY <1>2, DropPlaces DEF CancelAllTasks, pool, workers
<1>3. CASE DeregisterTaskGroup
  <2>1. UNCHANGED <<tasks, sub, job, pc>>
    BY <1>3 DEF DeregisterTaskGroup, pool, workers
  <2>2. \/ que' = que /\ status' = status
        \/ que' = <<>> /\ status' = [t \in Task |-> IF t \in ToSet(que) THEN "dropped" ELSE status[t]]
    <3>1. PICK live : GroupLetGo(live)
      BY <1>3 DEF DeregisterTaskGroup
    <3>. QED  BY <1>0, <3>1 DEF GroupLetGo
  <2>. QED  BY <2>1, <2>2, PlacesStay, DropPlaces DEF Carries
<1>. QED  BY <1>1, <1>2, <1>3, RequestPlaces, SubmitPlaces, WorkerPlaces DEF Next, Destroyer

\* The count of the places is one or none, as there are one or none.
LEMMA OnePlace ==
  ASSUME Types, PlacedOK
  PROVE  TaskIsSomewhere
<1>. SUFFICES ASSUME NEW t \in Task
              PROVE  LET places == {<<"que", i>> : i \in {i \in DOMAIN que : que[i] = t}}
                           \cup {<<"tasks", i>> : i \in {i \in DOMAIN tasks : tasks[i] = t}}
                           \cup {<<"sub", s>> : s \in {s \in Thread : /\ sub[s].task = t
                                                                     /\ sub[s].stage # "notify"}}
                           \cup {<<"job", w>> : w \in {w \in Worker : pc[w] = "taken" /\ job[w] = t}}
                     IN Cardinality(places) = IF status[t] = "submitted" THEN 1 ELSE 0
  BY DEF TaskIsSomewhere
<1>. DEFINE Q == {<<"que", i>> : i \in {i \in DOMAIN que : que[i] = t}}
            P == {<<"tasks", i>> : i \in {i \in DOMAIN tasks : tasks[i] = t}}
            S == {<<"sub", s>> : s \in {s \in Thread : sub[s].task = t /\ sub[s].stage # "notify"}}
            J == {<<"job", w>> : w \in {w \in Worker : pc[w] = "taken" /\ job[w] = t}}
            places == Q \cup P \cup S \cup J
<1>1. \A s \in Thread : sub[s].task = t /\ sub[s].stage # "notify" <=> sub[s].task = t /\ Carries(s)
  BY ThreadsAssumption DEF Types, TypeOK, SubsOK, Stages, Carries
<1>2. /\ Q # {} <=> t \in ToSet(que)
      /\ P # {} <=> t \in ToSet(tasks)
      /\ S # {} <=> t \in Carried
      /\ J # {} <=> t \in Taken
  BY <1>1 DEF ToSet, Carried, Taken
<1>3. /\ \A x, y \in Q : x = y
      /\ \A x, y \in P : x = y
      /\ \A x, y \in S : x = y
      /\ \A x, y \in J : x = y
  BY <1>1 DEF PlacedOK, PlacedOnce, Once
<1>. HIDE DEF Q, P, S, J
<1>4. /\ Q = {} \/ (P = {} /\ S = {} /\ J = {})
      /\ P = {} \/ (S = {} /\ J = {})
      /\ S = {} \/ J = {}
  BY <1>2 DEF PlacedOK, PlacedApart
<1>5. \A x, y \in places : x = y
  BY <1>3, <1>4
<1>6. places # {} <=> status[t] = "submitted"
  BY <1>2 DEF PlacedOK, PlacedAsSubmitted
<1>. HIDE DEF places
<1>7. CASE places = {}
  BY <1>6, <1>7, FS_EmptySet DEF places, Q, P, S, J
<1>8. CASE places # {}
  <2>1. PICK x \in places : TRUE
    BY <1>8
  <2>2. places = {x}
    BY <1>5, <2>1
  <2>3. Cardinality(places) = 1
    BY <2>2, FS_Singleton
  <2>. QED  BY <1>6, <1>8, <2>3 DEF places, Q, P, S, J
<1>. QED  BY <1>7, <1>8

(***************************************************************************)
(* However many threads submit, cancel, take and destroy, a task that was  *)
(* submitted and has not started is in exactly one place: the group's      *)
(* queue, the pool's, a submitter's hands or a worker's.  So none is lost  *)
(* on its way and none can run twice.                                      *)
(***************************************************************************)
THEOREM NoTaskLost == Spec => []TaskIsSomewhere
<1>1. Init => PlacedOK
  <2>. SUFFICES ASSUME Init
                PROVE  PlacedOK
    OBVIOUS
  <2>1. /\ Carried = {} /\ Taken = {} /\ \A s \in Thread : ~ Carries(s)
        /\ \A w \in Worker : pc[w] = "loop"
        /\ \A t \in Task : status[t] # "submitted"
    BY IdleType DEF Init, Carried, Taken, Carries
  <2>. QED  BY <2>1, NothingPlaced DEF Init, PlacedOK, PlacedOnce, PlacedApart, PlacedAsSubmitted
<1>2. Spec => [](Types /\ PlacedOK)
  BY <1>1, InitTypes, TypesInductive, PlacedInductive, PTL DEF Spec
<1>. QED  BY <1>2, OnePlace, PTL
==============================================================================
