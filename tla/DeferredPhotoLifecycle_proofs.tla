-------------------- MODULE DeferredPhotoLifecycle_proofs --------------------
(***************************************************************************)
(* For every set of photos: the photo pipeline implements PhotoLifecycle;  *)
(* in the second part, its offline queue is complete and in order; in the  *)
(* third, what the client is owed while it keeps its callback.             *)
(*                                                                         *)
(* A handler is one step of PhotoLifecycle for its photo, in which the     *)
(* scheduler may start another; or it changes no photo (QuietStep).  Of    *)
(* the state m a handler works on only the states of the jobs and the      *)
(* results that are kept matter (Scheduled, CacheStays).  That no two      *)
(* photos run is the invariant of DeferredPhoto_proofs.                    *)
(***************************************************************************)
EXTENDS DeferredPhoto_proofs

-----------------------------------------------------------------------------
(***************************************************************************)
(* The state of a job, as the client sees it, and how it may change while  *)
(* the scheduler looks for work.                                           *)
(***************************************************************************)
Seen(s) ==
  CASE s = "NONE" -> "absent"
    [] s \in {"PENDING", "FAILED"} -> "waiting"
    [] s = "RUNNING" -> "running"
    [] s = "COMPLETED" -> "done"
    [] s = "ERROR" -> "given up"

SameStates(r, t) == \A j \in Image : t.job[j].state = r.job[j].state

Enters(r, t, i, s) ==
  t.job[i].state = s /\ \A j \in Image : j # i => t.job[j].state = r.job[j].state

Begins(s, t) == Seen(t) = Seen(s) \/ (Seen(s) = "waiting" /\ Seen(t) = "running")

Scheduled(r, t) == \A j \in Image : Begins(r.job[j].state, t.job[j].state)

LEMMA ChangeStateToStates ==
  ASSUME NEW r \in Draft, NEW i \in Image, NEW s \in JobState
  PROVE  Enters(r, ChangeStateTo(r, i, s), i, s)
<1>1. CASE r.job[i].state = s
  BY <1>1 DEF ChangeStateTo, Enters
<1>2. CASE r.job[i].state # s
  <2>. DEFINE jobs == [r.job EXCEPT ![i].state = s]
              now == IF s = "RUNNING" THEN r.running \cup {i} ELSE r.running \ {i}
              t == [r EXCEPT !.job = jobs, !.running = now]
  <2>1. jobs \in [Image -> DraftJob] /\ Enters(r, [job |-> jobs], i, s)
    BY DEF Draft, DraftJob, JobState, Enters
  <2>2. now \in SUBSET Image
    BY DEF Draft
  <2>3. [r EXCEPT !.job[i].state = s,
                  !.running = IF s = "RUNNING" THEN @ \cup {i} ELSE @ \ {i}] = t
    BY DEF Draft
  <2>4. t \in Draft /\ t.job = jobs
    <3>. HIDE DEF jobs, now
    <3>. QED  BY <2>1, <2>2 DEF Draft
  <2>5. ChangeStateTo(r, i, s) = UpdateJob(t, i)
    BY <1>2, <2>3 DEF ChangeStateTo
  <2>. HIDE DEF t
  <2>6. UpdateJob(t, i).job = jobs
    BY <2>4, UpdateJobType
  <2>. HIDE DEF jobs
  <2>. QED  BY <2>1, <2>5, <2>6 DEF Enters
<1>. QED  BY <1>1, <1>2

LEMMA ResetTimerStates ==
  ASSUME NEW r, RepoInv(r), NEW i \in Image
  PROVE  RepoInv(ResetTimer(r, i)) /\ SameStates(r, ResetTimer(r, i))
BY ResetTimerInv DEF SameStates

LEMMA SetJobPriorityStates ==
  ASSUME NEW r, RepoInv(r), NEW i \in Image, NEW p \in JobPriority
  PROVE  SameStates(r, SetJobPriority(r, i, p))
<1>1. r \in Draft /\ r.job \in [Image -> DraftJob]
  BY RepositoryIsDraft DEF RepoInv, Draft
<1>2. SetJobPriority(r, i, p).job = [r.job EXCEPT ![i].priority = p]
  BY <1>1, SetJobPriorityType
<1>. QED  BY <1>1, <1>2 DEF SameStates, DraftJob

\* What each operation of the repository makes of the jobs' states.
LEMMA JobStates ==
  ASSUME NEW r, RepoInv(r), NEW i \in Image, Present(r, i)
  PROVE  /\ Enters(r, Prepare(r, i), i, "PENDING")
         /\ Enters(r, Complete(r, i), i, "COMPLETED")
         /\ Enters(r, Fail(r, i), i, "FAILED")
         /\ Enters(r, SetError(r, i), i, "ERROR")
<1>. DEFINE timer == ResetTimer(r, i)
            normal == SetJobPriority(r, i, "NORMAL")
            reset == ResetTimer(normal, i)
<1>1. r \in Draft
  BY RepositoryIsDraft DEF RepoInv
<1>2. timer \in Draft /\ SameStates(r, timer)
  BY ResetTimerStates, RepositoryIsDraft DEF RepoInv
<1>3. RepoInv(normal) /\ SameStates(r, normal)
  BY SetJobPriorityInv, SetJobPriorityStates DEF JobPriority
<1>. HIDE DEF normal
<1>4. reset \in Draft /\ SameStates(normal, reset)
  BY <1>3, ResetTimerStates, RepositoryIsDraft DEF RepoInv
<1>. HIDE DEF timer, reset
<1>5. Enters(r, Prepare(r, i), i, "PENDING")
  BY <1>1, ChangeStateToStates DEF Prepare, JobState
<1>6. Enters(timer, ChangeStateTo(timer, i, "COMPLETED"), i, "COMPLETED")
  BY <1>2, ChangeStateToStates DEF JobState
<1>7. /\ Enters(reset, ChangeStateTo(reset, i, "FAILED"), i, "FAILED")
      /\ Enters(reset, ChangeStateTo(reset, i, "ERROR"), i, "ERROR")
  BY <1>4, ChangeStateToStates DEF JobState
<1>. QED  BY <1>2, <1>3, <1>4, <1>5, <1>6, <1>7
          DEF Complete, Fail, SetError, SameStates, Enters, timer, reset, normal

LEMMA StartStates ==
  ASSUME NEW r, RepoInv(r), NEW i \in Image
  PROVE  Enters(r, Start(r, i), i, "RUNNING")
<1>. DEFINE jobs == [r.job EXCEPT ![i].timer = TRUE]
            t == [r EXCEPT !.job = jobs]
<1>1. r \in Draft
  BY RepositoryIsDraft DEF RepoInv
<1>2. jobs \in [Image -> DraftJob] /\ [r EXCEPT !.job[i].timer = TRUE] = t
  BY <1>1 DEF Draft, DraftJob
<1>3. \A j \in Image : jobs[j].state = r.job[j].state
  BY <1>1 DEF Draft, DraftJob
<1>. HIDE DEF jobs
<1>4. t \in Draft /\ t.job = jobs
  BY <1>1, <1>2 DEF Draft
<1>. HIDE DEF t
<1>5. Enters(t, ChangeStateTo(t, i, "RUNNING"), i, "RUNNING")
  BY <1>4, ChangeStateToStates DEF JobState
<1>. QED  BY <1>2, <1>3, <1>4, <1>5 DEF Start, Enters

LEMMA AddDeferredJobStates ==
  ASSUME NEW r, RepoInv(r), NEW i \in Image
  PROVE  IF Present(r, i) THEN AddDeferredJob(r, i) = r
                          ELSE Enters(r, AddDeferredJob(r, i), i, "PENDING")
<1>. DEFINE new == [state |-> "NONE", priority |-> IF i \in Background THEN "HIGH" ELSE "NORMAL",
                    timer |-> FALSE]
            jobs == [r.job EXCEPT ![i] = new]
            t == [r EXCEPT !.job = jobs]
            created == UpdateTime(t, i)
<1>1. r \in Draft
  BY RepositoryIsDraft DEF RepoInv
<1>2. new \in DraftJob /\ [r EXCEPT !.job[i] = new] = t
  BY <1>1 DEF Draft, DraftJob, JobPriority
<1>3. \/ Present(r, i) /\ AddDeferredJob(r, i) = r
      \/ ~ Present(r, i) /\ AddDeferredJob(r, i) = Prepare(created, i)
      \/ ~ Present(r, i) /\ AddDeferredJob(r, i) = Prepare(PushJob(created, i), i)
  BY <1>2 DEF AddDeferredJob
<1>. HIDE DEF new
<1>4. t \in Draft /\ \A j \in Image : j # i => t.job[j] = r.job[j]
  BY <1>1, <1>2 DEF Draft
<1>. HIDE DEF t
<1>5. created \in Draft /\ created.job = t.job
  BY <1>4, UpdateTimeType
<1>. HIDE DEF created
<1>6. PushJob(created, i) \in Draft /\ PushJob(created, i).job = t.job
  BY <1>5, PushJobType
<1>7. /\ Enters(created, Prepare(created, i), i, "PENDING")
      /\ Enters(PushJob(created, i), Prepare(PushJob(created, i), i), i, "PENDING")
  BY <1>5, <1>6, ChangeStateToStates DEF Prepare, JobState
<1>. QED  BY <1>3, <1>4, <1>5, <1>6, <1>7 DEF Enters

LEMMA DeleteJobStates ==
  ASSUME NEW r, RepoInv(r), NEW i \in Image
  PROVE  Enters(r, DeleteJob(r, i), i, "NONE")
<1>. DEFINE taken == IF i \in Background THEN r ELSE RemoveJob(r, i)
            jobs == [taken.job EXCEPT ![i] = NoJob]
            b == Forget(r, i)
<1>1. r \in Draft /\ r.job \in [Image -> Job \cup {NoJob}]
  BY RepositoryIsDraft DEF RepoInv, Repository
<1>2. taken \in Draft /\ taken.job = r.job
  BY <1>1, RemoveJobType
<1>. HIDE DEF taken
<1>3. DeleteJob(r, i) = [taken EXCEPT !.job = jobs, !.running = taken.running \ {i}, !.before = b]
  BY <1>2 DEF DeleteJob, taken, Draft
<1>4. jobs[i].state = "NONE" /\ \A j \in Image : j # i => jobs[j] = r.job[j]
  BY <1>1, <1>2 DEF NoJob
<1>. HIDE DEF jobs, b
<1>5. DeleteJob(r, i).job = jobs
  BY <1>2, <1>3 DEF Draft
<1>. QED  BY <1>4, <1>5 DEF Enters

LEMMA LowerPriorityStates ==
  ASSUME NEW r, RepoInv(r), NEW i \in Image
  PROVE  SameStates(r, LowerPriority(r, i))
<1>. DEFINE lowered == SetJobPriority(r, i, "LOW")
<1>1. lowered \in Draft /\ SameStates(r, lowered)
  BY RepositoryIsDraft, SetJobPriorityType, SetJobPriorityStates DEF RepoInv, JobPriority
<1>. HIDE DEF lowered
<1>2. UpdateRoot(lowered).job = lowered.job /\ UpdateJob(lowered, i).job = lowered.job
  BY <1>1, UpdateRootType, UpdateJobType
<1>. QED  BY <1>1, <1>2 DEF LowerPriority, SameStates, lowered
-----------------------------------------------------------------------------
(***************************************************************************)
(* The abstract step, in the terms of the pipeline.                        *)
(***************************************************************************)
LEMMA SeenStatus ==
  /\ \A i \in Image : StatusOf(i) = Seen(repo.job[i].state)
  /\ (\A i \in Image : StatusOf(i) = Seen(repo.job[i].state))'
BY DEF StatusOf, Seen

Same(i) ==
  /\ Begins(repo.job[i].state, repo'.job[i].state)
  /\ answer'[i] = answer[i]
  /\ result'.cache[i] = result.cache[i]

LEMMA UntouchedPhoto ==
  ASSUME NEW i \in Image, Same(i)
  PROVE  Lifecycle!Untouched(i)
<1>1. /\ [j \in Image |-> StatusOf(j)][i] = Seen(repo.job[i].state)
      /\ [j \in Image |-> StatusOf(j)]'[i] = Seen(repo'.job[i].state)
  BY SeenStatus
<1>. QED  BY <1>1 DEF Same, Begins, Lifecycle!Untouched, Lifecycle!MayBegin, Lifecycle!Becomes

LEMMA AbstractTypes ==
  ASSUME IInv'
  PROVE  /\ [i \in Image |-> StatusOf(i)]' \in [Image -> Lifecycle!Status]
         /\ DOMAIN answer' = Image /\ DOMAIN result'.cache = Image
         /\ Lifecycle!OneAtATime
         /\ HasCallback' \in BOOLEAN
<1>1. RepoInv(repo')
  BY DEF IInv, ThreadInv, RepoInv, RunningIsState
<1>2. \A i \in Image : repo'.job[i].state \in JobState \cup {"NONE"}
  BY <1>1 DEF RepoInv, Repository, Job, NoJob
<1>3. [i \in Image |-> StatusOf(i)]' \in [Image -> Lifecycle!Status]
  <2>1. \A s \in JobState \cup {"NONE"} : Seen(s) \in Lifecycle!Status
    BY DEF JobState, Seen, Lifecycle!Status
  <2>. QED  BY <1>2, <2>1, SeenStatus
<1>4. Lifecycle!OneAtATime
  <2>1. \A s \in JobState \cup {"NONE"} : Seen(s) = "running" => s = "RUNNING"
    BY DEF JobState, Seen
  <2>2. \A i, j \in Lifecycle!Running' : i = j
    BY <1>1, <1>2, <2>1, SeenStatus DEF Lifecycle!Running, RepoInv, RunningIsState
  <2>3. Lifecycle!Running' \subseteq Image
    BY DEF Lifecycle!Running
  <2>4. CASE Lifecycle!Running' = {}
    BY <2>4 DEF Lifecycle!OneAtATime
  <2>5. CASE Lifecycle!Running' # {}
    <3>1. PICK i \in Lifecycle!Running' : TRUE
      BY <2>5
    <3>2. Lifecycle!Running' = {i} /\ i \in Image
      BY <2>2, <2>3, <3>1
    <3>. QED  BY <3>2 DEF Lifecycle!OneAtATime
  <2>. QED  BY <2>4, <2>5
<1>5. DOMAIN answer' = Image /\ DOMAIN result'.cache = Image
  BY DEF IInv, ThreadInv, OthersOK, Result
<1>6. HasCallback' \in BOOLEAN
  BY DEF HasCallback
<1>. QED  BY <1>3, <1>4, <1>5, <1>6

\* A step that does nothing to any photo, but may start one.
LEMMA QuietStep ==
  ASSUME IInv', \A j \in Image : Same(j)
  PROVE  Lifecycle!Next
<1>1. \A j \in Image : Lifecycle!Untouched(j)
  BY UntouchedPhoto
<1>. QED  BY <1>1, AbstractTypes DEF Lifecycle!Next

\* A step of photo i.
LEMMA PhotoStep ==
  ASSUME IInv', NEW i \in Image, Lifecycle!Photo(i), UNCHANGED client,
         \A j \in Image : j # i => Same(j)
  PROVE  Lifecycle!Next
<1>1. \A j \in Image \ {i} : Lifecycle!Untouched(j)
  BY UntouchedPhoto
<1>2. HasCallback' = HasCallback
  BY DEF HasCallback
<1>. QED  BY <1>1, <1>2, AbstractTypes DEF Lifecycle!Next
-----------------------------------------------------------------------------
(***************************************************************************)
(* Of the state m a handler works on: which results are kept, and what its *)
(* last call does to the jobs.                                             *)
(***************************************************************************)
LEMMA CacheStays ==
  ASSUME NEW m, MidInv(m), NEW i \in Image, NEW e, NEW c \in Seq(Command), NEW r
  PROVE  /\ [m EXCEPT !.result.high = @ \ {i}].result.cache = m.result.cache
         /\ [m EXCEPT !.result.high = @ \cup {i}].result.cache = m.result.cache
         /\ [m EXCEPT !.result.high = @ \cup {i}].repo = m.repo
         /\ [m EXCEPT !.result.timeouts = 0].result.cache = m.result.cache
         /\ [m EXCEPT !.result.crash[i] = 0].result.cache = m.result.cache
         /\ [m EXCEPT !.result.bp = i].result.cache = m.result.cache
         /\ [m EXCEPT !.result.bp = "Null"].result.cache = m.result.cache
         /\ CountError(m, i, e).result.cache = m.result.cache
         /\ Send(m, c).result.cache = m.result.cache
         /\ [m EXCEPT !.repo = r].result.cache = m.result.cache
         /\ StopTimer(m, i).result.cache = m.result.cache
BY DEF MidInv, MidState, Result, CountError, Send, StopTimer

LEMMA TakeResultCache ==
  ASSUME NEW m, MidInv(m), NEW i \in Image
  PROVE  TakeResult(m, i).result.cache = [m.result.cache EXCEPT ![i] = "none"]
BY DEF MidInv, MidState, Result, TakeResult

\* What is kept of photo i when a result comes.
Keep(i, what) == IF result.cache[i] = "none" THEN what ELSE result.cache[i]

LEMMA RecordResultCache ==
  ASSUME NEW m, MidInv(m), m.result.cache = result.cache, NEW i \in Image, NEW what
  PROVE  RecordResult(m, i, what).result.cache = [result.cache EXCEPT ![i] = Keep(i, what)]
<1>1. RecordResult(m, i, what).result.cache
        = [m.result.cache EXCEPT ![i] = IF m.result.cache[i] = "none" THEN what
                                        ELSE m.result.cache[i]]
  BY DEF MidInv, MidState, Result, RecordResult
<1>. QED  BY <1>1, Zenon DEF Keep

LEMMA CacheHdi ==
  ASSUME NEW m, MidInv(m), NEW i \in Image
  PROVE  /\ Interrupt(m).result = m.result
         /\ PostRemove(m, i).result = m.result
<1>1. m \in MidState /\ m.hal.session \in {"null", "dead", "live"}
  BY DEF MidInv, MidState, PostProcessor, SessionState
<1>. QED  BY <1>1 DEF Interrupt, PostRemove, MidState

\* A photo given to the HDI is one that waits.
LEMMA DoProcessStates ==
  ASSUME NEW m, MidInv(m), NEW i \in Image
  PROVE  LET n == DoProcess(m, i)
         IN  Enters(m.repo, n.repo, i, "RUNNING") /\ n.result.cache = m.result.cache
<1>. DEFINE r == Start(m.repo, i)
            high == m.result.high \ {i}
            n == [m EXCEPT !.repo = r, !.result.high = high]
            p == PostProcess(n, i)
<1>1. Enters(m.repo, r, i, "RUNNING")
  BY MidRepo, StartStates
<1>2. DoProcess(m, i) = p
  BY DEF DoProcess, MidInv, MidState, Result
<1>. HIDE DEF r, high
<1>3. /\ n.repo = r /\ n.result.cache = m.result.cache /\ n.hal = m.hal
      /\ n \in [repo : {r}, result : {n.result}, hal : PostProcessor, ive : Ive,
                strategy : Strategy, cmds : Seq(Command)]
  BY DEF MidInv, MidState, Result
<1>4. n.hal.session \in {"null", "dead", "live"}
  BY <1>3 DEF MidInv, MidState, PostProcessor, SessionState
<1>. HIDE DEF n
<1>5. p.repo = n.repo /\ p.result = n.result
  BY <1>3, <1>4 DEF PostProcess, Send
<1>. HIDE DEF p
<1>. QED  BY <1>1, <1>2, <1>3, <1>5

LEMMA TryDoScheduleStates ==
  ASSUME NEW m, MidInv(m), TryDoSchedule(m)
  PROVE  Scheduled(m.repo, repo') /\ result'.cache = m.result.cache
<1>1. CASE Become(m)
  BY <1>1 DEF Become, Scheduled, Begins
<1>2. CASE \E i \in Image : CanProcess(m, i) /\ Become(DoProcess(m, i))
  <2>1. PICK i \in Image : CanProcess(m, i) /\ Become(DoProcess(m, i))
    BY <1>2
  <2>. DEFINE n == DoProcess(m, i)
  <2>2. Enters(m.repo, n.repo, i, "RUNNING") /\ n.result.cache = m.result.cache
    BY DoProcessStates
  <2>3. repo' = n.repo /\ result' = n.result
    BY <2>1 DEF Become
  <2>. HIDE DEF n
  <2>4. Seen(m.repo.job[i].state) = "waiting" /\ Seen("RUNNING") = "running"
    BY <2>1 DEF CanProcess, IsActive, Seen
  <2>. QED  BY <2>2, <2>3, <2>4 DEF Enters, Scheduled, Begins
<1>. QED  BY <1>1, <1>2 DEF TryDoSchedule

LEMMA EventChangedStates ==
  ASSUME NEW m, MidInv(m), NEW e \in Event, EventChanged(m, e), EventsOK
  PROVE  Scheduled(m.repo, repo') /\ result'.cache = m.result.cache
<1>1. PICK left \in BOOLEAN :
        LET st == HandleEventChanged(m.strategy, e, events.needTrailing, left)
            changed == [m EXCEPT !.strategy = st]
        IN  Become(changed) \/ Become(Interrupt(changed)) \/ TryDoSchedule(changed)
  BY DEF EventChanged
<1>. DEFINE st == HandleEventChanged(m.strategy, e, events.needTrailing, left)
            changed == [m EXCEPT !.strategy = st]
<1>2. st \in Strategy
  BY HandleEventChangedType DEF EventsOK, MidInv, MidState
<1>. HIDE DEF st
<1>3. MidInv(changed) /\ changed.repo = m.repo /\ changed.result = m.result
  BY <1>2, NewStrategy DEF MidInv, MidState
<1>. HIDE DEF changed
<1>4. Interrupt(changed).repo = m.repo /\ Interrupt(changed).result = m.result
  BY <1>3, InterruptInv DEF Interrupt, MidInv, MidState
<1>5. CASE Become(changed) \/ Become(Interrupt(changed))
  BY <1>3, <1>4, <1>5 DEF Become, Scheduled, Begins
<1>6. CASE TryDoSchedule(changed)
  BY <1>3, <1>6, TryDoScheduleStates
<1>. QED  BY <1>1, <1>5, <1>6 DEF st, changed

LEMMA DeRecordResultStates ==
  ASSUME NEW m, MidInv(m), NEW i \in Image, DeRecordResult(m, i), EventsOK
  PROVE  /\ Scheduled(m.repo, repo')
         /\ result'.cache = [m.result.cache EXCEPT ![i] = "none"]
<1>. DEFINE taken == TakeResult(m, i)
            n == [taken EXCEPT !.result.bp = "Null"]
<1>1. /\ MidInv(taken) /\ taken.repo = m.repo
      /\ taken.result.cache = [m.result.cache EXCEPT ![i] = "none"]
  BY TakeResultInv, TakeResultCache
<1>. HIDE DEF taken
<1>2. MidInv(n) /\ n.repo = m.repo /\ n.result.cache = taken.result.cache
  BY <1>1, SetBpInv DEF MidInv, MidState, Result
<1>3. CacheEvent("NO_CACHE") \in Event
  BY DEF CacheEvent, Event, CacheStatus
<1>4. CASE EventChanged(n, CacheEvent("NO_CACHE"))
  <2>. HIDE DEF n
  <2>. QED  BY <1>1, <1>2, <1>3, <1>4, EventChangedStates
<1>5. CASE Become(taken)
  BY <1>1, <1>5 DEF Become, Scheduled, Begins
<1>. QED  BY <1>4, <1>5 DEF DeRecordResult, taken, n
-----------------------------------------------------------------------------
(***************************************************************************)
(* The handlers.                                                           *)
(***************************************************************************)
\* Photo i as the step finds it and leaves it.
LEMMA Becoming ==
  ASSUME IInv, NEW i \in Image
  PROVE  /\ [j \in Image |-> StatusOf(j)][i] = Seen(repo.job[i].state)
         /\ [j \in Image |-> StatusOf(j)]'[i] = Seen(repo'.job[i].state)
         /\ Present(repo, i) <=> Seen(repo.job[i].state) # "absent"
<1>1. repo.job[i].state \in JobState \cup {"NONE"}
  BY DEF IInv, ThreadInv, RepoInv, Repository, Job, NoJob
<1>2. Present(repo, i) <=> Seen(repo.job[i].state) # "absent"
  BY <1>1 DEF JobState, Seen, Present
<1>. QED  BY <1>2, SeenStatus

Leaves(i, s, told, kept) ==
  Seen(repo'.job[i].state) = s /\ answer'[i] = told /\ result'.cache[i] = kept

LEMMA PhotoActions ==
  ASSUME IInv, NEW i \in Image
  PROVE  /\ /\ ~ Present(repo, i) /\ (HasCallback => result.cache[i] = "none")
            /\ Leaves(i, "waiting", "none", "none")
            => Lifecycle!Added(i)
         /\ Leaves(i, "absent", "none", "none") => Lifecycle!Removed(i)
         /\ /\ Present(repo, i) /\ HasCallback
            /\ \/ Leaves(i, "done", "done", result.cache[i])
               \/ Leaves(i, "done", answer[i], Keep(i, "image"))
            => Lifecycle!Processed(i)
         /\ /\ Present(repo, i) /\ HasCallback
            /\ \E t \in {answer[i], "error"} : Leaves(i, "waiting", t, result.cache[i])
            => Lifecycle!Retried(i)
         /\ Present(repo, i) /\ HasCallback /\ Leaves(i, "given up", "error", result.cache[i])
            => Lifecycle!GivenUp(i)
         /\ /\ HasCallback => ~ Present(repo, i)
            /\ \E what \in {"image", "error"} :
                 Leaves(i, Seen(repo.job[i].state), answer[i], Keep(i, what))
            => Lifecycle!AnsweredLate(i)
         /\ /\ IsCaught(i) /\ Begins(repo.job[i].state, repo'.job[i].state)
            /\ answer'[i] = IF result.cache[i] = "image" THEN "done" ELSE answer[i]
            /\ result'.cache[i] = "none"
            => Lifecycle!Returned(i)
         /\ /\ ~ HasCallback /\ Begins(repo.job[i].state, repo'.job[i].state)
            /\ answer'[i] = answer[i] /\ result'.cache[i] = "none"
            => Lifecycle!Dropped(i)
<1>. DEFINE status == [j \in Image |-> StatusOf(j)]
<1>1. status[i] = Seen(repo.job[i].state) /\ status'[i] = Seen(repo'.job[i].state)
      /\ (Present(repo, i) <=> status[i] # "absent")
  BY Becoming
<1>2. \A s, told, kept : Leaves(i, s, told, kept) <=> Lifecycle!Becomes(i, s, told, kept)
  BY <1>1 DEF Leaves, Lifecycle!Becomes
<1>3. /\ ~ Present(repo, i) /\ (HasCallback => result.cache[i] = "none")
      /\ Leaves(i, "waiting", "none", "none")
      => Lifecycle!Added(i)
  BY <1>1, <1>2 DEF Lifecycle!Added
<1>4. Leaves(i, "absent", "none", "none") => Lifecycle!Removed(i)
  BY <1>2 DEF Lifecycle!Removed
<1>5. /\ Present(repo, i) /\ HasCallback
      /\ \/ Leaves(i, "done", "done", result.cache[i])
         \/ Leaves(i, "done", answer[i], Keep(i, "image"))
      => Lifecycle!Processed(i)
  BY <1>1, <1>2 DEF Lifecycle!Processed, Lifecycle!Keeping, Keep
<1>6. /\ Present(repo, i) /\ HasCallback
      /\ \E t \in {answer[i], "error"} : Leaves(i, "waiting", t, result.cache[i])
      => Lifecycle!Retried(i)
  BY <1>1, <1>2 DEF Lifecycle!Retried
<1>7. Present(repo, i) /\ HasCallback /\ Leaves(i, "given up", "error", result.cache[i])
      => Lifecycle!GivenUp(i)
  BY <1>1, <1>2 DEF Lifecycle!GivenUp
<1>8. /\ HasCallback => ~ Present(repo, i)
      /\ \E what \in {"image", "error"} :
           Leaves(i, Seen(repo.job[i].state), answer[i], Keep(i, what))
      => Lifecycle!AnsweredLate(i)
  BY <1>1, <1>2 DEF Lifecycle!AnsweredLate, Lifecycle!Keeping, Keep
<1>9. /\ IsCaught(i) /\ Begins(repo.job[i].state, repo'.job[i].state)
      /\ answer'[i] = IF result.cache[i] = "image" THEN "done" ELSE answer[i]
      /\ result'.cache[i] = "none"
      => Lifecycle!Returned(i)
  BY <1>1 DEF Lifecycle!Returned, Lifecycle!MayBegin, Lifecycle!Becomes, Begins, IsCaught
<1>10. /\ ~ HasCallback /\ Begins(repo.job[i].state, repo'.job[i].state)
       /\ answer'[i] = answer[i] /\ result'.cache[i] = "none"
       => Lifecycle!Dropped(i)
  BY <1>1 DEF Lifecycle!Dropped, Lifecycle!MayBegin, Lifecycle!Becomes, Begins
<1>. QED  BY <1>3, <1>4, <1>5, <1>6, <1>7, <1>8, <1>9, <1>10

\* A step that changes neither the jobs' states nor what is told or kept.
LEMMA NoStep ==
  ASSUME IInv', NEW m, Become(m), SameStates(repo, m.repo), m.result.cache = result.cache,
         UNCHANGED answer
  PROVE  Lifecycle!Next
<1>1. \A j \in Image : Same(j)
  BY DEF Become, SameStates, Same, Begins
<1>. QED  BY <1>1, QuietStep

\* The result that is kept for photo i is taken: it is told, or there is nobody to tell.
LEMMA TakenStep ==
  ASSUME IInv, IInv', NEW i \in Image, UNCHANGED client,
         Scheduled(repo, repo'), result'.cache = [result.cache EXCEPT ![i] = "none"],
         \/ IsCaught(i) /\ answer' = IF result.cache[i] = "image" THEN [answer EXCEPT ![i] = "done"]
                                     ELSE answer
         \/ ~ IsCaught(i) /\ answer' = answer
  PROVE  Lifecycle!Next
<1>1. /\ result.cache \in [Image -> {"none", "image", "error"}]
      /\ answer \in [Image -> {"none", "done", "error"}]
  BY DEF IInv, ThreadInv, OthersOK, Result
<1>2. \A j \in Image : j # i => Same(j)
  BY <1>1 DEF Scheduled, Same
<1>3. Begins(repo.job[i].state, repo'.job[i].state) /\ result'.cache[i] = "none"
  BY <1>1 DEF Scheduled
<1>4. CASE IsCaught(i) /\ answer' = IF result.cache[i] = "image" THEN [answer EXCEPT ![i] = "done"]
                                    ELSE answer
  <2>1. Lifecycle!Returned(i)
    BY <1>1, <1>3, <1>4, PhotoActions
  <2>. QED  BY <1>2, <2>1, PhotoStep DEF Lifecycle!Photo
<1>5. CASE ~ IsCaught(i) /\ answer' = answer
  <2>1. CASE HasCallback
    <3>1. Same(i)
      BY <1>3, <1>5, <2>1 DEF IsCaught, Same
    <3>. QED  BY <1>2, <3>1, QuietStep
  <2>2. CASE ~ HasCallback
    <3>1. Lifecycle!Dropped(i)
      BY <1>3, <1>5, <2>2, PhotoActions
    <3>. QED  BY <1>2, <3>1, PhotoStep DEF Lifecycle!Photo
  <2>. QED  BY <2>1, <2>2
<1>. QED  BY <1>4, <1>5

LEMMA HandleAddStep ==
  ASSUME IInv, IInv', HandleAdd
  PROVE  Lifecycle!Next
<1>. DEFINE i == Head(cmds).image
            m == TakeResult(Now, i)
            n == [m EXCEPT !.repo = AddDeferredJob(m.repo, i)]
<1>1. MidInv(Now) /\ Now.repo = repo /\ RepoInv(repo) /\ i \in Image /\ Now.result = result
  BY TookCommand, CommandImage DEF HandleAdd, Now
<1>2. /\ MidInv(m) /\ m.repo = repo
      /\ m.result.cache = [result.cache EXCEPT ![i] = "none"]
  BY <1>1, TakeResultInv, TakeResultCache
<1>3. n = [m EXCEPT !.repo = AddDeferredJob(@, i)]
  BY <1>2 DEF MidInv, MidState
<1>4. \/ IsCaught(i) /\ CatchResult(Now, i)
      \/ /\ ~ IsCaught(i) /\ Become(n)
         /\ answer' = IF Present(repo, i) THEN answer ELSE [answer EXCEPT ![i] = "none"]
  BY <1>3 DEF HandleAdd
<1>5. UNCHANGED client
  BY DEF HandleAdd
<1>. HIDE DEF m
<1>6. n.repo = AddDeferredJob(repo, i) /\ n.result = m.result
  BY <1>2 DEF MidInv, MidState
<1>. HIDE DEF n, i
<1>7. CASE IsCaught(i) /\ CatchResult(Now, i)
  <2>1. Scheduled(repo, repo') /\ result'.cache = [result.cache EXCEPT ![i] = "none"]
    BY <1>1, <1>7, DeRecordResultStates DEF CatchResult, IInv, OthersOK
  <2>. QED  BY <1>1, <1>5, <1>7, <2>1, TakenStep DEF CatchResult
<1>8. CASE /\ ~ IsCaught(i) /\ Become(n)
           /\ answer' = IF Present(repo, i) THEN answer ELSE [answer EXCEPT ![i] = "none"]
  <2>1. /\ repo' = AddDeferredJob(repo, i)
        /\ result'.cache = [result.cache EXCEPT ![i] = "none"]
    BY <1>2, <1>6, <1>8 DEF Become
  <2>2. CASE Present(repo, i)
    <3>1. Scheduled(repo, repo')
      BY <1>1, <2>1, <2>2, AddDeferredJobStates DEF Scheduled, Begins
    <3>. QED  BY <1>1, <1>5, <1>8, <2>1, <2>2, <3>1, TakenStep
  <2>3. CASE ~ Present(repo, i)
    <3>1. Enters(repo, repo', i, "PENDING")
      BY <1>1, <2>1, <2>3, AddDeferredJobStates
    <3>2. /\ result.cache \in [Image -> {"none", "image", "error"}]
          /\ answer \in [Image -> {"none", "done", "error"}]
      BY DEF IInv, ThreadInv, OthersOK, Result
    <3>3. Leaves(i, "waiting", "none", "none")
      BY <1>1, <1>8, <2>1, <2>3, <3>1, <3>2 DEF Enters, Leaves, Seen
    <3>4. HasCallback => result.cache[i] = "none"
      BY <1>8 DEF IsCaught
    <3>5. \A j \in Image : j # i => Same(j)
      BY <1>8, <2>1, <2>3, <3>1, <3>2 DEF Enters, Same, Begins
    <3>6. Lifecycle!Added(i)
      BY <1>1, <2>3, <3>3, <3>4, PhotoActions
    <3>. QED  BY <1>1, <1>5, <3>5, <3>6, PhotoStep DEF Lifecycle!Photo
  <2>. QED  BY <2>2, <2>3
<1>. QED  BY <1>4, <1>7, <1>8

LEMMA HandleRemoveRestorableStep ==
  ASSUME IInv, IInv', HandleRemoveRestorable
  PROVE  Lifecycle!Next
<1>. DEFINE i == Head(cmds).image
            m == [Now EXCEPT !.result.high = @ \ {i}]
            n == [m EXCEPT !.repo = LowerPriority(m.repo, i)]
<1>1. MidInv(Now) /\ Now.repo = repo /\ RepoInv(repo) /\ i \in Image /\ Now.result = result
  BY TookCommand, CommandImage DEF HandleRemoveRestorable, Now
<1>2. MidInv(m) /\ m.repo = repo /\ m.result.cache = result.cache
  BY <1>1, ForgetHighInv, CacheStays, CommandTypes
<1>3. n = [m EXCEPT !.repo = LowerPriority(@, i)]
  BY <1>2 DEF MidInv, MidState
<1>4. (Become(n) \/ Become(m)) /\ UNCHANGED answer
  BY <1>3 DEF HandleRemoveRestorable
<1>. HIDE DEF m
<1>5. n.repo = LowerPriority(repo, i) /\ n.result = m.result
  BY <1>2 DEF MidInv, MidState
<1>. HIDE DEF n, i
<1>6. SameStates(repo, repo) /\ SameStates(repo, n.repo)
  BY <1>1, <1>5, LowerPriorityStates DEF SameStates
<1>. QED  BY <1>2, <1>4, <1>5, <1>6, NoStep

LEMMA HandleRemoveStep ==
  ASSUME IInv, IInv', HandleRemove
  PROVE  Lifecycle!Next
<1>. DEFINE i == Head(cmds).image
            m == [Now EXCEPT !.result.high = @ \ {i}]
            stopped == IF i \in repo.running THEN Interrupt(m) ELSE m
            deleted == [stopped EXCEPT !.repo = DeleteJob(stopped.repo, i)]
            removed == IF Present(repo, i) THEN deleted ELSE stopped
            left == PostRemove(removed, i)
            n == [left EXCEPT !.result.crash[i] = 0]
<1>1. MidInv(Now) /\ Now.repo = repo /\ RepoInv(repo) /\ i \in Image /\ Now.result = result
  BY TookCommand, CommandImage DEF HandleRemove, Now
<1>2. MidInv(m) /\ m.repo = repo /\ m.result.cache = result.cache
  BY <1>1, ForgetHighInv, CacheStays, CommandTypes
<1>. HIDE DEF m
<1>3. MidInv(stopped) /\ stopped.repo = repo /\ stopped.result.cache = result.cache
  BY <1>1, <1>2, InterruptInv, CacheHdi
<1>. HIDE DEF stopped
<1>4. /\ MidInv(deleted) /\ deleted.repo = DeleteJob(repo, i)
      /\ deleted.result.cache = result.cache
  BY <1>1, <1>3, DeleteJobInv, NewRepo, CacheStays, CommandTypes
<1>5. deleted = [stopped EXCEPT !.repo = DeleteJob(@, i)]
  BY <1>3 DEF MidInv, MidState
<1>. HIDE DEF deleted
<1>6. /\ MidInv(removed) /\ removed.result.cache = result.cache
      /\ removed.repo = IF Present(repo, i) THEN DeleteJob(repo, i) ELSE repo
  BY <1>3, <1>4
<1>. HIDE DEF removed
<1>7. MidInv(left) /\ left.repo = removed.repo /\ left.result.cache = result.cache
  BY <1>1, <1>6, PostRemoveInv, CacheHdi
<1>. HIDE DEF left
<1>8. MidInv(n) /\ n.repo = removed.repo /\ n.result.cache = result.cache
  BY <1>1, <1>7, ResetCrashInv, CacheStays, CommandTypes
<1>. HIDE DEF n
<1>9. DeRecordResult(n, i) /\ answer' = [answer EXCEPT ![i] = "none"] /\ UNCHANGED client
  BY <1>5 DEF HandleRemove, n, left, removed, stopped, m
<1>. HIDE DEF i
<1>10. /\ Scheduled(n.repo, repo')
       /\ result'.cache = [result.cache EXCEPT ![i] = "none"]
  BY <1>1, <1>8, <1>9, DeRecordResultStates DEF IInv, OthersOK
<1>11. Enters(repo, n.repo, i, "NONE")
  BY <1>1, <1>6, <1>8, DeleteJobStates DEF Enters, Present
<1>12. /\ result.cache \in [Image -> {"none", "image", "error"}]
       /\ answer \in [Image -> {"none", "done", "error"}]
  BY DEF IInv, ThreadInv, OthersOK, Result
<1>13. Leaves(i, "absent", "none", "none")
  <2>1. Seen("NONE") = "absent"
    BY DEF Seen
  <2>2. Begins("NONE", repo'.job[i].state)
    BY <1>1, <1>10, <1>11 DEF Scheduled, Enters
  <2>3. Seen(repo'.job[i].state) = "absent"
    BY <2>1, <2>2 DEF Begins
  <2>. QED  BY <1>1, <1>9, <1>10, <1>12, <2>3 DEF Leaves
<1>14. \A j \in Image : j # i => Same(j)
  BY <1>9, <1>10, <1>11, <1>12 DEF Scheduled, Enters, Same
<1>15. Lifecycle!Removed(i)
  BY <1>1, <1>13, PhotoActions
<1>. QED  BY <1>1, <1>9, <1>14, <1>15, PhotoStep DEF Lifecycle!Photo

\* A priority is none of the client's business.
LEMMA HandleRestoreStep ==
  ASSUME IInv, IInv', HandleRestore
  PROVE  Lifecycle!Next
<1>. DEFINE i == Head(cmds).image
            normal == SetJobPriority(Now.repo, i, "NORMAL")
            r == UpdateJob(normal, i)
            n == [Now EXCEPT !.repo = r]
            sent == Send(n, <<JobChanged>>)
<1>1. MidInv(Now) /\ Now.repo = repo /\ RepoInv(repo) /\ i \in Image /\ Now.result = result
  BY TookCommand, CommandImage DEF HandleRestore, Now
<1>2. n = [Now EXCEPT !.repo = UpdateJob(SetJobPriority(@, i, "NORMAL"), i)]
  BY <1>1 DEF MidInv, MidState
<1>3. (Present(repo, i) /\ Become(sent)) \/ Become(Now)
  BY <1>2 DEF HandleRestore
<1>4. UNCHANGED answer
  BY DEF HandleRestore
<1>5. CASE Present(repo, i) /\ Become(sent)
  <2>1. RepoInv(normal) /\ SameStates(repo, normal)
    BY <1>1, <1>5, SetJobPriorityInv, SetJobPriorityStates DEF JobPriority
  <2>. HIDE DEF normal
  <2>2. RepoInv(r) /\ SameStates(repo, r)
    BY <2>1, UpdateJobInv DEF SameStates
  <2>. HIDE DEF r
  <2>3. MidInv(n) /\ n.repo = r /\ n.result.cache = result.cache
    BY <1>1, <2>2, NewRepo, CacheStays, CommandTypes
  <2>. HIDE DEF n
  <2>4. sent.repo = r /\ sent.result.cache = result.cache
    BY <1>1, <2>3, SendInv, CacheStays, CommandTypes
  <2>. QED  BY <1>4, <1>5, <2>2, <2>4, NoStep
<1>6. CASE Become(Now)
  BY <1>1, <1>4, <1>6, NoStep DEF SameStates
<1>. QED  BY <1>3, <1>5, <1>6

LEMMA HandleCancelStep ==
  ASSUME IInv, IInv', HandleCancel
  PROVE  Lifecycle!Next
<1>. DEFINE i == Head(cmds).image
            m == [Now EXCEPT !.result.high = @ \ {i}]
            normal == SetJobPriority(m.repo, i, "NORMAL")
            r == UpdateJob(normal, i)
            n == [m EXCEPT !.repo = r]
<1>1. MidInv(Now) /\ Now.repo = repo /\ RepoInv(repo) /\ i \in Image /\ Now.result = result
  BY TookCommand, CommandImage DEF HandleCancel, Now
<1>2. MidInv(m) /\ m.repo = repo /\ m.result.cache = result.cache
  BY <1>1, ForgetHighInv, CacheStays, CommandTypes
<1>3. n = [m EXCEPT !.repo = UpdateJob(SetJobPriority(@, i, "NORMAL"), i)]
  BY <1>2 DEF MidInv, MidState
<1>4. Become(Now) \/ (Present(repo, i) /\ Become(n)) \/ Become(m)
  BY <1>3 DEF HandleCancel
<1>5. UNCHANGED answer
  BY DEF HandleCancel
<1>. HIDE DEF m
<1>6. CASE Present(repo, i) /\ Become(n)
  <2>1. RepoInv(normal) /\ SameStates(repo, normal)
    BY <1>1, <1>2, <1>6, SetJobPriorityInv, SetJobPriorityStates DEF JobPriority
  <2>. HIDE DEF normal
  <2>2. RepoInv(r) /\ SameStates(repo, r)
    BY <2>1, UpdateJobInv DEF SameStates
  <2>. HIDE DEF r
  <2>3. n.repo = r /\ n.result.cache = result.cache
    BY <1>2, <2>2, NewRepo, CacheStays, CommandTypes, <1>1
  <2>. QED  BY <1>5, <1>6, <2>2, <2>3, NoStep
<1>7. CASE Become(Now) \/ Become(m)
  BY <1>1, <1>2, <1>5, <1>7, NoStep DEF SameStates
<1>. QED  BY <1>4, <1>6, <1>7

LEMMA StopTimerStates ==
  ASSUME NEW m, MidInv(m), NEW i \in Image
  PROVE  LET n == StopTimer(m, i)
         IN  MidInv(n) /\ SameStates(m.repo, n.repo) /\ n.result = m.result
<1>1. RepoInv(m.repo)
  BY MidRepo
<1>2. StopTimer(m, i) = [m EXCEPT !.repo = ResetTimer(m.repo, i)]
  BY DEF StopTimer, MidInv, MidState
<1>. DEFINE r == ResetTimer(m.repo, i)
<1>3. RepoInv(r) /\ SameStates(m.repo, r)
  BY <1>1, ResetTimerStates
<1>. HIDE DEF r
<1>4. MidInv([m EXCEPT !.repo = r]) /\ [m EXCEPT !.repo = r].repo = r
      /\ [m EXCEPT !.repo = r].result = m.result
  BY <1>3, NewRepo DEF MidInv, MidState
<1>. QED  BY <1>2, <1>3, <1>4 DEF r

\* Photo i enters state s; its result and what was kept for the others stay.
LEMMA EnteredStep ==
  ASSUME IInv, IInv', NEW i \in Image, NEW s, Enters(repo, repo', i, s), UNCHANGED client,
         result'.cache = result.cache, NEW t, answer' = [answer EXCEPT ![i] = t],
         Present(repo, i), HasCallback,
         \/ Seen(s) = "waiting" /\ t \in {answer[i], "error"}
         \/ Seen(s) = "given up" /\ t = "error"
         \/ Seen(s) = "done" /\ t = "done"
  PROVE  Lifecycle!Next
<1>1. answer \in [Image -> {"none", "done", "error"}]
  BY DEF IInv, OthersOK
<1>2. Leaves(i, Seen(s), t, result.cache[i])
  BY <1>1 DEF Leaves, Enters
<1>3. \A j \in Image : j # i => Same(j)
  BY <1>1 DEF Same, Enters, Begins
<1>4. Lifecycle!Retried(i) \/ Lifecycle!GivenUp(i) \/ Lifecycle!Processed(i)
  BY <1>2, PhotoActions
<1>. QED  BY <1>3, <1>4, PhotoStep DEF Lifecycle!Photo

\* An answer for a photo that is not there, or that there is nobody to tell of, is kept.
LEMMA LateStep ==
  ASSUME IInv, IInv', NEW i \in Image, NEW what \in {"image", "error"}, NEW m, MidInv(m),
         SameStates(repo, m.repo), m.result.cache = result.cache,
         Become(RecordResult(m, i, what)), UNCHANGED <<client, answer>>,
         ~ Present(repo, i) \/ ~ HasCallback
  PROVE  Lifecycle!Next
<1>1. result.cache \in [Image -> {"none", "image", "error"}]
  BY DEF IInv, ThreadInv, Result
<1>2. RecordResult(m, i, what).repo = m.repo
  BY RecordResultInv
<1>3. result'.cache = [result.cache EXCEPT ![i] = Keep(i, what)]
  BY RecordResultCache DEF Become
<1>4. SameStates(repo, repo')
  BY <1>2 DEF Become
<1>5. Leaves(i, Seen(repo.job[i].state), answer[i], Keep(i, what))
  BY <1>1, <1>3, <1>4 DEF Leaves, SameStates
<1>6. \A j \in Image : j # i => Same(j)
  BY <1>1, <1>3, <1>4 DEF Same, SameStates, Begins
<1>7. Lifecycle!AnsweredLate(i)
  BY <1>5, PhotoActions
<1>. QED  BY <1>6, <1>7, PhotoStep DEF Lifecycle!Photo

LEMMA OnProcessErrorStep ==
  ASSUME IInv, IInv', NEW i \in Image, NEW e, MidInv(Now), OnProcessError(Now, i, e),
         UNCHANGED client
  PROVE  Lifecycle!Next
<1>. DEFINE count == CountError(Now, i, e)
            counted == StopTimer(count, i)
            type == ErrorType(Now, i, EffectiveError(Now, i, e))
            next == CASE type = "RETRY" -> Prepare(counted.repo, i)
                      [] type = "FATAL_NOTIFY" -> SetError(counted.repo, i)
                      [] OTHER -> Fail(counted.repo, i)
            entered == CASE type = "RETRY" -> "PENDING"
                         [] type = "FATAL_NOTIFY" -> "ERROR"
                         [] OTHER -> "FAILED"
            done == [counted EXCEPT !.repo = next]
            notices == Notices(Now.repo, i, entered)
            t == IF type \in {"RETRY", "NORMAL_FAILED"} THEN answer[i] ELSE "error"
<1>1. Now.repo = repo /\ Now.result = result /\ RepoInv(repo)
  BY DEF Now, IInv, ThreadInv
<1>2. MidInv(count) /\ count.repo = repo /\ count.result.cache = result.cache
  <2>1. MidInv(count) /\ count.repo = Now.repo
    BY CountErrorInv
  <2>2. count.result.cache = Now.result.cache
    BY DEF CountError, MidInv, MidState, Result
  <2>. QED  BY <1>1, <2>1, <2>2
<1>3. \/ /\ ~ Present(repo, i) \/ ~ HasCallback
         /\ Become(RecordResult(counted, i, "error")) /\ UNCHANGED answer
      \/ /\ Present(repo, i) /\ HasCallback
         /\ Become(Send(done, notices))
         /\ answer' = IF type \in {"RETRY", "NORMAL_FAILED"} THEN answer
                      ELSE [answer EXCEPT ![i] = "error"]
  BY <1>1 DEF OnProcessError
<1>. HIDE DEF count
<1>4. MidInv(counted) /\ SameStates(repo, counted.repo) /\ counted.result.cache = result.cache
  BY <1>2, StopTimerStates
<1>. HIDE DEF counted, type
<1>5. CASE /\ ~ Present(repo, i) \/ ~ HasCallback
           /\ Become(RecordResult(counted, i, "error")) /\ UNCHANGED answer
  BY <1>4, <1>5, LateStep
<1>6. CASE /\ Present(repo, i) /\ HasCallback
           /\ Become(Send(done, notices))
           /\ answer' = IF type \in {"RETRY", "NORMAL_FAILED"} THEN answer
                        ELSE [answer EXCEPT ![i] = "error"]
  <2>1. RepoInv(counted.repo) /\ Present(counted.repo, i)
    BY <1>4, <1>6, MidRepo DEF SameStates, Present
  <2>2. RepoInv(next) /\ Enters(counted.repo, next, i, entered)
    <3>1. CASE type = "RETRY"
      BY <2>1, <3>1, PrepareInv, JobStates
    <3>2. CASE type = "FATAL_NOTIFY"
      BY <2>1, <3>2, FailInv, JobStates
    <3>3. CASE type \notin {"RETRY", "FATAL_NOTIFY"}
      BY <2>1, <3>3, FailInv, JobStates
    <3>. QED  BY <3>1, <3>2, <3>3
  <2>3. \/ Seen(entered) = "waiting" /\ t \in {answer[i], "error"}
        \/ Seen(entered) = "given up" /\ t = "error"
    BY DEF Seen
  <2>4. answer' = [answer EXCEPT ![i] = t]
    BY <1>6 DEF IInv, OthersOK
  <2>5. notices \in Seq(Command)
    BY NoticesType
  <2>. HIDE DEF next, entered, notices, t
  <2>6. MidInv(done) /\ done.repo = next /\ done.result.cache = result.cache
    BY <1>4, <2>2, <2>5, NewRepo, CacheStays
  <2>. HIDE DEF done
  <2>7. Send(done, notices).repo = next /\ Send(done, notices).result.cache = result.cache
    BY <2>5, <2>6, SendInv, CacheStays
  <2>8. Enters(repo, repo', i, entered) /\ result'.cache = result.cache
    BY <1>4, <1>6, <2>2, <2>7 DEF Become, Enters, SameStates
  <2>. QED  BY <1>6, <2>3, <2>4, <2>8, EnteredStep
<1>. QED  BY <1>3, <1>5, <1>6

LEMMA HandleFailedStep ==
  ASSUME IInv, IInv', HandleFailed
  PROVE  Lifecycle!Next
<1>1. MidInv(Now) /\ Head(cmds).image \in Image
  BY TookCommand, CommandImage DEF HandleFailed
<1>2. OnProcessError(Now, Head(cmds).image, Head(cmds).error) /\ UNCHANGED client
  BY DEF HandleFailed
<1>. QED  BY <1>1, <1>2, OnProcessErrorStep

LEMMA HandleSuccessStep ==
  ASSUME IInv, IInv', HandleSuccess
  PROVE  Lifecycle!Next
<1>. DEFINE i == Head(cmds).image
            reset == [Now EXCEPT !.result.timeouts = 0]
            m == StopTimer(reset, i)
            finished == [m EXCEPT !.repo = Complete(m.repo, i)]
            notices == Notices(repo, i, "COMPLETED")
            completed == Send(finished, notices)
            held == RecordResult(completed, i, "image")
            gated == [held EXCEPT !.result.bp = i]
<1>1. MidInv(Now) /\ Now.repo = repo /\ RepoInv(repo) /\ i \in Image /\ Now.result = result
  BY TookCommand, CommandImage DEF HandleSuccess, Now
<1>. HIDE DEF i
<1>2. MidInv(reset) /\ reset.repo = repo /\ reset.result.cache = result.cache
  BY <1>1, ResetTimeoutsInv, CacheStays, CommandTypes
<1>. HIDE DEF reset
<1>3. MidInv(m) /\ SameStates(repo, m.repo) /\ m.result.cache = result.cache
  BY <1>1, <1>2, StopTimerStates
<1>. HIDE DEF m
<1>4. finished = [m EXCEPT !.repo = Complete(@, i)]
  BY <1>3 DEF MidInv, MidState
<1>. HIDE DEF finished
<1>5. UNCHANGED client
  BY DEF HandleSuccess
<1>6. \/ /\ ~ Present(repo, i) \/ ~ HasCallback
         /\ Become(RecordResult(m, i, "image")) /\ UNCHANGED answer
      \/ /\ Present(repo, i) /\ HasCallback
         /\ EventChanged(gated, CacheEvent("CACHED")) /\ UNCHANGED answer
      \/ /\ Present(repo, i) /\ HasCallback
         /\ Become(completed) /\ answer' = [answer EXCEPT ![i] = "done"]
  BY <1>4 DEF HandleSuccess, m, reset, i
<1>7. Present(repo, i) =>
        /\ MidInv(completed) /\ completed.result.cache = result.cache
        /\ Enters(repo, completed.repo, i, "COMPLETED")
  <2>. SUFFICES ASSUME Present(repo, i)
                PROVE  /\ MidInv(completed) /\ completed.result.cache = result.cache
                       /\ Enters(repo, completed.repo, i, "COMPLETED")
    OBVIOUS
  <2>. DEFINE r == Complete(m.repo, i)
  <2>1. RepoInv(m.repo) /\ Present(m.repo, i)
    BY <1>1, <1>3, MidRepo DEF SameStates, Present
  <2>2. RepoInv(r) /\ Enters(m.repo, r, i, "COMPLETED")
    BY <1>1, <2>1, CompleteInv, JobStates
  <2>3. finished = [m EXCEPT !.repo = r]
    BY DEF finished
  <2>. HIDE DEF r
  <2>4. MidInv(finished) /\ finished.repo = r /\ finished.result.cache = result.cache
    BY <1>1, <1>3, <2>2, <2>3, NewRepo, CacheStays, CommandTypes
  <2>5. notices \in Seq(Command)
    BY NoticesType
  <2>. HIDE DEF notices
  <2>6. /\ MidInv(completed) /\ completed.repo = r
        /\ completed.result.cache = result.cache
    BY <1>1, <2>4, <2>5, SendInv, CacheStays
  <2>. QED  BY <1>3, <2>2, <2>6 DEF Enters, SameStates
<1>. HIDE DEF completed
<1>8. CASE /\ ~ Present(repo, i) \/ ~ HasCallback
           /\ Become(RecordResult(m, i, "image")) /\ UNCHANGED answer
  BY <1>1, <1>3, <1>5, <1>8, LateStep
<1>9. CASE /\ Present(repo, i) /\ HasCallback
           /\ EventChanged(gated, CacheEvent("CACHED")) /\ UNCHANGED answer
  <2>1. /\ MidInv(held) /\ held.repo = completed.repo
        /\ held.result.cache = [result.cache EXCEPT ![i] = Keep(i, "image")]
    <3>1. MidInv(held) /\ held.repo = completed.repo
      BY <1>1, <1>7, <1>9, RecordResultInv
    <3>2. completed.result.cache = result.cache
      BY <1>7, <1>9
    <3>. QED  BY <1>1, <1>7, <1>9, <3>1, <3>2, RecordResultCache
  <2>. HIDE DEF held
  <2>2. /\ MidInv(gated) /\ gated.repo = held.repo
        /\ gated.result.cache = held.result.cache
    <3>1. MidInv(gated) /\ gated.repo = held.repo
      BY <1>1, <2>1, SetBpInv
    <3>2. gated.result.cache = held.result.cache
      BY <1>1, <2>1 DEF MidInv, MidState, Result
    <3>. QED  BY <3>1, <3>2
  <2>. HIDE DEF gated
  <2>3. CacheEvent("CACHED") \in Event
    BY DEF CacheEvent, Event, CacheStatus
  <2>4. Scheduled(completed.repo, repo') /\ result'.cache = held.result.cache
    BY <1>9, <2>1, <2>2, <2>3, EventChangedStates DEF IInv, OthersOK
  <2>5. Seen("COMPLETED") = "done"
    BY DEF Seen
  <2>6. result.cache \in [Image -> {"none", "image", "error"}]
    BY DEF IInv, ThreadInv, Result
  <2>7. Enters(repo, completed.repo, i, "COMPLETED")
    BY <1>7, <1>9
  <2>8. Seen(repo'.job[i].state) = "done"
    BY <1>1, <2>4, <2>5, <2>7 DEF Scheduled, Begins, Enters
  <2>9. Leaves(i, "done", answer[i], Keep(i, "image"))
    BY <1>1, <1>9, <2>1, <2>4, <2>6, <2>8 DEF Leaves
  <2>10. \A j \in Image : j # i => Same(j)
    BY <1>9, <2>1, <2>4, <2>6, <2>7 DEF Same, Scheduled, Enters
  <2>11. Lifecycle!Processed(i)
    BY <1>1, <1>9, <2>9, PhotoActions
  <2>. QED  BY <1>1, <1>5, <2>10, <2>11, PhotoStep DEF Lifecycle!Photo
<1>10. CASE /\ Present(repo, i) /\ HasCallback
            /\ Become(completed) /\ answer' = [answer EXCEPT ![i] = "done"]
  <2>1. Enters(repo, repo', i, "COMPLETED") /\ result'.cache = result.cache
    BY <1>7, <1>10 DEF Become
  <2>2. Seen("COMPLETED") = "done"
    BY DEF Seen
  <2>. QED  BY <1>1, <1>5, <1>10, <2>1, <2>2, EnteredStep
<1>. QED  BY <1>6, <1>8, <1>9, <1>10

\* A request at high priority: what had failed waits again, as the client sees it already.
LEMMA HandleProcessStep ==
  ASSUME IInv, IInv', HandleProcess
  PROVE  Lifecycle!Next
<1>. DEFINE i == Head(cmds).image
            high == SetJobPriority(repo, i, "HIGH")
            ready == IF high.job[i].state = "FAILED" THEN Prepare(high, i) ELSE high
            r == UpdateJob(ready, i)
            requested == [Now EXCEPT !.repo = r]
            m == Send(requested, <<JobChanged>>)
            taken == TakeResult(m, i)
            n == [taken EXCEPT !.result.high = @ \cup {i}]
<1>1. MidInv(Now) /\ Now.repo = repo /\ RepoInv(repo) /\ i \in Image /\ Now.result = result
  BY TookCommand, CommandImage DEF HandleProcess, Now
<1>2. UNCHANGED client
  BY DEF HandleProcess
<1>3. \/ Become(Now) /\ UNCHANGED answer
      \/ OnProcessError(Now, i, "FATAL")
      \/ Present(repo, i) /\ IsCaught(i) /\ CatchResult(m, i)
      \/ Present(repo, i) /\ ~ IsCaught(i) /\ Become(n) /\ UNCHANGED answer
  BY DEF HandleProcess
<1>. HIDE DEF i
<1>4. Present(repo, i) =>
        MidInv(m) /\ Scheduled(repo, m.repo) /\ m.result.cache = result.cache
  <2>. SUFFICES ASSUME Present(repo, i)
                PROVE  MidInv(m) /\ Scheduled(repo, m.repo) /\ m.result.cache = result.cache
    OBVIOUS
  <2>1. RepoInv(high) /\ Present(high, i) /\ SameStates(repo, high)
    BY <1>1, SetJobPriorityInv, SetJobPriorityStates DEF JobPriority
  <2>. HIDE DEF high
  <2>2. RepoInv(ready) /\ Scheduled(repo, ready)
    <3>1. CASE high.job[i].state = "FAILED"
      <4>1. RepoInv(ready) /\ Enters(high, ready, i, "PENDING")
        BY <1>1, <2>1, <3>1, PrepareInv, JobStates
      <4>2. Seen("FAILED") = Seen("PENDING")
        BY DEF Seen
      <4>. QED  BY <1>1, <2>1, <3>1, <4>1, <4>2 DEF Scheduled, SameStates, Enters, Begins
    <3>2. CASE high.job[i].state # "FAILED"
      BY <2>1, <3>2 DEF Scheduled, SameStates, Begins
    <3>. QED  BY <3>1, <3>2
  <2>. HIDE DEF ready
  <2>3. RepoInv(r) /\ Scheduled(repo, r)
    BY <1>1, <2>2, UpdateJobInv DEF Scheduled
  <2>. HIDE DEF r
  <2>4. MidInv(requested) /\ requested.repo = r /\ requested.result.cache = result.cache
    BY <1>1, <2>3, NewRepo, CacheStays, CommandTypes
  <2>. HIDE DEF requested
  <2>. QED  BY <1>1, <2>3, <2>4, SendInv, CommandTypes, CacheStays
<1>. HIDE DEF m
<1>5. CASE Become(Now) /\ UNCHANGED answer
  BY <1>1, <1>5, NoStep DEF SameStates
<1>6. CASE OnProcessError(Now, i, "FATAL")
  BY <1>1, <1>2, <1>6, OnProcessErrorStep
<1>7. CASE Present(repo, i) /\ IsCaught(i) /\ CatchResult(m, i)
  <2>1. /\ Scheduled(m.repo, repo')
        /\ result'.cache = [m.result.cache EXCEPT ![i] = "none"]
    BY <1>1, <1>4, <1>7, DeRecordResultStates DEF CatchResult, IInv, OthersOK
  <2>2. Scheduled(repo, repo')
    BY <1>4, <1>7, <2>1 DEF Scheduled, Begins
  <2>. QED  BY <1>1, <1>2, <1>4, <1>7, <2>1, <2>2, TakenStep DEF CatchResult
<1>8. CASE Present(repo, i) /\ ~ IsCaught(i) /\ Become(n) /\ UNCHANGED answer
  <2>1. /\ MidInv(taken) /\ taken.repo = m.repo
        /\ taken.result.cache = [result.cache EXCEPT ![i] = "none"]
    <3>1. MidInv(m) /\ m.result.cache = result.cache
      BY <1>4, <1>8
    <3>2. MidInv(taken) /\ taken.repo = m.repo
      BY <1>1, <3>1, TakeResultInv
    <3>3. taken.result.cache = [m.result.cache EXCEPT ![i] = "none"]
      BY <1>1, <3>1, TakeResultCache
    <3>. QED  BY <3>1, <3>2, <3>3
  <2>. HIDE DEF taken
  <2>2. n.repo = m.repo /\ n.result.cache = [result.cache EXCEPT ![i] = "none"]
    BY <1>1, <2>1, CacheStays, CommandTypes
  <2>. HIDE DEF n
  <2>3. Scheduled(repo, repo') /\ result'.cache = [result.cache EXCEPT ![i] = "none"]
    BY <1>4, <1>8, <2>2 DEF Become
  <2>. QED  BY <1>1, <1>2, <1>8, <2>3, TakenStep
<1>. QED  BY <1>3, <1>5, <1>6, <1>7, <1>8

LEMMA HandleProcessCacheStep ==
  ASSUME IInv, IInv', HandleProcessCache
  PROVE  Lifecycle!Next
<1>. DEFINE i == result.bp
<1>1. MidInv(Now) /\ Now.repo = repo /\ RepoInv(repo) /\ Now.result = result
  BY TookCommand DEF HandleProcessCache, Now
<1>2. UNCHANGED client
  BY DEF HandleProcessCache
<1>3. i # "Null" => i \in Image
  BY DEF IInv, ThreadInv, Result
<1>4. \/ Become(Now) /\ UNCHANGED answer
      \/ i # "Null" /\ IsCaught(i) /\ CatchResult(Now, i)
      \/ i # "Null" /\ ~ IsCaught(i) /\ Become(TakeResult(Now, i)) /\ UNCHANGED answer
  BY DEF HandleProcessCache
<1>. HIDE DEF i
<1>5. CASE Become(Now) /\ UNCHANGED answer
  BY <1>1, <1>5, NoStep DEF SameStates
<1>6. CASE i # "Null" /\ IsCaught(i) /\ CatchResult(Now, i)
  <2>1. Scheduled(repo, repo') /\ result'.cache = [result.cache EXCEPT ![i] = "none"]
    BY <1>1, <1>3, <1>6, DeRecordResultStates DEF CatchResult, IInv, OthersOK
  <2>. QED  BY <1>2, <1>3, <1>6, <2>1, TakenStep DEF CatchResult
<1>7. CASE i # "Null" /\ ~ IsCaught(i) /\ Become(TakeResult(Now, i)) /\ UNCHANGED answer
  <2>1. /\ TakeResult(Now, i).repo = repo
        /\ TakeResult(Now, i).result.cache = [result.cache EXCEPT ![i] = "none"]
    BY <1>1, <1>3, <1>7, TakeResultInv, TakeResultCache
  <2>2. Scheduled(repo, repo') /\ result'.cache = [result.cache EXCEPT ![i] = "none"]
    BY <1>7, <2>1 DEF Become, Scheduled, Begins
  <2>. QED  BY <1>2, <1>3, <1>7, <2>2, TakenStep
<1>. QED  BY <1>4, <1>5, <1>6, <1>7

\* The scheduler may start a photo; nothing is told and nothing taken.
LEMMA ScheduledStep ==
  ASSUME IInv', Scheduled(repo, repo'), result'.cache = result.cache, UNCHANGED answer
  PROVE  Lifecycle!Next
<1>1. \A j \in Image : Same(j)
  BY DEF Scheduled, Same
<1>. QED  BY <1>1, QuietStep

LEMMA HandleEventsStep ==
  ASSUME IInv, IInv',
         HandleJobChanged \/ HandleEvent \/ HandleAddSession \/ HandleDeleteSession
  PROVE  Lifecycle!Next
<1>1. MidInv(Now) /\ Now.repo = repo /\ Now.result = result
  BY TookCommand DEF HandleJobChanged, HandleEvent, HandleAddSession, HandleDeleteSession, Now
<1>2. UNCHANGED answer
  BY DEF HandleJobChanged, HandleEvent, HandleAddSession, HandleDeleteSession
<1>3. \/ TryDoSchedule(Now)
      \/ \E e \in Event : EventChanged(Now, e)
  <2>1. HandleEvent => Head(cmds).event \in Event
    BY TookCommand, CommandImage DEF HandleEvent
  <2>2. MediaEvent("AVAILABLE") \in Event /\ MediaEvent("DISCONNECTED") \in Event
    BY DEF MediaEvent, Event, MediaLibraryStatus
  <2>. QED  BY <2>1, <2>2 DEF HandleJobChanged, HandleEvent, HandleAddSession, HandleDeleteSession
<1>4. Scheduled(repo, repo') /\ result'.cache = result.cache
  BY <1>1, <1>3, TryDoScheduleStates, EventChangedStates DEF IInv, OthersOK
<1>. QED  BY <1>2, <1>4, ScheduledStep

LEMMA HandlePhotoDiedStep ==
  ASSUME IInv, IInv', HandlePhotoDied
  PROVE  Lifecycle!Next
<1>1. PICK c : Become(Send([Now EXCEPT !.hal.session = "null"], c)) /\ UNCHANGED answer
  BY DEF HandlePhotoDied
<1>2. repo' = repo /\ result' = result
  BY <1>1 DEF Become, Send, Now
<1>. QED  BY <1>1, <1>2, ScheduledStep DEF Scheduled, Begins

LEMMA CommandThreadStep ==
  ASSUME IInv, IInv', CommandThread
  PROVE  Lifecycle!Next
BY HandleAddStep, HandleRemoveStep, HandleRemoveRestorableStep, HandleRestoreStep,
   HandleCancelStep, HandleProcessStep, HandleProcessCacheStep, HandleSuccessStep,
   HandleFailedStep, HandleEventsStep, HandlePhotoDiedStep
   DEF CommandThread

\* The other threads queue what they want of the photos; a timer is none of the
\* client's business.
LEMMA OtherThreadsStep ==
  ASSUME IInv, IInv', ClientThreads \/ HdiThreads \/ TimerThread \/ SystemEvents
  PROVE  Lifecycle!Next
<1>1. CASE UNCHANGED threadState
  BY <1>1, ScheduledStep DEF threadState, Scheduled, Begins
<1>2. CASE TimerThread
  <2>1. CASE TrailingExpires
    BY <2>1, ScheduledStep DEF TrailingExpires, Scheduled, Begins
  <2>2. ASSUME NEW i \in Image, TimerExpires(i) \/ OrphanExpires(i)
        PROVE  Lifecycle!Next
    <3>1. RepoInv(repo) /\ SameStates(repo, ResetTimer(repo, i))
      BY ResetTimerStates DEF IInv, ThreadInv
    <3>2. Scheduled(repo, repo')
      BY <2>2, <3>1 DEF TimerExpires, OrphanExpires, SameStates, Scheduled, Begins
    <3>3. result'.cache = result.cache /\ UNCHANGED answer
      BY <2>2 DEF TimerExpires, OrphanExpires, Timeout, IInv, ThreadInv, Result
    <3>. QED  BY <3>2, <3>3, ScheduledStep
  <2>. QED  BY <1>2, <2>1, <2>2 DEF TimerThread
<1>3. ClientThreads \/ HdiThreads \/ SystemEvents => UNCHANGED threadState
  <2>1. ClientThreads => UNCHANGED threadState
    BY DEF ClientThreads, ClientAdds, ClientRemoves, ClientRestores, ClientRequests, ClientCancels,
           LibraryIdle, ClientDies, ClientConnects
  <2>2. HdiThreads => UNCHANGED threadState
    BY DEF HdiThreads, IveDone, IveFails, IveBackgroundDone, IveStatus, IveDies, IveRestarts,
           ServiceStarted, SessionInstalled
  <2>3. SystemEvents => UNCHANGED threadState
    BY DEF SystemEvents, CameraChanges, ThermalChanges, DeviceOpens, LowQualityImage
  <2>. QED  BY <2>1, <2>2, <2>3
<1>. QED  BY <1>1, <1>2, <1>3
-----------------------------------------------------------------------------
LEMMA InitStep == Init => Lifecycle!Init
<1>. SUFFICES ASSUME Init
              PROVE  Lifecycle!Init
  OBVIOUS
<1>1. \A i \in Image : repo.job[i] = NoJob
  BY DEF Init
<1>2. [i \in Image |-> StatusOf(i)] = [i \in Image |-> "absent"]
  <2>1. \A i \in Image : StatusOf(i) = "absent"
    BY <1>1 DEF StatusOf, NoJob
  <2>. QED  BY <2>1, Zenon
<1>3. HasCallback = TRUE
  BY DEF Init, HasCallback
<1>4. answer = [i \in Image |-> "none"] /\ result.cache = [i \in Image |-> "none"]
  BY DEF Init
<1>. QED  BY <1>2, <1>3, <1>4 DEF Lifecycle!Init

LEMMA NextStep ==
  ASSUME IInv, IInv', [Next]_vars
  PROVE  [Lifecycle!Next]_(Lifecycle!vars)
<1>1. CASE Next
  BY <1>1, CommandThreadStep, OtherThreadsStep DEF Next
<1>2. CASE UNCHANGED vars
  <2>1. UNCHANGED <<repo, result, client, answer>>
    BY <1>2 DEF vars, pipeline
  <2>. QED  BY <2>1 DEF Lifecycle!vars, StatusOf, HasCallback
<1>. QED  BY <1>1, <1>2

(***************************************************************************)
(* The pipeline implements PhotoLifecycle, for every number of photos, of  *)
(* client reconnections and of commands in the queue: whatever order       *)
(* commands, answers, timeouts and events come in, a photo is processed    *)
(* alone and only while it waits, is done only when its result was told or *)
(* kept, and what is kept leaves only to be told, with the photo, or for   *)
(* want of a client.                                                       *)
(***************************************************************************)
THEOREM LifecycleImplemented == Spec => ImplementsLifecycle
<1>1. Init => IInv /\ WorkloadOK
  BY InitInv
<1>2. IInv /\ WorkloadOK /\ [Next]_vars => IInv' /\ WorkloadOK'
  BY IInvInductive
<1>3. IInv /\ IInv' /\ [Next]_vars => [Lifecycle!Next]_(Lifecycle!vars)
  BY NextStep
<1>. QED  BY <1>1, <1>2, <1>3, InitStep, PTL DEF Spec, ImplementsLifecycle, Lifecycle!Spec

-----------------------------------------------------------------------------
(***************************************************************************)
(* The offline queue: for every set of photos it holds every photo that is *)
(* not of background type once, and never hides one that waits.            *)
(*                                                                         *)
(* Jobs change in place, and not every change of a priority is followed by *)
(* an Update: the heap is not always in order by operator>.  Two coarser   *)
(* orders are kept: by "wait", what waits before what does not, always,    *)
(* for ChangeStateTo updates the queue; by "priority", of what waits the   *)
(* higher priority first, as long as Fail of a job that has failed already *)
(* does not change its priority.  operator> decides as they do, wherever   *)
(* they decide, so the heap's lemmas apply.                                *)
(***************************************************************************)

Level(r, by, i) ==
  IF ~ IsActive(r, i) THEN 0
  ELSE IF by = "priority" THEN 1 + PriorityRank(r.job[i].priority) ELSE 1

Precedes(r, by) == {p \in Image \X Image : Level(r, by, p[1]) > Level(r, by, p[2])}

\* The heap of r holds the photos M, each once, those that precede above the others.
QueueIs(r, M, by) ==
  /\ Distinct(r.heap)
  /\ Elements(r.heap) = M
  /\ HeapOrder(r.heap, Precedes(r, by))

Queued(r) == {i \in Image \ Background : Present(r, i)}

QueueOK(r, by) == QueueIs(r, Queued(r), by)

-----------------------------------------------------------------------------
(***************************************************************************)
(* The order.                                                              *)
(***************************************************************************)
LEMMA LevelType ==
  ASSUME NEW r, NEW by, NEW i
  PROVE  /\ Level(r, by, i) \in Nat
         /\ Level(r, by, i) > 0 <=> IsActive(r, i)
         /\ by = "priority" /\ IsActive(r, i) => Level(r, by, i) = 1 + PriorityRank(r.job[i].priority)
<1>1. PriorityRank(r.job[i].priority) \in Nat
  BY DEF PriorityRank
<1>. QED  BY <1>1 DEF Level

\* Only whether a job waits, and its priority, are in the order.
LEMMA LevelSame ==
  ASSUME NEW r, NEW t, NEW by, NEW i, t.job[i].state = r.job[i].state,
         t.job[i].priority = r.job[i].priority
  PROVE  Level(t, by, i) = Level(r, by, i)
BY DEF Level, IsActive

\* A strict weak order.
LEMMA PrecedesStrict ==
  ASSUME NEW r, NEW by
  PROVE  StrictWeak(Precedes(r, by), Image)
<1>1. \A a, b \in Image : <<a, b>> \in Precedes(r, by) <=> Level(r, by, a) > Level(r, by, b)
  BY DEF Precedes
<1>2. ASSUME NEW a \in Image, NEW b \in Image, NEW c \in Image
      PROVE  /\ Level(r, by, a) > Level(r, by, b) => ~ (Level(r, by, b) > Level(r, by, a))
             /\ ~ (Level(r, by, a) > Level(r, by, b)) /\ ~ (Level(r, by, b) > Level(r, by, c))
                  => ~ (Level(r, by, a) > Level(r, by, c))
  <2>1. Level(r, by, a) \in Nat /\ Level(r, by, b) \in Nat /\ Level(r, by, c) \in Nat
    BY LevelType
  <2>. QED  BY <2>1
<1>. QED  BY <1>1, <1>2, Zenon DEF StrictWeak

\* operator> decides as it does.
LEMMA PrecedesAgrees ==
  ASSUME NEW r \in Draft, NEW by
  PROVE  Agrees(Better(r), Precedes(r, by), Image)
<1>. SUFFICES ASSUME NEW a \in Image, NEW b \in Image
              PROVE  /\ Level(r, by, a) > Level(r, by, b) => IsBetter(r, a, b)
                     /\ IsBetter(r, a, b) => ~ (Level(r, by, b) > Level(r, by, a))
  BY DEF Agrees, Precedes, Better
<1>. DEFINE p == r.job[a].priority
            q == r.job[b].priority
<1>1. /\ r.job[a].state \in JobState \cup {"NONE"}
      /\ r.job[b].state \in JobState \cup {"NONE"}
  BY DEF Draft, DraftJob
<1>2. \A s, t \in JobState \cup {"NONE"} :
        s \in {"PENDING", "FAILED"} /\ t \notin {"PENDING", "FAILED"}
          => StateRank(s) < StateRank(t) /\ ~ (StateRank(t) < StateRank(s))
  <2>1. /\ StateRank("PENDING") = 0 /\ StateRank("FAILED") = 1
        /\ StateRank("RUNNING") = 2 /\ StateRank("COMPLETED") = 3
        /\ StateRank("ERROR") = 4 /\ StateRank("NONE") = 5
    BY DEF StateRank
  <2>. QED  BY <2>1 DEF JobState
<1>3. PriorityRank(p) \in Nat /\ PriorityRank(q) \in Nat
  BY DEF PriorityRank
<1>4. CASE IsActive(r, a) /\ IsActive(r, b) /\ p # q
  <2>1. IsBetter(r, a, b) <=> PriorityRank(p) > PriorityRank(q)
    BY <1>4 DEF IsBetter
  <2>. QED  BY <1>3, <1>4, <2>1 DEF Level
<1>5. CASE IsActive(r, a) /\ IsActive(r, b) /\ p = q
  BY <1>3, <1>5 DEF Level
<1>6. CASE ~ (IsActive(r, a) /\ IsActive(r, b)) /\ p # q
  <2>1. IsActive(r, a) /\ ~ IsActive(r, b) => IsBetter(r, a, b)
    BY <1>6 DEF IsBetter
  <2>2. IsActive(r, b) /\ ~ IsActive(r, a) => ~ IsBetter(r, a, b)
    BY <1>6 DEF IsBetter
  <2>. QED  BY <1>6, <2>1, <2>2, LevelType
<1>7. CASE ~ (IsActive(r, a) /\ IsActive(r, b)) /\ p = q
  <2>1. IsActive(r, a) /\ ~ IsActive(r, b) => IsBetter(r, a, b)
    BY <1>1, <1>2, <1>7 DEF IsBetter, IsActive
  <2>2. IsActive(r, b) /\ ~ IsActive(r, a) => ~ IsBetter(r, a, b)
    BY <1>1, <1>2, <1>7 DEF IsBetter, IsActive
  <2>. QED  BY <1>7, <2>1, <2>2, LevelType
<1>. QED  BY <1>4, <1>5, <1>6, <1>7

\* It depends on the levels of the two only.
LEMMA SamePrecedes ==
  ASSUME NEW r, NEW t, NEW by, NEW X, \A x \in X : Level(t, by, x) = Level(r, by, x)
  PROVE  \A a, b \in X : <<a, b>> \in Precedes(t, by) => <<a, b>> \in Precedes(r, by)
BY DEF Precedes

LEMMA PrecedesSame ==
  ASSUME NEW r, NEW t, NEW by, t.job = r.job
  PROVE  Precedes(t, by) = Precedes(r, by)
<1>1. \A i : Level(t, by, i) = Level(r, by, i)
  BY DEF Level, IsActive
<1>. QED  BY <1>1 DEF Precedes

-----------------------------------------------------------------------------
(***************************************************************************)
(* The operations of the repository on the queue.                          *)
(***************************************************************************)
\* What changes neither the heap nor a level leaves the queue as it is.
LEMMA SameQueue ==
  ASSUME NEW r \in Draft, NEW t, NEW by, t.heap = r.heap,
         \A j \in Image : Level(t, by, j) = Level(r, by, j), NEW M, QueueIs(r, M, by)
  PROVE  QueueIs(t, M, by)
<1>1. r.heap \in Seq(Image) /\ Elements(r.heap) \subseteq Image
  BY DEF Draft, Elements, SX!ToSet
<1>2. HeapOrder(r.heap, Precedes(t, by))
  BY <1>1, SamePrecedes, OrderStays DEF QueueIs
<1>. QED  BY <1>2 DEF QueueIs

\* The jobs of the other photos are as they were, but for their timers.
OthersSame(r, t, i) ==
  \A j \in Image : j # i => t.job[j].state = r.job[j].state /\ t.job[j].priority = r.job[j].priority

\* Update after the job of photo i alone changed, whether the queue has it or not.
LEMMA UpdateJobQueue ==
  ASSUME NEW r \in Draft, NEW t \in Draft, NEW by, NEW i \in Image, t.heap = r.heap,
         OthersSame(r, t, i), NEW M, QueueIs(r, M, by)
  PROVE  QueueIs(UpdateJob(t, i), M, by)
<1>. DEFINE u == UpdateJob(t, i)
            h == UpdateById(t.heap, i, Better(t))
<1>1. u.heap = h /\ u.job = t.job
  BY UpdateJobType DEF UpdateJob, Draft
<1>2. Precedes(u, by) = Precedes(t, by)
  BY <1>1, PrecedesSame
<1>3. /\ t.heap \in Seq(Image) /\ Distinct(t.heap) /\ Elements(t.heap) = M
      /\ HeapOrder(t.heap, Precedes(r, by))
  BY DEF QueueIs, Draft
<1>4. h \in Seq(Image) /\ Permutes(h, t.heap)
  BY <1>3, UpdateByIdType
<1>5. \A x \in Image \ {i} : Level(t, by, x) = Level(r, by, x)
  BY LevelSame DEF OthersSame
<1>6. CASE i \in Elements(t.heap)
  <2>. DEFINE p == PositionOf(t.heap, i)
  <2>1. p \in 1 .. Len(t.heap) /\ t.heap[p] = i
    BY <1>3, <1>6, PositionType
  <2>2. Around(t.heap, Precedes(t, by), p)
    <3>. HIDE DEF p
    <3>1. \A a, b \in Image \ {i} : <<a, b>> \in Precedes(t, by) => <<a, b>> \in Precedes(r, by)
      BY <1>5, SamePrecedes
    <3>. QED  BY <1>3, <2>1, <3>1, PrecedesStrict, OrderAroundChanged
  <2>3. HeapOrder(h, Precedes(t, by))
    BY <1>3, <1>6, <2>2, PrecedesStrict, PrecedesAgrees, UpdateByIdOrder
  <2>. QED  BY <1>1, <1>2, <1>3, <1>4, <2>3 DEF QueueIs, Permutes
<1>7. CASE i \notin Elements(t.heap)
  <2>1. h = t.heap
    BY <1>7 DEF UpdateById
  <2>2. \A x \in Elements(t.heap) : Level(t, by, x) = Level(r, by, x)
    <3>1. Elements(t.heap) \subseteq Image
      BY <1>3 DEF Elements, SX!ToSet
    <3>. QED  BY <1>5, <1>7, <3>1
  <2>3. HeapOrder(t.heap, Precedes(t, by))
    BY <1>3, <2>2, SamePrecedes, OrderStays
  <2>. QED  BY <1>1, <1>2, <1>3, <2>1, <2>3 DEF QueueIs
<1>. QED  BY <1>6, <1>7

\* Entering a state restores the queue, whatever was done to the job before (t).
LEMMA ChangeStateToQueue ==
  ASSUME NEW r \in Draft, NEW t \in Draft, NEW by, NEW i \in Image, NEW s \in JobState,
         t.heap = r.heap, OthersSame(r, t, i),
         t.job[i].state = s => Level(t, by, i) = Level(r, by, i),
         NEW M, QueueIs(r, M, by)
  PROVE  QueueIs(ChangeStateTo(t, i, s), M, by)
<1>1. CASE t.job[i].state = s
  <2>1. \A j \in Image : Level(t, by, j) = Level(r, by, j)
    BY <1>1, LevelSame DEF OthersSame
  <2>. QED  BY <1>1, <2>1, SameQueue DEF ChangeStateTo
<1>2. CASE t.job[i].state # s
  <2>. DEFINE jobs == [t.job EXCEPT ![i].state = s]
              now == IF s = "RUNNING" THEN t.running \cup {i} ELSE t.running \ {i}
              x == [t EXCEPT !.job = jobs, !.running = now]
  <2>1. jobs \in [Image -> DraftJob]
        /\ \A j \in Image : j # i => jobs[j] = t.job[j]
    <3>1. t.job \in [Image -> DraftJob]
      BY DEF Draft
    <3>2. [t.job[i] EXCEPT !.state = s] \in DraftJob
      BY <3>1 DEF DraftJob
    <3>3. jobs = [t.job EXCEPT ![i] = [t.job[i] EXCEPT !.state = s]]
      BY <3>1
    <3>. QED  BY <3>1, <3>2, <3>3
  <2>2. now \in SUBSET Image
    BY DEF Draft
  <2>3. [t EXCEPT !.job[i].state = s,
                  !.running = IF s = "RUNNING" THEN @ \cup {i} ELSE @ \ {i}] = x
    BY DEF Draft
  <2>4. x \in Draft /\ x.job = jobs /\ x.heap = t.heap
    <3>. HIDE DEF jobs, now
    <3>. QED  BY <2>1, <2>2 DEF Draft
  <2>5. ChangeStateTo(t, i, s) = UpdateJob(x, i)
    BY <1>2, <2>3 DEF ChangeStateTo
  <2>. HIDE DEF x, jobs
  <2>6. OthersSame(r, x, i)
    BY <2>1, <2>4 DEF OthersSame
  <2>. QED  BY <2>4, <2>5, <2>6, UpdateJobQueue
<1>. QED  BY <1>1, <1>2

\* What setting a timer or a priority leaves alone.
LEMMA ResetTimerParts ==
  ASSUME NEW r, RepoInv(r), NEW i \in Image
  PROVE  LET t == ResetTimer(r, i)
         IN  /\ t \in Draft /\ RepoInv(t) /\ t.heap = r.heap
             /\ \A j \in Image : t.job[j].state = r.job[j].state /\ t.job[j].priority = r.job[j].priority
<1>. DEFINE t == ResetTimer(r, i)
<1>1. RepoInv(t) /\ t \in Draft
  BY ResetTimerStates, RepositoryIsDraft DEF RepoInv
<1>2. r.job \in [Image -> DraftJob] /\ r \in Draft
  BY RepositoryIsDraft DEF RepoInv, Draft
<1>3. t.heap = r.heap /\ t.job = [r.job EXCEPT ![i].timer = FALSE]
  BY <1>2 DEF ResetTimer, Draft
<1>. HIDE DEF t
<1>4. \A j \in Image : t.job[j].state = r.job[j].state /\ t.job[j].priority = r.job[j].priority
  BY <1>2, <1>3 DEF DraftJob
<1>. QED  BY <1>1, <1>3, <1>4 DEF t

LEMMA SetJobPriorityParts ==
  ASSUME NEW r, RepoInv(r), NEW i \in Image, NEW p \in JobPriority
  PROVE  LET t == SetJobPriority(r, i, p)
         IN  /\ t \in Draft /\ t.heap = r.heap /\ OthersSame(r, t, i)
             /\ t.job[i].state = r.job[i].state /\ t.job[i].priority = p
<1>. DEFINE timed == IF p = "HIGH" THEN UpdateTime(r, i) ELSE r
            t == SetJobPriority(r, i, p)
<1>1. r \in Draft /\ r.job \in [Image -> DraftJob]
  BY RepositoryIsDraft DEF RepoInv, Draft
<1>2. timed \in Draft /\ timed.heap = r.heap
  BY <1>1, UpdateTimeType
<1>3. t \in Draft /\ t.job = [r.job EXCEPT ![i].priority = p]
  BY <1>1, SetJobPriorityType
<1>. HIDE DEF timed
<1>4. [timed EXCEPT !.job[i].priority = p].heap = timed.heap
  BY <1>2 DEF Draft
<1>5. t.heap = r.heap
  BY <1>2, <1>4 DEF SetJobPriority, timed
<1>. HIDE DEF t
<1>6. /\ OthersSame(r, t, i)
      /\ t.job[i].state = r.job[i].state /\ t.job[i].priority = p
  BY <1>1, <1>3 DEF OthersSame, DraftJob
<1>. QED  BY <1>3, <1>5, <1>6 DEF t

LEMMA ResetTimerQueue ==
  ASSUME NEW r, RepoInv(r), NEW by, NEW i \in Image, NEW M, QueueIs(r, M, by)
  PROVE  QueueIs(ResetTimer(r, i), M, by)
<1>. DEFINE t == ResetTimer(r, i)
<1>1. r \in Draft
  BY RepositoryIsDraft DEF RepoInv
<1>2. t.heap = r.heap /\ \A j \in Image : t.job[j].state = r.job[j].state /\ t.job[j].priority = r.job[j].priority
  BY ResetTimerParts
<1>. HIDE DEF t
<1>3. \A j \in Image : Level(t, by, j) = Level(r, by, j)
  BY <1>2, LevelSame
<1>4. QueueIs(t, M, by)
  BY <1>1, <1>2, <1>3, SameQueue
<1>. QED  BY <1>4 DEF t

\* A change of priority and the Update that follows it.
LEMMA PriorityQueue ==
  ASSUME NEW r, RepoInv(r), NEW by, NEW i \in Image, NEW p \in JobPriority,
         NEW M, QueueIs(r, M, by)
  PROVE  QueueIs(UpdateJob(SetJobPriority(r, i, p), i), M, by)
<1>. DEFINE t == SetJobPriority(r, i, p)
<1>1. t \in Draft /\ t.heap = r.heap /\ OthersSame(r, t, i)
  BY SetJobPriorityParts
<1>. HIDE DEF t
<1>2. r \in Draft
  BY RepositoryIsDraft DEF RepoInv
<1>3. QueueIs(UpdateJob(t, i), M, by)
  BY <1>1, <1>2, UpdateJobQueue
<1>. QED  BY <1>3 DEF t

\* A failure lowers the priority; of a job that has failed already no state is
\* entered, and nothing tells the queue.
Unnoticed(r, i) == r.job[i].state = "FAILED" /\ r.job[i].priority # "NORMAL"

\* Whatever a photo's answer makes of its job, the queue holds the same photos in order.
LEMMA JobQueue ==
  ASSUME NEW r, RepoInv(r), NEW by, NEW i \in Image, Present(r, i), NEW M, QueueIs(r, M, by)
  PROVE  /\ QueueIs(Prepare(r, i), M, by)
         /\ QueueIs(Complete(r, i), M, by)
         /\ (by = "priority" => ~ Unnoticed(r, i)) => QueueIs(Fail(r, i), M, by)
         /\ QueueIs(SetError(r, i), M, by)
<1>. DEFINE timer == ResetTimer(r, i)
            normal == SetJobPriority(r, i, "NORMAL")
            reset == ResetTimer(normal, i)
<1>1. r \in Draft
  BY RepositoryIsDraft DEF RepoInv
<1>2. /\ timer \in Draft /\ timer.heap = r.heap /\ OthersSame(r, timer, i)
      /\ Level(timer, by, i) = Level(r, by, i)
  BY ResetTimerParts, LevelSame DEF OthersSame
<1>3. /\ RepoInv(normal) /\ normal.heap = r.heap /\ OthersSame(r, normal, i)
      /\ normal.job[i].state = r.job[i].state /\ normal.job[i].priority = "NORMAL"
  BY SetJobPriorityInv, SetJobPriorityParts DEF JobPriority
<1>. HIDE DEF normal, timer
<1>4. /\ reset \in Draft /\ reset.heap = r.heap /\ OthersSame(r, reset, i)
      /\ reset.job[i].state = r.job[i].state /\ reset.job[i].priority = "NORMAL"
  BY <1>3, ResetTimerParts DEF OthersSame
<1>. HIDE DEF reset
<1>5. /\ "PENDING" \in JobState /\ "COMPLETED" \in JobState
      /\ "FAILED" \in JobState /\ "ERROR" \in JobState
  BY DEF JobState
<1>6. QueueIs(Prepare(r, i), M, by)
  BY <1>1, <1>5, ChangeStateToQueue DEF Prepare, OthersSame
<1>7. QueueIs(ChangeStateTo(timer, i, "COMPLETED"), M, by)
  BY <1>1, <1>2, <1>5, ChangeStateToQueue
<1>8. ASSUME by = "priority" => ~ Unnoticed(r, i)
      PROVE  QueueIs(ChangeStateTo(reset, i, "FAILED"), M, by)
  <2>1. reset.job[i].state = "FAILED" => Level(reset, by, i) = Level(r, by, i)
    BY <1>4, <1>8 DEF Unnoticed, Level, IsActive
  <2>. QED  BY <1>1, <1>4, <1>5, <2>1, ChangeStateToQueue
<1>9. QueueIs(ChangeStateTo(reset, i, "ERROR"), M, by)
  <2>1. reset.job[i].state = "ERROR" => Level(reset, by, i) = Level(r, by, i)
    BY <1>4 DEF Level, IsActive
  <2>. QED  BY <1>1, <1>4, <1>5, <2>1, ChangeStateToQueue
<1>. QED  BY <1>6, <1>7, <1>8, <1>9 DEF Complete, Fail, SetError, timer, reset, normal

\* A photo that starts keeps its priority, and the others are as they were.
LEMMA StartQueue ==
  ASSUME NEW r, RepoInv(r), NEW i \in Image
  PROVE  /\ \A j \in Image : Start(r, i).job[j].priority = r.job[j].priority
         /\ \A M, by : QueueIs(r, M, by) => QueueIs(Start(r, i), M, by)
<1>. DEFINE jobs == [r.job EXCEPT ![i].timer = TRUE]
            t == [r EXCEPT !.job = jobs]
            s == [t.job EXCEPT ![i].state = "RUNNING"]
<1>1. r \in Draft /\ "RUNNING" \in JobState
  BY RepositoryIsDraft DEF RepoInv, JobState
<1>2. jobs \in [Image -> DraftJob] /\ [r EXCEPT !.job[i].timer = TRUE] = t
  BY <1>1 DEF Draft, DraftJob
<1>3. \A j \in Image : jobs[j].state = r.job[j].state /\ jobs[j].priority = r.job[j].priority
  BY <1>1 DEF Draft, DraftJob
<1>. HIDE DEF jobs
<1>4. t \in Draft /\ t.job = jobs /\ t.heap = r.heap
  BY <1>1, <1>2 DEF Draft
<1>. HIDE DEF t
<1>5. Start(r, i) = ChangeStateTo(t, i, "RUNNING")
  BY <1>2 DEF Start
<1>6. \A M, by : QueueIs(r, M, by) => QueueIs(ChangeStateTo(t, i, "RUNNING"), M, by)
  <2>1. OthersSame(r, t, i) /\ \A by : Level(t, by, i) = Level(r, by, i)
    BY <1>3, <1>4, LevelSame DEF OthersSame
  <2>. QED  BY <1>1, <1>4, <2>1, ChangeStateToQueue
<1>7. \A j \in Image : ChangeStateTo(t, i, "RUNNING").job[j].priority = t.job[j].priority
  <2>1. CASE t.job[i].state = "RUNNING"
    BY <2>1 DEF ChangeStateTo
  <2>2. CASE t.job[i].state # "RUNNING"
    <3>. DEFINE x == [t EXCEPT !.job = s, !.running = t.running \cup {i}]
    <3>1. s \in [Image -> DraftJob] /\ \A j \in Image : s[j].priority = t.job[j].priority
      BY <1>1, <1>4 DEF Draft, DraftJob
    <3>2. [t EXCEPT !.job[i].state = "RUNNING",
                    !.running = IF "RUNNING" = "RUNNING" THEN @ \cup {i} ELSE @ \ {i}] = x
      BY <1>4 DEF Draft
    <3>3. t.running \cup {i} \in SUBSET Image
      BY <1>4 DEF Draft
    <3>. HIDE DEF s
    <3>4. x \in Draft /\ x.job = s
      BY <1>4, <3>1, <3>3 DEF Draft
    <3>5. ChangeStateTo(t, i, "RUNNING") = UpdateJob(x, i)
      BY <2>2, <3>2 DEF ChangeStateTo
    <3>. HIDE DEF x
    <3>. QED  BY <3>1, <3>4, <3>5, UpdateJobType
  <2>. QED  BY <2>1, <2>2
<1>. QED  BY <1>3, <1>4, <1>5, <1>6, <1>7

\* Update(job) of a job that is not in the heap sinks the root, which is in its place.
LEMMA LowerPriorityQueue ==
  ASSUME NEW r, RepoInv(r), NEW by, NEW i \in Image, Present(r, i),
         NEW M, i \in Background => i \notin M, QueueIs(r, M, by)
  PROVE  QueueIs(LowerPriority(r, i), M, by)
<1>. DEFINE lowered == SetJobPriority(r, i, "LOW")
            h == Heapify(lowered.heap, 1, Better(lowered))
<1>1. "LOW" \in JobPriority /\ r \in Draft /\ r.heap \in Seq(Image) /\ Elements(r.heap) = M
  BY RepositoryIsDraft DEF RepoInv, JobPriority, Draft, QueueIs
<1>2. QueueIs(UpdateJob(lowered, i), M, by)
  BY <1>1, PriorityQueue
<1>3. lowered \in Draft /\ lowered.heap = r.heap /\ OthersSame(r, lowered, i)
  BY <1>1, SetJobPriorityParts
<1>. HIDE DEF lowered
<1>4. ASSUME i \in Background
      PROVE  QueueIs(UpdateRoot(lowered), M, by)
  <2>1. HeapOrder(lowered.heap, Precedes(lowered, by))
    <3>1. Elements(r.heap) \subseteq Image \ {i}
      BY <1>1, <1>4 DEF Elements, SX!ToSet
    <3>2. \A x \in Elements(r.heap) : Level(lowered, by, x) = Level(r, by, x)
      BY <1>3, <3>1, LevelSame DEF OthersSame
    <3>3. HeapOrder(r.heap, Precedes(r, by))
      BY DEF QueueIs
    <3>. QED  BY <1>1, <1>3, <3>2, <3>3, SamePrecedes, OrderStays
  <2>2. h \in Seq(Image) /\ Permutes(h, lowered.heap)
    BY <1>1, <1>3, HeapifyPermutes
  <2>3. HeapOrder(h, Precedes(lowered, by))
    <3>1. CASE lowered.heap = <<>>
      BY <2>2, <3>1 DEF Permutes, HeapOrder
    <3>2. CASE lowered.heap # <<>>
      <4>1. 1 \in 1 .. Len(lowered.heap)
        BY <1>1, <1>3, <3>2
      <4>2. Around(lowered.heap, Precedes(lowered, by), 1) /\ Above(lowered.heap, Precedes(lowered, by), 1)
        BY <1>1, <1>3, <2>1, <4>1, PrecedesStrict, OrderHolds
      <4>. QED  BY <1>1, <1>3, <4>1, <4>2, PrecedesStrict, PrecedesAgrees, HeapifyOrder
    <3>. QED  BY <3>1, <3>2
  <2>4. UpdateRoot(lowered).heap = h /\ UpdateRoot(lowered).job = lowered.job
    BY <1>3, UpdateRootType DEF UpdateRoot, Draft
  <2>5. Precedes(UpdateRoot(lowered), by) = Precedes(lowered, by)
    BY <2>4, PrecedesSame
  <2>. QED  BY <1>1, <1>3, <2>2, <2>3, <2>4, <2>5 DEF QueueIs, Permutes
<1>. QED  BY <1>2, <1>4 DEF LowerPriority, lowered

\* A new photo enters the queue before it waits, unless it is of background type.
LEMMA AddDeferredJobQueue ==
  ASSUME NEW r, RepoInv(r), NEW by, NEW i \in Image, ~ Present(r, i),
         NEW M, i \notin M, QueueIs(r, M, by)
  PROVE  QueueIs(AddDeferredJob(r, i), IF i \in Background THEN M ELSE M \cup {i}, by)
<1>. DEFINE new == [state |-> "NONE", priority |-> IF i \in Background THEN "HIGH" ELSE "NORMAL",
                    timer |-> FALSE]
            jobs == [r.job EXCEPT ![i] = new]
            t == [r EXCEPT !.job = jobs]
            created == UpdateTime(t, i)
            h == Push(created.heap, i, Better(created))
            pushed == PushJob(created, i)
<1>1. r \in Draft /\ "PENDING" \in JobState
  BY RepositoryIsDraft DEF RepoInv, JobState
<1>2. new \in DraftJob /\ new.state = "NONE" /\ [r EXCEPT !.job[i] = new] = t
  BY <1>1 DEF Draft, DraftJob, JobPriority
<1>3. AddDeferredJob(r, i) = IF i \in Background THEN Prepare(created, i) ELSE Prepare(pushed, i)
  BY <1>2 DEF AddDeferredJob
<1>. HIDE DEF new
<1>4. /\ t \in Draft /\ t.heap = r.heap /\ t.job[i].state = "NONE"
      /\ \A j \in Image : j # i => t.job[j] = r.job[j]
  BY <1>1, <1>2 DEF Draft
<1>. HIDE DEF t
<1>5. created \in Draft /\ created.job = t.job /\ created.heap = r.heap
  BY <1>4, UpdateTimeType
<1>. HIDE DEF created
<1>6. \A j \in Image : Level(created, by, j) = Level(r, by, j)
  <2>1. Level(created, by, i) = Level(r, by, i)
    BY <1>4, <1>5 DEF Level, IsActive, Present
  <2>2. \A j \in Image : j # i => Level(created, by, j) = Level(r, by, j)
    BY <1>4, <1>5, LevelSame
  <2>. QED  BY <2>1, <2>2
<1>7. QueueIs(created, M, by) /\ created.heap \in Seq(Image)
  BY <1>1, <1>5, <1>6, SameQueue DEF Draft
<1>8. /\ h \in Seq(Image)
      /\ Elements(h) = M \cup {i} /\ Distinct(h)
  BY <1>7, PushType DEF QueueIs
<1>9. HeapOrder(h, Precedes(created, by))
  BY <1>5, <1>7, PrecedesStrict, PrecedesAgrees, PushOrder DEF QueueIs
<1>10. pushed \in Draft /\ pushed.job = created.job /\ pushed.heap = h
  BY <1>5, PushJobType DEF PushJob, Draft
<1>. HIDE DEF h, pushed
<1>11. Precedes(pushed, by) = Precedes(created, by)
  BY <1>10, PrecedesSame
<1>12. QueueIs(pushed, M \cup {i}, by)
  BY <1>8, <1>9, <1>10, <1>11 DEF QueueIs
<1>13. QueueIs(Prepare(created, i), M, by) /\ QueueIs(Prepare(pushed, i), M \cup {i}, by)
  BY <1>1, <1>5, <1>7, <1>10, <1>12, ChangeStateToQueue DEF Prepare, OthersSame
<1>. QED  BY <1>3, <1>13

\* A photo of background type is in the queue neither before nor after.
LEMMA DeleteJobQueue ==
  ASSUME NEW r, RepoInv(r), NEW by, NEW i \in Image, NEW M, i \in Background => i \notin M,
         QueueIs(r, M, by)
  PROVE  QueueIs(DeleteJob(r, i), M \ {i}, by)
<1>. DEFINE taken == IF i \in Background THEN r ELSE RemoveJob(r, i)
            h == Remove(r.heap, i, Better(r))
            jobs == [taken.job EXCEPT ![i] = NoJob]
            b == Forget(r, i)
            d == DeleteJob(r, i)
<1>1. r \in Draft /\ r.heap \in Seq(Image)
  BY RepositoryIsDraft DEF RepoInv, Draft
<1>2. /\ h \in Seq(Image) /\ Distinct(h) /\ Elements(h) = M \ {i}
      /\ HeapOrder(h, Precedes(r, by))
  BY <1>1, PrecedesStrict, PrecedesAgrees, RemoveType DEF QueueIs
<1>3. RemoveJob(r, i).heap = h
  BY <1>1 DEF RemoveJob, Draft
<1>4. /\ taken \in Draft /\ taken.job = r.job /\ taken.heap \in Seq(Image)
      /\ Distinct(taken.heap) /\ Elements(taken.heap) = M \ {i}
      /\ HeapOrder(taken.heap, Precedes(r, by))
  BY <1>1, <1>2, <1>3, RemoveJobType DEF QueueIs
<1>. HIDE DEF taken, h
<1>5. d = [taken EXCEPT !.job = jobs, !.running = taken.running \ {i}, !.before = b]
  BY <1>4 DEF DeleteJob, taken, Draft
<1>6. \A j \in Image : j # i => jobs[j] = r.job[j]
  BY <1>1, <1>4 DEF Draft
<1>. HIDE DEF jobs, b
<1>7. d.heap = taken.heap /\ d.job = jobs
  BY <1>4, <1>5 DEF Draft
<1>. HIDE DEF d
<1>8. \A x \in Elements(taken.heap) : Level(d, by, x) = Level(r, by, x)
  <2>1. Elements(taken.heap) \subseteq Image \ {i}
    BY <1>4 DEF Elements, SX!ToSet
  <2>. QED  BY <1>6, <1>7, <2>1, LevelSame
<1>9. HeapOrder(taken.heap, Precedes(d, by))
  BY <1>4, <1>8, SamePrecedes, OrderStays
<1>. QED  BY <1>4, <1>7, <1>9 DEF QueueIs, d

-----------------------------------------------------------------------------
(***************************************************************************)
(* The queue agrees with the jobs after every operation, and only the      *)
(* scheduler starts one.                                                   *)
(***************************************************************************)
NoStart(r, t) == \A j \in Image : t.job[j].state = "RUNNING" => r.job[j].state = "RUNNING"

Tidy(r, t, by) == QueueOK(t, by) /\ NoStart(r, t)

LEMMA TidyChain ==
  ASSUME NEW r, NEW s, NEW t, NEW by, NoStart(r, s), Tidy(s, t, by)
  PROVE  Tidy(r, t, by)
BY DEF Tidy, NoStart

\* When no photo comes or goes, the queue is to hold the same.
LEMMA EnteredTidy ==
  ASSUME NEW r, NEW t, NEW by, NEW i \in Image, NEW s \in JobState, Present(r, i),
         Enters(r, t, i, s), QueueIs(t, Queued(r), by)
  PROVE  /\ QueueOK(t, by)
         /\ s # "RUNNING" => Tidy(r, t, by)
<1>1. \A j \in Image : Present(t, j) <=> Present(r, j)
  BY DEF Enters, Present, JobState
<1>2. Queued(t) = Queued(r)
  BY <1>1 DEF Queued
<1>3. s # "RUNNING" => NoStart(r, t)
  BY DEF NoStart, Enters
<1>. QED  BY <1>2, <1>3 DEF QueueOK, Tidy

LEMMA SameTidy ==
  ASSUME NEW r, NEW t, NEW by, SameStates(r, t), QueueIs(t, Queued(r), by)
  PROVE  Tidy(r, t, by)
<1>1. Queued(t) = Queued(r)
  BY DEF SameStates, Queued, Present
<1>2. NoStart(r, t)
  BY DEF NoStart, SameStates
<1>. QED  BY <1>1, <1>2 DEF QueueOK, Tidy

LEMMA OperationsQueue ==
  ASSUME NEW r, RepoInv(r), NEW by, NEW i \in Image, QueueOK(r, by)
  PROVE  /\ Present(r, i) => /\ Tidy(r, Prepare(r, i), by) /\ Tidy(r, Complete(r, i), by)
                             /\ (by = "priority" => ~ Unnoticed(r, i)) => Tidy(r, Fail(r, i), by)
                             /\ Tidy(r, SetError(r, i), by)
                             /\ QueueOK(Start(r, i), by)
                             /\ Tidy(r, LowerPriority(r, i), by)
         /\ \A p \in JobPriority : Tidy(r, UpdateJob(SetJobPriority(r, i, p), i), by)
         /\ Tidy(r, ResetTimer(r, i), by)
         /\ Tidy(r, UpdateJob(r, i), by)
         /\ Tidy(r, AddDeferredJob(r, i), by)
         /\ Tidy(r, DeleteJob(r, i), by)
<1>. DEFINE M == Queued(r)
<1>1. QueueIs(r, M, by) /\ r \in Draft
  BY RepositoryIsDraft DEF QueueOK, RepoInv
<1>2. /\ i \in Background => i \notin M
      /\ ~ Present(r, i) => i \notin M
  BY DEF Queued
<1>3. Present(r, i) => /\ Tidy(r, Prepare(r, i), by) /\ Tidy(r, Complete(r, i), by)
                       /\ (by = "priority" => ~ Unnoticed(r, i)) => Tidy(r, Fail(r, i), by)
                       /\ Tidy(r, SetError(r, i), by)
  <2>. HIDE DEF M
  <2>1. /\ "PENDING" \in JobState /\ "COMPLETED" \in JobState
        /\ "FAILED" \in JobState /\ "ERROR" \in JobState
    BY DEF JobState
  <2>. QED  BY <1>1, <2>1, JobStates, JobQueue, EnteredTidy DEF M
<1>4. Present(r, i) => QueueOK(Start(r, i), by)
  <2>1. "RUNNING" \in JobState
    BY DEF JobState
  <2>. QED  BY <1>1, <2>1, StartStates, StartQueue, EnteredTidy
<1>5. Present(r, i) => Tidy(r, LowerPriority(r, i), by)
  BY <1>1, <1>2, LowerPriorityStates, LowerPriorityQueue, SameTidy
<1>6. ASSUME NEW p \in JobPriority
      PROVE  Tidy(r, UpdateJob(SetJobPriority(r, i, p), i), by)
  <2>. DEFINE t == SetJobPriority(r, i, p)
  <2>1. SameStates(r, t) /\ t \in Draft
    BY SetJobPriorityStates, SetJobPriorityParts
  <2>2. QueueIs(UpdateJob(t, i), M, by)
    BY <1>1, PriorityQueue
  <2>. HIDE DEF t
  <2>3. SameStates(r, UpdateJob(t, i))
    BY <2>1, UpdateJobType DEF SameStates
  <2>4. Tidy(r, UpdateJob(t, i), by)
    BY <2>2, <2>3, SameTidy
  <2>. QED  BY <2>4 DEF t
<1>7. Tidy(r, ResetTimer(r, i), by)
  BY <1>1, ResetTimerStates, ResetTimerQueue, SameTidy
<1>8. Tidy(r, UpdateJob(r, i), by)
  <2>1. SameStates(r, UpdateJob(r, i))
    BY <1>1, UpdateJobType DEF SameStates
  <2>2. OthersSame(r, r, i)
    BY DEF OthersSame
  <2>. QED  BY <1>1, <2>1, <2>2, UpdateJobQueue, SameTidy
<1>9. Tidy(r, AddDeferredJob(r, i), by)
  <2>1. CASE Present(r, i)
    BY <2>1 DEF AddDeferredJob, Tidy, NoStart
  <2>2. CASE ~ Present(r, i)
    <3>1. Enters(r, AddDeferredJob(r, i), i, "PENDING")
      BY <2>2, AddDeferredJobStates
    <3>2. Queued(AddDeferredJob(r, i)) = IF i \in Background THEN M ELSE M \cup {i}
      BY <3>1 DEF Enters, Queued, Present
    <3>3. NoStart(r, AddDeferredJob(r, i))
      BY <3>1 DEF Enters, NoStart
    <3>. QED  BY <1>1, <1>2, <2>2, <3>2, <3>3, AddDeferredJobQueue DEF QueueOK, Tidy
  <2>. QED  BY <2>1, <2>2
<1>10. Tidy(r, DeleteJob(r, i), by)
  <2>1. Enters(r, DeleteJob(r, i), i, "NONE")
    BY DeleteJobStates
  <2>2. Queued(DeleteJob(r, i)) = M \ {i}
    BY <2>1 DEF Enters, Queued, Present
  <2>3. NoStart(r, DeleteJob(r, i))
    BY <2>1 DEF Enters, NoStart
  <2>. QED  BY <1>1, <1>2, <2>2, <2>3, DeleteJobQueue DEF QueueOK, Tidy
<1>. QED  BY <1>3, <1>4, <1>5, <1>6, <1>7, <1>8, <1>9, <1>10

-----------------------------------------------------------------------------
(***************************************************************************)
(* The scheduler, and the state m a handler works on.                      *)
(***************************************************************************)
\* Of the repository r the scheduler starts the root of the queue, if that waits.
Picks(r) ==
  \/ repo' = r
  \/ \E i \in Image : /\ r.heap # <<>> /\ i = r.heap[1] /\ IsActive(r, i)
                      /\ repo' = Start(r, i)

\* What a handler comes to: it leaves a queue in order, to the scheduler or as it is.
Served(by) == \E r \in Repository : RepoInv(r) /\ Tidy(repo, r, by) /\ Picks(r)

LEMMA ServedAs ==
  ASSUME NEW r, NEW by, RepoInv(r), Tidy(repo, r, by), repo' = r
  PROVE  Served(by)
BY DEF Served, Picks, RepoInv

LEMMA ServedQueue ==
  ASSUME NEW by, Served(by)
  PROVE  QueueOK(repo', by)
<1>1. PICK r \in Repository : RepoInv(r) /\ Tidy(repo, r, by) /\ Picks(r)
  BY DEF Served
<1>2. QueueOK(r, by)
  BY <1>1 DEF Tidy
<1>3. CASE repo' = r
  BY <1>2, <1>3
<1>4. ASSUME NEW i \in Image, IsActive(r, i), repo' = Start(r, i)
      PROVE  QueueOK(repo', by)
  <2>1. Present(r, i)
    BY <1>4 DEF IsActive, Present
  <2>. QED  BY <1>1, <1>2, <1>4, <2>1, OperationsQueue
<1>. QED  BY <1>1, <1>3, <1>4 DEF Picks

\* When the queue is in the order of the priorities, the root is the first in it.
LEMMA ServedInOrder ==
  ASSUME Served("priority"), NEW i \in Image \ Background, Starts(i),
         NEW j \in Image \ Background, IsActive(repo', j)
  PROVE  PriorityRank(repo'.job[j].priority) <= PriorityRank(repo'.job[i].priority)
<1>. DEFINE by == "priority"
<1>1. PICK r \in Repository : RepoInv(r) /\ Tidy(repo, r, by) /\ Picks(r)
  BY DEF Served
<1>2. r.job[i].state # "RUNNING"
  BY <1>1 DEF Starts, Tidy, NoStart
<1>3. PICK k \in Image : r.heap # <<>> /\ k = r.heap[1] /\ IsActive(r, k) /\ repo' = Start(r, k)
  BY <1>1, <1>2 DEF Picks, Starts
<1>4. Enters(r, repo', k, "RUNNING") /\ \A x \in Image : repo'.job[x].priority = r.job[x].priority
  BY <1>1, <1>3, StartStates, StartQueue
<1>5. i = k
  BY <1>2, <1>4 DEF Enters, Starts
<1>6. j # k /\ IsActive(r, j)
  BY <1>4 DEF Enters, IsActive
<1>7. r.heap \in Seq(Image) /\ HeapOrder(r.heap, Precedes(r, by)) /\ Elements(r.heap) = Queued(r)
  BY <1>1 DEF Tidy, QueueOK, QueueIs, Repository
<1>8. PICK n \in 1 .. Len(r.heap) : r.heap[n] = j
  <2>1. j \in Elements(r.heap)
    BY <1>6, <1>7 DEF Queued, IsActive, Present
  <2>. QED  BY <2>1 DEF Elements, SX!ToSet
<1>9. <<j, k>> \notin Precedes(r, by)
  BY <1>3, <1>7, <1>8, PrecedesStrict, RootIsBest
<1>10. ~ (Level(r, by, j) > Level(r, by, k))
  BY <1>9 DEF Precedes
<1>11. /\ Level(r, by, j) = 1 + PriorityRank(r.job[j].priority)
       /\ Level(r, by, k) = 1 + PriorityRank(r.job[k].priority)
  BY <1>3, <1>6, LevelType
<1>12. PriorityRank(r.job[j].priority) \in Nat /\ PriorityRank(r.job[k].priority) \in Nat
  BY DEF PriorityRank
<1>13. PriorityRank(r.job[j].priority) <= PriorityRank(r.job[k].priority)
  BY <1>10, <1>11, <1>12
<1>. QED  BY <1>4, <1>5, <1>13

\* Starting a photo changes the repository by Start alone.
LEMMA DoProcessRepo ==
  ASSUME NEW m, MidInv(m), NEW i \in Image
  PROVE  DoProcess(m, i).repo = Start(m.repo, i)
<1>. DEFINE r == Start(m.repo, i)
            high == m.result.high \ {i}
            n == [m EXCEPT !.repo = r, !.result.high = high]
            p == PostProcess(n, i)
<1>1. DoProcess(m, i) = p
  BY DEF DoProcess, MidInv, MidState, Result
<1>. HIDE DEF r, high
<1>2. /\ n.repo = r /\ n.hal = m.hal
      /\ n \in [repo : {r}, result : {n.result}, hal : PostProcessor, ive : Ive,
                strategy : Strategy, cmds : Seq(Command)]
  BY DEF MidInv, MidState, Result
<1>3. n.hal.session \in {"null", "dead", "live"}
  BY <1>2 DEF MidInv, MidState, PostProcessor, SessionState
<1>. HIDE DEF n
<1>4. p.repo = n.repo
  BY <1>2, <1>3 DEF PostProcess, Send
<1>. HIDE DEF p
<1>. QED  BY <1>1, <1>2, <1>4 DEF r

LEMMA TryDoScheduleQueue ==
  ASSUME NEW m, MidInv(m), NEW by, Tidy(repo, m.repo, by), TryDoSchedule(m)
  PROVE  Served(by)
<1>1. m.repo \in Repository /\ RepoInv(m.repo)
  BY MidRepo DEF RepoInv
<1>2. CASE Become(m)
  BY <1>1, <1>2, ServedAs DEF Become
<1>3. CASE \E i \in Image : CanProcess(m, i) /\ Become(DoProcess(m, i))
  <2>1. PICK i \in Image : CanProcess(m, i) /\ Become(DoProcess(m, i))
    BY <1>3
  <2>2. repo' = Start(m.repo, i)
    BY <2>1, DoProcessRepo DEF Become
  <2>3. Picks(m.repo)
    BY <2>1, <2>2 DEF Picks, CanProcess
  <2>. QED  BY <1>1, <2>3 DEF Served
<1>. QED  BY <1>2, <1>3 DEF TryDoSchedule

LEMMA EventChangedQueue ==
  ASSUME NEW m, MidInv(m), NEW by, Tidy(repo, m.repo, by), NEW e \in Event, EventChanged(m, e),
         EventsOK
  PROVE  Served(by)
<1>1. PICK left \in BOOLEAN :
        LET st == HandleEventChanged(m.strategy, e, events.needTrailing, left)
            changed == [m EXCEPT !.strategy = st]
        IN  Become(changed) \/ Become(Interrupt(changed)) \/ TryDoSchedule(changed)
  BY DEF EventChanged
<1>. DEFINE st == HandleEventChanged(m.strategy, e, events.needTrailing, left)
            changed == [m EXCEPT !.strategy = st]
<1>2. st \in Strategy
  BY HandleEventChangedType DEF EventsOK, MidInv, MidState
<1>. HIDE DEF st
<1>3. MidInv(changed) /\ changed.repo = m.repo
  BY <1>2, NewStrategy
<1>. HIDE DEF changed
<1>4. Interrupt(changed).repo = m.repo /\ RepoInv(m.repo)
  BY <1>3, InterruptInv, MidRepo
<1>5. CASE Become(changed) \/ Become(Interrupt(changed))
  BY <1>3, <1>4, <1>5, ServedAs DEF Become
<1>6. CASE TryDoSchedule(changed)
  BY <1>3, <1>6, TryDoScheduleQueue
<1>. QED  BY <1>1, <1>5, <1>6 DEF st, changed

LEMMA DeRecordResultQueue ==
  ASSUME NEW m, MidInv(m), NEW by, Tidy(repo, m.repo, by), NEW i \in Image,
         DeRecordResult(m, i), EventsOK
  PROVE  Served(by)
<1>. DEFINE taken == TakeResult(m, i)
            n == [taken EXCEPT !.result.bp = "Null"]
<1>1. MidInv(taken) /\ taken.repo = m.repo /\ RepoInv(m.repo)
  BY TakeResultInv, MidRepo
<1>. HIDE DEF taken
<1>2. MidInv(n) /\ n.repo = m.repo
  BY <1>1, SetBpInv
<1>3. CacheEvent("NO_CACHE") \in Event
  BY DEF CacheEvent, Event, CacheStatus
<1>4. CASE EventChanged(n, CacheEvent("NO_CACHE"))
  <2>. HIDE DEF n
  <2>. QED  BY <1>2, <1>3, <1>4, EventChangedQueue
<1>5. CASE Become(taken)
  BY <1>1, <1>5, ServedAs DEF Become
<1>. QED  BY <1>4, <1>5 DEF DeRecordResult, taken, n

LEMMA StopTimerQueue ==
  ASSUME NEW m, MidInv(m), NEW by, QueueOK(m.repo, by), NEW i \in Image
  PROVE  LET n == StopTimer(m, i)
         IN  /\ MidInv(n) /\ Tidy(m.repo, n.repo, by)
             /\ \A j \in Image : Present(n.repo, j) <=> Present(m.repo, j)
             /\ n.repo = ResetTimer(m.repo, i)
<1>1. StopTimer(m, i).repo = ResetTimer(m.repo, i)
  BY DEF StopTimer, MidInv, MidState
<1>. QED  BY <1>1, StopTimerInv, MidRepo, OperationsQueue

-----------------------------------------------------------------------------
(***************************************************************************)
(* The handlers.                                                           *)
(***************************************************************************)
\* What every handler starts from.
LEMMA Taken ==
  ASSUME IInv, NEW by, QueueOK(repo, by), NEW op, Took(op)
  PROVE  /\ MidInv(Now) /\ Now.repo = repo /\ RepoInv(repo) /\ EventsOK
         /\ Tidy(repo, repo, by)
         /\ op \in {"Add", "Restore", "Process", "Cancel", "Success", "Remove", "Failed"}
              => Head(cmds).image \in Image
<1>1. MidInv(Now) /\ Now.repo = repo /\ RepoInv(repo) /\ Head(cmds) \in Command /\ Head(cmds).op = op
  BY TookCommand
<1>. QED  BY <1>1, CommandImage DEF IInv, OthersOK, Tidy, NoStart

LEMMA HandleAddQueue ==
  ASSUME IInv, NEW by, QueueOK(repo, by), HandleAdd
  PROVE  Served(by)
<1>. DEFINE i == Head(cmds).image
            m == TakeResult(Now, i)
            n == [m EXCEPT !.repo = AddDeferredJob(m.repo, i)]
            r == AddDeferredJob(repo, i)
<1>1. /\ MidInv(Now) /\ Now.repo = repo /\ RepoInv(repo) /\ Tidy(repo, repo, by) /\ EventsOK
      /\ i \in Image
  BY Taken DEF HandleAdd
<1>2. MidInv(m) /\ m.repo = repo
  BY <1>1, TakeResultInv
<1>3. n = [m EXCEPT !.repo = AddDeferredJob(@, i)]
  BY <1>2 DEF MidInv, MidState
<1>4. CatchResult(Now, i) \/ Become(n)
  BY <1>3 DEF HandleAdd
<1>. HIDE DEF m
<1>5. n.repo = r
  BY <1>2 DEF MidInv, MidState
<1>. HIDE DEF n, i
<1>6. CASE CatchResult(Now, i)
  BY <1>1, <1>6, DeRecordResultQueue DEF CatchResult
<1>7. CASE Become(n)
  <2>1. Tidy(repo, r, by) /\ RepoInv(r)
    BY <1>1, OperationsQueue, AddDeferredJobInv
  <2>2. repo' = r
    BY <1>5, <1>7 DEF Become
  <2>. HIDE DEF r
  <2>. QED  BY <2>1, <2>2, ServedAs
<1>. QED  BY <1>4, <1>6, <1>7

LEMMA HandleRemoveRestorableQueue ==
  ASSUME IInv, NEW by, QueueOK(repo, by), HandleRemoveRestorable
  PROVE  Served(by)
<1>. DEFINE i == Head(cmds).image
            m == [Now EXCEPT !.result.high = @ \ {i}]
            n == [m EXCEPT !.repo = LowerPriority(m.repo, i)]
            r == LowerPriority(repo, i)
<1>1. /\ MidInv(Now) /\ Now.repo = repo /\ RepoInv(repo) /\ Tidy(repo, repo, by)
      /\ i \in Image
  BY Taken DEF HandleRemoveRestorable
<1>2. MidInv(m) /\ m.repo = repo
  BY <1>1, ForgetHighInv
<1>3. n = [m EXCEPT !.repo = LowerPriority(@, i)]
  BY <1>2 DEF MidInv, MidState
<1>4. (Present(repo, i) /\ Become(n)) \/ Become(m)
  BY <1>3 DEF HandleRemoveRestorable
<1>. HIDE DEF m
<1>5. n.repo = r
  BY <1>2 DEF MidInv, MidState
<1>. HIDE DEF n, i
<1>6. Present(repo, i) => Tidy(repo, r, by) /\ RepoInv(r)
  BY <1>1, OperationsQueue, LowerPriorityInv
<1>. HIDE DEF r
<1>7. (Present(repo, i) /\ repo' = r) \/ repo' = repo
  BY <1>2, <1>4, <1>5 DEF Become
<1>. QED  BY <1>1, <1>6, <1>7, ServedAs

LEMMA HandleRemoveQueue ==
  ASSUME IInv, NEW by, QueueOK(repo, by), HandleRemove
  PROVE  Served(by)
<1>. DEFINE i == Head(cmds).image
            m == [Now EXCEPT !.result.high = @ \ {i}]
            stopped == IF i \in repo.running THEN Interrupt(m) ELSE m
            deleted == [stopped EXCEPT !.repo = DeleteJob(stopped.repo, i)]
            removed == IF Present(repo, i) THEN deleted ELSE stopped
            left == PostRemove(removed, i)
            n == [left EXCEPT !.result.crash[i] = 0]
<1>1. /\ MidInv(Now) /\ Now.repo = repo /\ RepoInv(repo) /\ Tidy(repo, repo, by) /\ EventsOK
      /\ i \in Image
  BY Taken DEF HandleRemove
<1>2. MidInv(m) /\ m.repo = repo
  BY <1>1, ForgetHighInv
<1>. HIDE DEF m
<1>3. MidInv(stopped) /\ stopped.repo = repo
  BY <1>1, <1>2, InterruptInv
<1>. HIDE DEF stopped
<1>4. MidInv(deleted) /\ deleted.repo = DeleteJob(repo, i)
  BY <1>1, <1>3, DeleteJobInv, NewRepo
<1>5. deleted = [stopped EXCEPT !.repo = DeleteJob(@, i)]
  BY <1>3 DEF MidInv, MidState
<1>. HIDE DEF deleted
<1>6. Tidy(repo, DeleteJob(repo, i), by)
  BY <1>1, OperationsQueue
<1>7. MidInv(removed) /\ Tidy(repo, removed.repo, by)
  BY <1>1, <1>3, <1>4, <1>6
<1>. HIDE DEF removed
<1>8. MidInv(left) /\ left.repo = removed.repo
  BY <1>1, <1>7, PostRemoveInv
<1>. HIDE DEF left
<1>9. MidInv(n) /\ n.repo = removed.repo
  BY <1>1, <1>8, ResetCrashInv
<1>. HIDE DEF n
<1>10. DeRecordResult(n, i)
  BY <1>5 DEF HandleRemove, n, left, removed, stopped, m
<1>. HIDE DEF i
<1>. QED  BY <1>1, <1>7, <1>9, <1>10, DeRecordResultQueue

\* Restoring a photo and cancelling a request lower the priority and update the queue.
LEMMA HandlePriorityQueue ==
  ASSUME IInv, NEW by, QueueOK(repo, by), HandleRestore \/ HandleCancel
  PROVE  Served(by)
<1>. DEFINE i == Head(cmds).image
            m == [Now EXCEPT !.result.high = @ \ {i}]
            r == UpdateJob(SetJobPriority(repo, i, "NORMAL"), i)
<1>1. /\ MidInv(Now) /\ Now.repo = repo /\ RepoInv(repo) /\ Tidy(repo, repo, by)
      /\ i \in Image
  BY Taken DEF HandleRestore, HandleCancel
<1>2. MidInv(m) /\ m.repo = repo
  BY <1>1, ForgetHighInv
<1>3. /\ [m EXCEPT !.repo = UpdateJob(SetJobPriority(@, i, "NORMAL"), i)].repo = r
      /\ Send([Now EXCEPT !.repo = UpdateJob(SetJobPriority(@, i, "NORMAL"), i)], <<JobChanged>>).repo = r
  <2>. DEFINE x == [Now EXCEPT !.repo = r]
  <2>1. /\ [m EXCEPT !.repo = UpdateJob(SetJobPriority(@, i, "NORMAL"), i)] = [m EXCEPT !.repo = r]
        /\ [Now EXCEPT !.repo = UpdateJob(SetJobPriority(@, i, "NORMAL"), i)] = x
    BY <1>1, <1>2 DEF MidInv, MidState
  <2>. HIDE DEF r, m
  <2>2. [m EXCEPT !.repo = r].repo = r /\ x.repo = r
    BY <1>1, <1>2 DEF MidInv, MidState
  <2>3. Send(x, <<JobChanged>>).repo = x.repo
    BY <1>1 DEF Send, MidInv, MidState
  <2>. QED  BY <2>1, <2>2, <2>3
<1>4. repo' = repo \/ (Present(repo, i) /\ repo' = r)
  <2>1. CASE HandleRestore
    BY <1>1, <1>3, <2>1 DEF HandleRestore, Become
  <2>2. CASE HandleCancel
    BY <1>1, <1>2, <1>3, <2>2 DEF HandleCancel, Become
  <2>. QED  BY <2>1, <2>2
<1>5. Present(repo, i) => Tidy(repo, r, by) /\ RepoInv(r)
  <2>1. "NORMAL" \in JobPriority
    BY DEF JobPriority
  <2>. QED  BY <1>1, <2>1, SetJobPriorityInv, UpdateJobInv, OperationsQueue
<1>. HIDE DEF r
<1>. QED  BY <1>1, <1>4, <1>5, ServedAs

\* Failing again leaves a job FAILED, and of priority NORMAL.
LEMMA FailedAgain ==
  ASSUME NEW r, RepoInv(r), NEW i \in Image, Present(r, i), r.job[i].state = "FAILED"
  PROVE  Fail(r, i).job[i].state = "FAILED" /\ Fail(r, i).job[i].priority = "NORMAL"
<1>. DEFINE normal == SetJobPriority(r, i, "NORMAL")
            reset == ResetTimer(normal, i)
<1>1. RepoInv(normal) /\ normal.job[i].state = "FAILED" /\ normal.job[i].priority = "NORMAL"
  BY SetJobPriorityInv, SetJobPriorityParts DEF JobPriority
<1>. HIDE DEF normal
<1>2. reset.job[i].state = "FAILED" /\ reset.job[i].priority = "NORMAL"
  BY <1>1, ResetTimerParts
<1>. HIDE DEF reset
<1>3. Fail(r, i) = ChangeStateTo(reset, i, "FAILED")
  BY DEF Fail, reset, normal
<1>. QED  BY <1>2, <1>3 DEF ChangeStateTo

\* The photo that has failed already and fails again keeps its priority.
SameFailure(i) ==
  repo.job[i].state = "FAILED" /\ repo'.job[i].state = "FAILED"
    => repo'.job[i].priority = repo.job[i].priority

LEMMA OnProcessErrorQueue ==
  ASSUME IInv, NEW by, QueueOK(repo, by), NEW i \in Image, NEW e, MidInv(Now),
         OnProcessError(Now, i, e), by = "priority" /\ Present(repo, i) => SameFailure(i)
  PROVE  Served(by)
<1>. DEFINE count == CountError(Now, i, e)
            counted == StopTimer(count, i)
            type == ErrorType(Now, i, EffectiveError(Now, i, e))
            next == CASE type = "RETRY" -> Prepare(counted.repo, i)
                      [] type = "FATAL_NOTIFY" -> SetError(counted.repo, i)
                      [] OTHER -> Fail(counted.repo, i)
            entered == CASE type = "RETRY" -> "PENDING"
                         [] type = "FATAL_NOTIFY" -> "ERROR"
                         [] OTHER -> "FAILED"
            done == [counted EXCEPT !.repo = next]
            notices == Notices(Now.repo, i, entered)
<1>1. Now.repo = repo /\ RepoInv(repo)
  BY DEF Now, IInv, ThreadInv
<1>2. MidInv(count) /\ count.repo = repo
  BY <1>1, CountErrorInv
<1>3. \/ Become(RecordResult(counted, i, "error"))
      \/ Present(repo, i) /\ Become(Send(done, notices))
  BY <1>1 DEF OnProcessError
<1>. HIDE DEF count
<1>4. /\ MidInv(counted) /\ Tidy(repo, counted.repo, by) /\ RepoInv(counted.repo)
      /\ Present(counted.repo, i) <=> Present(repo, i)
      /\ counted.repo.job[i].state = repo.job[i].state
      /\ counted.repo.job[i].priority = repo.job[i].priority
  <2>1. /\ MidInv(counted) /\ Tidy(repo, counted.repo, by)
        /\ counted.repo = ResetTimer(repo, i)
    BY <1>2, StopTimerQueue
  <2>. HIDE DEF counted
  <2>2. /\ RepoInv(counted.repo)
        /\ counted.repo.job[i].state = repo.job[i].state
        /\ counted.repo.job[i].priority = repo.job[i].priority
    BY <1>1, <2>1, ResetTimerParts
  <2>. QED  BY <2>1, <2>2 DEF Present
<1>. HIDE DEF counted, type
<1>5. CASE Become(RecordResult(counted, i, "error"))
  <2>1. RecordResult(counted, i, "error").repo = counted.repo
    BY <1>4, RecordResultInv
  <2>. QED  BY <1>4, <1>5, <2>1, ServedAs DEF Become
<1>6. CASE Present(repo, i) /\ Become(Send(done, notices))
  <2>. DEFINE r == counted.repo
  <2>1. repo' = next
    <3>. HIDE DEF next, notices
    <3>1. done.repo = next /\ Send(done, notices).repo = done.repo
      BY <1>4 DEF Send, MidInv, MidState
    <3>. QED  BY <1>6, <3>1 DEF Become
  <2>2. RepoInv(r) /\ Present(r, i) /\ QueueOK(r, by) /\ NoStart(repo, r)
    BY <1>4, <1>6 DEF Tidy
  <2>3. next = Fail(r, i) => (by = "priority" => ~ Unnoticed(r, i))
    <3>. SUFFICES ASSUME next = Fail(r, i), by = "priority", r.job[i].state = "FAILED"
                  PROVE  r.job[i].priority = "NORMAL"
      BY DEF Unnoticed
    <3>. HIDE DEF next
    <3>1. repo'.job[i].state = "FAILED" /\ repo'.job[i].priority = "NORMAL"
      BY <2>1, <2>2, FailedAgain
    <3>. QED  BY <1>4, <1>6, <3>1 DEF SameFailure
  <2>4. next \in {Prepare(r, i), SetError(r, i), Fail(r, i)}
    OBVIOUS
  <2>. HIDE DEF next, r
  <2>5. RepoInv(next)
    BY <2>2, <2>4, PrepareInv, FailInv
  <2>6. Tidy(r, next, by)
    BY <2>2, <2>3, <2>4, OperationsQueue
  <2>7. Tidy(repo, next, by)
    BY <2>2, <2>6, TidyChain
  <2>. QED  BY <2>1, <2>5, <2>7, ServedAs
<1>. QED  BY <1>3, <1>5, <1>6

LEMMA HandleFailedQueue ==
  ASSUME IInv, NEW by, QueueOK(repo, by), HandleFailed,
         by = "priority" => SameFailure(Head(cmds).image)
  PROVE  Served(by)
<1>1. MidInv(Now) /\ Head(cmds).image \in Image
  BY Taken DEF HandleFailed
<1>2. OnProcessError(Now, Head(cmds).image, Head(cmds).error)
  BY DEF HandleFailed
<1>. QED  BY <1>1, <1>2, OnProcessErrorQueue

LEMMA HandleSuccessQueue ==
  ASSUME IInv, NEW by, QueueOK(repo, by), HandleSuccess
  PROVE  Served(by)
<1>. DEFINE i == Head(cmds).image
            reset == [Now EXCEPT !.result.timeouts = 0]
            m == StopTimer(reset, i)
            finished == [m EXCEPT !.repo = Complete(m.repo, i)]
            notices == Notices(repo, i, "COMPLETED")
            completed == Send(finished, notices)
            held == RecordResult(completed, i, "image")
            gated == [held EXCEPT !.result.bp = i]
<1>1. /\ MidInv(Now) /\ Now.repo = repo /\ RepoInv(repo) /\ Tidy(repo, repo, by) /\ EventsOK
      /\ i \in Image
  BY Taken DEF HandleSuccess
<1>2. MidInv(reset) /\ reset.repo = repo
  BY <1>1, ResetTimeoutsInv
<1>. HIDE DEF reset
<1>3. /\ MidInv(m) /\ Tidy(repo, m.repo, by) /\ RepoInv(m.repo)
      /\ Present(m.repo, i) <=> Present(repo, i)
  BY <1>1, <1>2, StopTimerQueue, MidRepo
<1>. HIDE DEF m
<1>4. finished = [m EXCEPT !.repo = Complete(@, i)]
  BY <1>3 DEF MidInv, MidState
<1>. HIDE DEF finished
<1>5. \/ Become(RecordResult(m, i, "image"))
      \/ Present(repo, i) /\ EventChanged(gated, CacheEvent("CACHED"))
      \/ Present(repo, i) /\ Become(completed)
  BY <1>4 DEF HandleSuccess, m, reset, i
<1>. HIDE DEF i
<1>6. Present(repo, i) => MidInv(completed) /\ Tidy(repo, completed.repo, by)
  <2>. SUFFICES ASSUME Present(repo, i)
                PROVE  MidInv(completed) /\ Tidy(repo, completed.repo, by)
    OBVIOUS
  <2>. DEFINE r == Complete(m.repo, i)
  <2>1. Present(m.repo, i) /\ QueueOK(m.repo, by) /\ NoStart(repo, m.repo)
    BY <1>3 DEF Tidy
  <2>2. RepoInv(r) /\ Tidy(m.repo, r, by)
    BY <1>1, <1>3, <2>1, CompleteInv, OperationsQueue
  <2>3. finished = [m EXCEPT !.repo = r]
    BY DEF finished
  <2>. HIDE DEF r
  <2>4. MidInv(finished) /\ finished.repo = r /\ Tidy(repo, r, by)
    BY <1>3, <2>1, <2>2, <2>3, NewRepo, TidyChain
  <2>5. notices \in Seq(Command)
    BY NoticesType
  <2>. HIDE DEF notices
  <2>. QED  BY <2>4, <2>5, SendInv
<1>. HIDE DEF completed
<1>7. CASE Become(RecordResult(m, i, "image"))
  <2>1. RecordResult(m, i, "image").repo = m.repo
    BY <1>1, <1>3, RecordResultInv
  <2>. QED  BY <1>3, <1>7, <2>1, ServedAs DEF Become
<1>8. CASE Present(repo, i) /\ EventChanged(gated, CacheEvent("CACHED"))
  <2>1. MidInv(held) /\ held.repo = completed.repo
    BY <1>1, <1>6, <1>8, RecordResultInv
  <2>. HIDE DEF held
  <2>2. MidInv(gated) /\ gated.repo = held.repo
    BY <1>1, <2>1, SetBpInv
  <2>. HIDE DEF gated
  <2>3. CacheEvent("CACHED") \in Event
    BY DEF CacheEvent, Event, CacheStatus
  <2>. QED  BY <1>1, <1>6, <1>8, <2>1, <2>2, <2>3, EventChangedQueue
<1>9. CASE Present(repo, i) /\ Become(completed)
  BY <1>6, <1>9, MidRepo, ServedAs DEF Become
<1>. QED  BY <1>5, <1>7, <1>8, <1>9

\* A request: the priority is raised, what has failed waits again, and the queue is updated.
LEMMA RequestQueue ==
  ASSUME NEW r, RepoInv(r), NEW by, QueueOK(r, by), NEW i \in Image, Present(r, i)
  PROVE  LET high == SetJobPriority(r, i, "HIGH")
             ready == IF high.job[i].state = "FAILED" THEN Prepare(high, i) ELSE high
             t == UpdateJob(ready, i)
         IN  RepoInv(t) /\ Tidy(r, t, by)
<1>. DEFINE high == SetJobPriority(r, i, "HIGH")
            waits == Prepare(high, i)
<1>1. "HIGH" \in JobPriority /\ "PENDING" \in JobState /\ QueueIs(r, Queued(r), by) /\ r \in Draft
  BY RepositoryIsDraft DEF JobPriority, JobState, QueueOK, RepoInv
<1>2. /\ RepoInv(high) /\ Present(high, i) /\ Tidy(r, UpdateJob(high, i), by)
      /\ SameStates(r, high)
      /\ high \in Draft /\ high.heap = r.heap /\ OthersSame(r, high, i)
  BY <1>1, SetJobPriorityInv, SetJobPriorityStates, SetJobPriorityParts, OperationsQueue
<1>. HIDE DEF high
<1>3. RepoInv(UpdateJob(high, i))
  BY <1>2, UpdateJobInv
<1>4. ASSUME high.job[i].state = "FAILED"
      PROVE  RepoInv(UpdateJob(waits, i)) /\ Tidy(r, UpdateJob(waits, i), by)
  <2>1. RepoInv(waits) /\ Enters(high, waits, i, "PENDING")
    BY <1>2, PrepareInv, JobStates
  <2>2. Enters(r, waits, i, "PENDING")
    BY <1>2, <2>1 DEF Enters, SameStates
  <2>3. QueueIs(ChangeStateTo(high, i, "PENDING"), Queued(r), by)
    BY <1>1, <1>2, <1>4, ChangeStateToQueue
  <2>4. QueueIs(waits, Queued(r), by)
    BY <2>3 DEF Prepare
  <2>. HIDE DEF waits
  <2>5. Tidy(r, waits, by)
    BY <1>1, <2>2, <2>4, EnteredTidy
  <2>6. RepoInv(UpdateJob(waits, i)) /\ Tidy(waits, UpdateJob(waits, i), by)
    BY <2>1, <2>5, UpdateJobInv, OperationsQueue DEF Tidy
  <2>. QED  BY <2>5, <2>6, TidyChain DEF Tidy
<1>. QED  BY <1>2, <1>3, <1>4 DEF high

LEMMA HandleProcessQueue ==
  ASSUME IInv, NEW by, QueueOK(repo, by), HandleProcess
  PROVE  Served(by)
<1>. DEFINE i == Head(cmds).image
            high == SetJobPriority(repo, i, "HIGH")
            ready == IF high.job[i].state = "FAILED" THEN Prepare(high, i) ELSE high
            r == UpdateJob(ready, i)
            requested == [Now EXCEPT !.repo = r]
            m == Send(requested, <<JobChanged>>)
            taken == TakeResult(m, i)
            n == [taken EXCEPT !.result.high = @ \cup {i}]
<1>1. /\ MidInv(Now) /\ Now.repo = repo /\ RepoInv(repo) /\ Tidy(repo, repo, by) /\ EventsOK
      /\ i \in Image
  BY Taken DEF HandleProcess
<1>2. \/ Become(Now)
      \/ ~ Present(repo, i) /\ OnProcessError(Now, i, "FATAL")
      \/ Present(repo, i) /\ CatchResult(m, i)
      \/ Present(repo, i) /\ Become(n)
  BY DEF HandleProcess
<1>. HIDE DEF i
<1>3. Present(repo, i) => MidInv(m) /\ Tidy(repo, m.repo, by) /\ RepoInv(m.repo)
  <2>. SUFFICES ASSUME Present(repo, i)
                PROVE  MidInv(m) /\ Tidy(repo, m.repo, by) /\ RepoInv(m.repo)
    OBVIOUS
  <2>1. RepoInv(r) /\ Tidy(repo, r, by)
    BY <1>1, RequestQueue, Zenon
  <2>. HIDE DEF r
  <2>2. MidInv(requested) /\ requested.repo = r
    BY <1>1, <2>1, NewRepo
  <2>. HIDE DEF requested
  <2>. QED  BY <2>1, <2>2, SendInv, CommandTypes
<1>. HIDE DEF m
<1>4. CASE Become(Now)
  BY <1>1, <1>4, ServedAs DEF Become
<1>5. CASE ~ Present(repo, i) /\ OnProcessError(Now, i, "FATAL")
  BY <1>1, <1>5, OnProcessErrorQueue
<1>6. CASE Present(repo, i) /\ CatchResult(m, i)
  BY <1>1, <1>3, <1>6, DeRecordResultQueue DEF CatchResult
<1>7. CASE Present(repo, i) /\ Become(n)
  <2>1. MidInv(taken) /\ taken.repo = m.repo
    BY <1>1, <1>3, <1>7, TakeResultInv
  <2>. HIDE DEF taken
  <2>2. n.repo = taken.repo
    BY <1>1, <2>1, CacheStays, CommandTypes
  <2>. HIDE DEF n
  <2>. QED  BY <1>3, <1>7, <2>1, <2>2, ServedAs DEF Become
<1>. QED  BY <1>2, <1>4, <1>5, <1>6, <1>7

LEMMA HandleProcessCacheQueue ==
  ASSUME IInv, NEW by, QueueOK(repo, by), HandleProcessCache
  PROVE  Served(by)
<1>. DEFINE i == result.bp
<1>1. MidInv(Now) /\ Now.repo = repo /\ RepoInv(repo) /\ Tidy(repo, repo, by) /\ EventsOK
  BY Taken DEF HandleProcessCache
<1>2. i # "Null" => i \in Image
  BY DEF IInv, ThreadInv, Result
<1>3. \/ Become(Now)
      \/ i # "Null" /\ CatchResult(Now, i)
      \/ i # "Null" /\ Become(TakeResult(Now, i))
  BY DEF HandleProcessCache
<1>. HIDE DEF i
<1>4. CASE Become(Now)
  BY <1>1, <1>4, ServedAs DEF Become
<1>5. CASE i # "Null" /\ CatchResult(Now, i)
  BY <1>1, <1>2, <1>5, DeRecordResultQueue DEF CatchResult
<1>6. CASE i # "Null" /\ Become(TakeResult(Now, i))
  <2>1. TakeResult(Now, i).repo = repo
    BY <1>1, <1>2, <1>6, TakeResultInv
  <2>. QED  BY <1>1, <1>6, <2>1, ServedAs DEF Become
<1>. QED  BY <1>3, <1>4, <1>5, <1>6

LEMMA HandleEventsQueue ==
  ASSUME IInv, NEW by, QueueOK(repo, by),
         HandleJobChanged \/ HandleEvent \/ HandleAddSession \/ HandleDeleteSession
  PROVE  Served(by)
<1>1. MidInv(Now) /\ Now.repo = repo /\ Tidy(repo, repo, by) /\ EventsOK
  BY Taken DEF HandleJobChanged, HandleEvent, HandleAddSession, HandleDeleteSession
<1>2. \/ TryDoSchedule(Now)
      \/ \E e \in Event : EventChanged(Now, e)
  <2>1. HandleEvent => Head(cmds).event \in Event
    BY TookCommand, CommandImage DEF HandleEvent
  <2>2. MediaEvent("AVAILABLE") \in Event /\ MediaEvent("DISCONNECTED") \in Event
    BY DEF MediaEvent, Event, MediaLibraryStatus
  <2>. QED  BY <2>1, <2>2 DEF HandleJobChanged, HandleEvent, HandleAddSession, HandleDeleteSession
<1>. QED  BY <1>1, <1>2, TryDoScheduleQueue, EventChangedQueue

LEMMA HandlePhotoDiedQueue ==
  ASSUME IInv, NEW by, QueueOK(repo, by), HandlePhotoDied
  PROVE  Served(by)
<1>1. PICK c : Become(Send([Now EXCEPT !.hal.session = "null"], c))
  BY DEF HandlePhotoDied
<1>2. repo' = repo
  BY <1>1 DEF Become, Send, Now
<1>3. RepoInv(repo) /\ Tidy(repo, repo, by)
  BY DEF IInv, ThreadInv, Tidy, NoStart
<1>. QED  BY <1>2, <1>3, ServedAs

\* The other threads leave the repository alone, but for a timer that expires.
LEMMA OtherThreadsQueue ==
  ASSUME IInv, NEW by, QueueOK(repo, by),
         ClientThreads \/ HdiThreads \/ TimerThread \/ SystemEvents \/ UNCHANGED vars
  PROVE  Served(by)
<1>1. RepoInv(repo) /\ Tidy(repo, repo, by)
  BY DEF IInv, ThreadInv, Tidy, NoStart
<1>2. repo' = repo \/ \E i \in Image : repo' = ResetTimer(repo, i)
  <2>1. CASE ClientThreads
    BY <2>1 DEF ClientThreads, ClientAdds, ClientRemoves, ClientRestores, ClientRequests, ClientCancels,
                LibraryIdle, ClientDies, ClientConnects, threadState
  <2>2. CASE HdiThreads
    BY <2>2 DEF HdiThreads, IveDone, IveFails, IveBackgroundDone, IveStatus, IveDies, IveRestarts,
                ServiceStarted, SessionInstalled, threadState
  <2>3. CASE SystemEvents
    BY <2>3 DEF SystemEvents, CameraChanges, ThermalChanges, DeviceOpens, LowQualityImage, threadState
  <2>4. CASE TimerThread
    BY <2>4 DEF TimerThread, TimerExpires, OrphanExpires, TrailingExpires
  <2>5. CASE UNCHANGED vars
    BY <2>5 DEF vars, pipeline
  <2>. QED  BY <2>1, <2>2, <2>3, <2>4, <2>5
<1>3. \A i \in Image : RepoInv(ResetTimer(repo, i)) /\ Tidy(repo, ResetTimer(repo, i), by)
  BY <1>1, ResetTimerParts, OperationsQueue
<1>. QED  BY <1>1, <1>2, <1>3, ServedAs

-----------------------------------------------------------------------------
(***************************************************************************)
(* The theorems.                                                           *)
(***************************************************************************)
\* No photo that has failed already, and was moved to the recycle bin since,
\* fails again: of it nothing tells the queue that the priority is NORMAL anew.
FailureNoticed == HandleFailed => SameFailure(Head(cmds).image)

QInv(by) == IInv /\ WorkloadOK /\ QueueOK(repo, by)

LEMMA InitQueue ==
  ASSUME Init, NEW by
  PROVE  QueueOK(repo, by)
<1>1. repo.heap = <<>> /\ repo.job = [i \in Image |-> NoJob]
  BY DEF Init
<1>2. Elements(<<>>) = {} /\ Distinct(<<>>) /\ HeapOrder(<<>>, Precedes(repo, by))
  BY DEF Elements, SX!ToSet, Distinct, HeapOrder
<1>3. Queued(repo) = {}
  BY <1>1 DEF Queued, Present, NoJob
<1>. QED  BY <1>1, <1>2, <1>3 DEF QueueOK, QueueIs

LEMMA NextServed ==
  ASSUME NEW by, QInv(by), [Next]_vars, by = "priority" => [FailureNoticed]_vars
  PROVE  Served(by)
<1>. USE DEF QInv
<1>1. CASE HandleFailed
  <2>1. CASE UNCHANGED vars
    BY <2>1, OtherThreadsQueue
  <2>2. CASE by = "priority" => FailureNoticed
    BY <1>1, <2>2, HandleFailedQueue DEF FailureNoticed
  <2>. QED  BY <2>1, <2>2
<1>2. CASE CommandThread /\ ~ HandleFailed
  BY <1>2, HandleAddQueue, HandleRemoveQueue, HandleRemoveRestorableQueue, HandlePriorityQueue,
     HandleProcessQueue, HandleProcessCacheQueue, HandleSuccessQueue,
     HandleEventsQueue, HandlePhotoDiedQueue
     DEF CommandThread
<1>3. CASE ClientThreads \/ HdiThreads \/ TimerThread \/ SystemEvents \/ UNCHANGED vars
  BY <1>3, OtherThreadsQueue
<1>. QED  BY <1>1, <1>2, <1>3 DEF Next

LEMMA NextQueue ==
  ASSUME NEW by, QInv(by), [Next]_vars, Served(by)
  PROVE  /\ IInv' /\ WorkloadOK'
         /\ QueueOK(repo', by)
BY IInvInductive, ServedQueue DEF QInv

QueueWaits == QInv("wait")
QueueRanked == QInv("priority")

\* The queue agrees with the jobs and is in the order of what waits, always.
THEOREM QueueInvariant == Spec => []QueueWaits
<1>1. Init => QueueWaits
  BY InitInv, InitQueue DEF QInv, QueueWaits
<1>2. QueueWaits /\ [Next]_vars => QueueWaits'
  <2>. SUFFICES ASSUME QueueWaits, [Next]_vars
                PROVE  QueueWaits'
    OBVIOUS
  <2>1. IInv' /\ WorkloadOK' /\ QueueOK(repo', "wait")
    BY NextServed, NextQueue DEF QueueWaits
  <2>2. QueueOK(repo, "wait")' <=> QueueOK(repo', "wait")
    BY DEF QueueOK, QueueIs, Queued, Precedes, Level, Present, IsActive, PriorityRank
  <2>. QED  BY <2>1, <2>2 DEF QInv, QueueWaits
<1>. QED  BY <1>1, <1>2, PTL DEF Spec

(***************************************************************************)
(* However many photos, and whatever is added, removed, requested, failed  *)
(* or completed in whatever order: the heap and the three maps of the      *)
(* repository agree, no photo is lost from the queue or in it twice.       *)
(***************************************************************************)
THEOREM QueueComplete == Spec => []QueueHoldsJobs
<1>1. QueueWaits => QueueHoldsJobs
  <2>. SUFFICES ASSUME QueueWaits
                PROVE  QueueHoldsJobs
    OBVIOUS
  <2>1. repo.heap \in Seq(Image)
    BY DEF QueueWaits, QInv, IInv, ThreadInv, RepoInv, Repository
  <2>2. Distinct(repo.heap) /\ Elements(repo.heap) = {i \in Image \ Background : Present(repo, i)}
    BY DEF QueueWaits, QInv, QueueOK, QueueIs, Queued
  <2>. QED  BY <2>1, <2>2, LenIsCardinality DEF QueueHoldsJobs
<1>. QED  BY <1>1, QueueInvariant, PTL

(***************************************************************************)
(* The scheduler, which looks at the root of the queue only, never misses  *)
(* a photo that waits behind one that does not, although priorities change *)
(* in place without an Update.                                             *)
(***************************************************************************)
THEOREM RootWaits == Spec => []NoHiddenWork
<1>1. QueueWaits => NoHiddenWork
  <2>. SUFFICES ASSUME QueueWaits, NEW i \in Image \ Background, IsActive(repo, i)
                PROVE  IsActive(repo, repo.heap[1])
    BY DEF NoHiddenWork
  <2>. DEFINE h == repo.heap
              P == Precedes(repo, "wait")
  <2>1. h \in Seq(Image)
    BY DEF QueueWaits, QInv, IInv, ThreadInv, RepoInv, Repository
  <2>2. HeapOrder(h, P) /\ i \in Elements(h)
    BY DEF QueueWaits, QInv, QueueOK, QueueIs, Queued, Present, IsActive
  <2>3. PICK k \in 1 .. Len(h) : h[k] = i
    BY <2>2 DEF Elements, SX!ToSet
  <2>4. h[1] \in Image
    BY <2>1, <2>3
  <2>5. <<h[k], h[1]>> \notin P
    BY <2>1, <2>2, PrecedesStrict, RootIsBest
  <2>6. ~ (Level(repo, "wait", i) > Level(repo, "wait", h[1]))
    BY <2>3, <2>4, <2>5 DEF Precedes
  <2>7. Level(repo, "wait", i) > 0 /\ Level(repo, "wait", i) \in Nat
        /\ Level(repo, "wait", h[1]) \in Nat
    BY LevelType
  <2>. QED  BY <2>6, <2>7, LevelType
<1>. QED  BY <1>1, QueueInvariant, PTL

(***************************************************************************)
(* As long as no failure goes unnoticed by the queue in this sense, the    *)
(* photo the scheduler takes from the root has the highest priority of all *)
(* that wait, however requests, their cancellation, removals, restores and *)
(* the answers of the HDI mix: every other change of the priority of a     *)
(* photo that waits is followed by an Update of the queue.                 *)
(***************************************************************************)
THEOREM HighestFirst ==
  Spec /\ [][FailureNoticed]_vars => HighestPriorityFirst
<1>. DEFINE Ranked ==
       \A i \in Image \ Background : Starts(i) =>
         \A j \in Image \ Background : IsActive(repo', j) =>
           PriorityRank(repo'.job[j].priority) <= PriorityRank(repo'.job[i].priority)
<1>1. Init => QueueRanked
  BY InitInv, InitQueue DEF QInv, QueueRanked
<1>2. QueueRanked /\ [Next]_vars /\ [FailureNoticed]_vars => QueueRanked' /\ Ranked
  <2>. SUFFICES ASSUME QueueRanked, [Next]_vars, [FailureNoticed]_vars
                PROVE  QueueRanked' /\ Ranked
    OBVIOUS
  <2>1. Served("priority")
    BY NextServed DEF QueueRanked
  <2>2. IInv' /\ WorkloadOK' /\ QueueOK(repo', "priority")
    BY <2>1, NextQueue DEF QueueRanked
  <2>3. QueueOK(repo, "priority")' <=> QueueOK(repo', "priority")
    BY DEF QueueOK, QueueIs, Queued, Precedes, Level, Present, IsActive, PriorityRank
  <2>4. Ranked
    BY <2>1, ServedInOrder
  <2>. QED  BY <2>2, <2>3, <2>4 DEF QInv, QueueRanked
<1>3. HighestPriorityFirst <=> [][Ranked]_vars
  BY DEF HighestPriorityFirst
<1>. HIDE DEF Ranked
<1>. QED  BY <1>1, <1>2, <1>3, PTL DEF Spec

-----------------------------------------------------------------------------
(***************************************************************************)
(* While the client stays.  What it was told and what is kept for it is a  *)
(* matter of PhotoLifecycle: nothing but its steps is used.                *)
(***************************************************************************)
\* What is done was told or is kept; of a photo that is there no error is kept.
LostNone ==
  \A i \in Image :
    /\ StatusOf(i) = "done" => answer[i] = "done" \/ result.cache[i] = "image"
    /\ StatusOf(i) # "absent" => result.cache[i] # "error"

LEMMA LifecycleKeeps ==
  ASSUME LostNone, IInv, IInv', HasCallback, [Lifecycle!Next]_(Lifecycle!vars)
  PROVE  LostNone'
<1>. DEFINE s == [i \in Image |-> StatusOf(i)]
            Good(i) == /\ StatusOf(i) = "done" => answer[i] = "done" \/ result.cache[i] = "image"
                       /\ StatusOf(i) # "absent" => result.cache[i] # "error"
<1>1. \A i \in Image : result.cache[i] \in {"none", "image", "error"}
  BY DEF IInv, ThreadInv, Result
<1>2. \A i \in Image : s[i] = StatusOf(i) /\ s'[i] = StatusOf(i)'
  OBVIOUS
<1>3. \A i \in Image : Good(i)
  BY DEF LostNone
<1>4. ASSUME NEW i \in Image, Lifecycle!Untouched(i)
      PROVE  Good(i)'
  <2>1. /\ \/ StatusOf(i)' = StatusOf(i)
           \/ StatusOf(i) = "waiting" /\ StatusOf(i)' = "running"
        /\ answer'[i] = answer[i] /\ result'.cache[i] = result.cache[i]
    BY <1>2, <1>4 DEF Lifecycle!Untouched, Lifecycle!MayBegin, Lifecycle!Becomes
  <2>. QED  BY <1>3, <2>1
<1>5. ASSUME NEW i \in Image, Lifecycle!Photo(i)
      PROVE  Good(i)'
  <2>. DEFINE To(x, t, k) == StatusOf(i)' = x /\ answer'[i] = t /\ result'.cache[i] = k
  <2>1. \A x, t, k : Lifecycle!Becomes(i, x, t, k) <=> To(x, t, k)
    BY <1>2 DEF Lifecycle!Becomes
  <2>. HIDE DEF s, To
  <2>2. CASE Lifecycle!Added(i) \/ Lifecycle!Removed(i)
    BY <2>1, <2>2 DEF Lifecycle!Added, Lifecycle!Removed, To
  <2>3. CASE Lifecycle!Processed(i)
    <3>1. s[i] # "absent" /\ (To("done", "done", result.cache[i])
                              \/ To("done", answer[i], Lifecycle!Keeping(i, "image")))
      BY <2>1, <2>3 DEF Lifecycle!Processed, s
    <3>2. Lifecycle!Keeping(i, "image") = "image"
      BY <1>1, <1>2, <1>3, <3>1 DEF Lifecycle!Keeping
    <3>. QED  BY <1>2, <1>3, <3>1, <3>2 DEF To
  <2>4. CASE Lifecycle!Retried(i)
    BY <1>2, <1>3, <2>1, <2>4 DEF Lifecycle!Retried, To, s
  <2>5. CASE Lifecycle!GivenUp(i)
    <3>1. s[i] # "absent" /\ To("given up", "error", result.cache[i])
      BY <2>1, <2>5 DEF Lifecycle!GivenUp, s
    <3>. QED  BY <1>2, <1>3, <3>1 DEF To
  <2>6. CASE Lifecycle!AnsweredLate(i)
    <3>1. s[i] = "absent" /\ StatusOf(i)' = s[i]
      BY <2>1, <2>6 DEF Lifecycle!AnsweredLate, To, s
    <3>. QED  BY <3>1
  <2>7. CASE Lifecycle!Returned(i)
    <3>1. /\ StatusOf(i)' = s[i] \/ StatusOf(i)' = "running"
          /\ answer'[i] = IF result.cache[i] = "image" THEN "done" ELSE answer[i]
          /\ result'.cache[i] = "none"
      BY <2>1, <2>7 DEF Lifecycle!Returned, Lifecycle!MayBegin, To, s
    <3>. QED  BY <1>1, <1>2, <1>3, <3>1
  <2>8. ~ Lifecycle!Dropped(i)
    BY DEF Lifecycle!Dropped
  <2>. QED  BY <1>5, <2>2, <2>3, <2>4, <2>5, <2>6, <2>7, <2>8 DEF Lifecycle!Photo
<1>6. CASE Lifecycle!Next
  <2>. HIDE DEF s, Good
  <2>1. \A j \in Image : Lifecycle!Untouched(j) \/ Lifecycle!Photo(j)
    BY <1>6 DEF Lifecycle!Next
  <2>. QED  BY <1>4, <1>5, <2>1 DEF LostNone, Good
<1>7. CASE UNCHANGED Lifecycle!vars
  <2>1. \A i \in Image : StatusOf(i)' = StatusOf(i)
    BY <1>2, <1>7 DEF Lifecycle!vars
  <2>2. answer' = answer /\ result'.cache = result.cache
    BY <1>7 DEF Lifecycle!vars
  <2>. QED  BY <1>3, <2>1, <2>2 DEF LostNone
<1>. QED  BY <1>6, <1>7

(***************************************************************************)
(* As long as the client has its callback, a photo that is completed was   *)
(* given to it or is kept for it: whatever the timers, the HDI and the     *)
(* library do, no result is lost.                                          *)
(***************************************************************************)
THEOREM NoResultIsLost == Spec /\ []HasCallback => []NoResultLost
<1>1. Init => IInv /\ WorkloadOK
  BY InitInv
<1>2. Init => LostNone
  <2>. SUFFICES ASSUME Init
                PROVE  LostNone
    OBVIOUS
  <2>1. \A i \in Image : repo.job[i] = NoJob /\ result.cache[i] = "none"
    BY DEF Init
  <2>2. \A i \in Image : StatusOf(i) = "absent"
    BY <2>1 DEF StatusOf, NoJob
  <2>. QED  BY <2>1, <2>2 DEF LostNone
<1>3. IInv /\ WorkloadOK /\ [Next]_vars => IInv' /\ WorkloadOK'
  BY IInvInductive
<1>4. LostNone /\ IInv /\ IInv' /\ HasCallback /\ [Next]_vars => LostNone'
  BY NextStep, LifecycleKeeps
<1>5. IInv /\ LostNone => NoResultLost
  BY DEF LostNone, NoResultLost, StatusOf
<1>. QED  BY <1>1, <1>2, <1>3, <1>4, <1>5, PTL DEF Spec

-----------------------------------------------------------------------------
(***************************************************************************)
(* What every operation of the repository leaves of a job: one that runs   *)
(* with its timer keeps it as long as it runs, and one that is over is not *)
(* worked on again.                                                        *)
(***************************************************************************)
Over == {"COMPLETED", "ERROR"}

Steady(r, s, j) ==
  /\ s.job[j].state = "RUNNING" => \/ s.job[j].timer
                                   \/ r.job[j].state = "RUNNING" /\ ~ r.job[j].timer
  /\ r.job[j].state \in Over => s.job[j].state \in Over

Spares(r, s, i) == \A j \in Image : j # i => Steady(r, s, j)

AllSteady(r, s) == \A j \in Image : Steady(r, s, j)

LEMMA SteadyChain ==
  ASSUME NEW r, NEW s, NEW t
  PROVE  /\ AllSteady(r, r)
         /\ AllSteady(r, s) /\ AllSteady(s, t) => AllSteady(r, t)
         /\ \A i \in Image : Spares(r, s, i) /\ AllSteady(s, t) => Spares(r, t, i)
         /\ s.job = r.job => AllSteady(r, s)
BY DEF AllSteady, Spares, Steady

LEMMA ChangeStateToJobs ==
  ASSUME NEW r \in Draft, NEW i \in Image, NEW s \in JobState
  PROVE  LET t == ChangeStateTo(r, i, s)
         IN  /\ \A j \in Image : j # i => t.job[j] = r.job[j]
             /\ t.job[i].state = s /\ t.job[i].timer = r.job[i].timer
<1>1. CASE r.job[i].state = s
  BY <1>1 DEF ChangeStateTo
<1>2. CASE r.job[i].state # s
  <2>. DEFINE jobs == [r.job EXCEPT ![i].state = s]
              now == IF s = "RUNNING" THEN r.running \cup {i} ELSE r.running \ {i}
              t == [r EXCEPT !.job = jobs, !.running = now]
  <2>1. /\ jobs \in [Image -> DraftJob]
        /\ \A j \in Image : j # i => jobs[j] = r.job[j]
        /\ jobs[i].state = s /\ jobs[i].timer = r.job[i].timer
    BY DEF Draft, DraftJob, JobState
  <2>2. now \in SUBSET Image
    BY DEF Draft
  <2>3. [r EXCEPT !.job[i].state = s,
                  !.running = IF s = "RUNNING" THEN @ \cup {i} ELSE @ \ {i}] = t
    BY DEF Draft
  <2>4. t \in Draft /\ t.job = jobs
    <3>. HIDE DEF jobs, now
    <3>. QED  BY <2>1, <2>2 DEF Draft
  <2>5. ChangeStateTo(r, i, s) = UpdateJob(t, i)
    BY <1>2, <2>3 DEF ChangeStateTo
  <2>. HIDE DEF t
  <2>6. UpdateJob(t, i).job = jobs
    BY <2>4, UpdateJobType
  <2>. HIDE DEF jobs
  <2>. QED  BY <2>1, <2>5, <2>6
<1>. QED  BY <1>1, <1>2

LEMMA ResetTimerJobs ==
  ASSUME NEW r, RepoInv(r), NEW i \in Image
  PROVE  /\ \A j \in Image : j # i => ResetTimer(r, i).job[j] = r.job[j]
         /\ Spares(r, ResetTimer(r, i), i)
         /\ r.job[i].state # "RUNNING" => AllSteady(r, ResetTimer(r, i))
<1>1. \A j \in Image : j # i => ResetTimer(r, i).job[j] = r.job[j]
  BY DEF RepoInv, Repository, ResetTimer
<1>2. ResetTimer(r, i).job[i].state = r.job[i].state
  BY ResetTimerInv
<1>. QED  BY <1>1, <1>2 DEF Spares, AllSteady, Steady

LEMMA SetJobPrioritySteady ==
  ASSUME NEW r \in Draft, NEW i \in Image, NEW p \in JobPriority
  PROVE  /\ \A j \in Image : j # i => SetJobPriority(r, i, p).job[j] = r.job[j]
         /\ AllSteady(r, SetJobPriority(r, i, p))
<1>. DEFINE s == SetJobPriority(r, i, p)
<1>1. s.job = [r.job EXCEPT ![i].priority = p]
  BY SetJobPriorityType
<1>. HIDE DEF s
<1>2. /\ \A j \in Image : j # i => s.job[j] = r.job[j]
      /\ s.job[i].state = r.job[i].state /\ s.job[i].timer = r.job[i].timer
  BY <1>1 DEF Draft, DraftJob
<1>. QED  BY <1>2 DEF AllSteady, Steady, s

LEMMA StatesSteady ==
  ASSUME NEW r, RepoInv(r), NEW i \in Image, Present(r, i)
  PROVE  /\ Spares(r, Prepare(r, i), i) /\ Spares(r, Complete(r, i), i)
         /\ Spares(r, Fail(r, i), i) /\ Spares(r, SetError(r, i), i)
         /\ r.job[i].state \notin Over => /\ AllSteady(r, Prepare(r, i))
                                          /\ AllSteady(r, Start(r, i))
         /\ AllSteady(r, Complete(r, i))
<1>. DEFINE timer == ResetTimer(r, i)
            normal == SetJobPriority(r, i, "NORMAL")
            reset == ResetTimer(normal, i)
            Others(s) == \A j \in Image : j # i => s.job[j] = r.job[j]
<1>1. r \in Draft
  BY RepositoryIsDraft DEF RepoInv
<1>2. timer \in Draft /\ Others(timer)
  BY ResetTimerInv, ResetTimerJobs, RepositoryIsDraft DEF RepoInv
<1>3. RepoInv(normal) /\ Others(normal)
  BY <1>1, SetJobPriorityInv, SetJobPrioritySteady DEF JobPriority
<1>. HIDE DEF normal
<1>4. reset \in Draft /\ Others(reset)
  BY <1>3, ResetTimerInv, ResetTimerJobs, RepositoryIsDraft DEF RepoInv
<1>. HIDE DEF timer, reset
<1>5. Others(Prepare(r, i))
  BY <1>1, ChangeStateToJobs DEF Prepare, JobState
<1>6. Others(Complete(r, i))
  BY <1>2, ChangeStateToJobs DEF Complete, JobState, timer
<1>7. Others(Fail(r, i)) /\ Others(SetError(r, i))
  <2>1. /\ Others(ChangeStateTo(reset, i, "FAILED"))
        /\ Others(ChangeStateTo(reset, i, "ERROR"))
    BY <1>4, ChangeStateToJobs DEF JobState
  <2>. QED  BY <2>1 DEF Fail, SetError, reset, normal
<1>8. \A s : Others(s) => Spares(r, s, i)
  BY DEF Spares, Steady
<1>9. Prepare(r, i).job[i].state = "PENDING" /\ Complete(r, i).job[i].state = "COMPLETED"
  BY JobStates DEF Enters
<1>10. r.job[i].state \notin Over => AllSteady(r, Start(r, i))
  <2>. DEFINE jobs == [r.job EXCEPT ![i].timer = TRUE]
              t == [r EXCEPT !.job = jobs]
  <2>1. jobs \in [Image -> DraftJob] /\ [r EXCEPT !.job[i].timer = TRUE] = t
    BY <1>1 DEF Draft, DraftJob
  <2>2. jobs[i].timer = TRUE /\ \A j \in Image : j # i => jobs[j] = r.job[j]
    BY <1>1 DEF Draft, DraftJob
  <2>3. t \in Draft /\ t.job = jobs
    <3>. HIDE DEF jobs
    <3>. QED  BY <1>1, <2>1 DEF Draft
  <2>4. Start(r, i) = ChangeStateTo(t, i, "RUNNING")
    BY <2>1 DEF Start
  <2>. HIDE DEF t, jobs
  <2>. DEFINE u == ChangeStateTo(t, i, "RUNNING")
  <2>5. /\ \A j \in Image : j # i => u.job[j] = t.job[j]
        /\ u.job[i].timer = t.job[i].timer
    <3>1. "RUNNING" \in JobState
      BY DEF JobState
    <3>. QED  BY <2>3, <3>1, ChangeStateToJobs
  <2>. HIDE DEF u
  <2>. QED  BY <2>2, <2>3, <2>4, <2>5 DEF AllSteady, Steady, u
<1>11. r.job[i].state \notin Over => AllSteady(r, Prepare(r, i))
  BY <1>5, <1>9 DEF AllSteady, Steady
<1>12. AllSteady(r, Complete(r, i))
  BY <1>6, <1>9 DEF AllSteady, Steady, Over
<1>. QED  BY <1>5, <1>6, <1>7, <1>8, <1>10, <1>11, <1>12

LEMMA JobsSteady ==
  ASSUME NEW r, RepoInv(r), NEW i \in Image
  PROVE  /\ AllSteady(r, UpdateJob(r, i))
         /\ AllSteady(r, LowerPriority(r, i))
         /\ AllSteady(r, AddDeferredJob(r, i))
         /\ Spares(r, DeleteJob(r, i), i)
<1>1. r \in Draft
  BY RepositoryIsDraft DEF RepoInv
<1>2. AllSteady(r, UpdateJob(r, i))
  BY <1>1, UpdateJobType, SteadyChain
<1>3. AllSteady(r, LowerPriority(r, i))
  <2>. DEFINE lowered == SetJobPriority(r, i, "LOW")
  <2>1. lowered \in Draft /\ AllSteady(r, lowered)
    BY <1>1, SetJobPriorityType, SetJobPrioritySteady DEF JobPriority
  <2>. HIDE DEF lowered
  <2>2. UpdateRoot(lowered).job = lowered.job /\ UpdateJob(lowered, i).job = lowered.job
    BY <2>1, UpdateRootType, UpdateJobType
  <2>3. LowerPriority(r, i).job = lowered.job
    BY <2>2 DEF LowerPriority, lowered
  <2>. QED  BY <2>1, <2>3 DEF AllSteady, Steady
<1>4. AllSteady(r, AddDeferredJob(r, i))
  <2>1. CASE Present(r, i)
    BY <2>1, SteadyChain DEF AddDeferredJob
  <2>2. CASE ~ Present(r, i)
    <3>. DEFINE new == [state |-> "NONE", priority |-> IF i \in Background THEN "HIGH" ELSE "NORMAL",
                        timer |-> FALSE]
                jobs == [r.job EXCEPT ![i] = new]
                t == [r EXCEPT !.job = jobs]
                created == UpdateTime(t, i)
    <3>1. new \in DraftJob /\ [r EXCEPT !.job[i] = new] = t
      BY <1>1 DEF Draft, DraftJob, JobPriority
    <3>2. \/ AddDeferredJob(r, i) = Prepare(created, i)
          \/ AddDeferredJob(r, i) = Prepare(PushJob(created, i), i)
      BY <2>2, <3>1 DEF AddDeferredJob
    <3>. HIDE DEF new
    <3>3. t \in Draft /\ \A j \in Image : j # i => t.job[j] = r.job[j]
      BY <1>1, <3>1 DEF Draft
    <3>. HIDE DEF t
    <3>4. created \in Draft /\ created.job = t.job
      BY <3>3, UpdateTimeType
    <3>. HIDE DEF created
    <3>5. PushJob(created, i) \in Draft /\ PushJob(created, i).job = t.job
      BY <3>4, PushJobType
    <3>6. /\ \A j \in Image : j # i => AddDeferredJob(r, i).job[j] = r.job[j]
          /\ AddDeferredJob(r, i).job[i].state = "PENDING"
      BY <3>2, <3>3, <3>4, <3>5, ChangeStateToJobs DEF Prepare, JobState
    <3>. QED  BY <2>2, <3>6 DEF AllSteady, Steady, Present, Over
  <2>. QED  BY <2>1, <2>2
<1>5. Spares(r, DeleteJob(r, i), i)
  BY DeleteJobEffect DEF Spares, Steady
<1>. QED  BY <1>2, <1>3, <1>4, <1>5

-----------------------------------------------------------------------------
(***************************************************************************)
(* What the last call of a handler, which may start a photo, makes of the  *)
(* state m.                                                                *)
(***************************************************************************)
Holds(q, p) == \A k \in 1 .. Len(p) : \E l \in 1 .. Len(q) : q[l] = p[k]

Moves(m) ==
  /\ Holds(cmds', m.cmds)
  /\ result'.crash = m.result.crash
  /\ AllSteady(m.repo, repo')
  /\ \A j \in Image : ~ Present(m.repo, j) => ~ Present(repo', j)

LEMMA HoldsMore ==
  ASSUME NEW p \in Seq(Command), NEW c \in Seq(Command)
  PROVE  Holds(p \o c, p) /\ Holds(p, p)
<1>1. Len(p \o c) = Len(p) + Len(c) /\ \A k \in 1 .. Len(p) : (p \o c)[k] = p[k]
  BY ConcatProperties
<1>2. Len(p) \in Nat /\ Len(c) \in Nat
  OBVIOUS
<1>. QED  BY <1>1, <1>2 DEF Holds

LEMMA MovesBecome ==
  ASSUME NEW m, MidInv(m), Become(m)
  PROVE  Moves(m)
<1>1. m.cmds \in Seq(Command)
  BY DEF MidInv, MidState
<1>2. Holds(m.cmds, m.cmds)
  BY <1>1, HoldsMore
<1>. QED  BY <1>2, SteadyChain DEF Become, Moves

LEMMA DoProcessMoves ==
  ASSUME NEW m, MidInv(m), NEW i \in Image
  PROVE  LET n == DoProcess(m, i)
         IN  Holds(n.cmds, m.cmds) /\ n.result.crash = m.result.crash
<1>. DEFINE r == Start(m.repo, i)
            high == m.result.high \ {i}
            n == [m EXCEPT !.repo = r, !.result.high = high]
            p == PostProcess(n, i)
            sent == m.cmds \o <<Failed(i, "NOT_READY")>>
<1>1. DoProcess(m, i) = p
  BY DEF DoProcess, MidInv, MidState, Result
<1>. HIDE DEF r, high
<1>2. /\ n.cmds = m.cmds /\ n.result.crash = m.result.crash /\ n.hal = m.hal
      /\ n \in [repo : {r}, result : {n.result}, hal : PostProcessor, ive : Ive,
                strategy : Strategy, cmds : Seq(Command)]
  BY DEF MidInv, MidState, Result
<1>3. n.hal.session \in {"null", "dead", "live"}
  BY <1>2 DEF MidInv, MidState, PostProcessor, SessionState
<1>. HIDE DEF n
<1>4. p.result = n.result /\ p.cmds \in {n.cmds, n.cmds \o <<Failed(i, "NOT_READY")>>}
  BY <1>2, <1>3 DEF PostProcess, Send
<1>5. Holds(m.cmds, m.cmds) /\ Holds(sent, m.cmds)
  BY HoldsMore, CommandTypes DEF Error, MidInv, MidState
<1>. HIDE DEF p
<1>. QED  BY <1>1, <1>2, <1>4, <1>5

LEMMA TryDoScheduleMoves ==
  ASSUME NEW m, MidInv(m), TryDoSchedule(m)
  PROVE  Moves(m)
<1>1. CASE Become(m)
  BY <1>1, MovesBecome
<1>2. CASE \E i \in Image : CanProcess(m, i) /\ Become(DoProcess(m, i))
  <2>1. PICK i \in Image : CanProcess(m, i) /\ Become(DoProcess(m, i))
    BY <1>2
  <2>2. Present(m.repo, i) /\ m.repo.job[i].state \notin Over
    BY <2>1 DEF CanProcess, IsActive, Present, Over
  <2>3. AllSteady(m.repo, Start(m.repo, i)) /\ Enters(m.repo, Start(m.repo, i), i, "RUNNING")
    BY <2>2, MidRepo, StatesSteady, StartStates
  <2>4. repo' = Start(m.repo, i)
    BY <2>1, DoProcessRepo DEF Become
  <2>5. Holds(cmds', m.cmds) /\ result'.crash = m.result.crash
    BY <2>1, DoProcessMoves DEF Become
  <2>6. \A j \in Image : ~ Present(m.repo, j) => ~ Present(repo', j)
    BY <2>2, <2>3, <2>4 DEF Enters, Present
  <2>. QED  BY <2>3, <2>4, <2>5, <2>6 DEF Moves
<1>. QED  BY <1>1, <1>2 DEF TryDoSchedule

LEMMA EventChangedMoves ==
  ASSUME NEW m, MidInv(m), NEW e \in Event, EventChanged(m, e), EventsOK
  PROVE  Moves(m)
<1>1. PICK left \in BOOLEAN :
        LET st == HandleEventChanged(m.strategy, e, events.needTrailing, left)
            changed == [m EXCEPT !.strategy = st]
        IN  Become(changed) \/ Become(Interrupt(changed)) \/ TryDoSchedule(changed)
  BY DEF EventChanged
<1>. DEFINE st == HandleEventChanged(m.strategy, e, events.needTrailing, left)
            changed == [m EXCEPT !.strategy = st]
<1>2. st \in Strategy
  BY HandleEventChangedType DEF EventsOK, MidInv, MidState
<1>. HIDE DEF st
<1>3. MidInv(changed) /\ changed.repo = m.repo /\ changed.result = m.result /\ changed.cmds = m.cmds
  BY <1>2, NewStrategy DEF MidInv, MidState
<1>. HIDE DEF changed
<1>4. /\ MidInv(Interrupt(changed))
      /\ Interrupt(changed).repo = m.repo /\ Interrupt(changed).result = m.result
      /\ Interrupt(changed).cmds = m.cmds
  BY <1>3, InterruptInv DEF Interrupt, MidInv, MidState
<1>5. CASE Become(changed) \/ Become(Interrupt(changed))
  <2>1. Moves(changed) \/ Moves(Interrupt(changed))
    BY <1>3, <1>4, <1>5, MovesBecome
  <2>. QED  BY <1>3, <1>4, <2>1 DEF Moves
<1>6. CASE TryDoSchedule(changed)
  <2>1. Moves(changed)
    BY <1>3, <1>6, TryDoScheduleMoves
  <2>. QED  BY <1>3, <2>1 DEF Moves
<1>. QED  BY <1>1, <1>5, <1>6 DEF st, changed

LEMMA DeRecordResultMoves ==
  ASSUME NEW m, MidInv(m), NEW i \in Image, DeRecordResult(m, i), EventsOK
  PROVE  Moves(m)
<1>. DEFINE taken == TakeResult(m, i)
            n == [taken EXCEPT !.result.bp = "Null"]
<1>1. /\ MidInv(taken) /\ taken.repo = m.repo
      /\ taken.cmds = m.cmds /\ taken.result.crash = m.result.crash
  BY TakeResultInv DEF TakeResult, MidInv, MidState, Result
<1>. HIDE DEF taken
<1>2. MidInv(n) /\ n.repo = m.repo /\ n.cmds = m.cmds /\ n.result.crash = m.result.crash
  BY <1>1, SetBpInv DEF MidInv, MidState, Result
<1>3. CacheEvent("NO_CACHE") \in Event
  BY DEF CacheEvent, Event, CacheStatus
<1>4. CASE EventChanged(n, CacheEvent("NO_CACHE"))
  <2>. HIDE DEF n
  <2>1. Moves(n)
    BY <1>2, <1>3, <1>4, EventChangedMoves
  <2>. QED  BY <1>2, <2>1 DEF Moves
<1>5. CASE Become(taken)
  <2>1. Moves(taken)
    BY <1>1, <1>5, MovesBecome
  <2>. QED  BY <1>1, <2>1 DEF Moves
<1>. QED  BY <1>4, <1>5 DEF DeRecordResult, taken, n

-----------------------------------------------------------------------------
(***************************************************************************)
(* What a handler makes of the photos, of the crash counts and of the      *)
(* commands behind its own.                                                *)
(***************************************************************************)
Calm == /\ Holds(cmds', Tail(cmds))
        /\ result'.crash = result.crash
        /\ AllSteady(repo, repo')

\* The state m is calm up to here.
CalmSoFar(m) ==
  /\ MidInv(m)
  /\ Holds(m.cmds, Tail(cmds))
  /\ m.result.crash = result.crash
  /\ AllSteady(repo, m.repo)

LEMMA HoldsChain ==
  ASSUME NEW q, NEW p, NEW o, Holds(q, p), Holds(p, o)
  PROVE  Holds(q, o)
BY DEF Holds

LEMMA CalmNow ==
  ASSUME IInv, NEW op, Took(op)
  PROVE  CalmSoFar(Now) /\ Now.repo = repo /\ RepoInv(repo) /\ EventsOK /\ Tail(cmds) \in Seq(Command)
<1>1. MidInv(Now) /\ Now.repo = repo /\ RepoInv(repo) /\ EventsOK
  BY TookCommand DEF IInv, OthersOK
<1>2. Now.cmds = Tail(cmds) /\ Now.result = result /\ Tail(cmds) \in Seq(Command)
  BY <1>1 DEF Now, MidInv, MidState
<1>3. Holds(Tail(cmds), Tail(cmds))
  BY <1>2, HoldsMore
<1>. QED  BY <1>1, <1>2, <1>3, SteadyChain DEF CalmSoFar

LEMMA CalmMoves ==
  ASSUME NEW m, CalmSoFar(m), Moves(m)
  PROVE  Calm
<1>1. Holds(cmds', Tail(cmds))
  BY HoldsChain DEF CalmSoFar, Moves
<1>. QED  BY <1>1, SteadyChain DEF CalmSoFar, Moves, Calm

LEMMA CalmRepo ==
  ASSUME NEW m, CalmSoFar(m), NEW r, RepoInv(r), AllSteady(m.repo, r)
  PROVE  CalmSoFar([m EXCEPT !.repo = r])
<1>1. /\ MidInv([m EXCEPT !.repo = r]) /\ [m EXCEPT !.repo = r].repo = r
      /\ [m EXCEPT !.repo = r].cmds = m.cmds /\ [m EXCEPT !.repo = r].result = m.result
  BY NewRepo DEF CalmSoFar, MidInv, MidState
<1>. QED  BY <1>1, SteadyChain DEF CalmSoFar

LEMMA CalmSend ==
  ASSUME NEW m, CalmSoFar(m), NEW c \in Seq(Command)
  PROVE  CalmSoFar(Send(m, c))
<1>1. MidInv(Send(m, c)) /\ Send(m, c).repo = m.repo
  BY SendInv DEF CalmSoFar
<1>2. Send(m, c).cmds = m.cmds \o c /\ Send(m, c).result = m.result
  BY DEF Send, CalmSoFar, MidInv, MidState
<1>3. Holds(m.cmds \o c, Tail(cmds))
  BY HoldsMore, HoldsChain DEF CalmSoFar, MidInv, MidState
<1>. QED  BY <1>1, <1>2, <1>3 DEF CalmSoFar

\* What the handlers do to the record of the results, the crash counts excepted.
LEMMA CalmResults ==
  ASSUME NEW m, CalmSoFar(m), NEW i \in Image, NEW what \in {"image", "error"}
  PROVE  /\ CalmSoFar([m EXCEPT !.result.high = @ \ {i}])
         /\ CalmSoFar([m EXCEPT !.result.high = @ \cup {i}])
         /\ CalmSoFar(TakeResult(m, i))
         /\ CalmSoFar(RecordResult(m, i, what))
         /\ CalmSoFar([m EXCEPT !.result.timeouts = 0])
         /\ CalmSoFar([m EXCEPT !.result.bp = i])
<1>. DEFINE res == m.result
            kept == IF res.cache[i] = "none" THEN what ELSE res.cache[i]
            Changed(x) == [m EXCEPT !.result = x]
<1>1. res \in Result /\ kept \in {"none", "image", "error"}
  BY DEF CalmSoFar, MidInv, MidState, Result
<1>2. /\ [m EXCEPT !.result.high = @ \ {i}] = Changed([res EXCEPT !.high = @ \ {i}])
      /\ [m EXCEPT !.result.high = @ \cup {i}] = Changed([res EXCEPT !.high = @ \cup {i}])
      /\ TakeResult(m, i) = Changed([res EXCEPT !.cache[i] = "none"])
      /\ RecordResult(m, i, what) = Changed([res EXCEPT !.cache[i] = kept])
      /\ [m EXCEPT !.result.timeouts = 0] = Changed([res EXCEPT !.timeouts = 0])
      /\ [m EXCEPT !.result.bp = i] = Changed([res EXCEPT !.bp = i])
  BY DEF CalmSoFar, MidInv, MidState, Result, TakeResult, RecordResult
<1>. HIDE DEF kept, res
<1>3. /\ [res EXCEPT !.high = @ \ {i}] \in Result /\ [res EXCEPT !.high = @ \ {i}].crash = res.crash
      /\ [res EXCEPT !.high = @ \cup {i}] \in Result /\ [res EXCEPT !.high = @ \cup {i}].crash = res.crash
      /\ [res EXCEPT !.timeouts = 0] \in Result /\ [res EXCEPT !.timeouts = 0].crash = res.crash
      /\ [res EXCEPT !.bp = i] \in Result /\ [res EXCEPT !.bp = i].crash = res.crash
  BY <1>1 DEF Result
<1>4. \A x \in {"none", "image", "error"} :
        [res EXCEPT !.cache[i] = x] \in Result /\ [res EXCEPT !.cache[i] = x].crash = res.crash
  BY <1>1 DEF Result
<1>5. ASSUME NEW x \in Result, x.crash = res.crash
      PROVE  CalmSoFar(Changed(x))
  <2>1. /\ MidInv(Changed(x)) /\ Changed(x).repo = m.repo
        /\ Changed(x).cmds = m.cmds /\ Changed(x).result = x
    BY NewResult DEF CalmSoFar, MidInv, MidState
  <2>. HIDE DEF Changed
  <2>. QED  BY <1>5, <2>1 DEF CalmSoFar, res
<1>. HIDE DEF Changed
<1>6. /\ CalmSoFar(Changed([res EXCEPT !.high = @ \ {i}]))
      /\ CalmSoFar(Changed([res EXCEPT !.high = @ \cup {i}]))
      /\ CalmSoFar(Changed([res EXCEPT !.timeouts = 0]))
      /\ CalmSoFar(Changed([res EXCEPT !.bp = i]))
  BY <1>3, <1>5
<1>7. /\ CalmSoFar(Changed([res EXCEPT !.cache[i] = "none"]))
      /\ CalmSoFar(Changed([res EXCEPT !.cache[i] = kept]))
  BY <1>1, <1>4, <1>5
<1>. QED  BY <1>2, <1>6, <1>7

-----------------------------------------------------------------------------
(***************************************************************************)
(* The handlers.                                                           *)
(***************************************************************************)
\* A photo that is removed has no job and no count; the others are spared.
RemovedStep(i) ==
  /\ Holds(cmds', Tail(cmds))
  /\ Spares(repo, repo', i) /\ ~ Present(repo', i)
  /\ result'.crash = [result.crash EXCEPT ![i] = 0]

\* An error of a photo that is there ends its run, and for good when it is fatal or the
\* third crash; of a photo that is not there it changes nothing but the count.
FailedStep(i, e) ==
  /\ Holds(cmds', Tail(cmds))
  /\ Spares(repo, repo', i)
  /\ \A j \in Image : j # i => result'.crash[j] = result.crash[j]
  /\ e # "NOT_READY" => result'.crash = result.crash
  /\ ~ Present(repo, i) => AllSteady(repo, repo')
  /\ Present(repo, i) /\ HasCallback =>
       /\ repo'.job[i].state # "RUNNING"
       /\ e = "FATAL" \/ (e = "NOT_READY" /\ result'.crash[i] = 3) => repo'.job[i].state \in Over

LEMMA HandleAddCalm ==
  ASSUME IInv, HandleAdd
  PROVE  Calm
<1>. DEFINE i == Head(cmds).image
            m == TakeResult(Now, i)
            n == [m EXCEPT !.repo = AddDeferredJob(m.repo, i)]
<1>1. CalmSoFar(Now) /\ Now.repo = repo /\ RepoInv(repo) /\ EventsOK /\ i \in Image
  BY CalmNow, TookCommand, CommandImage DEF HandleAdd
<1>2. CalmSoFar(m) /\ m.repo = repo
  BY <1>1, CalmResults, TakeResultInv DEF CalmSoFar
<1>3. n = [m EXCEPT !.repo = AddDeferredJob(@, i)]
  BY <1>2 DEF CalmSoFar, MidInv, MidState
<1>4. CatchResult(Now, i) \/ Become(n)
  BY <1>3 DEF HandleAdd
<1>. HIDE DEF m
<1>5. CalmSoFar(n)
  BY <1>1, <1>2, AddDeferredJobInv, JobsSteady, CalmRepo
<1>. HIDE DEF n, i
<1>6. Moves(Now) \/ Moves(n)
  BY <1>1, <1>4, <1>5, DeRecordResultMoves, MovesBecome DEF CatchResult, CalmSoFar
<1>. QED  BY <1>1, <1>5, <1>6, CalmMoves

LEMMA HandleRemoveRestorableCalm ==
  ASSUME IInv, HandleRemoveRestorable
  PROVE  Calm
<1>. DEFINE i == Head(cmds).image
            m == [Now EXCEPT !.result.high = @ \ {i}]
            n == [m EXCEPT !.repo = LowerPriority(m.repo, i)]
<1>1. CalmSoFar(Now) /\ Now.repo = repo /\ RepoInv(repo) /\ i \in Image
  BY CalmNow, TookCommand, CommandImage DEF HandleRemoveRestorable
<1>2. CalmSoFar(m) /\ m.repo = repo
  BY <1>1, CalmResults, ForgetHighInv DEF CalmSoFar
<1>3. n = [m EXCEPT !.repo = LowerPriority(@, i)]
  BY <1>2 DEF CalmSoFar, MidInv, MidState
<1>4. (Present(repo, i) /\ Become(n)) \/ Become(m)
  BY <1>3 DEF HandleRemoveRestorable
<1>. HIDE DEF m
<1>5. Present(repo, i) => CalmSoFar(n)
  BY <1>1, <1>2, LowerPriorityInv, JobsSteady, CalmRepo
<1>. HIDE DEF n, i
<1>. QED  BY <1>2, <1>4, <1>5, CalmMoves, MovesBecome DEF CalmSoFar

\* Restoring a photo and cancelling a request lower the priority and update the queue.
LEMMA NormalCalm ==
  ASSUME NEW m, CalmSoFar(m), NEW i \in Image, Present(m.repo, i)
  PROVE  LET n == [m EXCEPT !.repo = UpdateJob(SetJobPriority(@, i, "NORMAL"), i)]
         IN  CalmSoFar(n)
<1>. DEFINE normal == SetJobPriority(m.repo, i, "NORMAL")
            r == UpdateJob(normal, i)
<1>1. RepoInv(m.repo) /\ m.repo \in Draft /\ "NORMAL" \in JobPriority
  BY MidRepo, RepositoryIsDraft DEF CalmSoFar, RepoInv, JobPriority
<1>2. RepoInv(normal) /\ AllSteady(m.repo, normal)
  BY <1>1, SetJobPriorityInv, SetJobPrioritySteady
<1>3. [m EXCEPT !.repo = UpdateJob(SetJobPriority(@, i, "NORMAL"), i)] = [m EXCEPT !.repo = r]
  BY DEF CalmSoFar, MidInv, MidState
<1>. HIDE DEF normal
<1>4. RepoInv(r) /\ AllSteady(m.repo, r)
  BY <1>2, UpdateJobInv, JobsSteady, SteadyChain
<1>. HIDE DEF r
<1>. QED  BY <1>3, <1>4, CalmRepo

LEMMA HandlePriorityCalm ==
  ASSUME IInv, HandleRestore \/ HandleCancel
  PROVE  Calm
<1>. DEFINE i == Head(cmds).image
            m == [Now EXCEPT !.result.high = @ \ {i}]
            restored == [Now EXCEPT !.repo = UpdateJob(SetJobPriority(@, i, "NORMAL"), i)]
            cancelled == [m EXCEPT !.repo = UpdateJob(SetJobPriority(@, i, "NORMAL"), i)]
<1>1. CalmSoFar(Now) /\ Now.repo = repo /\ i \in Image
  BY CalmNow, TookCommand, CommandImage DEF HandleRestore, HandleCancel
<1>2. CalmSoFar(m) /\ m.repo = repo
  BY <1>1, CalmResults, ForgetHighInv DEF CalmSoFar
<1>3. \/ Become(Now) \/ Become(m)
      \/ Present(repo, i) /\ (Become(Send(restored, <<JobChanged>>)) \/ Become(cancelled))
  BY DEF HandleRestore, HandleCancel
<1>. HIDE DEF m
<1>4. Present(repo, i) => CalmSoFar(restored) /\ CalmSoFar(cancelled)
  BY <1>1, <1>2, NormalCalm
<1>. HIDE DEF restored, cancelled, i
<1>5. Present(repo, i) => CalmSoFar(Send(restored, <<JobChanged>>))
  BY <1>4, CalmSend, CommandTypes
<1>. QED  BY <1>1, <1>2, <1>3, <1>4, <1>5, CalmMoves, MovesBecome DEF CalmSoFar

LEMMA HandleRemoveDoes ==
  ASSUME IInv, HandleRemove
  PROVE  Head(cmds).image \in Image /\ RemovedStep(Head(cmds).image)
<1>. DEFINE i == Head(cmds).image
            m == [Now EXCEPT !.result.high = @ \ {i}]
            stopped == IF i \in repo.running THEN Interrupt(m) ELSE m
            deleted == [stopped EXCEPT !.repo = DeleteJob(stopped.repo, i)]
            removed == IF Present(repo, i) THEN deleted ELSE stopped
            left == PostRemove(removed, i)
            n == [left EXCEPT !.result.crash[i] = 0]
            AlikeNow(x) == x.cmds = Tail(cmds) /\ x.result.crash = result.crash
<1>1. CalmSoFar(Now) /\ Now.repo = repo /\ RepoInv(repo) /\ EventsOK /\ i \in Image
  BY CalmNow, TookCommand, CommandImage DEF HandleRemove
<1>2. MidInv(m) /\ m.repo = repo /\ AlikeNow(m)
  <2>1. AlikeNow(m)
    BY <1>1 DEF Now, IInv, ThreadInv, Result
  <2>. QED  BY <1>1, <2>1, ForgetHighInv DEF CalmSoFar
<1>. HIDE DEF m
<1>3. MidInv(stopped) /\ stopped.repo = repo /\ AlikeNow(stopped)
  <2>1. Interrupt(m).cmds = m.cmds /\ Interrupt(m).result = m.result
    BY <1>2 DEF Interrupt, MidInv, MidState
  <2>. QED  BY <1>1, <1>2, <2>1, InterruptInv
<1>. HIDE DEF stopped
<1>4. MidInv(deleted) /\ deleted.repo = DeleteJob(repo, i) /\ AlikeNow(deleted)
  <2>1. deleted.cmds = stopped.cmds /\ deleted.result = stopped.result
    BY <1>3 DEF MidInv, MidState
  <2>. QED  BY <1>1, <1>3, <2>1, DeleteJobInv, NewRepo
<1>5. deleted = [stopped EXCEPT !.repo = DeleteJob(@, i)]
  BY <1>3 DEF MidInv, MidState
<1>. HIDE DEF deleted
<1>6. /\ MidInv(removed) /\ AlikeNow(removed)
      /\ Spares(repo, removed.repo, i) /\ ~ Present(removed.repo, i)
  <2>1. CASE Present(repo, i)
    <3>1. Spares(repo, DeleteJob(repo, i), i) /\ ~ Present(DeleteJob(repo, i), i)
      BY <1>1, JobsSteady, DeleteJobStates DEF Enters, Present
    <3>. QED  BY <1>4, <2>1, <3>1
  <2>2. CASE ~ Present(repo, i)
    <3>1. Spares(repo, repo, i)
      BY SteadyChain DEF Spares, AllSteady
    <3>. QED  BY <1>3, <2>2, <3>1
  <2>. QED  BY <2>1, <2>2
<1>. HIDE DEF removed
<1>7. MidInv(left) /\ left.repo = removed.repo /\ AlikeNow(left)
  <2>1. left.cmds = removed.cmds /\ left.result = removed.result
    <3>1. removed.hal.session \in {"null", "dead", "live"}
      BY <1>6 DEF MidInv, MidState, PostProcessor, SessionState
    <3>. QED  BY <1>6, <3>1 DEF PostRemove, MidInv, MidState
  <2>. QED  BY <1>1, <1>6, <2>1, PostRemoveInv
<1>. HIDE DEF left
<1>8. /\ MidInv(n) /\ n.repo = removed.repo /\ n.cmds = Tail(cmds)
      /\ n.result.crash = [result.crash EXCEPT ![i] = 0]
  <2>1. n.cmds = left.cmds /\ n.result.crash = [left.result.crash EXCEPT ![i] = 0]
    BY <1>7 DEF MidInv, MidState, Result
  <2>. QED  BY <1>1, <1>7, <2>1, ResetCrashInv
<1>. HIDE DEF n
<1>9. DeRecordResult(n, i)
  BY <1>5 DEF HandleRemove, n, left, removed, stopped, m
<1>10. Moves(n)
  BY <1>1, <1>8, <1>9, DeRecordResultMoves
<1>. HIDE DEF i
<1>. QED  BY <1>1, <1>6, <1>8, <1>10, SteadyChain DEF Moves, RemovedStep, i

LEMMA OnProcessErrorDoes ==
  ASSUME IInv, NEW op, Took(op), NEW i \in Image, NEW e, OnProcessError(Now, i, e)
  PROVE  FailedStep(i, e)
<1>. DEFINE count == CountError(Now, i, e)
            counted == StopTimer(count, i)
            type == ErrorType(Now, i, EffectiveError(Now, i, e))
            next == CASE type = "RETRY" -> Prepare(counted.repo, i)
                      [] type = "FATAL_NOTIFY" -> SetError(counted.repo, i)
                      [] OTHER -> Fail(counted.repo, i)
            entered == CASE type = "RETRY" -> "PENDING"
                         [] type = "FATAL_NOTIFY" -> "ERROR"
                         [] OTHER -> "FAILED"
            done == [counted EXCEPT !.repo = next]
            notices == Notices(Now.repo, i, entered)
            crash == [result.crash EXCEPT ![i] = CrashCount(Now, i, e)]
            AlikeNow(x) == x.cmds = Tail(cmds) /\ x.result.crash = crash
<1>1. /\ MidInv(Now) /\ Now.repo = repo /\ RepoInv(repo) /\ Now.cmds = Tail(cmds)
      /\ Tail(cmds) \in Seq(Command) /\ Now.result = result /\ result \in Result
  BY CalmNow DEF CalmSoFar, Now, IInv, ThreadInv
<1>2. MidInv(count) /\ count.repo = repo /\ AlikeNow(count)
  <2>1. AlikeNow(count)
    BY <1>1 DEF CountError, MidInv, MidState, Result
  <2>. QED  BY <1>1, <2>1, CountErrorInv
<1>3. \/ /\ ~ Present(repo, i) \/ ~ HasCallback
         /\ Become(RecordResult(counted, i, "error"))
      \/ Present(repo, i) /\ Become(Send(done, notices))
  BY <1>1 DEF OnProcessError
<1>4. /\ \A j \in Image : j # i => crash[j] = result.crash[j]
      /\ e = "FATAL" \/ (e = "NOT_READY" /\ crash[i] = 3) => type = "FATAL_NOTIFY"
      /\ e # "NOT_READY" => crash = result.crash
  <2>1. crash[i] = CrashCount(Now, i, e) /\ \A j \in Image : j # i => crash[j] = result.crash[j]
    BY <1>1 DEF Result
  <2>2. CASE e = "NOT_READY"
    <3>1. CrashCount(Now, i, e) = 3 => type = "FATAL_NOTIFY"
      BY <2>2 DEF EffectiveError, ErrorType
    <3>. QED  BY <2>1, <2>2, <3>1
  <2>3. CASE e # "NOT_READY"
    <3>1. CrashCount(Now, i, e) = result.crash[i]
      BY <1>1, <2>3 DEF CrashCount
    <3>2. e = "FATAL" => type = "FATAL_NOTIFY"
      BY DEF EffectiveError, ErrorType
    <3>. QED  BY <1>1, <2>1, <2>3, <3>1, <3>2 DEF Result
  <2>. QED  BY <2>2, <2>3
<1>. HIDE DEF count, crash
<1>5. /\ MidInv(counted) /\ AlikeNow(counted) /\ counted.repo = ResetTimer(repo, i)
  <2>1. AlikeNow(counted) /\ counted.repo = ResetTimer(repo, i)
    BY <1>2 DEF StopTimer, MidInv, MidState
  <2>. QED  BY <1>2, <2>1, StopTimerInv
<1>6. /\ RepoInv(counted.repo) /\ (Present(counted.repo, i) <=> Present(repo, i))
      /\ Spares(repo, counted.repo, i)
      /\ ~ Present(repo, i) => AllSteady(repo, counted.repo)
      /\ \A j \in Image : j # i => counted.repo.job[j] = repo.job[j]
  BY <1>1, <1>5, ResetTimerInv, ResetTimerJobs DEF Present
<1>7. Holds(Tail(cmds), Tail(cmds))
  BY <1>1, HoldsMore
<1>. HIDE DEF counted, type, entered
<1>8. CASE /\ ~ Present(repo, i) \/ ~ HasCallback
           /\ Become(RecordResult(counted, i, "error"))
  <2>. DEFINE kept == RecordResult(counted, i, "error")
  <2>1. kept.repo = counted.repo /\ kept.cmds = counted.cmds /\ kept.result.crash = counted.result.crash
    BY <1>5 DEF RecordResult, MidInv, MidState, Result
  <2>2. repo' = counted.repo /\ cmds' = Tail(cmds) /\ result'.crash = crash
    <3>. HIDE DEF kept
    <3>. QED  BY <1>5, <1>8, <2>1 DEF Become, kept
  <2>. QED  BY <1>4, <1>6, <1>7, <1>8, <2>2 DEF FailedStep
<1>9. CASE Present(repo, i) /\ Become(Send(done, notices))
  <2>1. /\ Spares(counted.repo, next, i) /\ next.job[i].state # "RUNNING"
        /\ type = "FATAL_NOTIFY" => next.job[i].state \in Over
    <3>1. /\ Spares(counted.repo, Prepare(counted.repo, i), i)
          /\ Spares(counted.repo, SetError(counted.repo, i), i)
          /\ Spares(counted.repo, Fail(counted.repo, i), i)
      BY <1>6, <1>9, StatesSteady
    <3>2. /\ Prepare(counted.repo, i).job[i].state = "PENDING"
          /\ SetError(counted.repo, i).job[i].state = "ERROR"
          /\ Fail(counted.repo, i).job[i].state = "FAILED"
      BY <1>6, <1>9, JobStates DEF Enters
    <3>. QED  BY <3>1, <3>2 DEF Over
  <2>2. Spares(repo, next, i)
    <3>1. \A j \in Image : j # i => Steady(repo, next, j)
      BY <1>6, <2>1 DEF Spares, Steady
    <3>. QED  BY <3>1 DEF Spares
  <2>. HIDE DEF next
  <2>3. repo' = next /\ cmds' = Tail(cmds) \o notices /\ result'.crash = crash
    <3>1. /\ Send(done, notices).repo = next /\ Send(done, notices).cmds = counted.cmds \o notices
          /\ Send(done, notices).result = counted.result
      BY <1>5 DEF Send, MidInv, MidState
    <3>. QED  BY <1>5, <1>9, <3>1 DEF Become
  <2>4. Holds(cmds', Tail(cmds))
    <3>1. notices \in Seq(Command)
      BY NoticesType
    <3>. QED  BY <1>1, <2>3, <3>1, HoldsMore
  <2>. QED  BY <1>4, <1>9, <2>1, <2>2, <2>3, <2>4 DEF FailedStep
<1>. QED  BY <1>3, <1>8, <1>9

LEMMA HandleFailedDoes ==
  ASSUME IInv, HandleFailed
  PROVE  Head(cmds).image \in Image /\ FailedStep(Head(cmds).image, Head(cmds).error)
<1>1. Head(cmds).image \in Image
  BY TookCommand, CommandImage DEF HandleFailed
<1>. QED  BY <1>1, OnProcessErrorDoes DEF HandleFailed

\* A success ends the run of its photo.
LEMMA HandleSuccessDoes ==
  ASSUME IInv, HandleSuccess, HasCallback
  PROVE  Calm /\ Head(cmds).image \in Image /\ repo'.job[Head(cmds).image].state # "RUNNING"
<1>. DEFINE i == Head(cmds).image
            reset == [Now EXCEPT !.result.timeouts = 0]
            m == StopTimer(reset, i)
            finished == [m EXCEPT !.repo = Complete(m.repo, i)]
            notices == Notices(repo, i, "COMPLETED")
            completed == Send(finished, notices)
            held == RecordResult(completed, i, "image")
            gated == [held EXCEPT !.result.bp = i]
            Ends(x) == CalmSoFar(x) /\ (x.repo.job[i].state = "COMPLETED" \/ ~ Present(x.repo, i))
<1>1. CalmSoFar(Now) /\ Now.repo = repo /\ RepoInv(repo) /\ EventsOK /\ i \in Image
  BY CalmNow, TookCommand, CommandImage DEF HandleSuccess
<1>2. CalmSoFar(reset) /\ reset.repo = repo
  BY <1>1, CalmResults, ResetTimeoutsInv DEF CalmSoFar
<1>3. m = [reset EXCEPT !.repo = ResetTimer(repo, i)]
  BY <1>2 DEF StopTimer, CalmSoFar, MidInv, MidState
<1>. HIDE DEF reset, m
<1>4. /\ MidInv(m) /\ m.repo = ResetTimer(repo, i)
      /\ m.cmds = reset.cmds /\ m.result = reset.result
  BY <1>1, <1>2, <1>3, ResetTimerInv, NewRepo DEF CalmSoFar, MidInv, MidState
<1>5. /\ RepoInv(m.repo) /\ (Present(m.repo, i) <=> Present(repo, i))
      /\ Spares(repo, m.repo, i) /\ m.repo.job[i].state = repo.job[i].state
      /\ ~ Present(repo, i) => AllSteady(repo, m.repo)
  BY <1>1, <1>4, ResetTimerInv, ResetTimerJobs DEF Present
<1>6. finished = [m EXCEPT !.repo = Complete(@, i)]
  BY <1>4 DEF MidInv, MidState
<1>. HIDE DEF finished
<1>7. \/ ~ Present(repo, i) /\ Become(RecordResult(m, i, "image"))
      \/ Present(repo, i) /\ EventChanged(gated, CacheEvent("CACHED"))
      \/ Present(repo, i) /\ Become(completed)
  BY <1>6 DEF HandleSuccess, m, reset, i
<1>. HIDE DEF i
<1>8. ~ Present(repo, i) => Ends(RecordResult(m, i, "image"))
  <2>. SUFFICES ASSUME ~ Present(repo, i)
                PROVE  Ends(RecordResult(m, i, "image"))
    OBVIOUS
  <2>1. CalmSoFar(m)
    BY <1>2, <1>4, <1>5 DEF CalmSoFar
  <2>2. CalmSoFar(RecordResult(m, i, "image")) /\ RecordResult(m, i, "image").repo = m.repo
    BY <1>1, <1>4, <2>1, CalmResults, RecordResultInv
  <2>. QED  BY <1>5, <2>2
<1>9. Present(repo, i) => Ends(completed)
  <2>. SUFFICES ASSUME Present(repo, i)
                PROVE  Ends(completed)
    OBVIOUS
  <2>. DEFINE r == Complete(m.repo, i)
  <2>1. RepoInv(r) /\ AllSteady(m.repo, r) /\ r.job[i].state = "COMPLETED"
    BY <1>1, <1>5, CompleteInv, StatesSteady, JobStates DEF Enters
  <2>2. AllSteady(repo, r)
    <3>1. \A j \in Image : j # i => Steady(repo, r, j)
      BY <1>5, <2>1 DEF Spares, AllSteady, Steady
    <3>2. Steady(repo, r, i)
      BY <2>1 DEF Steady, Over
    <3>. QED  BY <3>1, <3>2 DEF AllSteady
  <2>3. finished = [m EXCEPT !.repo = r]
    BY DEF finished
  <2>. HIDE DEF r
  <2>4. /\ MidInv(finished) /\ finished.repo = r
        /\ finished.cmds = m.cmds /\ finished.result = m.result
    BY <1>4, <2>1, <2>3, NewRepo DEF MidInv, MidState
  <2>5. CalmSoFar(finished)
    BY <1>2, <1>4, <2>2, <2>4 DEF CalmSoFar
  <2>6. CalmSoFar(completed) /\ completed.repo = r
    <3>1. notices \in Seq(Command)
      BY NoticesType
    <3>. HIDE DEF notices
    <3>. QED  BY <2>4, <2>5, <3>1, CalmSend, SendInv
  <2>. QED  BY <2>1, <2>6
<1>. HIDE DEF completed
<1>10. Present(repo, i) => Ends(gated)
  <2>. SUFFICES ASSUME Present(repo, i)
                PROVE  Ends(gated)
    OBVIOUS
  <2>1. CalmSoFar(held) /\ held.repo = completed.repo
    BY <1>1, <1>9, CalmResults, RecordResultInv DEF CalmSoFar
  <2>. HIDE DEF held
  <2>2. CalmSoFar(gated) /\ gated.repo = held.repo
    BY <1>1, <2>1, CalmResults, SetBpInv DEF CalmSoFar
  <2>. HIDE DEF gated
  <2>. QED  BY <1>9, <2>1, <2>2
<1>. HIDE DEF gated
<1>11. \E x : Ends(x) /\ Moves(x)
  <2>1. CacheEvent("CACHED") \in Event
    BY DEF CacheEvent, Event, CacheStatus
  <2>. QED  BY <1>1, <1>7, <1>8, <1>9, <1>10, <2>1, MovesBecome, EventChangedMoves DEF CalmSoFar
<1>12. PICK x : Ends(x) /\ Moves(x)
  BY <1>11
<1>13. repo'.job[i].state # "RUNNING"
  BY <1>1, <1>12 DEF Moves, AllSteady, Steady, Over, Present
<1>. QED  BY <1>1, <1>12, <1>13, CalmMoves DEF i

LEMMA HandleProcessCalm ==
  ASSUME IInv, HandleProcess
  PROVE  Calm
<1>. DEFINE i == Head(cmds).image
            high == SetJobPriority(repo, i, "HIGH")
            ready == IF high.job[i].state = "FAILED" THEN Prepare(high, i) ELSE high
            r == UpdateJob(ready, i)
            requested == [Now EXCEPT !.repo = r]
            m == Send(requested, <<JobChanged>>)
            taken == TakeResult(m, i)
            n == [taken EXCEPT !.result.high = @ \cup {i}]
<1>1. CalmSoFar(Now) /\ Now.repo = repo /\ RepoInv(repo) /\ EventsOK /\ i \in Image
  BY CalmNow, TookCommand, CommandImage DEF HandleProcess
<1>2. \/ Become(Now)
      \/ ~ Present(repo, i) /\ OnProcessError(Now, i, "FATAL")
      \/ Present(repo, i) /\ CatchResult(m, i)
      \/ Present(repo, i) /\ Become(n)
  BY DEF HandleProcess
<1>3. Took("Process")
  BY DEF HandleProcess
<1>. HIDE DEF i
<1>4. Present(repo, i) => CalmSoFar(m)
  <2>. SUFFICES ASSUME Present(repo, i)
                PROVE  CalmSoFar(m)
    OBVIOUS
  <2>1. "HIGH" \in JobPriority /\ repo \in Draft
    BY <1>1, RepositoryIsDraft DEF JobPriority, RepoInv
  <2>2. RepoInv(high) /\ Present(high, i) /\ AllSteady(repo, high)
    BY <1>1, <2>1, SetJobPriorityInv, SetJobPrioritySteady
  <2>. HIDE DEF high
  <2>3. RepoInv(ready) /\ AllSteady(high, ready)
    BY <1>1, <2>2, PrepareInv, StatesSteady, SteadyChain DEF Over
  <2>. HIDE DEF ready
  <2>4. RepoInv(r) /\ AllSteady(ready, r)
    BY <1>1, <2>3, UpdateJobInv, JobsSteady
  <2>. HIDE DEF r
  <2>5. AllSteady(Now.repo, r)
    BY <1>1, <2>2, <2>3, <2>4, SteadyChain
  <2>6. CalmSoFar(requested)
    BY <1>1, <2>4, <2>5, CalmRepo
  <2>. HIDE DEF requested
  <2>. QED  BY <2>6, CalmSend, CommandTypes
<1>. HIDE DEF m
<1>5. CASE Become(Now)
  BY <1>1, <1>5, MovesBecome, CalmMoves DEF CalmSoFar
<1>6. CASE ~ Present(repo, i) /\ OnProcessError(Now, i, "FATAL")
  <2>1. FailedStep(i, "FATAL")
    BY <1>1, <1>3, <1>6, OnProcessErrorDoes
  <2>. QED  BY <1>6, <2>1 DEF FailedStep, Calm
<1>7. CASE Present(repo, i) /\ CatchResult(m, i)
  BY <1>1, <1>4, <1>7, DeRecordResultMoves, CalmMoves DEF CatchResult, CalmSoFar
<1>8. CASE Present(repo, i) /\ Become(n)
  <2>1. CalmSoFar(taken)
    BY <1>1, <1>4, <1>8, CalmResults
  <2>. HIDE DEF taken
  <2>2. CalmSoFar(n)
    BY <1>1, <2>1, CalmResults
  <2>. HIDE DEF n
  <2>. QED  BY <1>8, <2>2, MovesBecome, CalmMoves DEF CalmSoFar
<1>. QED  BY <1>2, <1>5, <1>6, <1>7, <1>8

LEMMA HandleProcessCacheCalm ==
  ASSUME IInv, HandleProcessCache
  PROVE  Calm
<1>. DEFINE i == result.bp
<1>1. CalmSoFar(Now) /\ EventsOK
  BY CalmNow DEF HandleProcessCache
<1>2. i # "Null" => i \in Image
  BY DEF IInv, ThreadInv, Result
<1>3. \/ Become(Now)
      \/ i # "Null" /\ CatchResult(Now, i)
      \/ i # "Null" /\ Become(TakeResult(Now, i))
  BY DEF HandleProcessCache
<1>. HIDE DEF i
<1>4. i # "Null" => CalmSoFar(TakeResult(Now, i))
  BY <1>1, <1>2, CalmResults
<1>. QED  BY <1>1, <1>2, <1>3, <1>4, MovesBecome, DeRecordResultMoves, CalmMoves
          DEF CatchResult, CalmSoFar

LEMMA HandleEventsCalm ==
  ASSUME IInv, HandleJobChanged \/ HandleEvent \/ HandleAddSession \/ HandleDeleteSession
  PROVE  Calm
<1>1. CalmSoFar(Now) /\ EventsOK
  BY CalmNow DEF HandleJobChanged, HandleEvent, HandleAddSession, HandleDeleteSession
<1>2. \/ TryDoSchedule(Now)
      \/ \E e \in Event : EventChanged(Now, e)
  <2>1. HandleEvent => Head(cmds).event \in Event
    BY TookCommand, CommandImage DEF HandleEvent
  <2>2. MediaEvent("AVAILABLE") \in Event /\ MediaEvent("DISCONNECTED") \in Event
    BY DEF MediaEvent, Event, MediaLibraryStatus
  <2>. QED  BY <2>1, <2>2 DEF HandleJobChanged, HandleEvent, HandleAddSession, HandleDeleteSession
<1>3. Moves(Now)
  BY <1>1, <1>2, TryDoScheduleMoves, EventChangedMoves DEF CalmSoFar
<1>. QED  BY <1>1, <1>3, CalmMoves

\* One failure for each running id, in some order, then the event.
LEMMA HandlePhotoDiedCalm ==
  ASSUME IInv, HandlePhotoDied
  PROVE  Calm
<1>. DEFINE Failures(ids) == [n \in 1 .. Len(ids) |-> Failed(ids[n], "NOT_READY")]
            last == <<EventCommand("hal", "DISCONNECTED")>>
            dead == [Now EXCEPT !.hal.session = "null"]
<1>1. PICK ids \in SX!SetToSeqs(hal.runningId) : Become(Send(dead, Failures(ids) \o last))
  BY DEF HandlePhotoDied
<1>2. RepoInv(repo) /\ Tail(cmds) \in Seq(Command) /\ hal.runningId \in SUBSET Image
  BY CalmNow DEF HandlePhotoDied, IInv, ThreadInv, PostProcessor
<1>3. Failures(ids) \o last \in Seq(Command)
  <2>1. ids \in Seq(Image)
    <3>1. Cardinality(hal.runningId) \in Nat
      BY <1>2, ConstantsAssumption, FS_Subset, FS_CardinalityType
    <3>2. SX!Cardinality(hal.runningId) = Cardinality(hal.runningId)
      BY Zenon DEF SX!Cardinality, Cardinality
    <3>3. ids \in [1 .. Cardinality(hal.runningId) -> hal.runningId]
      BY <1>1, <3>2 DEF SX!SetToSeqs
    <3>. QED  BY <1>2, <3>1, <3>3
  <2>2. Failures(ids) \in Seq(Command)
    <3>1. Len(ids) \in Nat /\ \A n \in 1 .. Len(ids) : Failed(ids[n], "NOT_READY") \in Command
      BY <2>1 DEF Failed, Command, Error
    <3>2. Failures(ids) \in [1 .. Len(ids) -> Command]
      BY <3>1
    <3>. HIDE DEF Failures
    <3>. QED  BY <3>1, <3>2
  <2>3. last \in Seq(Command)
    BY HalEventType DEF HdiStatus
  <2>. HIDE DEF Failures, last
  <2>. QED  BY <2>2, <2>3, ConcatProperties
<1>. HIDE DEF Failures, last
<1>4. repo' = repo /\ result' = result /\ cmds' = Tail(cmds) \o (Failures(ids) \o last)
  BY <1>1 DEF Become, Send, Now
<1>5. Holds(cmds', Tail(cmds))
  BY <1>2, <1>3, <1>4, HoldsMore
<1>. QED  BY <1>4, <1>5, SteadyChain DEF Calm


-----------------------------------------------------------------------------
(***************************************************************************)
(* The other threads only queue commands, and take a timer away with the   *)
(* command that tells of it.                                               *)
(***************************************************************************)
OthersStep ==
  /\ Holds(cmds', cmds)
  /\ result'.crash = result.crash
  /\ \/ repo' = repo
     \/ \E i \in Image : repo' = ResetTimer(repo, i) /\ cmds' = Append(cmds, Failed(i, "TIMEOUT"))

LEMMA QueueHolds ==
  ASSUME cmds \in Seq(Command)
  PROVE  /\ \A c : Queue(c) \/ QueueUrgent(c) => Holds(cmds', cmds)
         /\ UNCHANGED cmds => Holds(cmds', cmds)
<1>1. ASSUME NEW c, Queue(c)
      PROVE  Holds(cmds', cmds)
  <2>1. /\ Len(cmds') = Len(cmds) + 1 /\ Len(cmds) \in Nat
        /\ \A k \in 1 .. Len(cmds) : cmds'[k] = cmds[k]
    BY <1>1 DEF Queue
  <2>. QED  BY <2>1 DEF Holds
<1>2. ASSUME NEW c, QueueUrgent(c)
      PROVE  Holds(cmds', cmds)
  <2>. DEFINE S == Command \cup {c}
  <2>1. cmds \in Seq(S) /\ <<c>> \in Seq(S) /\ Len(<<c>>) = 1 /\ Len(cmds) \in Nat
    OBVIOUS
  <2>2. /\ Len(<<c>> \o cmds) = 1 + Len(cmds)
        /\ \A k \in 1 .. Len(<<c>>) + Len(cmds) :
             (<<c>> \o cmds)[k] = IF k <= Len(<<c>>) THEN <<c>>[k] ELSE cmds[k - Len(<<c>>)]
    BY <2>1, ConcatProperties
  <2>3. \A k \in 1 .. Len(cmds) : k + 1 \in 1 .. Len(cmds') /\ cmds'[k + 1] = cmds[k]
    BY <1>2, <2>1, <2>2 DEF QueueUrgent
  <2>. QED  BY <2>3 DEF Holds
<1>3. Holds(cmds, cmds)
  BY HoldsMore DEF Holds
<1>. QED  BY <1>1, <1>2, <1>3

LEMMA OthersDo ==
  ASSUME IInv, ClientThreads \/ HdiThreads \/ TimerThread \/ SystemEvents
  PROVE  OthersStep
<1>1. cmds \in Seq(Command) /\ result \in Result
  BY DEF IInv, ThreadInv
<1>2. CASE ClientThreads
  <2>1. UNCHANGED threadState /\ \E c : Queue(c) \/ QueueUrgent(c)
    BY <1>2 DEF ClientThreads, ClientAdds, ClientRemoves, ClientRestores, ClientRequests, ClientCancels,
                LibraryIdle, ClientDies, ClientConnects
  <2>. QED  BY <1>1, <2>1, QueueHolds DEF threadState, OthersStep
<1>3. CASE HdiThreads
  <2>1. UNCHANGED threadState /\ (UNCHANGED cmds \/ \E c : Queue(c))
    BY <1>3 DEF HdiThreads, IveDone, IveFails, IveBackgroundDone, IveStatus, IveDies, IveRestarts,
                ServiceStarted, SessionInstalled
  <2>. QED  BY <1>1, <2>1, QueueHolds DEF threadState, OthersStep
<1>4. CASE SystemEvents
  <2>1. UNCHANGED threadState /\ (UNCHANGED cmds \/ \E c : Queue(c))
    BY <1>4 DEF SystemEvents, CameraChanges, ThermalChanges, DeviceOpens, LowQualityImage
  <2>. QED  BY <1>1, <2>1, QueueHolds DEF threadState, OthersStep
<1>5. CASE TimerThread
  <2>1. CASE TrailingExpires
    <3>1. UNCHANGED <<repo, result>> /\ \E c : Queue(c)
      BY <2>1 DEF TrailingExpires
    <3>. QED  BY <1>1, <3>1, QueueHolds DEF OthersStep
  <2>2. ASSUME NEW i \in Image, TimerExpires(i) \/ OrphanExpires(i)
        PROVE  OthersStep
    <3>1. /\ Queue(Failed(i, "TIMEOUT"))
          /\ result' = [result EXCEPT !.timeouts = (@ + 1) % 3]
          /\ repo' = repo \/ repo' = ResetTimer(repo, i)
      BY <2>2 DEF TimerExpires, OrphanExpires, Timeout
    <3>2. result'.crash = result.crash
      BY <1>1, <3>1 DEF Result
    <3>3. Holds(cmds', cmds)
      BY <1>1, <3>1, QueueHolds
    <3>. QED  BY <3>1, <3>2, <3>3 DEF OthersStep, Queue
  <2>. QED  BY <1>5, <2>1, <2>2 DEF TimerThread
<1>. QED  BY <1>2, <1>3, <1>4, <1>5

-----------------------------------------------------------------------------
(***************************************************************************)
(* A run is watched.                                                       *)
(***************************************************************************)
Ends(c, i) == c.op \in {"Success", "Failed"} /\ c.image = i

\* The command that ends the run of i is in q.
Coming(q, i) == \E k \in 1 .. Len(q) : Ends(q[k], i)

WatchInv == \A i \in Image : repo.job[i].state = "RUNNING" => repo.job[i].timer \/ Coming(cmds, i)

LEMMA ComingStays ==
  ASSUME NEW q, NEW p, NEW i, Holds(q, p), Coming(p, i)
  PROVE  Coming(q, i)
<1>1. PICK k \in 1 .. Len(p) : Ends(p[k], i)
  BY DEF Coming
<1>2. PICK l \in 1 .. Len(q) : q[l] = p[k]
  BY DEF Holds
<1>. QED  BY <1>1, <1>2 DEF Coming

LEMMA ComingBehind ==
  ASSUME NEW q \in Seq(Command), q # <<>>, NEW i, Coming(q, i), ~ Ends(Head(q), i)
  PROVE  Coming(Tail(q), i)
<1>1. PICK k \in 1 .. Len(q) : Ends(q[k], i)
  BY DEF Coming
<1>2. k # 1 /\ Len(q) \in Nat
  BY <1>1
<1>3. k - 1 \in 1 .. Len(Tail(q)) /\ Tail(q)[k - 1] = q[k]
  BY <1>2
<1>. QED  BY <1>1, <1>3 DEF Coming

\* A handler that ends the run of no photo, or of i alone.
LEMMA WatchedOn ==
  ASSUME WatchInv, cmds \in Seq(Command), cmds # <<>>, Holds(cmds', Tail(cmds)),
         NEW j \in Image, Steady(repo, repo', j), ~ Ends(Head(cmds), j),
         repo'.job[j].state = "RUNNING"
  PROVE  repo'.job[j].timer \/ Coming(cmds', j)
<1>1. CASE repo'.job[j].timer
  BY <1>1
<1>2. CASE ~ repo'.job[j].timer
  <2>1. repo.job[j].state = "RUNNING" /\ ~ repo.job[j].timer
    BY <1>2 DEF Steady
  <2>2. Coming(cmds, j)
    BY <2>1 DEF WatchInv
  <2>. QED  BY <2>2, ComingBehind, ComingStays
<1>. QED  BY <1>1, <1>2

\* What each handler does, once more, by the command it has taken.
LEMMA HandlersDo ==
  ASSUME IInv, CommandThread, HasCallback
  PROVE  /\ cmds # <<>> /\ Holds(cmds', Tail(cmds))
         /\ \/ Calm /\ Head(cmds).op \notin {"Success", "Failed"}
            \/ /\ Calm /\ Head(cmds).op = "Success" /\ Head(cmds).image \in Image
               /\ repo'.job[Head(cmds).image].state # "RUNNING"
            \/ /\ Head(cmds).image \in Image /\ RemovedStep(Head(cmds).image)
               /\ Head(cmds).op = "Remove"
            \/ /\ Head(cmds).image \in Image /\ FailedStep(Head(cmds).image, Head(cmds).error)
               /\ Head(cmds).op = "Failed" /\ HandleFailed
<1>1. CASE HandleFailed
  <2>1. Took("Failed")
    BY <1>1 DEF HandleFailed
  <2>. QED  BY <1>1, <2>1, HandleFailedDoes DEF Took, FailedStep
<1>2. CASE HandleSuccess
  <2>1. Took("Success")
    BY <1>2 DEF HandleSuccess
  <2>. QED  BY <1>2, <2>1, HandleSuccessDoes DEF Took, Calm
<1>3. CASE HandleRemove
  <2>1. Took("Remove")
    BY <1>3 DEF HandleRemove
  <2>. QED  BY <1>3, <2>1, HandleRemoveDoes DEF Took, RemovedStep
<1>4. CASE \/ HandleAdd \/ HandleRemoveRestorable \/ HandleRestore \/ HandleCancel
           \/ HandleProcess \/ HandleProcessCache \/ HandleJobChanged \/ HandleEvent \/ HandlePhotoDied
           \/ HandleAddSession \/ HandleDeleteSession
  <2>1. cmds # <<>> /\ Head(cmds).op \notin {"Success", "Failed"}
    BY <1>4 DEF HandleAdd, HandleRemoveRestorable, HandleRestore, HandleCancel, HandleProcess,
                HandleProcessCache, HandleJobChanged, HandleEvent, HandlePhotoDied,
                HandleAddSession, HandleDeleteSession, Took
  <2>2. Calm
    BY <1>4, HandleAddCalm, HandleRemoveRestorableCalm, HandlePriorityCalm, HandleProcessCalm,
       HandleProcessCacheCalm, HandleEventsCalm, HandlePhotoDiedCalm
  <2>. QED  BY <2>1, <2>2 DEF Calm
<1>. QED  BY <1>1, <1>2, <1>3, <1>4 DEF CommandThread


LEMMA WatchNext ==
  ASSUME IInv, IInv', WatchInv, HasCallback, [Next]_vars
  PROVE  WatchInv'
<1>1. cmds \in Seq(Command) /\ RepoInv(repo)
  BY DEF IInv, ThreadInv
<1>2. CASE UNCHANGED vars
  BY <1>2 DEF vars, pipeline, WatchInv, Coming
<1>3. CASE CommandThread
  <2>. SUFFICES ASSUME NEW j \in Image, repo'.job[j].state = "RUNNING"
                PROVE  repo'.job[j].timer \/ Coming(cmds', j)
    BY DEF WatchInv, Coming
  <2>1. cmds # <<>> /\ Holds(cmds', Tail(cmds))
    BY <1>3, HandlersDo
  <2>2. CASE Calm /\ Head(cmds).op \notin {"Success", "Failed"}
    <3>1. ~ Ends(Head(cmds), j) /\ Steady(repo, repo', j)
      BY <2>2 DEF Ends, Calm, AllSteady
    <3>. QED  BY <1>1, <2>1, <3>1, WatchedOn
  <2>3. CASE Calm /\ repo'.job[Head(cmds).image].state # "RUNNING"
    <3>1. ~ Ends(Head(cmds), j) /\ Steady(repo, repo', j)
      BY <2>3 DEF Ends, Calm, AllSteady
    <3>. QED  BY <1>1, <2>1, <3>1, WatchedOn
  <2>4. CASE RemovedStep(Head(cmds).image)
    <3>1. j # Head(cmds).image
      BY <2>4 DEF RemovedStep, Present
    <3>2. ~ Ends(Head(cmds), j) /\ Steady(repo, repo', j)
      BY <2>4, <3>1 DEF Ends, RemovedStep, Spares
    <3>. QED  BY <1>1, <2>1, <3>2, WatchedOn
  <2>5. CASE Head(cmds).image \in Image /\ FailedStep(Head(cmds).image, Head(cmds).error)
    <3>1. CASE j = Head(cmds).image
      <4>1. ~ Present(repo, j) /\ Steady(repo, repo', j)
        BY <2>5, <3>1 DEF FailedStep, AllSteady
      <4>. QED  BY <4>1 DEF Steady, Present
    <3>2. CASE j # Head(cmds).image
      <4>1. ~ Ends(Head(cmds), j) /\ Steady(repo, repo', j)
        BY <2>5, <3>2 DEF Ends, FailedStep, Spares
      <4>. QED  BY <1>1, <2>1, <4>1, WatchedOn
    <3>. QED  BY <3>1, <3>2
  <2>. QED  BY <1>3, <2>2, <2>3, <2>4, <2>5, HandlersDo
<1>4. CASE ClientThreads \/ HdiThreads \/ TimerThread \/ SystemEvents
  <2>1. OthersStep
    BY <1>4, OthersDo
  <2>. SUFFICES ASSUME NEW j \in Image, repo'.job[j].state = "RUNNING"
                PROVE  repo'.job[j].timer \/ Coming(cmds', j)
    BY DEF WatchInv, Coming
  <2>2. CASE repo'.job[j] = repo.job[j]
    <3>1. repo.job[j].timer \/ Coming(cmds, j)
      BY <2>2 DEF WatchInv
    <3>. QED  BY <2>1, <2>2, <3>1, ComingStays DEF OthersStep
  <2>3. CASE repo' = ResetTimer(repo, j) /\ cmds' = Append(cmds, Failed(j, "TIMEOUT"))
    <3>1. Len(cmds') = Len(cmds) + 1 /\ cmds'[Len(cmds) + 1] = Failed(j, "TIMEOUT") /\ Len(cmds) \in Nat
      BY <1>1, <2>3
    <3>2. Ends(Failed(j, "TIMEOUT"), j)
      BY DEF Ends, Failed
    <3>. QED  BY <3>1, <3>2 DEF Coming
  <2>4. repo' = repo \/ \E i \in Image : repo' = ResetTimer(repo, i) /\ cmds' = Append(cmds, Failed(i, "TIMEOUT"))
    BY <2>1 DEF OthersStep
  <2>5. \A i \in Image : i # j /\ repo' = ResetTimer(repo, i) => repo'.job[j] = repo.job[j]
    BY <1>1, ResetTimerJobs
  <2>. QED  BY <2>2, <2>3, <2>4, <2>5
<1>. QED  BY <1>2, <1>3, <1>4 DEF Next

(***************************************************************************)
(* As long as the client has its callback, the processing thread is never  *)
(* left waiting for an HDI that does not answer: of the photo that runs,   *)
(* the timer is registered, or the command that ends the run is queued.    *)
(***************************************************************************)
THEOREM RunsAreWatched == Spec /\ []HasCallback => []RunningIsWatched
<1>1. Init => IInv /\ WorkloadOK
  BY InitInv
<1>2. Init => WatchInv
  BY DEF Init, WatchInv, NoJob
<1>3. IInv /\ WorkloadOK /\ [Next]_vars => IInv' /\ WorkloadOK'
  BY IInvInductive
<1>4. IInv /\ IInv' /\ WatchInv /\ HasCallback /\ [Next]_vars => WatchInv'
  BY WatchNext
<1>5. IInv /\ WatchInv => RunningIsWatched
  <2>. SUFFICES ASSUME IInv, WatchInv, NEW i \in repo.running
                PROVE  \/ repo.job[i].timer
                       \/ \E k \in 1 .. Len(cmds) : cmds[k].op \in {"Success", "Failed"} /\ cmds[k].image = i
    BY DEF RunningIsWatched
  <2>1. i \in Image /\ repo.job[i].state = "RUNNING"
    BY DEF IInv, ThreadInv, RepoInv, RunningIsState, Repository
  <2>. QED  BY <2>1 DEF WatchInv, Coming, Ends
<1>. QED  BY <1>1, <1>2, <1>3, <1>4, <1>5, PTL DEF Spec

-----------------------------------------------------------------------------
(***************************************************************************)
(* A photo the HDI dies on is given up, if its answers come in time: a     *)
(* timeout or an interruption that was queued before the third death moves *)
(* the job back from ERROR to FAILED, and the deaths on a photo that the   *)
(* client has removed count for the job it adds next.                      *)
(***************************************************************************)
FailureInTime ==
  HandleFailed =>
    LET i == Head(cmds).image
        e == Head(cmds).error
    IN  /\ result.crash[i] = 3 => e \in {"NOT_READY", "FATAL"}
        /\ e = "NOT_READY" => Present(repo, i)

GivenUp == \A i \in Image : result.crash[i] = 3 => repo.job[i].state \in Over

LEMMA GivenUpNext ==
  ASSUME IInv, IInv', GivenUp, HasCallback, [Next /\ FailureInTime]_vars
  PROVE  /\ GivenUp'
         /\ \A i \in Image : Starts(i) => result.crash[i] < 3
<1>1. RepoInv(repo) /\ \A i \in Image : result.crash[i] \in 0 .. 3
  BY DEF IInv, ThreadInv, Result
<1>. SUFFICES ASSUME NEW j \in Image
              PROVE  /\ result'.crash[j] = 3 => repo'.job[j].state \in Over
                     /\ Starts(j) => result.crash[j] # 3
  BY <1>1 DEF GivenUp
<1>2. CASE UNCHANGED vars
  BY <1>2 DEF vars, pipeline, GivenUp, Starts
<1>3. ASSUME Steady(repo, repo', j)
      PROVE  /\ result'.crash[j] = result.crash[j] =>
                  (result'.crash[j] = 3 => repo'.job[j].state \in Over)
             /\ Starts(j) => result.crash[j] # 3
  BY <1>3 DEF GivenUp, Steady, Starts, Over
<1>4. CASE CommandThread /\ FailureInTime
  <2>1. CASE Calm
    BY <1>3, <2>1 DEF Calm, AllSteady
  <2>2. CASE Head(cmds).image \in Image /\ RemovedStep(Head(cmds).image)
    <3>1. CASE j = Head(cmds).image
      <4>1. result'.crash[j] = 0 /\ repo'.job[j].state = "NONE"
        BY <2>2, <3>1 DEF RemovedStep, Present, IInv, ThreadInv, Result
      <4>. QED  BY <4>1 DEF Starts
    <3>2. CASE j # Head(cmds).image
      <4>1. result'.crash[j] = result.crash[j] /\ Steady(repo, repo', j)
        BY <2>2, <3>2 DEF RemovedStep, Spares, IInv, ThreadInv, Result
      <4>. QED  BY <1>3, <4>1
    <3>. QED  BY <3>1, <3>2
  <2>3. CASE HandleFailed /\ Head(cmds).image \in Image /\ FailedStep(Head(cmds).image, Head(cmds).error)
    <3>1. CASE j # Head(cmds).image
      <4>1. result'.crash[j] = result.crash[j] /\ Steady(repo, repo', j)
        BY <2>3, <3>1 DEF FailedStep, Spares
      <4>. QED  BY <1>3, <4>1
    <3>2. CASE j = Head(cmds).image /\ Present(repo, j)
      <4>. DEFINE e == Head(cmds).error
      <4>1. /\ repo'.job[j].state # "RUNNING"
            /\ e = "FATAL" \/ (e = "NOT_READY" /\ result'.crash[j] = 3) => repo'.job[j].state \in Over
            /\ e # "NOT_READY" => result'.crash = result.crash
        BY <2>3, <3>2 DEF FailedStep
      <4>2. result.crash[j] = 3 => e \in {"NOT_READY", "FATAL"}
        BY <1>4, <2>3, <3>2 DEF FailureInTime
      <4>. QED  BY <4>1, <4>2 DEF Starts
    <3>3. CASE j = Head(cmds).image /\ ~ Present(repo, j)
      <4>1. Head(cmds).error # "NOT_READY"
        BY <1>4, <2>3, <3>3 DEF FailureInTime
      <4>2. result'.crash = result.crash /\ AllSteady(repo, repo')
        BY <2>3, <3>3, <4>1 DEF FailedStep
      <4>. QED  BY <1>3, <4>2 DEF AllSteady
    <3>. QED  BY <3>1, <3>2, <3>3
  <2>. QED  BY <1>4, <2>1, <2>2, <2>3, HandlersDo
<1>5. CASE ClientThreads \/ HdiThreads \/ TimerThread \/ SystemEvents
  <2>1. OthersStep
    BY <1>5, OthersDo
  <2>2. repo'.job[j].state = repo.job[j].state
    <3>1. \A i \in Image : ResetTimer(repo, i).job[j].state = repo.job[j].state
      BY <1>1 DEF ResetTimer, RepoInv, Repository
    <3>. QED  BY <2>1, <3>1 DEF OthersStep
  <2>. QED  BY <2>1, <2>2 DEF OthersStep, Starts, GivenUp
<1>. QED  BY <1>2, <1>4, <1>5 DEF Next

(***************************************************************************)
(* With the client there, and as long as no failure comes late in this     *)
(* sense, a photo the HDI has died on three times is not given to it       *)
(* again, however the deaths mix with other answers, with requests and     *)
(* their cancellation, and with removals.                                  *)
(***************************************************************************)
THEOREM CrashesAreGivenUp ==
  Spec /\ []HasCallback /\ [][FailureInTime]_vars => CrashingPhotoIsGivenUp
<1>. DEFINE Spared == \A i \in Image : Starts(i) => result.crash[i] < 3
<1>1. Init => IInv /\ WorkloadOK
  BY InitInv
<1>2. Init => GivenUp
  BY DEF Init, GivenUp
<1>3. IInv /\ WorkloadOK /\ [Next]_vars => IInv' /\ WorkloadOK'
  BY IInvInductive
<1>4. IInv /\ IInv' /\ GivenUp /\ HasCallback /\ [Next]_vars /\ [FailureInTime]_vars
        => GivenUp' /\ Spared
  BY GivenUpNext
<1>5. CrashingPhotoIsGivenUp <=> [][Spared]_vars
  BY DEF CrashingPhotoIsGivenUp
<1>. HIDE DEF Spared
<1>. QED  BY <1>1, <1>2, <1>3, <1>4, <1>5, PTL DEF Spec
==============================================================================
