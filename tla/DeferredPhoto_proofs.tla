------------------------ MODULE DeferredPhoto_proofs ------------------------
(***************************************************************************)
(* For every set of photos: the photo pipeline keeps its types, runningJob_*)
(* is the set of jobs in state RUNNING, and there is at most one of them.  *)
(*                                                                         *)
(* The two are proved together (IInv): a handler that types the repository *)
(* must know that it puts a job into the running set only with its state,  *)
(* and the scheduler starts a job only when runningJob_ is empty.  Lemmas  *)
(* go from the repository's operations to the state a handler works on (m) *)
(* to the handlers, one theorem step per action.  The gates, which need the *)
(* types, follow at the end.                                               *)
(***************************************************************************)
EXTENDS DeferredPhoto, PhotoJobQueue_proofs, FiniteSetTheorems

-----------------------------------------------------------------------------
(***************************************************************************)
(* The strategy centre.                                                    *)
(***************************************************************************)
LEMMA StopTrailingType ==
  ASSUME NEW st \in Strategy, NEW left \in BOOLEAN
  PROVE  StopTrailing(st, left) \in Strategy
BY DEF StopTrailing, Strategy

LEMMA StartTrailingType ==
  ASSUME NEW st \in Strategy, NEW d \in BOOLEAN, NEW n \in BOOLEAN, NEW left \in BOOLEAN
  PROVE  StartTrailing(st, d, n, left) \in Strategy
<1>. DEFINE stopped == StopTrailing(st, left)
<1>1. stopped \in Strategy
  BY StopTrailingType
<1>. HIDE DEF stopped
<1>2. [stopped EXCEPT !.isTrailing = d \/ stopped.remaining,
                      !.trailingTimer = d \/ stopped.remaining,
                      !.remaining = d \/ stopped.remaining] \in Strategy
  BY <1>1 DEF Strategy
<1>. QED  BY <1>2 DEF StartTrailing, stopped

LEMMA SetTrailingType ==
  ASSUME NEW st \in Strategy, NEW value \in TrailingStatus, NEW n \in BOOLEAN, NEW left \in BOOLEAN
  PROVE  SetTrailing(st, value, n, left) \in Strategy
<1>. DEFINE set == [st EXCEPT !.trailing = value]
<1>1. set \in Strategy
  BY DEF Strategy
<1>. HIDE DEF set
<1>2. StopTrailing(set, left) \in Strategy
  BY <1>1, StopTrailingType
<1>3. StartTrailing(set, value = "SYSTEM_OFF_START", n, left) \in Strategy
  BY <1>1, StartTrailingType
<1>4. CASE st.trailing = value
  BY <1>4 DEF SetTrailing
<1>5. CASE st.trailing # value /\ value = "ON_STOP"
  BY <1>2, <1>5 DEF SetTrailing, set
<1>6. CASE st.trailing # value /\ value # "ON_STOP"
  BY <1>3, <1>6 DEF SetTrailing, set
<1>. QED  BY <1>4, <1>5, <1>6

LEMMA SetValueType ==
  ASSUME NEW st \in Strategy, NEW e \in Event, NEW n \in BOOLEAN, NEW left \in BOOLEAN
  PROVE  SetValue(st, e, n, left) \in Strategy
<1>1. CASE e.type = "camera"
  <2>1. e.value \in CameraStatus
    BY <1>1 DEF Event
  <2>2. TrailingAfterCamera(e.value) \in TrailingStatus
    BY DEF TrailingAfterCamera, TrailingStatus
  <2>. DEFINE set == SetTrailing(st, TrailingAfterCamera(e.value), n, left)
  <2>3. set \in Strategy
    BY <2>2, SetTrailingType
  <2>. HIDE DEF set
  <2>4. [set EXCEPT !.camera = e.value] \in Strategy
    BY <2>1, <2>3 DEF Strategy
  <2>. QED  BY <1>1, <2>4 DEF SetValue, set
<1>2. CASE e.type = "trailing"
  <2>1. e.value \in TrailingStatus
    BY <1>2 DEF Event, TrailingStatus
  <2>. QED  BY <1>2, <2>1, SetTrailingType DEF SetValue
<1>3. CASE e.type = "hal"
  BY <1>3 DEF SetValue, Event, Strategy
<1>4. CASE e.type = "media"
  BY <1>4 DEF SetValue, Event, Strategy
<1>5. CASE e.type = "thermal"
  BY <1>5 DEF SetValue, Event, Strategy
<1>6. CASE e.type = "cache"
  BY <1>6 DEF SetValue, Event, Strategy
<1>7. CASE e.type = "interrupt"
  BY <1>7 DEF SetValue
<1>. QED  BY <1>1, <1>2, <1>3, <1>4, <1>5, <1>6, <1>7 DEF Event

LEMMA HandleEventChangedType ==
  ASSUME NEW st \in Strategy, NEW e \in Event, NEW n \in BOOLEAN, NEW left \in BOOLEAN
  PROVE  HandleEventChanged(st, e, n, left) \in Strategy
<1>. DEFINE set == SetValue(st, e, n, left)
<1>1. set \in Strategy
  BY SetValueType
<1>. HIDE DEF set
<1>2. Reevaluate(set, e.type = "interrupt") \in Strategy
  BY <1>1 DEF Reevaluate, Strategy
<1>. QED  BY <1>1, <1>2 DEF HandleEventChanged, set
-----------------------------------------------------------------------------
(***************************************************************************)
(* The repository.  A draft is a repository in which the record of a job   *)
(* that is being created or changed need not be a Job yet.                 *)
(***************************************************************************)
DraftJob ==
  [state : JobState \cup {"NONE"}, priority : JobPriority \cup {"NONE"}, timer : BOOLEAN]

Draft ==
  [job : [Image -> DraftJob],
   before : SUBSET (Image \X Image), heap : Seq(Image), running : SUBSET Image]

RunningIsState(r) ==
  /\ r.running = {i \in Image : r.job[i].state = "RUNNING"}
  /\ \A i, j \in r.running : i = j

RepoInv(r) == r \in Repository /\ RunningIsState(r)

\* Only job i may not be a Job yet, and then only because it has no state.
DraftInv(r, i) ==
  /\ r \in Draft
  /\ RunningIsState(r)
  /\ \A j \in Image : j # i => r.job[j] \in Job \cup {NoJob}
  /\ r.job[i].priority \in JobPriority

LEMMA RepositoryIsDraft ==
  ASSUME NEW r \in Repository
  PROVE  r \in Draft
<1>1. Job \subseteq DraftJob
  BY DEF Job, DraftJob
<1>2. NoJob \in DraftJob
  BY DEF NoJob, DraftJob
<1>. QED  BY <1>1, <1>2 DEF Repository, Draft

LEMMA DraftIsRepository ==
  ASSUME NEW r \in Draft, r.job \in [Image -> Job \cup {NoJob}]
  PROVE  r \in Repository
BY DEF Repository, Draft

\* An operation of the queue changes the heap only.
LEMMA NewHeap ==
  ASSUME NEW r \in Draft, NEW h \in Seq(Image)
  PROVE  LET s == [r EXCEPT !.heap = h]
         IN  s \in Draft /\ s.job = r.job /\ s.running = r.running /\ s.before = r.before
BY DEF Draft

LEMMA UpdateJobType ==
  ASSUME NEW r \in Draft, NEW i
  PROVE  LET s == UpdateJob(r, i)
         IN  s \in Draft /\ s.job = r.job /\ s.running = r.running /\ s.before = r.before
<1>1. UpdateById(r.heap, i, Better(r)) \in Seq(Image)
  BY UpdateByIdType DEF Draft
<1>. QED  BY <1>1, NewHeap DEF UpdateJob

LEMMA PushJobType ==
  ASSUME NEW r \in Draft, NEW i \in Image
  PROVE  LET s == PushJob(r, i)
         IN  s \in Draft /\ s.job = r.job /\ s.running = r.running /\ s.before = r.before
<1>1. Push(r.heap, i, Better(r)) \in Seq(Image)
  BY PushType DEF Draft
<1>. QED  BY <1>1, NewHeap DEF PushJob

LEMMA RemoveJobType ==
  ASSUME NEW r \in Draft, NEW i
  PROVE  LET s == RemoveJob(r, i)
         IN  s \in Draft /\ s.job = r.job /\ s.running = r.running /\ s.before = r.before
<1>1. Remove(r.heap, i, Better(r)) \in Seq(Image)
  BY RemoveType DEF Draft
<1>. QED  BY <1>1, NewHeap DEF RemoveJob

LEMMA UpdateRootType ==
  ASSUME NEW r \in Draft
  PROVE  LET s == UpdateRoot(r)
         IN  s \in Draft /\ s.job = r.job /\ s.running = r.running /\ s.before = r.before
<1>1. r.heap \in Seq(Image) /\ 1 \in Nat \ {0}
  BY DEF Draft
<1>2. Heapify(r.heap, 1, Better(r)) \in Seq(Image)
  BY <1>1, HeapifyType
<1>. QED  BY <1>2, NewHeap DEF UpdateRoot

\* RepoInv depends on the jobs and the running set only.
LEMMA SameJobs ==
  ASSUME NEW r, RepoInv(r), NEW s \in Draft, s.job = r.job, s.running = r.running
  PROVE  RepoInv(s)
BY DraftIsRepository DEF RepoInv, RunningIsState, Repository

LEMMA UpdateJobInv ==
  ASSUME NEW r, RepoInv(r), NEW i
  PROVE  RepoInv(UpdateJob(r, i)) /\ UpdateJob(r, i).job = r.job
BY UpdateJobType, SameJobs, RepositoryIsDraft DEF RepoInv

LEMMA ForgetType ==
  ASSUME NEW r \in Draft, NEW i
  PROVE  Forget(r, i) \in SUBSET (Image \X Image)
BY DEF Forget, Draft

LEMMA UpdateTimeType ==
  ASSUME NEW r \in Draft, NEW i \in Image
  PROVE  LET s == UpdateTime(r, i)
         IN  s \in Draft /\ s.job = r.job /\ s.running = r.running /\ s.heap = r.heap
<1>. DEFINE b == Forget(r, i) \cup {<<k, i>> : k \in {j \in Image \ {i} : Present(r, j)}}
<1>1. b \in SUBSET (Image \X Image)
  BY ForgetType
<1>. HIDE DEF b
<1>2. LET s == [r EXCEPT !.before = b]
      IN  s \in Draft /\ s.job = r.job /\ s.running = r.running /\ s.heap = r.heap
  BY <1>1 DEF Draft
<1>. QED  BY <1>2 DEF UpdateTime, b

\* A priority never touches states, timers or the running set.
LEMMA SetJobPriorityType ==
  ASSUME NEW r \in Draft, NEW i \in Image, NEW p \in JobPriority
  PROVE  LET s == SetJobPriority(r, i, p)
         IN  /\ s \in Draft
             /\ s.job = [r.job EXCEPT ![i].priority = p]
             /\ s.running = r.running
<1>. DEFINE timed == IF p = "HIGH" THEN UpdateTime(r, i) ELSE r
<1>1. timed \in Draft /\ timed.job = r.job /\ timed.running = r.running
  BY UpdateTimeType
<1>. HIDE DEF timed
<1>. DEFINE jobs == [timed.job EXCEPT ![i].priority = p]
<1>2. jobs \in [Image -> DraftJob]
  BY <1>1 DEF Draft, DraftJob
<1>3. [timed EXCEPT !.job[i].priority = p] = [timed EXCEPT !.job = jobs]
  BY <1>1 DEF Draft
<1>. HIDE DEF jobs
<1>4. LET s == [timed EXCEPT !.job = jobs]
      IN  s \in Draft /\ s.job = jobs /\ s.running = timed.running
  BY <1>1, <1>2 DEF Draft
<1>. QED  BY <1>1, <1>3, <1>4 DEF SetJobPriority, timed, jobs

LEMMA SetJobPriorityInv ==
  ASSUME NEW r, RepoInv(r), NEW i \in Image, NEW p \in JobPriority, Present(r, i)
  PROVE  LET s == SetJobPriority(r, i, p)
         IN  /\ RepoInv(s)
             /\ s.running = r.running
             /\ s.job[i].state = r.job[i].state
             /\ \A j \in Image : Present(s, j) <=> Present(r, j)
<1>. DEFINE s == SetJobPriority(r, i, p)
<1>1. r \in Draft /\ r \in Repository /\ RunningIsState(r)
  BY RepositoryIsDraft DEF RepoInv
<1>2. s \in Draft /\ s.job = [r.job EXCEPT ![i].priority = p] /\ s.running = r.running
  BY <1>1, SetJobPriorityType
<1>. HIDE DEF s
<1>3. r.job \in [Image -> Job \cup {NoJob}] /\ r.job[i] \in Job
  BY <1>1 DEF Repository, Present, NoJob
<1>4. s.job \in [Image -> Job \cup {NoJob}]
  BY <1>2, <1>3 DEF Job
<1>5. \A j \in Image : s.job[j].state = r.job[j].state
  BY <1>2, <1>3 DEF Job
<1>6. RunningIsState(s)
  BY <1>1, <1>2, <1>5 DEF RunningIsState
<1>. QED  BY <1>2, <1>4, <1>5, <1>6, DraftIsRepository DEF RepoInv, Present, s

LEMMA ResetTimerInv ==
  ASSUME NEW r, RepoInv(r), NEW i \in Image
  PROVE  LET s == ResetTimer(r, i)
         IN  /\ RepoInv(s)
             /\ s.running = r.running
             /\ \A j \in Image : s.job[j].state = r.job[j].state
             /\ \A j \in Image : Present(s, j) <=> Present(r, j)
<1>. DEFINE s == ResetTimer(r, i)
<1>1. r \in Repository /\ RunningIsState(r)
  BY DEF RepoInv
<1>2. r.job \in [Image -> Job \cup {NoJob}]
  BY <1>1 DEF Repository
<1>3. [r.job[i] EXCEPT !.timer = FALSE] \in Job \cup {NoJob}
  <2>1. CASE r.job[i] \in Job
    BY <2>1 DEF Job
  <2>2. CASE r.job[i] = NoJob
    <3>1. [NoJob EXCEPT !.timer = FALSE] = NoJob
      <4>1. NoJob.timer = FALSE
        BY DEF NoJob
      <4>. QED  BY <4>1, Zenon DEF NoJob
    <3>. QED  BY <2>2, <3>1
  <2>. QED  BY <1>2, <2>1, <2>2
<1>4. [r.job[i] EXCEPT !.timer = FALSE].state = r.job[i].state
  BY <1>2 DEF Job, NoJob
<1>5. s \in Repository /\ s.running = r.running
  BY <1>1, <1>3 DEF ResetTimer, Repository
<1>6. \A j \in Image : s.job[j].state = r.job[j].state
  BY <1>1, <1>4 DEF ResetTimer, Repository
<1>. HIDE DEF s
<1>7. RunningIsState(s)
  BY <1>1, <1>5, <1>6 DEF RunningIsState
<1>. QED  BY <1>5, <1>6, <1>7 DEF RepoInv, Present, s

\* ChangeStateTo makes a draft a repository: the job gets a state, and belongs
\* to the running set if and only if that state is RUNNING.
LEMMA ChangeStateToInv ==
  ASSUME NEW r, NEW i \in Image, DraftInv(r, i), NEW s \in JobState,
         s = "RUNNING" => r.running = {}
  PROVE  RepoInv(ChangeStateTo(r, i, s))
<1>0. r \in Draft /\ r.job \in [Image -> DraftJob] /\ r.running \in SUBSET Image
  BY DEF DraftInv, Draft
<1>1. CASE r.job[i].state = s
  <2>1. r.job[i] \in Job
    BY <1>0, <1>1 DEF DraftInv, DraftJob, Job
  <2>2. r.job \in [Image -> Job \cup {NoJob}]
    BY <1>0, <2>1 DEF DraftInv
  <2>3. ChangeStateTo(r, i, s) = r
    BY <1>1 DEF ChangeStateTo
  <2>. QED  BY <1>0, <2>2, <2>3, DraftIsRepository DEF RepoInv, DraftInv
<1>2. CASE r.job[i].state # s
  <2>. DEFINE jobs == [r.job EXCEPT ![i].state = s]
              now == IF s = "RUNNING" THEN r.running \cup {i} ELSE r.running \ {i}
              t == [r EXCEPT !.job = jobs, !.running = now]
  <2>1. jobs[i] \in Job
    BY <1>0 DEF DraftInv, DraftJob, Job
  <2>2. jobs \in [Image -> Job \cup {NoJob}]
    BY <1>0, <2>1 DEF DraftInv
  <2>3. now \in SUBSET Image
    BY <1>0
  <2>4. t \in Draft /\ t.job = jobs /\ t.running = now
    <3>1. jobs \in [Image -> DraftJob]
      BY <1>0 DEF DraftJob
    <3>. HIDE DEF jobs, now
    <3>. QED  BY <1>0, <2>3, <3>1 DEF Draft
  <2>5. RunningIsState(t)
    <3>1. jobs[i].state = s /\ \A j \in Image : j # i => jobs[j] = r.job[j]
      BY <1>0 DEF DraftJob
    <3>2. r.running = {j \in Image : r.job[j].state = "RUNNING"} /\ \A j, k \in r.running : j = k
      BY DEF DraftInv, RunningIsState
    <3>. HIDE DEF jobs
    <3>3. now = {j \in Image : jobs[j].state = "RUNNING"}
      BY <3>1, <3>2
    <3>4. \A j, k \in now : j = k
      BY <3>2
    <3>. QED  BY <2>4, <3>3, <3>4 DEF RunningIsState
  <2>6. RepoInv(t)
    <3>. HIDE DEF t, jobs, now
    <3>. QED  BY <2>2, <2>4, <2>5, DraftIsRepository DEF RepoInv
  <2>7. ChangeStateTo(r, i, s) = UpdateJob(t, i)
    <3>1. [r EXCEPT !.job[i].state = s,
                    !.running = IF s = "RUNNING" THEN @ \cup {i} ELSE @ \ {i}] = t
      BY <1>0 DEF Draft
    <3>. QED  BY <1>2, <3>1 DEF ChangeStateTo
  <2>. HIDE DEF t
  <2>. QED  BY <2>6, <2>7, UpdateJobInv
<1>. QED  BY <1>1, <1>2

LEMMA RepoInvIsDraftInv ==
  ASSUME NEW r, RepoInv(r), NEW i \in Image, Present(r, i)
  PROVE  DraftInv(r, i)
<1>1. r \in Draft /\ r.job[i] \in Job
  BY RepositoryIsDraft DEF RepoInv, Repository, Present, NoJob
<1>. QED  BY <1>1 DEF DraftInv, RepoInv, Repository, Job

LEMMA PrepareInv ==
  ASSUME NEW r, RepoInv(r), NEW i \in Image, Present(r, i)
  PROVE  RepoInv(Prepare(r, i))
BY RepoInvIsDraftInv, ChangeStateToInv DEF Prepare, JobState

LEMMA CompleteInv ==
  ASSUME NEW r, RepoInv(r), NEW i \in Image, Present(r, i)
  PROVE  RepoInv(Complete(r, i))
BY ResetTimerInv, RepoInvIsDraftInv, ChangeStateToInv DEF Complete, JobState

LEMMA LowerToNormalInv ==
  ASSUME NEW r, RepoInv(r), NEW i \in Image, Present(r, i)
  PROVE  LET s == ResetTimer(SetJobPriority(r, i, "NORMAL"), i)
         IN  RepoInv(s) /\ Present(s, i)
<1>. DEFINE t == SetJobPriority(r, i, "NORMAL")
<1>1. "NORMAL" \in JobPriority
  BY DEF JobPriority
<1>2. RepoInv(t) /\ Present(t, i)
  BY <1>1, SetJobPriorityInv
<1>. HIDE DEF t
<1>3. RepoInv(ResetTimer(t, i)) /\ Present(ResetTimer(t, i), i)
  BY <1>2, ResetTimerInv
<1>. QED  BY <1>3 DEF t

LEMMA FailInv ==
  ASSUME NEW r, RepoInv(r), NEW i \in Image, Present(r, i)
  PROVE  RepoInv(Fail(r, i)) /\ RepoInv(SetError(r, i))
BY LowerToNormalInv, RepoInvIsDraftInv, ChangeStateToInv DEF Fail, SetError, JobState

\* A job is started only when none is running.
LEMMA StartInv ==
  ASSUME NEW r, RepoInv(r), NEW i \in Image, Present(r, i), r.running = {}
  PROVE  RepoInv(Start(r, i))
<1>. DEFINE jobs == [r.job EXCEPT ![i].timer = TRUE]
            t == [r EXCEPT !.job = jobs]
<1>1. r \in Repository /\ r.job \in [Image -> Job \cup {NoJob}] /\ r.job[i] \in Job
  BY RepoInvIsDraftInv DEF RepoInv, Repository, Present, NoJob
<1>2. jobs \in [Image -> Job \cup {NoJob}] /\ jobs[i] \in Job
  BY <1>1 DEF Job
<1>3. \A j \in Image : jobs[j].state = r.job[j].state
  BY <1>1 DEF Job
<1>4. [r EXCEPT !.job[i].timer = TRUE] = t
  BY <1>1 DEF Repository
<1>. HIDE DEF jobs
<1>5. t \in Repository /\ t.job = jobs /\ t.running = r.running
  BY <1>1, <1>2 DEF Repository
<1>. HIDE DEF t
<1>6. RunningIsState(t)
  BY <1>3, <1>5 DEF RepoInv, RunningIsState
<1>7. DraftInv(t, i)
  BY <1>2, <1>5, <1>6, RepositoryIsDraft DEF DraftInv, Job
<1>8. RepoInv(ChangeStateTo(t, i, "RUNNING"))
  BY <1>5, <1>7, ChangeStateToInv DEF JobState
<1>. QED  BY <1>4, <1>8 DEF Start

\* A new job is prepared, and so gets a state, whether it enters the queue or not.
LEMMA AddDeferredJobInv ==
  ASSUME NEW r, RepoInv(r), NEW i \in Image
  PROVE  RepoInv(AddDeferredJob(r, i))
<1>1. CASE Present(r, i)
  BY <1>1 DEF AddDeferredJob
<1>2. CASE ~ Present(r, i)
  <2>. DEFINE priority == IF i \in Background THEN "HIGH" ELSE "NORMAL"
              new == [state |-> "NONE", priority |-> priority, timer |-> FALSE]
              jobs == [r.job EXCEPT ![i] = new]
              t == [r EXCEPT !.job = jobs]
              created == UpdateTime(t, i)
  <2>1. r \in Draft /\ r \in Repository /\ r.job \in [Image -> Job \cup {NoJob}]
    BY RepositoryIsDraft DEF RepoInv, Repository
  <2>2. priority \in JobPriority
    BY DEF JobPriority
  <2>3. new \in DraftJob /\ new.priority \in JobPriority /\ new.state = "NONE"
    BY <2>2 DEF DraftJob
  <2>. HIDE DEF new
  <2>4. /\ jobs \in [Image -> DraftJob]
        /\ jobs[i] = new /\ \A j \in Image : j # i => jobs[j] = r.job[j]
    BY <2>1, <2>3 DEF Draft
  <2>. HIDE DEF jobs
  <2>5. t \in Draft /\ t.job = jobs /\ t.running = r.running
    BY <2>1, <2>4 DEF Draft
  <2>. HIDE DEF t
  <2>6. created \in Draft /\ created.job = jobs /\ created.running = r.running
    BY <2>5, UpdateTimeType
  <2>. HIDE DEF created
  <2>7. \A j \in Image : jobs[j].state = r.job[j].state
    BY <1>2, <2>3, <2>4 DEF Present
  <2>8. RunningIsState(created)
    BY <2>6, <2>7 DEF RepoInv, RunningIsState
  <2>9. DraftInv(created, i)
    BY <2>1, <2>3, <2>4, <2>6, <2>8 DEF DraftInv
  <2>10. /\ PushJob(created, i) \in Draft
         /\ PushJob(created, i).job = jobs /\ PushJob(created, i).running = created.running
    BY <2>6, PushJobType
  <2>11. DraftInv(PushJob(created, i), i)
    BY <2>6, <2>9, <2>10 DEF DraftInv, RunningIsState
  <2>12. RepoInv(Prepare(created, i)) /\ RepoInv(Prepare(PushJob(created, i), i))
    BY <2>9, <2>11, ChangeStateToInv DEF Prepare, JobState
  <2>13. \/ AddDeferredJob(r, i) = Prepare(created, i)
         \/ AddDeferredJob(r, i) = Prepare(PushJob(created, i), i)
    BY <1>2 DEF AddDeferredJob, created, t, jobs, new
  <2>. QED  BY <2>12, <2>13
<1>. QED  BY <1>1, <1>2

LEMMA DeleteJobInv ==
  ASSUME NEW r, RepoInv(r), NEW i \in Image
  PROVE  RepoInv(DeleteJob(r, i))
<1>. DEFINE taken == IF i \in Background THEN r ELSE RemoveJob(r, i)
            jobs == [taken.job EXCEPT ![i] = NoJob]
            now == taken.running \ {i}
            b == Forget(r, i)
<1>1. r \in Draft /\ r.job \in [Image -> Job \cup {NoJob}]
  BY RepositoryIsDraft DEF RepoInv, Repository
<1>2. taken \in Draft /\ taken.job = r.job /\ taken.running = r.running
  BY <1>1, RemoveJobType
<1>. HIDE DEF taken
<1>3. jobs \in [Image -> Job \cup {NoJob}]
  BY <1>1, <1>2
<1>4. b \in SUBSET (Image \X Image) /\ now \in SUBSET Image
  BY <1>1, <1>2, ForgetType DEF Draft
<1>5. DeleteJob(r, i) = [taken EXCEPT !.job = jobs, !.running = now, !.before = b]
  BY <1>2 DEF DeleteJob, taken, Draft
<1>6. /\ jobs[i].state = "NONE" /\ \A j \in Image : j # i => jobs[j] = r.job[j]
  BY <1>1, <1>2 DEF NoJob
<1>. HIDE DEF jobs, b
<1>7. now = {j \in Image : jobs[j].state = "RUNNING"} /\ \A j, k \in now : j = k
  BY <1>2, <1>6 DEF RepoInv, RunningIsState
<1>. HIDE DEF now
<1>8. LET s == [taken EXCEPT !.job = jobs, !.running = now, !.before = b]
      IN  s \in Repository /\ s.job = jobs /\ s.running = now
  BY <1>2, <1>3, <1>4 DEF Draft, Repository
<1>. QED  BY <1>5, <1>7, <1>8 DEF RepoInv, RunningIsState

LEMMA LowerPriorityInv ==
  ASSUME NEW r, RepoInv(r), NEW i \in Image, Present(r, i)
  PROVE  RepoInv(LowerPriority(r, i))
<1>. DEFINE lowered == SetJobPriority(r, i, "LOW")
<1>1. RepoInv(lowered)
  BY SetJobPriorityInv DEF JobPriority
<1>. HIDE DEF lowered
<1>2. RepoInv(UpdateRoot(lowered))
  BY <1>1, UpdateRootType, SameJobs, RepositoryIsDraft DEF RepoInv
<1>3. RepoInv(UpdateJob(lowered, i))
  BY <1>1, UpdateJobInv
<1>. QED  BY <1>2, <1>3 DEF LowerPriority, lowered
-----------------------------------------------------------------------------
(***************************************************************************)
(* The state m a handler works on.  Every operation on it keeps MidInv.    *)
(***************************************************************************)
MidState ==
  [repo : Repository, result : Result, hal : PostProcessor, ive : Ive,
   strategy : Strategy, cmds : Seq(Command)]

MidInv(m) == m \in MidState /\ RunningIsState(m.repo)

LEMMA MidRepo ==
  ASSUME NEW m, MidInv(m)
  PROVE  RepoInv(m.repo)
BY DEF MidInv, MidState, RepoInv

LEMMA NewRepo ==
  ASSUME NEW m, MidInv(m), NEW r, RepoInv(r)
  PROVE  MidInv([m EXCEPT !.repo = r]) /\ [m EXCEPT !.repo = r].repo = r
BY DEF MidInv, MidState, RepoInv

LEMMA NewResult ==
  ASSUME NEW m, MidInv(m), NEW x \in Result
  PROVE  MidInv([m EXCEPT !.result = x]) /\ [m EXCEPT !.result = x].repo = m.repo
BY DEF MidInv, MidState

LEMMA NewPostProcessor ==
  ASSUME NEW m, MidInv(m), NEW x \in PostProcessor
  PROVE  MidInv([m EXCEPT !.hal = x]) /\ [m EXCEPT !.hal = x].repo = m.repo
BY DEF MidInv, MidState

LEMMA NewIve ==
  ASSUME NEW m, MidInv(m), NEW x \in Ive
  PROVE  MidInv([m EXCEPT !.ive = x]) /\ [m EXCEPT !.ive = x].repo = m.repo
BY DEF MidInv, MidState

LEMMA NewStrategy ==
  ASSUME NEW m, MidInv(m), NEW x \in Strategy
  PROVE  MidInv([m EXCEPT !.strategy = x]) /\ [m EXCEPT !.strategy = x].repo = m.repo
BY DEF MidInv, MidState

LEMMA SendInv ==
  ASSUME NEW m, MidInv(m), NEW c \in Seq(Command)
  PROVE  MidInv(Send(m, c)) /\ Send(m, c).repo = m.repo
<1>1. m.cmds \o c \in Seq(Command)
  BY ConcatProperties DEF MidInv, MidState
<1>. QED  BY <1>1 DEF Send, MidInv, MidState

LEMMA InterruptInv ==
  ASSUME NEW m, MidInv(m)
  PROVE  MidInv(Interrupt(m)) /\ Interrupt(m).repo = m.repo
<1>1. [m.ive EXCEPT !.aborted = TRUE] \in Ive
  BY DEF MidInv, MidState, Ive
<1>2. [m EXCEPT !.ive.aborted = TRUE] = [m EXCEPT !.ive = [m.ive EXCEPT !.aborted = TRUE]]
  BY DEF MidInv, MidState
<1>. QED  BY <1>1, <1>2, NewIve DEF Interrupt

LEMMA CommandTypes ==
  /\ \A i \in Image, e \in Error : <<Failed(i, e)>> \in Seq(Command)
  /\ <<JobChanged>> \in Seq(Command)
  /\ <<>> \in Seq(Command)
  /\ \A e \in Event : [op |-> "Event", event |-> e] \in Command
<1>1. \A i \in Image, e \in Error : Failed(i, e) \in Command
  BY DEF Failed, Command
<1>2. JobChanged \in Command
  BY DEF JobChanged, Command
<1>3. \A e \in Event : [op |-> "Event", event |-> e] \in Command
  BY DEF Command
<1>. QED  BY <1>1, <1>2, <1>3

LEMMA PostProcessInv ==
  ASSUME NEW m, MidInv(m), NEW i \in Image
  PROVE  MidInv(PostProcess(m, i)) /\ PostProcess(m, i).repo = m.repo
<1>. DEFINE hal1 == [m.hal EXCEPT !.runningId = @ \cup {i}]
            ive1 == [m.ive EXCEPT !.work = @ \cup {i}]
            given == [m EXCEPT !.hal = hal1]
<1>1. m.hal \in PostProcessor /\ m.ive \in Ive
  BY DEF MidInv, MidState
<1>2. hal1 \in PostProcessor /\ ive1 \in Ive
  BY <1>1 DEF PostProcessor, Ive
<1>3. [m EXCEPT !.hal.runningId = @ \cup {i}] = given
  BY DEF MidInv, MidState
<1>4. [m EXCEPT !.hal.runningId = @ \cup {i}, !.ive.work = @ \cup {i}] = [given EXCEPT !.ive = ive1]
  BY DEF MidInv, MidState
<1>. HIDE DEF hal1, ive1
<1>5. MidInv(given) /\ given.repo = m.repo
  BY <1>2, NewPostProcessor
<1>. HIDE DEF given
<1>6. MidInv([given EXCEPT !.ive = ive1]) /\ [given EXCEPT !.ive = ive1].repo = m.repo
  BY <1>2, <1>5, NewIve
<1>7. MidInv(Send(m, <<Failed(i, "NOT_READY")>>)) /\ Send(m, <<Failed(i, "NOT_READY")>>).repo = m.repo
  BY SendInv, CommandTypes DEF Error
<1>8. m.hal.session \in {"null", "dead", "live"}
  BY <1>1 DEF PostProcessor, SessionState
<1>9. CASE m.hal.session = "null"
  BY <1>9, <1>7 DEF PostProcess
<1>10. CASE m.hal.session = "dead"
  BY <1>10, <1>3, <1>5 DEF PostProcess
<1>11. CASE m.hal.session = "live"
  BY <1>11, <1>4, <1>6 DEF PostProcess
<1>. QED  BY <1>8, <1>9, <1>10, <1>11

LEMMA PostRemoveInv ==
  ASSUME NEW m, MidInv(m), NEW i \in Image
  PROVE  MidInv(PostRemove(m, i)) /\ PostRemove(m, i).repo = m.repo
<1>. DEFINE hal1 == [m.hal EXCEPT !.runningId = @ \ {i}]
            hal2 == [hal1 EXCEPT !.removeNeeded = @ \cup {i}]
            ive1 == [m.ive EXCEPT !.work = @ \ {i}]
            left == [m EXCEPT !.hal = hal1]
<1>1. m.hal \in PostProcessor /\ m.ive \in Ive
  BY DEF MidInv, MidState
<1>2. hal1 \in PostProcessor /\ hal2 \in PostProcessor /\ ive1 \in Ive
  BY <1>1 DEF PostProcessor, Ive
<1>3. [m EXCEPT !.hal.runningId = @ \ {i}] = left
  BY DEF MidInv, MidState
<1>4. /\ [left EXCEPT !.hal.removeNeeded = @ \cup {i}] = [left EXCEPT !.hal = hal2]
      /\ [left EXCEPT !.ive.work = @ \ {i}] = [left EXCEPT !.ive = ive1]
      /\ left.hal.session = m.hal.session
  BY DEF MidInv, MidState, PostProcessor
<1>. HIDE DEF hal1, hal2, ive1
<1>5. MidInv(left) /\ left.repo = m.repo
  BY <1>2, NewPostProcessor
<1>. HIDE DEF left
<1>6. /\ MidInv([left EXCEPT !.ive = ive1]) /\ [left EXCEPT !.ive = ive1].repo = m.repo
      /\ MidInv([left EXCEPT !.hal = hal2]) /\ [left EXCEPT !.hal = hal2].repo = m.repo
  BY <1>2, <1>5, NewIve, NewPostProcessor
<1>7. m.hal.session \in {"null", "dead", "live"}
  BY <1>1 DEF PostProcessor, SessionState
<1>8. CASE m.hal.session = "null"
  BY <1>8, <1>3, <1>4, <1>6 DEF PostRemove
<1>9. CASE m.hal.session = "dead"
  BY <1>9, <1>3, <1>5 DEF PostRemove
<1>10. CASE m.hal.session = "live"
  BY <1>10, <1>3, <1>4, <1>6 DEF PostRemove
<1>. QED  BY <1>7, <1>8, <1>9, <1>10

\* The result record of m with one or two fields changed.
LEMMA SetHighInv ==
  ASSUME NEW m, MidInv(m), NEW h \in SUBSET Image
  PROVE  MidInv([m EXCEPT !.result.high = h]) /\ [m EXCEPT !.result.high = h].repo = m.repo
<1>1. [m.result EXCEPT !.high = h] \in Result
  BY DEF MidInv, MidState, Result
<1>2. [m EXCEPT !.result.high = h] = [m EXCEPT !.result = [m.result EXCEPT !.high = h]]
  BY DEF MidInv, MidState
<1>. QED  BY <1>1, <1>2, NewResult

LEMMA ForgetHighInv ==
  ASSUME NEW m, MidInv(m), NEW i
  PROVE  LET n == [m EXCEPT !.result.high = @ \ {i}]
         IN  MidInv(n) /\ n.repo = m.repo
<1>1. m.result.high \ {i} \in SUBSET Image
  BY DEF MidInv, MidState, Result
<1>2. [m EXCEPT !.result.high = @ \ {i}] = [m EXCEPT !.result.high = m.result.high \ {i}]
  BY DEF MidInv, MidState, Result
<1>. QED  BY <1>1, <1>2, SetHighInv

LEMMA SetCacheInv ==
  ASSUME NEW m, MidInv(m), NEW i \in Image, NEW x \in {"none", "image", "error"}
  PROVE  LET n == [m EXCEPT !.result.cache[i] = x]
         IN  MidInv(n) /\ n.repo = m.repo
<1>1. [m.result EXCEPT !.cache[i] = x] \in Result
  BY DEF MidInv, MidState, Result
<1>2. [m EXCEPT !.result.cache[i] = x] = [m EXCEPT !.result = [m.result EXCEPT !.cache[i] = x]]
  BY DEF MidInv, MidState
<1>. QED  BY <1>1, <1>2, NewResult

LEMMA TakeResultInv ==
  ASSUME NEW m, MidInv(m), NEW i \in Image
  PROVE  MidInv(TakeResult(m, i)) /\ TakeResult(m, i).repo = m.repo
BY SetCacheInv DEF TakeResult

LEMMA RecordResultInv ==
  ASSUME NEW m, MidInv(m), NEW i \in Image, NEW what \in {"image", "error"}
  PROVE  MidInv(RecordResult(m, i, what)) /\ RecordResult(m, i, what).repo = m.repo
<1>. DEFINE kept == m.result.cache[i]
            x == IF kept = "none" THEN what ELSE kept
<1>1. x \in {"none", "image", "error"}
  BY DEF MidInv, MidState, Result
<1>2. RecordResult(m, i, what) = [m EXCEPT !.result.cache[i] = x]
  BY DEF RecordResult, MidInv, MidState, Result
<1>. HIDE DEF x
<1>3. LET n == [m EXCEPT !.result.cache[i] = x]
      IN  MidInv(n) /\ n.repo = m.repo
  BY <1>1, SetCacheInv
<1>. QED  BY <1>2, <1>3

LEMMA SetBpInv ==
  ASSUME NEW m, MidInv(m), NEW x \in Image \cup {"Null"}
  PROVE  MidInv([m EXCEPT !.result.bp = x]) /\ [m EXCEPT !.result.bp = x].repo = m.repo
<1>1. [m.result EXCEPT !.bp = x] \in Result
  BY DEF MidInv, MidState, Result
<1>2. [m EXCEPT !.result.bp = x] = [m EXCEPT !.result = [m.result EXCEPT !.bp = x]]
  BY DEF MidInv, MidState
<1>. QED  BY <1>1, <1>2, NewResult

LEMMA ResetTimeoutsInv ==
  ASSUME NEW m, MidInv(m)
  PROVE  MidInv([m EXCEPT !.result.timeouts = 0]) /\ [m EXCEPT !.result.timeouts = 0].repo = m.repo
<1>1. [m.result EXCEPT !.timeouts = 0] \in Result
  BY DEF MidInv, MidState, Result
<1>2. [m EXCEPT !.result.timeouts = 0] = [m EXCEPT !.result = [m.result EXCEPT !.timeouts = 0]]
  BY DEF MidInv, MidState
<1>. QED  BY <1>1, <1>2, NewResult

LEMMA ResetCrashInv ==
  ASSUME NEW m, MidInv(m), NEW i \in Image
  PROVE  LET n == [m EXCEPT !.result.crash[i] = 0]
         IN  MidInv(n) /\ n.repo = m.repo
<1>0. m.result \in Result
  BY DEF MidInv, MidState
<1>1. [m.result EXCEPT !.crash[i] = 0] \in Result
  BY <1>0 DEF Result
<1>2. [m EXCEPT !.result.crash[i] = 0] = [m EXCEPT !.result = [m.result EXCEPT !.crash[i] = 0]]
  BY DEF MidInv, MidState
<1>. QED  BY <1>1, <1>2, NewResult

LEMMA CountErrorInv ==
  ASSUME NEW m, MidInv(m), NEW i \in Image, NEW e
  PROVE  MidInv(CountError(m, i, e)) /\ CountError(m, i, e).repo = m.repo
<1>. DEFINE count == CrashCount(m, i, e)
            row == IF e = "TIMEOUT" THEN m.result.timeouts ELSE 0
            res == [m.result EXCEPT !.crash[i] = count, !.timeouts = row]
<1>1. m.result \in Result
  BY DEF MidInv, MidState
<1>2. count \in 0 .. 3 /\ row \in 0 .. 2
  BY <1>1 DEF CrashCount, Result
<1>3. CountError(m, i, e) = [m EXCEPT !.result = res]
  BY DEF CountError, MidInv, MidState, Result
<1>. HIDE DEF count, row
<1>4. res \in Result
  BY <1>1, <1>2 DEF Result
<1>. HIDE DEF res
<1>. QED  BY <1>3, <1>4, NewResult

LEMMA StopTimerInv ==
  ASSUME NEW m, MidInv(m), NEW i \in Image
  PROVE  /\ MidInv(StopTimer(m, i))
         /\ \A j \in Image : Present(StopTimer(m, i).repo, j) <=> Present(m.repo, j)
<1>1. RepoInv(m.repo)
  BY MidRepo
<1>2. StopTimer(m, i) = [m EXCEPT !.repo = ResetTimer(m.repo, i)]
  BY DEF StopTimer, MidInv, MidState
<1>. QED  BY <1>1, <1>2, ResetTimerInv, NewRepo
-----------------------------------------------------------------------------
(***************************************************************************)
(* From m to the next state of the command thread.                         *)
(***************************************************************************)
ThreadInv ==
  /\ RepoInv(repo)
  /\ result \in Result
  /\ hal \in PostProcessor
  /\ ive \in Ive
  /\ strategy \in Strategy
  /\ cmds \in Seq(Command)

LEMMA BecomeInv ==
  ASSUME NEW m, MidInv(m), Become(m)
  PROVE  ThreadInv'
BY DEF MidInv, MidState, Become, ThreadInv, RepoInv, RunningIsState

LEMMA NowInv ==
  ASSUME ThreadInv, cmds # <<>>
  PROVE  MidInv(Now) /\ Now.repo = repo /\ Head(cmds) \in Command
<1>1. Tail(cmds) \in Seq(Command) /\ Head(cmds) \in Command
  BY HeadTailProperties DEF ThreadInv
<1>. QED  BY <1>1 DEF ThreadInv, Now, MidInv, MidState, RepoInv

LEMMA DoProcessInv ==
  ASSUME NEW m, MidInv(m), NEW i \in Image, Present(m.repo, i), m.repo.running = {}
  PROVE  MidInv(DoProcess(m, i))
<1>. DEFINE started == [m EXCEPT !.repo = Start(m.repo, i)]
            n == [started EXCEPT !.result.high = @ \ {i}]
<1>1. RepoInv(Start(m.repo, i))
  BY MidRepo, StartInv
<1>2. MidInv(started)
  BY <1>1, NewRepo
<1>3. [m EXCEPT !.repo = Start(@, i), !.result.high = @ \ {i}] = n
  BY DEF MidInv, MidState, Result
<1>. HIDE DEF started
<1>4. MidInv(n)
  BY <1>2, ForgetHighInv
<1>. HIDE DEF n
<1>. QED  BY <1>3, <1>4, PostProcessInv DEF DoProcess

LEMMA ScheduleStateType ==
  ASSUME NEW m
  PROVE  ScheduleState(m) \in ScheduleStatus
BY DEF ScheduleState, ScheduleStatus

LEMMA TryDoScheduleInv ==
  ASSUME NEW m, MidInv(m), TryDoSchedule(m)
  PROVE  ThreadInv' /\ schedule' \in ScheduleStatus
<1>1. schedule' \in ScheduleStatus
  BY ScheduleStateType DEF TryDoSchedule
<1>2. CASE /\ m.repo.running = {}
           /\ \E i \in Image : CanProcess(m, i) /\ Become(DoProcess(m, i))
  <2>1. PICK i \in Image : CanProcess(m, i) /\ Become(DoProcess(m, i))
    BY <1>2
  <2>2. Present(m.repo, i)
    BY <2>1 DEF CanProcess, IsActive, Present
  <2>. QED  BY <1>1, <1>2, <2>1, <2>2, DoProcessInv, BecomeInv
<1>3. CASE Become(m)
  BY <1>1, <1>3, BecomeInv
<1>. QED  BY <1>2, <1>3 DEF TryDoSchedule

EventsOK == events \in [camera : CameraStatus, mediaBusy : BOOLEAN, needTrailing : BOOLEAN]

LEMMA EventChangedInv ==
  ASSUME NEW m, MidInv(m), NEW e \in Event, EventChanged(m, e), EventsOK,
         schedule \in ScheduleStatus
  PROVE  ThreadInv' /\ schedule' \in ScheduleStatus
<1>1. PICK left \in BOOLEAN :
        LET st == HandleEventChanged(m.strategy, e, events.needTrailing, left)
            changed == [m EXCEPT !.strategy = st]
        IN  \/ /\ ~ IsNewValue(m.strategy, e)
               /\ Become(changed)
               /\ UNCHANGED schedule
            \/ /\ IsNewValue(m.strategy, e) /\ st.isNeedStop
               /\ Become(IF m.repo.running # {} THEN Interrupt(changed) ELSE changed)
               /\ schedule' = IF e.type = "camera" THEN "PREEMPTED" ELSE schedule
            \/ /\ IsNewValue(m.strategy, e) /\ ~ st.isNeedStop
               /\ TryDoSchedule(changed)
  BY DEF EventChanged
<1>. DEFINE st == HandleEventChanged(m.strategy, e, events.needTrailing, left)
            changed == [m EXCEPT !.strategy = st]
<1>2. st \in Strategy
  BY HandleEventChangedType DEF EventsOK, MidInv, MidState
<1>3. MidInv(changed)
  BY <1>2, NewStrategy
<1>4. MidInv(Interrupt(changed))
  BY <1>3, InterruptInv
<1>. HIDE DEF changed
<1>5. CASE Become(changed) /\ UNCHANGED schedule
  BY <1>3, <1>5, BecomeInv
<1>6. CASE /\ Become(IF m.repo.running # {} THEN Interrupt(changed) ELSE changed)
           /\ schedule' = IF e.type = "camera" THEN "PREEMPTED" ELSE schedule
  <2>1. ThreadInv'
    BY <1>3, <1>4, <1>6, BecomeInv
  <2>2. schedule' \in ScheduleStatus
    BY <1>6 DEF ScheduleStatus
  <2>. QED  BY <2>1, <2>2
<1>7. CASE TryDoSchedule(changed)
  BY <1>3, <1>7, TryDoScheduleInv
<1>. QED  BY <1>1, <1>5, <1>6, <1>7 DEF changed

LEMMA DeRecordResultInv ==
  ASSUME NEW m, MidInv(m), NEW i \in Image, DeRecordResult(m, i), EventsOK,
         schedule \in ScheduleStatus
  PROVE  ThreadInv' /\ schedule' \in ScheduleStatus
<1>1. MidInv(TakeResult(m, i))
  BY TakeResultInv
<1>2. MidInv([TakeResult(m, i) EXCEPT !.result.bp = "Null"])
  BY <1>1, SetBpInv
<1>3. CacheEvent("NO_CACHE") \in Event
  BY DEF CacheEvent, Event, CacheStatus
<1>4. CASE EventChanged([TakeResult(m, i) EXCEPT !.result.bp = "Null"], CacheEvent("NO_CACHE"))
  BY <1>2, <1>3, <1>4, EventChangedInv
<1>5. CASE Become(TakeResult(m, i)) /\ UNCHANGED schedule
  BY <1>1, <1>5, BecomeInv
<1>. QED  BY <1>4, <1>5 DEF DeRecordResult
-----------------------------------------------------------------------------
(***************************************************************************)
(* The invariant: the types and the two parts of RunningJobs.              *)
(***************************************************************************)
OthersOK ==
  /\ EventsOK
  /\ client \in [alive : BOOLEAN, mapped : Info \cup {"none"}, callback : SUBSET Info]
  /\ orphans \subseteq Image
  /\ schedule \in ScheduleStatus
  /\ answer \in [Image -> {"none", "done", "error"}]

IInv == ThreadInv /\ OthersOK

\* The workload never changes.
WorkloadOK == workload \in Workload

\* The typing of the state that handlers leave to other threads.
LEMMA IInvImplies ==
  ASSUME IInv, workload \in Workload
  PROVE  TypeOK /\ RunningJobs
BY DEF IInv, ThreadInv, OthersOK, EventsOK, TypeOK, RunningJobs, RepoInv, RunningIsState

LEMMA InitInv ==
  ASSUME Init
  PROVE  IInv /\ WorkloadOK
<1>. USE DEF Init
<1>1. RepoInv(repo)
  <2>. DEFINE none == [i \in Image |-> NoJob]
  <2>1. <<>> \in Seq(Image)
    OBVIOUS
  <2>2. repo = [job |-> none, before |-> {}, heap |-> <<>>, running |-> {}]
    OBVIOUS
  <2>3. repo \in Repository
    BY <2>1, <2>2 DEF Repository
  <2>4. {i \in Image : repo.job[i].state = "RUNNING"} = {}
    BY <2>2 DEF NoJob
  <2>. QED  BY <2>2, <2>3, <2>4 DEF RepoInv, RunningIsState
<1>2. result \in Result
  BY DEF Result
<1>3. hal \in PostProcessor /\ ive \in Ive
  BY DEF PostProcessor, Ive, SessionState
<1>4. strategy \in Strategy
  <2>1. InitialStrategy \in Strategy
    BY DEF InitialStrategy, Strategy, CameraStatus, HdiStatus, MediaLibraryStatus,
           ThermalLevel, CacheStatus, TrailingStatus
  <2>. QED  BY <2>1 DEF Strategy, MediaLibraryStatus, HdiStatus
<1>5. cmds \in Seq(Command)
  OBVIOUS
<1>6. OthersOK
  BY DEF OthersOK, EventsOK, CameraStatus, ScheduleStatus
<1>7. WorkloadOK
  BY DEF WorkloadOK
<1>. QED  BY <1>1, <1>2, <1>3, <1>4, <1>5, <1>6, <1>7 DEF IInv, ThreadInv

LEMMA TookCommand ==
  ASSUME IInv, NEW op, Took(op)
  PROVE  /\ MidInv(Now) /\ Now.repo = repo /\ RepoInv(repo)
         /\ Head(cmds) \in Command /\ Head(cmds).op = op
BY NowInv DEF IInv, Took, ThreadInv

\* What the commands carry.
LEMMA CommandImage ==
  ASSUME NEW c \in Command
  PROVE  /\ c.op \in {"Add", "Restore", "Process", "Cancel", "Success", "Remove", "Failed"}
              => c.image \in Image
         /\ c.op = "Failed" => c.error \in Error
         /\ c.op = "Event" => c.event \in Event
         /\ c.op = "AddSession" => c.info \in Info
BY DEF Command

LEMMA CatchResultInv ==
  ASSUME IInv, NEW m, MidInv(m), NEW i \in Image, CatchResult(m, i)
  PROVE  /\ ThreadInv' /\ schedule' \in ScheduleStatus
         /\ answer' \in [Image -> {"none", "done", "error"}]
<1>1. DeRecordResult(m, i) /\ EventsOK /\ schedule \in ScheduleStatus
  BY DEF CatchResult, IInv, OthersOK
<1>2. answer' \in [Image -> {"none", "done", "error"}]
  BY DEF CatchResult, IInv, OthersOK
<1>. QED  BY <1>1, <1>2, DeRecordResultInv

LEMMA HandleAddInv ==
  ASSUME IInv, HandleAdd
  PROVE  IInv'
<1>. DEFINE i == Head(cmds).image
            m == TakeResult(Now, i)
            n == [m EXCEPT !.repo = AddDeferredJob(m.repo, i)]
<1>1. MidInv(Now) /\ i \in Image
  BY TookCommand, CommandImage DEF HandleAdd
<1>2. MidInv(m)
  BY <1>1, TakeResultInv
<1>3. MidInv(n)
  BY <1>1, <1>2, MidRepo, AddDeferredJobInv, NewRepo
<1>4. UNCHANGED <<events, client, orphans>>
  BY DEF HandleAdd
<1>5. CASE CatchResult(Now, i)
  BY <1>1, <1>4, <1>5, CatchResultInv DEF IInv, OthersOK, EventsOK
<1>6. CASE /\ Become([m EXCEPT !.repo = AddDeferredJob(@, i)])
           /\ answer' = IF Present(repo, i) THEN answer ELSE [answer EXCEPT ![i] = "none"]
           /\ UNCHANGED schedule
  <2>1. n = [m EXCEPT !.repo = AddDeferredJob(@, i)]
    BY <1>2 DEF MidInv, MidState
  <2>. HIDE DEF n, m, i
  <2>2. ThreadInv'
    BY <1>3, <1>6, <2>1, BecomeInv
  <2>. QED  BY <1>1, <1>4, <1>6, <2>2 DEF IInv, OthersOK, EventsOK
<1>. QED  BY <1>5, <1>6 DEF HandleAdd

\* A handler that only changes the thread's state keeps the invariant.
LEMMA ThreadOnly ==
  ASSUME IInv, NEW m, MidInv(m), Become(m),
         UNCHANGED <<events, client, orphans, schedule, answer>>
  PROVE  IInv'
<1>1. ThreadInv'
  BY BecomeInv
<1>. QED  BY <1>1 DEF IInv, OthersOK, EventsOK

LEMMA HandleRemoveRestorableInv ==
  ASSUME IInv, HandleRemoveRestorable
  PROVE  IInv'
<1>. DEFINE i == Head(cmds).image
            m == [Now EXCEPT !.result.high = @ \ {i}]
            n == [m EXCEPT !.repo = LowerPriority(m.repo, i)]
<1>1. MidInv(Now) /\ Now.repo = repo /\ i \in Image
  BY TookCommand, CommandImage DEF HandleRemoveRestorable
<1>2. MidInv(m) /\ m.repo = repo
  BY <1>1, ForgetHighInv
<1>3. Become(IF Present(repo, i) THEN [m EXCEPT !.repo = LowerPriority(@, i)] ELSE m)
  BY DEF HandleRemoveRestorable
<1>4. UNCHANGED <<events, client, orphans, schedule, answer>>
  BY DEF HandleRemoveRestorable
<1>. HIDE DEF m
<1>5. CASE Present(repo, i)
  <2>1. MidInv(n)
    BY <1>1, <1>2, <1>5, MidRepo, LowerPriorityInv, NewRepo
  <2>2. [m EXCEPT !.repo = LowerPriority(@, i)] = n
    BY <1>2 DEF MidInv, MidState
  <2>. HIDE DEF n, i
  <2>. QED  BY <1>3, <1>4, <1>5, <2>1, <2>2, ThreadOnly
<1>6. CASE ~ Present(repo, i)
  BY <1>2, <1>3, <1>4, <1>6, ThreadOnly
<1>. QED  BY <1>5, <1>6

LEMMA HandleRemoveInv ==
  ASSUME IInv, HandleRemove
  PROVE  IInv'
<1>. DEFINE i == Head(cmds).image
            m == [Now EXCEPT !.result.high = @ \ {i}]
            stopped == IF i \in repo.running THEN Interrupt(m) ELSE m
            deleted == [stopped EXCEPT !.repo = DeleteJob(stopped.repo, i)]
            removed == IF Present(repo, i) THEN deleted ELSE stopped
            left == PostRemove(removed, i)
            n == [left EXCEPT !.result.crash[i] = 0]
<1>1. MidInv(Now) /\ Now.repo = repo /\ i \in Image
  BY TookCommand, CommandImage DEF HandleRemove
<1>2. MidInv(m) /\ m.repo = repo
  BY <1>1, ForgetHighInv
<1>. HIDE DEF m
<1>3. MidInv(stopped)
  BY <1>2, InterruptInv
<1>. HIDE DEF stopped
<1>4. MidInv(deleted)
  BY <1>1, <1>3, MidRepo, DeleteJobInv, NewRepo
<1>5. deleted = [stopped EXCEPT !.repo = DeleteJob(@, i)]
  BY <1>3 DEF MidInv, MidState
<1>. HIDE DEF deleted
<1>6. MidInv(removed)
  BY <1>3, <1>4
<1>. HIDE DEF removed
<1>7. MidInv(left)
  BY <1>1, <1>6, PostRemoveInv
<1>. HIDE DEF left
<1>8. MidInv(n)
  BY <1>1, <1>7, ResetCrashInv
<1>. HIDE DEF n
<1>9. /\ DeRecordResult(n, i)
      /\ orphans' = IF repo.job[i].timer THEN orphans \cup {i} ELSE orphans
      /\ answer' = [answer EXCEPT ![i] = "none"]
      /\ UNCHANGED <<events, client>>
  BY <1>5 DEF HandleRemove, n, left, removed, stopped, m
<1>. HIDE DEF i
<1>10. ThreadInv' /\ schedule' \in ScheduleStatus
  BY <1>1, <1>8, <1>9, DeRecordResultInv DEF IInv, OthersOK
<1>. QED  BY <1>1, <1>9, <1>10 DEF IInv, OthersOK, EventsOK

LEMMA HandleRestoreInv ==
  ASSUME IInv, HandleRestore
  PROVE  IInv'
<1>. DEFINE i == Head(cmds).image
            r == UpdateJob(SetJobPriority(Now.repo, i, "NORMAL"), i)
            n == [Now EXCEPT !.repo = r]
<1>1. MidInv(Now) /\ Now.repo = repo /\ i \in Image
  BY TookCommand, CommandImage DEF HandleRestore
<1>2. UNCHANGED <<events, client, orphans, schedule, answer>>
  BY DEF HandleRestore
<1>3. n = [Now EXCEPT !.repo = UpdateJob(SetJobPriority(@, i, "NORMAL"), i)]
  BY <1>1 DEF MidInv, MidState
<1>4. Become(IF Present(repo, i) THEN Send(n, <<JobChanged>>) ELSE Now)
  BY <1>3 DEF HandleRestore
<1>5. CASE Present(repo, i)
  <2>1. "NORMAL" \in JobPriority
    BY DEF JobPriority
  <2>2. RepoInv(SetJobPriority(Now.repo, i, "NORMAL"))
    BY <1>1, <1>5, <2>1, MidRepo, SetJobPriorityInv
  <2>3. RepoInv(r)
    BY <2>2, UpdateJobInv
  <2>. HIDE DEF r
  <2>4. MidInv(n)
    BY <1>1, <2>3, NewRepo
  <2>. HIDE DEF n
  <2>5. MidInv(Send(n, <<JobChanged>>))
    BY <2>4, SendInv, CommandTypes
  <2>. QED  BY <1>2, <1>4, <1>5, <2>5, ThreadOnly
<1>6. CASE ~ Present(repo, i)
  BY <1>1, <1>2, <1>4, <1>6, ThreadOnly
<1>. QED  BY <1>5, <1>6

LEMMA HandleCancelInv ==
  ASSUME IInv, HandleCancel
  PROVE  IInv'
<1>. DEFINE i == Head(cmds).image
            m == [Now EXCEPT !.result.high = @ \ {i}]
            r == UpdateJob(SetJobPriority(m.repo, i, "NORMAL"), i)
            n == [m EXCEPT !.repo = r]
<1>1. MidInv(Now) /\ Now.repo = repo /\ i \in Image
  BY TookCommand, CommandImage DEF HandleCancel
<1>2. MidInv(m) /\ m.repo = repo
  BY <1>1, ForgetHighInv
<1>3. UNCHANGED <<events, client, orphans, schedule, answer>>
  BY DEF HandleCancel
<1>4. n = [m EXCEPT !.repo = UpdateJob(SetJobPriority(@, i, "NORMAL"), i)]
  BY <1>2 DEF MidInv, MidState
<1>5. \/ Become(Now)
      \/ Present(repo, i) /\ Become(n)
      \/ Become(m)
  BY <1>4 DEF HandleCancel
<1>. HIDE DEF m
<1>6. CASE Present(repo, i) /\ Become(n)
  <2>1. "NORMAL" \in JobPriority
    BY DEF JobPriority
  <2>2. RepoInv(SetJobPriority(m.repo, i, "NORMAL"))
    BY <1>1, <1>2, <1>6, <2>1, MidRepo, SetJobPriorityInv
  <2>3. RepoInv(r)
    BY <2>2, UpdateJobInv
  <2>. HIDE DEF r
  <2>4. MidInv(n)
    BY <1>2, <2>3, NewRepo
  <2>. HIDE DEF n
  <2>. QED  BY <1>3, <1>6, <2>4, ThreadOnly
<1>7. CASE Become(Now)
  BY <1>1, <1>3, <1>7, ThreadOnly
<1>8. CASE Become(m)
  BY <1>2, <1>3, <1>8, ThreadOnly
<1>. QED  BY <1>5, <1>6, <1>7, <1>8

LEMMA NoticesType ==
  ASSUME NEW r, NEW i, NEW s
  PROVE  Notices(r, i, s) \in Seq(Command)
BY CommandTypes DEF Notices

\* Whatever the error comes to, the job is left alone, waits again, has failed
\* or is given up, and is running in none of these cases but the first.
LEMMA OnProcessErrorInv ==
  ASSUME IInv, NEW m, MidInv(m), NEW i \in Image, NEW e, OnProcessError(m, i, e)
  PROVE  /\ ThreadInv' /\ schedule' = schedule
         /\ answer' \in [Image -> {"none", "done", "error"}]
<1>. DEFINE counted == StopTimer(CountError(m, i, e), i)
            type == ErrorType(m, i, EffectiveError(m, i, e))
            next == CASE type = "RETRY" -> Prepare(counted.repo, i)
                      [] type = "FATAL_NOTIFY" -> SetError(counted.repo, i)
                      [] OTHER -> Fail(counted.repo, i)
            entered == CASE type = "RETRY" -> "PENDING"
                         [] type = "FATAL_NOTIFY" -> "ERROR"
                         [] OTHER -> "FAILED"
            done == [counted EXCEPT !.repo = next]
            notices == Notices(m.repo, i, entered)
<1>1. MidInv(counted) /\ (Present(m.repo, i) => Present(counted.repo, i))
  BY CountErrorInv, StopTimerInv
<1>2. \/ Become(RecordResult(counted, i, "error")) /\ UNCHANGED answer
      \/ /\ Present(m.repo, i)
         /\ Become(Send(done, notices))
         /\ answer' = IF type \in {"RETRY", "NORMAL_FAILED"} THEN answer
                      ELSE [answer EXCEPT ![i] = "error"]
  BY DEF OnProcessError
<1>3. UNCHANGED schedule
  BY DEF OnProcessError
<1>. HIDE DEF counted, type
<1>4. CASE Become(RecordResult(counted, i, "error")) /\ UNCHANGED answer
  <2>1. MidInv(RecordResult(counted, i, "error"))
    BY <1>1, RecordResultInv
  <2>2. ThreadInv'
    BY <1>4, <2>1, BecomeInv
  <2>. QED  BY <1>3, <1>4, <2>2 DEF IInv, OthersOK
<1>5. CASE /\ Present(m.repo, i)
           /\ Become(Send(done, notices))
           /\ answer' = IF type \in {"RETRY", "NORMAL_FAILED"} THEN answer
                        ELSE [answer EXCEPT ![i] = "error"]
  <2>1. RepoInv(counted.repo) /\ Present(counted.repo, i)
    BY <1>1, <1>5, MidRepo
  <2>2. RepoInv(next)
    <3>1. CASE type = "RETRY"
      BY <2>1, <3>1, PrepareInv
    <3>2. CASE type = "FATAL_NOTIFY"
      BY <2>1, <3>2, FailInv
    <3>3. CASE type \notin {"RETRY", "FATAL_NOTIFY"}
      BY <2>1, <3>3, FailInv
    <3>. QED  BY <3>1, <3>2, <3>3
  <2>. HIDE DEF next
  <2>3. MidInv(done)
    BY <1>1, <2>2, NewRepo
  <2>4. notices \in Seq(Command)
    BY NoticesType
  <2>. HIDE DEF done, notices
  <2>5. MidInv(Send(done, notices))
    BY <2>3, <2>4, SendInv
  <2>6. ThreadInv'
    BY <1>5, <2>5, BecomeInv
  <2>7. answer' \in [Image -> {"none", "done", "error"}]
    BY <1>5 DEF IInv, OthersOK
  <2>. QED  BY <1>3, <2>6, <2>7
<1>. QED  BY <1>2, <1>4, <1>5

LEMMA HandleFailedInv ==
  ASSUME IInv, HandleFailed
  PROVE  IInv'
<1>1. MidInv(Now) /\ Head(cmds).image \in Image
  BY TookCommand, CommandImage DEF HandleFailed
<1>2. OnProcessError(Now, Head(cmds).image, Head(cmds).error) /\ UNCHANGED <<events, client, orphans>>
  BY DEF HandleFailed
<1>3. ThreadInv' /\ schedule' = schedule /\ answer' \in [Image -> {"none", "done", "error"}]
  BY <1>1, <1>2, OnProcessErrorInv
<1>. QED  BY <1>2, <1>3 DEF IInv, OthersOK, EventsOK

LEMMA HandleSuccessInv ==
  ASSUME IInv, HandleSuccess
  PROVE  IInv'
<1>. DEFINE i == Head(cmds).image
            reset == [Now EXCEPT !.result.timeouts = 0]
            m == StopTimer(reset, i)
            finished == [m EXCEPT !.repo = Complete(m.repo, i)]
            notices == Notices(repo, i, "COMPLETED")
            completed == Send(finished, notices)
            held == RecordResult(completed, i, "image")
            gated == [held EXCEPT !.result.bp = i]
<1>1. MidInv(Now) /\ Now.repo = repo /\ i \in Image
  BY TookCommand, CommandImage DEF HandleSuccess
<1>. HIDE DEF i
<1>2. MidInv(reset) /\ reset.repo = repo
  BY <1>1, ResetTimeoutsInv
<1>. HIDE DEF reset
<1>3. MidInv(m) /\ (Present(repo, i) => Present(m.repo, i))
  BY <1>1, <1>2, StopTimerInv
<1>. HIDE DEF m
<1>4. finished = [m EXCEPT !.repo = Complete(@, i)]
  BY <1>3 DEF MidInv, MidState
<1>. HIDE DEF finished
<1>5. UNCHANGED <<client, orphans>>
  BY DEF HandleSuccess
<1>6. \/ Become(RecordResult(m, i, "image")) /\ UNCHANGED <<events, schedule, answer>>
      \/ /\ Present(repo, i)
         /\ EventChanged(gated, CacheEvent("CACHED"))
         /\ UNCHANGED <<events, answer>>
      \/ /\ Present(repo, i)
         /\ Become(completed)
         /\ events' = [events EXCEPT !.mediaBusy = TRUE]
         /\ answer' = [answer EXCEPT ![i] = "done"]
         /\ UNCHANGED schedule
  BY <1>4 DEF HandleSuccess, m, reset, i
<1>7. Present(repo, i) => MidInv(completed)
  <2>1. Present(repo, i) => MidInv([m EXCEPT !.repo = Complete(m.repo, i)])
    BY <1>1, <1>3, MidRepo, CompleteInv, NewRepo
  <2>2. notices \in Seq(Command)
    BY NoticesType
  <2>. QED  BY <2>1, <2>2, SendInv DEF finished
<1>. HIDE DEF completed
<1>8. CASE Become(RecordResult(m, i, "image")) /\ UNCHANGED <<events, schedule, answer>>
  <2>1. MidInv(RecordResult(m, i, "image"))
    BY <1>1, <1>3, RecordResultInv
  <2>. QED  BY <1>5, <1>8, <2>1, ThreadOnly
<1>9. CASE /\ Present(repo, i)
           /\ EventChanged(gated, CacheEvent("CACHED"))
           /\ UNCHANGED <<events, answer>>
  <2>1. MidInv(held)
    BY <1>1, <1>7, <1>9, RecordResultInv
  <2>. HIDE DEF held
  <2>2. MidInv(gated)
    BY <1>1, <2>1, SetBpInv
  <2>. HIDE DEF gated
  <2>3. CacheEvent("CACHED") \in Event
    BY DEF CacheEvent, Event, CacheStatus
  <2>4. ThreadInv' /\ schedule' \in ScheduleStatus
    BY <1>9, <2>2, <2>3, EventChangedInv DEF IInv, OthersOK
  <2>. QED  BY <1>5, <1>9, <2>4 DEF IInv, OthersOK, EventsOK
<1>10. CASE /\ Present(repo, i)
            /\ Become(completed)
            /\ events' = [events EXCEPT !.mediaBusy = TRUE]
            /\ answer' = [answer EXCEPT ![i] = "done"]
            /\ UNCHANGED schedule
  <2>1. ThreadInv'
    BY <1>7, <1>10, BecomeInv
  <2>2. EventsOK'
    BY <1>10 DEF IInv, OthersOK, EventsOK
  <2>3. answer' \in [Image -> {"none", "done", "error"}]
    BY <1>1, <1>10 DEF IInv, OthersOK
  <2>. QED  BY <1>5, <1>10, <2>1, <2>2, <2>3 DEF IInv, OthersOK
<1>. QED  BY <1>6, <1>8, <1>9, <1>10

LEMMA HandleProcessInv ==
  ASSUME IInv, HandleProcess
  PROVE  IInv'
<1>. DEFINE i == Head(cmds).image
            high == SetJobPriority(repo, i, "HIGH")
            ready == IF high.job[i].state = "FAILED" THEN Prepare(high, i) ELSE high
            requested == [Now EXCEPT !.repo = UpdateJob(ready, i)]
            m == Send(requested, <<JobChanged>>)
            taken == TakeResult(m, i)
<1>1. MidInv(Now) /\ Now.repo = repo /\ i \in Image
  BY TookCommand, CommandImage DEF HandleProcess
<1>2. UNCHANGED <<events, client, orphans>>
  BY DEF HandleProcess
<1>3. \/ Become(Now) /\ UNCHANGED <<schedule, answer>>
      \/ OnProcessError(Now, i, "FATAL")
      \/ Present(repo, i) /\ CatchResult(m, i)
      \/ /\ Present(repo, i)
         /\ Become([taken EXCEPT !.result.high = @ \cup {i}])
         /\ UNCHANGED <<schedule, answer>>
  BY DEF HandleProcess
<1>4. Present(repo, i) => MidInv(m)
  <2>. SUFFICES ASSUME Present(repo, i)
                PROVE  MidInv(m)
    OBVIOUS
  <2>1. RepoInv(high) /\ Present(high, i)
    BY <1>1, MidRepo, SetJobPriorityInv DEF JobPriority
  <2>. HIDE DEF high
  <2>2. RepoInv(ready)
    BY <1>1, <2>1, PrepareInv
  <2>. HIDE DEF ready
  <2>3. MidInv(requested)
    BY <1>1, <2>2, UpdateJobInv, NewRepo
  <2>. HIDE DEF requested
  <2>. QED  BY <2>3, SendInv, CommandTypes
<1>. HIDE DEF m
<1>5. CASE Become(Now) /\ UNCHANGED <<schedule, answer>>
  BY <1>1, <1>2, <1>5, ThreadOnly
<1>6. CASE OnProcessError(Now, i, "FATAL")
  <2>1. /\ ThreadInv' /\ schedule' = schedule
        /\ answer' \in [Image -> {"none", "done", "error"}]
    BY <1>1, <1>6, OnProcessErrorInv
  <2>. QED  BY <1>2, <2>1 DEF IInv, OthersOK, EventsOK
<1>7. CASE Present(repo, i) /\ CatchResult(m, i)
  <2>1. /\ ThreadInv' /\ schedule' \in ScheduleStatus
        /\ answer' \in [Image -> {"none", "done", "error"}]
    BY <1>1, <1>4, <1>7, CatchResultInv
  <2>. QED  BY <1>2, <2>1 DEF IInv, OthersOK, EventsOK
<1>8. CASE /\ Present(repo, i)
           /\ Become([taken EXCEPT !.result.high = @ \cup {i}])
           /\ UNCHANGED <<schedule, answer>>
  <2>1. MidInv(taken)
    BY <1>1, <1>4, <1>8, TakeResultInv
  <2>. HIDE DEF taken
  <2>. DEFINE h == taken.result.high \cup {i}
  <2>2. h \in SUBSET Image
    BY <1>1, <2>1 DEF MidInv, MidState, Result
  <2>3. [taken EXCEPT !.result.high = @ \cup {i}] = [taken EXCEPT !.result.high = h]
    BY <2>1 DEF MidInv, MidState, Result
  <2>. HIDE DEF h
  <2>4. MidInv([taken EXCEPT !.result.high = h])
    BY <2>1, <2>2, SetHighInv
  <2>. QED  BY <1>2, <1>8, <2>3, <2>4, ThreadOnly
<1>. QED  BY <1>3, <1>5, <1>6, <1>7, <1>8

LEMMA HandleProcessCacheInv ==
  ASSUME IInv, HandleProcessCache
  PROVE  IInv'
<1>. DEFINE i == result.bp
<1>1. MidInv(Now)
  BY TookCommand DEF HandleProcessCache
<1>2. UNCHANGED <<events, client, orphans>>
  BY DEF HandleProcessCache
<1>3. i # "Null" => i \in Image
  BY DEF IInv, ThreadInv, Result
<1>4. \/ Become(Now) /\ UNCHANGED <<schedule, answer>>
      \/ i # "Null" /\ CatchResult(Now, i)
      \/ i # "Null" /\ Become(TakeResult(Now, i)) /\ UNCHANGED <<schedule, answer>>
  BY DEF HandleProcessCache
<1>. HIDE DEF i
<1>5. CASE Become(Now) /\ UNCHANGED <<schedule, answer>>
  BY <1>1, <1>2, <1>5, ThreadOnly
<1>6. CASE i # "Null" /\ CatchResult(Now, i)
  <2>1. /\ ThreadInv' /\ schedule' \in ScheduleStatus
        /\ answer' \in [Image -> {"none", "done", "error"}]
    BY <1>1, <1>3, <1>6, CatchResultInv
  <2>. QED  BY <1>2, <2>1 DEF IInv, OthersOK, EventsOK
<1>7. CASE i # "Null" /\ Become(TakeResult(Now, i)) /\ UNCHANGED <<schedule, answer>>
  <2>1. MidInv(TakeResult(Now, i))
    BY <1>1, <1>3, <1>7, TakeResultInv
  <2>. QED  BY <1>2, <1>7, <2>1, ThreadOnly
<1>. QED  BY <1>4, <1>5, <1>6, <1>7

LEMMA HandleJobChangedInv ==
  ASSUME IInv, HandleJobChanged
  PROVE  IInv'
<1>1. MidInv(Now) /\ TryDoSchedule(Now) /\ UNCHANGED <<events, client, orphans, answer>>
  BY TookCommand DEF HandleJobChanged
<1>2. ThreadInv' /\ schedule' \in ScheduleStatus
  BY <1>1, TryDoScheduleInv
<1>. QED  BY <1>1, <1>2 DEF IInv, OthersOK, EventsOK

LEMMA HandleEventInv ==
  ASSUME IInv, HandleEvent
  PROVE  IInv'
<1>. DEFINE e == Head(cmds).event
<1>1. MidInv(Now) /\ e \in Event
  BY TookCommand, CommandImage DEF HandleEvent
<1>2. /\ EventChanged(Now, e) /\ UNCHANGED <<client, orphans, answer>>
      /\ events' = [events EXCEPT !.needTrailing = @ /\ ~ ReadsNeedTrailing(strategy, e)]
  BY DEF HandleEvent
<1>. HIDE DEF e
<1>3. ThreadInv' /\ schedule' \in ScheduleStatus
  BY <1>1, <1>2, EventChangedInv DEF IInv, OthersOK
<1>4. EventsOK'
  BY <1>2 DEF IInv, OthersOK, EventsOK
<1>. QED  BY <1>2, <1>3, <1>4 DEF IInv, OthersOK

\* One failure for each running id, in some order, then the event.
LEMMA HandlePhotoDiedInv ==
  ASSUME IInv, HandlePhotoDied
  PROVE  IInv'
<1>1. MidInv(Now) /\ hal.runningId \in SUBSET Image
  BY TookCommand DEF HandlePhotoDied, IInv, ThreadInv, PostProcessor
<1>2. PICK ids \in SX!SetToSeqs(hal.runningId) :
        Become(Send([Now EXCEPT !.hal.session = "null"],
                    [n \in 1 .. Len(ids) |-> Failed(ids[n], "NOT_READY")]
                      \o <<EventCommand("hal", "DISCONNECTED")>>))
  BY DEF HandlePhotoDied
<1>3. UNCHANGED <<events, client, orphans, schedule, answer>>
  BY DEF HandlePhotoDied
<1>. DEFINE dead == [Now EXCEPT !.hal = [Now.hal EXCEPT !.session = "null"]]
            failures == [n \in 1 .. Len(ids) |-> Failed(ids[n], "NOT_READY")]
            sent == failures \o <<EventCommand("hal", "DISCONNECTED")>>
<1>4. ids \in Seq(Image)
  <2>1. Cardinality(hal.runningId) \in Nat
    BY <1>1, ConstantsAssumption, FS_Subset, FS_CardinalityType
  <2>2. ids \in [1 .. Cardinality(hal.runningId) -> hal.runningId]
    <3>1. SX!Cardinality(hal.runningId) = Cardinality(hal.runningId)
      BY Zenon DEF SX!Cardinality, Cardinality
    <3>. QED  BY <1>2, <3>1 DEF SX!SetToSeqs
  <2>. QED  BY <1>1, <2>1, <2>2
<1>5. failures \in Seq(Command)
  <2>1. \A n \in 1 .. Len(ids) : Failed(ids[n], "NOT_READY") \in Command
    BY <1>4 DEF Failed, Command, Error
  <2>2. Len(ids) \in Nat
    BY <1>4
  <2>3. failures \in [1 .. Len(ids) -> Command]
    BY <2>1
  <2>. HIDE DEF failures
  <2>. QED  BY <2>2, <2>3
<1>6. <<EventCommand("hal", "DISCONNECTED")>> \in Seq(Command)
  <2>1. [type |-> "hal", value |-> "DISCONNECTED"] \in Event
    BY DEF Event, HdiStatus
  <2>2. EventCommand("hal", "DISCONNECTED") \in Command
    BY <2>1, CommandTypes DEF EventCommand
  <2>. QED  BY <2>2
<1>7. sent \in Seq(Command)
  BY <1>5, <1>6, ConcatProperties
<1>8. MidInv(dead)
  <2>1. [Now.hal EXCEPT !.session = "null"] \in PostProcessor
    BY <1>1 DEF MidInv, MidState, PostProcessor, SessionState
  <2>. QED  BY <1>1, <2>1, NewPostProcessor
<1>9. [Now EXCEPT !.hal.session = "null"] = dead
  BY <1>1 DEF MidInv, MidState
<1>. HIDE DEF dead, sent
<1>10. MidInv(Send(dead, sent)) /\ Become(Send(dead, sent))
  BY <1>2, <1>7, <1>8, <1>9, SendInv DEF sent
<1>. QED  BY <1>3, <1>10, ThreadOnly

LEMMA HandleSessionInv ==
  ASSUME IInv, HandleAddSession \/ HandleDeleteSession
  PROVE  IInv'
<1>1. \A v \in MediaLibraryStatus : MediaEvent(v) \in Event
  BY DEF MediaEvent, Event
<1>2. CASE HandleAddSession
  <2>1. MidInv(Now) /\ Head(cmds).info \in Info
    BY <1>2, TookCommand, CommandImage DEF HandleAddSession
  <2>2. /\ EventChanged(Now, MediaEvent("AVAILABLE"))
        /\ client' = [client EXCEPT !.mapped = Head(cmds).info]
        /\ events' = [events EXCEPT !.mediaBusy = FALSE]
        /\ UNCHANGED <<orphans, answer>>
    BY <1>2 DEF HandleAddSession
  <2>3. ThreadInv' /\ schedule' \in ScheduleStatus
    BY <1>1, <2>1, <2>2, EventChangedInv DEF IInv, OthersOK, MediaLibraryStatus
  <2>. QED  BY <2>1, <2>2, <2>3 DEF IInv, OthersOK, EventsOK
<1>3. CASE HandleDeleteSession
  <2>1. MidInv(Now)
    BY <1>3, TookCommand DEF HandleDeleteSession
  <2>2. /\ EventChanged(Now, MediaEvent("DISCONNECTED"))
        /\ client' = [client EXCEPT !.mapped = "none"]
        /\ UNCHANGED <<events, orphans, answer>>
    BY <1>3 DEF HandleDeleteSession
  <2>3. ThreadInv' /\ schedule' \in ScheduleStatus
    BY <1>1, <2>1, <2>2, EventChangedInv DEF IInv, OthersOK, MediaLibraryStatus
  <2>. QED  BY <2>2, <2>3 DEF IInv, OthersOK, EventsOK
<1>. QED  BY <1>2, <1>3

LEMMA CommandThreadInv ==
  ASSUME IInv, CommandThread
  PROVE  IInv'
BY HandleAddInv, HandleRemoveInv, HandleRemoveRestorableInv, HandleRestoreInv, HandleCancelInv,
   HandleProcessInv, HandleProcessCacheInv, HandleSuccessInv, HandleFailedInv,
   HandleJobChangedInv, HandleEventInv, HandlePhotoDiedInv, HandleSessionInv
   DEF CommandThread
-----------------------------------------------------------------------------
(***************************************************************************)
(* The other threads queue commands and change what is not the command     *)
(* thread's.  Only a timer touches the repository.                         *)
(***************************************************************************)
LEMMA QueueType ==
  ASSUME IInv, NEW c \in Command
  PROVE  Append(cmds, c) \in Seq(Command) /\ <<c>> \o cmds \in Seq(Command)
<1>1. cmds \in Seq(Command) /\ <<c>> \in Seq(Command)
  BY DEF IInv, ThreadInv
<1>2. <<c>> \o cmds \in Seq(Command)
  BY <1>1, ConcatProperties
<1>. QED  BY <1>1, <1>2

LEMMA ClientThreadsInv ==
  ASSUME IInv, ClientThreads
  PROVE  IInv'
<1>1. ASSUME NEW i \in Image,
             \/ ClientAdds(i) \/ ClientRemoves(i) \/ ClientRestores(i)
             \/ ClientRequests(i) \/ ClientCancels(i)
      PROVE  IInv'
  <2>1. /\ UNCHANGED <<threadState, hal, ive, events, client, orphans>>
        /\ \E c \in Command : Queue(c)
    <3>1. CASE ClientAdds(i)
      BY <3>1 DEF ClientAdds, Command
    <3>2. CASE ClientRemoves(i)
      BY <3>2 DEF ClientRemoves, Command
    <3>3. CASE ClientRestores(i)
      BY <3>3 DEF ClientRestores, Command
    <3>4. CASE ClientRequests(i)
      BY <3>4 DEF ClientRequests, Command
    <3>5. CASE ClientCancels(i)
      BY <3>5 DEF ClientCancels, Command
    <3>. QED  BY <1>1, <3>1, <3>2, <3>3, <3>4, <3>5
  <2>2. cmds' \in Seq(Command)
    BY <2>1, QueueType DEF Queue
  <2>. QED  BY <2>1, <2>2 DEF IInv, ThreadInv, OthersOK, EventsOK, RepoInv, RunningIsState, threadState
<1>2. CASE LibraryIdle
  <2>1. [op |-> "ProcessCache"] \in Command
    BY DEF Command
  <2>2. cmds' \in Seq(Command)
    BY <1>2, <2>1, QueueType DEF LibraryIdle, QueueUrgent
  <2>. QED  BY <1>2, <2>2 DEF LibraryIdle, IInv, ThreadInv, OthersOK, EventsOK, RepoInv,
                              RunningIsState, threadState
<1>3. CASE ClientDies
  <2>1. [op |-> "DeleteSession"] \in Command
    BY DEF Command
  <2>2. cmds' \in Seq(Command)
    BY <1>3, <2>1, QueueType DEF ClientDies, QueueUrgent
  <2>. QED  BY <1>3, <2>2 DEF ClientDies, IInv, ThreadInv, OthersOK, EventsOK, RepoInv,
                              RunningIsState, threadState
<1>4. CASE ClientConnects
  <2>1. PICK n \in Info : /\ client' = [client EXCEPT !.alive = TRUE, !.callback = {n}]
                          /\ QueueUrgent([op |-> "AddSession", info |-> n])
    BY <1>4 DEF ClientConnects
  <2>2. [op |-> "AddSession", info |-> n] \in Command
    BY DEF Command
  <2>3. cmds' \in Seq(Command)
    BY <2>1, <2>2, QueueType DEF QueueUrgent
  <2>. QED  BY <1>4, <2>1, <2>3 DEF ClientConnects, IInv, ThreadInv, OthersOK, EventsOK, RepoInv,
                                    RunningIsState, threadState
<1>. QED  BY <1>1, <1>2, <1>3, <1>4 DEF ClientThreads

\* A step that leaves the repository alone keeps the invariant, if what it
\* changes keeps its types.
LEMMA SameRepository ==
  ASSUME IInv, UNCHANGED threadState, cmds' \in Seq(Command),
         hal' \in PostProcessor, ive' \in Ive, EventsOK', UNCHANGED <<client, orphans>>
  PROVE  IInv'
BY DEF IInv, ThreadInv, OthersOK, RepoInv, RunningIsState, threadState

LEMMA HalEventType ==
  ASSUME NEW v \in HdiStatus
  PROVE  EventCommand("hal", v) \in Command
BY CommandTypes DEF EventCommand, Event

LEMMA HdiThreadsInv ==
  ASSUME IInv, workload \in Workload, HdiThreads
  PROVE  IInv'
<1>0. /\ cmds \in Seq(Command) /\ hal \in PostProcessor /\ ive \in Ive
      /\ \A c \in Command : Queue(c) => cmds' \in Seq(Command)
      /\ UNCHANGED events => EventsOK'
  BY QueueType DEF IInv, ThreadInv, OthersOK, EventsOK, Queue
<1>1. ASSUME NEW i \in Image, IveDone(i)
      PROVE  IInv'
  <2>1. [op |-> "Success", image |-> i] \in Command
    BY DEF Command
  <2>2. ive' \in Ive
    BY <1>0, <1>1 DEF IveDone, Ive
  <2>. QED  BY <1>0, <1>1, <2>1, <2>2, SameRepository DEF IveDone
<1>2. ASSUME NEW i \in Image, IveFails(i)
      PROVE  IInv'
  <2>1. \A e \in Error : Failed(i, e) \in Command
    BY DEF Failed, Command, Error
  <2>2. \E e \in Error : Queue(Failed(i, e))
    BY <1>2, ConstantsAssumption DEF IveFails, IveError, Error
  <2>3. ive' \in Ive
    BY <1>0, <1>2 DEF IveFails, Ive
  <2>. QED  BY <1>0, <1>2, <2>1, <2>2, <2>3, SameRepository DEF IveFails
<1>3. ASSUME NEW i \in Image, IveBackgroundDone(i)
      PROVE  IInv'
  <2>1. [op |-> "Success", image |-> i] \in Command
    BY DEF Command
  <2>. QED  BY <1>0, <1>3, <2>1, SameRepository DEF IveBackgroundDone
<1>4. CASE IveStatus
  <2>1. \E v \in HdiStatus : Queue(EventCommand("hal", v))
    BY <1>4, ConstantsAssumption DEF IveStatus
  <2>. QED  BY <1>0, <1>4, <2>1, HalEventType, SameRepository DEF IveStatus
<1>5. CASE IveDies
  <2>1. [op |-> "PhotoDied"] \in Command
    BY DEF Command
  <2>2. cmds' \in Seq(Command)
    BY <1>0, <1>5, <2>1 DEF IveDies
  <2>3. hal' \in PostProcessor /\ ive' \in Ive
    BY <1>0, <1>5 DEF IveDies, PostProcessor, Ive, Kill, SessionState
  <2>. QED  BY <1>0, <1>5, <2>2, <2>3, SameRepository DEF IveDies
<1>6. CASE IveRestarts
  <2>1. ive' \in Ive
    BY <1>0, <1>6 DEF IveRestarts, Ive
  <2>. QED  BY <1>0, <1>6, <2>1, SameRepository DEF IveRestarts
<1>7. CASE ServiceStarted
  <2>1. hal' \in PostProcessor /\ ive' \in Ive
    BY <1>0, <1>7 DEF ServiceStarted, PostProcessor, Ive, SessionState
  <2>. QED  BY <1>0, <1>7, <2>1, SameRepository DEF ServiceStarted
<1>8. CASE SessionInstalled
  <2>1. hal' \in PostProcessor
    BY <1>0, <1>8 DEF SessionInstalled, PostProcessor, SessionState
  <2>2. EventCommand("hal", "READY") \in Command
    BY HalEventType DEF HdiStatus
  <2>. QED  BY <1>0, <1>8, <2>1, <2>2, SameRepository DEF SessionInstalled
<1>. QED  BY <1>1, <1>2, <1>3, <1>4, <1>5, <1>6, <1>7, <1>8 DEF HdiThreads

\* A timer resets the timer of its job, or nothing, and queues the failure.
LEMMA TimeoutInv ==
  ASSUME IInv, NEW i \in Image, Timeout(i), RepoInv(repo'), orphans' \subseteq Image
  PROVE  IInv'
<1>1. Failed(i, "TIMEOUT") \in Command
  BY DEF Failed, Command, Error
<1>2. cmds' \in Seq(Command)
  BY <1>1, QueueType DEF Timeout, Queue
<1>3. result' \in Result
  <2>1. (result.timeouts + 1) % 3 \in 0 .. 2
    BY DEF IInv, ThreadInv, Result
  <2>. QED  BY <2>1 DEF Timeout, IInv, ThreadInv, Result
<1>4. ive' \in Ive
  BY DEF Timeout, IInv, ThreadInv, Ive
<1>. QED  BY <1>2, <1>3, <1>4 DEF Timeout, IInv, ThreadInv, OthersOK, EventsOK, RepoInv, RunningIsState

LEMMA TimerThreadInv ==
  ASSUME IInv, TimerThread
  PROVE  IInv'
<1>1. ASSUME NEW i \in Image, TimerExpires(i)
      PROVE  IInv'
  <2>1. RepoInv(ResetTimer(repo, i))
    BY ResetTimerInv DEF IInv, ThreadInv
  <2>2. RepoInv(repo') /\ orphans' \subseteq Image /\ Timeout(i)
    BY <1>1, <2>1 DEF TimerExpires, IInv, OthersOK
  <2>. QED  BY <2>2, TimeoutInv
<1>2. ASSUME NEW i \in Image, OrphanExpires(i)
      PROVE  IInv'
  <2>1. RepoInv(repo') /\ orphans' \subseteq Image /\ Timeout(i)
    BY <1>2 DEF OrphanExpires, IInv, ThreadInv, OthersOK, RepoInv, RunningIsState
  <2>. QED  BY <2>1, TimeoutInv
<1>3. CASE TrailingExpires
  <2>1. EventCommand("trailing", "ON_STOP") \in Command
    BY CommandTypes DEF EventCommand, Event
  <2>2. cmds' \in Seq(Command)
    BY <1>3, <2>1, QueueType DEF TrailingExpires, Queue
  <2>3. strategy' \in Strategy
    BY <1>3 DEF TrailingExpires, IInv, ThreadInv, Strategy
  <2>. QED  BY <1>3, <2>2, <2>3 DEF TrailingExpires, IInv, ThreadInv, OthersOK, EventsOK,
                                    RepoInv, RunningIsState
<1>. QED  BY <1>1, <1>2, <1>3 DEF TimerThread

LEMMA SystemEventsInv ==
  ASSUME IInv, SystemEvents
  PROVE  IInv'
<1>0. /\ cmds \in Seq(Command) /\ hal \in PostProcessor /\ ive \in Ive
      /\ \A c \in Command : Queue(c) => cmds' \in Seq(Command)
      /\ UNCHANGED events => EventsOK'
  BY QueueType DEF IInv, ThreadInv, OthersOK, EventsOK, Queue
<1>1. CASE CameraChanges
  <2>1. PICK v \in CameraStatus : /\ events' = [events EXCEPT !.camera = v]
                                  /\ Queue(EventCommand("camera", v))
    BY <1>1 DEF CameraChanges
  <2>2. EventCommand("camera", v) \in Command
    BY CommandTypes DEF EventCommand, Event
  <2>3. EventsOK'
    BY <2>1 DEF IInv, OthersOK, EventsOK
  <2>. QED  BY <1>0, <1>1, <2>1, <2>2, <2>3, SameRepository DEF CameraChanges
<1>2. CASE ThermalChanges
  <2>1. PICK v \in ThermalLevel : Queue(EventCommand("thermal", v))
    BY <1>2 DEF ThermalChanges
  <2>2. EventCommand("thermal", v) \in Command
    BY CommandTypes DEF EventCommand, Event
  <2>. QED  BY <1>0, <1>2, <2>1, <2>2, SameRepository DEF ThermalChanges
<1>3. CASE DeviceOpens
  <2>1. EventCommand("interrupt", "IS_INTERRUPT") \in Command
    BY CommandTypes DEF EventCommand, Event
  <2>. QED  BY <1>0, <1>3, <2>1, SameRepository DEF DeviceOpens
<1>4. CASE LowQualityImage
  <2>1. EventsOK'
    BY <1>4 DEF LowQualityImage, IInv, OthersOK, EventsOK
  <2>. QED  BY <1>0, <1>4, <2>1, SameRepository DEF LowQualityImage
<1>. QED  BY <1>1, <1>2, <1>3, <1>4 DEF SystemEvents
-----------------------------------------------------------------------------
LEMMA IInvInductive ==
  ASSUME IInv, WorkloadOK, [Next]_vars
  PROVE  IInv' /\ WorkloadOK'
<1>1. CASE Next
  BY <1>1, CommandThreadInv, ClientThreadsInv, HdiThreadsInv, TimerThreadInv, SystemEventsInv
     DEF Next, WorkloadOK
<1>2. CASE UNCHANGED vars
  BY <1>2 DEF WorkloadOK, vars, pipeline, IInv, ThreadInv, OthersOK, EventsOK, RepoInv, RunningIsState
<1>. QED  BY <1>1, <1>2

(***************************************************************************)
(* Whatever the clients, the HDI, the timers and the system do, the state  *)
(* of the pipeline keeps its types: the queue holds commands that a handler*)
(* understands, the crash counts and the count of timeouts stay in their   *)
(* bounds, and the held photo (cachePhotoId_) is a photo or "Null".        *)
(***************************************************************************)
THEOREM TypeCorrect == Spec => []TypeOK
<1>1. Spec => [](IInv /\ WorkloadOK)
  BY InitInv, IInvInductive, PTL DEF Spec
<1>2. IInv /\ WorkloadOK => TypeOK
  BY IInvImplies DEF WorkloadOK
<1>. QED  BY <1>1, <1>2, PTL

(***************************************************************************)
(* For any number of photos: runningJob_, which HasRunningJob and          *)
(* IsRunningJob read, never disagrees with the states of the jobs, although*)
(* it is maintained by hooks on entering and leaving RUNNING and by Delete;*)
(* and never are two photos running.                                       *)
(***************************************************************************)
THEOREM OneRunningJob == Spec => []RunningJobs
<1>1. Spec => [](IInv /\ WorkloadOK)
  BY InitInv, IInvInductive, PTL DEF Spec
<1>2. IInv /\ WorkloadOK => RunningJobs
  BY IInvImplies DEF WorkloadOK
<1>. QED  BY <1>1, <1>2, PTL
-----------------------------------------------------------------------------
(***************************************************************************)
(* For every set of photos: nothing starts that the present conditions      *)
(* forbid, and ordinary work is held back exactly while a photo is.         *)
(*                                                                         *)
(* The verdict isNeedStop_ is cached, so GateRespected needs an invariant   *)
(* of the strategy alone (StrategyOK): when it says go, nothing is closed.  *)
(* The event that a photo was cached is only ever sent by the two handlers  *)
(* that also change cachePhotoId_; so no such event is in the queue.        *)
(***************************************************************************)

(***************************************************************************)
(* The strategy centre.  When the camera event brings no new value, the     *)
(* trailing state may change without an evaluation: then it was not trailing *)
(* before, or it agrees with the camera already and does not change.        *)
(***************************************************************************)
IsOpen(st) == ~ Closed(st) /\ (st.isTrailing \/ st.thermal = "NOMINAL")

StrategyOK(st) ==
  /\ ~ st.isNeedStop => IsOpen(st)
  /\ st.isTrailing => st.trailing = TrailingAfterCamera(st.camera)

LEMMA SetTrailingEffect ==
  ASSUME NEW st \in Strategy, NEW v \in TrailingStatus, NEW n \in BOOLEAN, NEW left \in BOOLEAN
  PROVE  LET t == SetTrailing(st, v, n, left)
         IN  /\ t \in Strategy
             /\ t.trailing = v
             /\ t.camera = st.camera /\ t.hal = st.hal /\ t.media = st.media
             /\ t.thermal = st.thermal /\ t.cache = st.cache /\ t.isNeedStop = st.isNeedStop
             /\ v = st.trailing => t = st
             /\ v # st.trailing /\ v = "ON_STOP" => ~ t.isTrailing
<1>. DEFINE set == [st EXCEPT !.trailing = v]
            t == SetTrailing(st, v, n, left)
            Same(u) == /\ u.trailing = v
                       /\ u.camera = st.camera /\ u.hal = st.hal /\ u.media = st.media
                       /\ u.thermal = st.thermal /\ u.cache = st.cache
                       /\ u.isNeedStop = st.isNeedStop
<1>1. t \in Strategy
  BY SetTrailingType
<1>2. CASE st.trailing = v
  BY <1>1, <1>2 DEF SetTrailing
<1>3. CASE st.trailing # v
  <2>1. set \in Strategy /\ Same(set)
    BY DEF Strategy
  <2>. HIDE DEF set
  <2>2. StopTrailing(set, left) \in Strategy /\ Same(StopTrailing(set, left))
        /\ ~ StopTrailing(set, left).isTrailing
    <3>1. StopTrailing(set, left) \in Strategy
      BY <2>1, StopTrailingType
    <3>. QED  BY <2>1, <3>1 DEF StopTrailing, Strategy
  <2>3. ASSUME NEW d \in BOOLEAN
        PROVE  Same(StartTrailing(set, d, n, left))
    <3>. DEFINE stopped == StopTrailing(set, left)
    <3>. HIDE DEF stopped
    <3>1. stopped \in Strategy /\ Same(stopped)
      BY <2>2 DEF stopped
    <3>. DEFINE time == d \/ stopped.remaining
    <3>2. Same([stopped EXCEPT !.isTrailing = time, !.trailingTimer = time, !.remaining = time])
      BY <3>1 DEF Strategy
    <3>. QED  BY <2>1, <3>2 DEF StartTrailing, stopped
  <2>4. CASE v = "ON_STOP"
    BY <1>1, <1>3, <2>2, <2>4 DEF SetTrailing, set
  <2>5. CASE v # "ON_STOP"
    BY <1>1, <1>3, <2>3, <2>5 DEF SetTrailing, set
  <2>. QED  BY <2>4, <2>5
<1>. QED  BY <1>2, <1>3

\* The state objects after an event: those of other types keep their values, except the
\* trailing state, which follows the camera.
LEMMA SetValueEffect ==
  ASSUME NEW st \in Strategy, NEW e \in Event, NEW n \in BOOLEAN, NEW left \in BOOLEAN,
         StrategyOK(st)
  PROVE  LET t == SetValue(st, e, n, left)
         IN  /\ t \in Strategy
             /\ t.cache = IF e.type = "cache" THEN e.value ELSE st.cache
             /\ t.isTrailing => t.trailing = TrailingAfterCamera(t.camera)
             /\ ~ IsNewValue(st, e) => StrategyOK(t)
<1>. DEFINE t == SetValue(st, e, n, left)
<1>1. t \in Strategy
  BY SetValueType
<1>2. CASE e.type = "camera"
  <2>. DEFINE v == TrailingAfterCamera(e.value)
              s == SetTrailing(st, v, n, left)
  <2>1. e.value \in CameraStatus /\ v \in TrailingStatus
    BY <1>2 DEF Event, TrailingAfterCamera, TrailingStatus
  <2>2. t = [s EXCEPT !.camera = e.value]
    BY <1>2 DEF SetValue
  <2>. HIDE DEF t
  <2>3. /\ s \in Strategy
        /\ s.trailing = v
        /\ s.camera = st.camera /\ s.hal = st.hal /\ s.media = st.media
        /\ s.thermal = st.thermal /\ s.cache = st.cache /\ s.isNeedStop = st.isNeedStop
        /\ v = st.trailing => s = st
    BY <2>1, SetTrailingEffect
  <2>. HIDE DEF s
  <2>4. /\ t.trailing = v /\ t.camera = e.value /\ t.hal = st.hal /\ t.media = st.media
        /\ t.thermal = st.thermal /\ t.cache = st.cache /\ t.isNeedStop = st.isNeedStop
        /\ t.isTrailing = s.isTrailing
    BY <2>2, <2>3 DEF Strategy
  <2>5. IsNewValue(st, e) <=> st.camera # e.value
    BY <1>2 DEF IsNewValue
  <2>6. ASSUME st.camera = e.value
        PROVE  StrategyOK(t)
    <3>1. ~ st.isNeedStop => t.isTrailing \/ t.thermal = "NOMINAL"
      <4>1. CASE v = st.trailing
        BY <2>3, <2>4, <4>1 DEF StrategyOK, IsOpen
      <4>2. CASE v # st.trailing
        BY <2>4, <2>6, <4>2 DEF StrategyOK, IsOpen
      <4>. QED  BY <4>1, <4>2
    <3>2. Closed(t) <=> Closed(st)
      BY <2>4, <2>6 DEF Closed
    <3>. QED  BY <2>4, <3>1, <3>2 DEF StrategyOK, IsOpen
  <2>. QED  BY <1>1, <1>2, <2>4, <2>5, <2>6 DEF t
<1>3. CASE e.type = "trailing"
  <2>1. e.value = "ON_STOP" /\ e.value \in TrailingStatus
    BY <1>3 DEF Event, TrailingStatus
  <2>2. t = SetTrailing(st, e.value, n, left) /\ (IsNewValue(st, e) <=> st.trailing # e.value)
    BY <1>3 DEF SetValue, IsNewValue
  <2>. HIDE DEF t
  <2>3. /\ t.cache = st.cache
        /\ e.value = st.trailing => t = st
        /\ e.value # st.trailing => ~ t.isTrailing
    BY <2>1, <2>2, SetTrailingEffect
  <2>. QED  BY <1>1, <1>3, <2>2, <2>3 DEF StrategyOK, t
<1>4. CASE e.type = "hal"
  <2>1. t = [st EXCEPT !.hal = e.value] /\ (IsNewValue(st, e) <=> st.hal # e.value)
    BY <1>4 DEF SetValue, IsNewValue
  <2>. QED  BY <1>1, <1>4, <2>1 DEF Strategy, StrategyOK, IsOpen, Closed
<1>5. CASE e.type = "media"
  <2>1. t = [st EXCEPT !.media = e.value] /\ (IsNewValue(st, e) <=> st.media # e.value)
    BY <1>5 DEF SetValue, IsNewValue
  <2>. QED  BY <1>1, <1>5, <2>1 DEF Strategy, StrategyOK, IsOpen, Closed
<1>6. CASE e.type = "thermal"
  <2>1. t = [st EXCEPT !.thermal = e.value] /\ (IsNewValue(st, e) <=> st.thermal # e.value)
    BY <1>6 DEF SetValue, IsNewValue
  <2>. QED  BY <1>1, <1>6, <2>1 DEF Strategy, StrategyOK, IsOpen, Closed
<1>7. CASE e.type = "cache"
  <2>1. t = [st EXCEPT !.cache = e.value] /\ (IsNewValue(st, e) <=> st.cache # e.value)
    BY <1>7 DEF SetValue, IsNewValue
  <2>. QED  BY <1>1, <1>7, <2>1 DEF Strategy, StrategyOK, IsOpen, Closed
<1>8. CASE e.type = "interrupt"
  <2>1. t = st
    BY <1>8 DEF SetValue
  <2>. QED  BY <1>1, <1>8, <2>1 DEF StrategyOK
<1>. QED  BY <1>2, <1>3, <1>4, <1>5, <1>6, <1>7, <1>8 DEF Event

\* Whatever the event, the verdict is not stale after it.
LEMMA HandleEventChangedEffect ==
  ASSUME NEW st \in Strategy, NEW e \in Event, NEW n \in BOOLEAN, NEW left \in BOOLEAN,
         StrategyOK(st)
  PROVE  LET t == HandleEventChanged(st, e, n, left)
         IN  /\ t \in Strategy /\ StrategyOK(t)
             /\ t.cache = IF e.type = "cache" THEN e.value ELSE st.cache
<1>. DEFINE set == SetValue(st, e, n, left)
            now == Reevaluate(set, e.type = "interrupt")
<1>1. /\ set \in Strategy
      /\ set.cache = IF e.type = "cache" THEN e.value ELSE st.cache
      /\ set.isTrailing => set.trailing = TrailingAfterCamera(set.camera)
      /\ ~ IsNewValue(st, e) => StrategyOK(set)
  BY SetValueEffect
<1>2. HandleEventChanged(st, e, n, left) = IF IsNewValue(st, e) THEN now ELSE set
  BY DEF HandleEventChanged
<1>. HIDE DEF set
<1>3. /\ now \in Strategy /\ now.cache = set.cache /\ StrategyOK(now)
  BY <1>1 DEF Reevaluate, Strategy, StrategyOK, IsOpen, Closed
<1>. HIDE DEF now
<1>. QED  BY <1>1, <1>2, <1>3
-----------------------------------------------------------------------------
(***************************************************************************)
(* The repository: which operations put a job into the running set, and     *)
(* which change a priority.                                                 *)
(***************************************************************************)
SamePriorities(r, s) == \A j \in Image : s.job[j].priority = r.job[j].priority

LEMMA ChangeStateToEffect ==
  ASSUME NEW r \in Draft, NEW i \in Image, NEW s \in JobState
  PROVE  LET t == ChangeStateTo(r, i, s)
         IN  /\ t.running \subseteq r.running \cup (IF s = "RUNNING" THEN {i} ELSE {})
             /\ SamePriorities(r, t)
<1>1. CASE r.job[i].state = s
  BY <1>1 DEF ChangeStateTo, SamePriorities
<1>2. CASE r.job[i].state # s
  <2>. DEFINE jobs == [r.job EXCEPT ![i].state = s]
              now == IF s = "RUNNING" THEN r.running \cup {i} ELSE r.running \ {i}
              t == [r EXCEPT !.job = jobs, !.running = now]
  <2>1. jobs \in [Image -> DraftJob] /\ \A j \in Image : jobs[j].priority = r.job[j].priority
    BY DEF Draft, DraftJob, JobState
  <2>2. now \in SUBSET Image
    BY DEF Draft
  <2>3. [r EXCEPT !.job[i].state = s,
                  !.running = IF s = "RUNNING" THEN @ \cup {i} ELSE @ \ {i}] = t
    BY DEF Draft
  <2>4. t \in Draft /\ t.job = jobs /\ t.running = now
    <3>. HIDE DEF jobs, now
    <3>. QED  BY <2>1, <2>2 DEF Draft
  <2>5. ChangeStateTo(r, i, s) = UpdateJob(t, i)
    BY <1>2, <2>3 DEF ChangeStateTo
  <2>. HIDE DEF t
  <2>6. UpdateJob(t, i).job = jobs /\ UpdateJob(t, i).running = now
    BY <2>4, UpdateJobType
  <2>7. now \subseteq r.running \cup (IF s = "RUNNING" THEN {i} ELSE {})
    OBVIOUS
  <2>. HIDE DEF jobs, now
  <2>. QED  BY <2>1, <2>5, <2>6, <2>7 DEF SamePriorities
<1>. QED  BY <1>1, <1>2

LEMMA ResetTimerEffect ==
  ASSUME NEW r, RepoInv(r), NEW i \in Image
  PROVE  LET t == ResetTimer(r, i)
         IN  /\ RepoInv(t) /\ t.running = r.running /\ SamePriorities(r, t)
             /\ Present(r, i) => Present(t, i)
<1>1. \A j \in Image : ResetTimer(r, i).job[j].priority = r.job[j].priority
  BY DEF ResetTimer, RepoInv, Repository, Job, NoJob
<1>. QED  BY <1>1, ResetTimerInv DEF SamePriorities

\* Nothing starts here: neither a state that a job leaves RUNNING for, nor a priority.
LEMMA NothingStarts ==
  ASSUME NEW r, RepoInv(r), NEW i \in Image, Present(r, i)
  PROVE  /\ Prepare(r, i).running \subseteq r.running
         /\ Complete(r, i).running \subseteq r.running /\ SamePriorities(r, Complete(r, i))
         /\ Fail(r, i).running \subseteq r.running
         /\ SetError(r, i).running \subseteq r.running
<1>. DEFINE timer == ResetTimer(r, i)
            normal == SetJobPriority(r, i, "NORMAL")
            reset == ResetTimer(normal, i)
<1>1. r \in Draft
  BY RepositoryIsDraft DEF RepoInv
<1>2. RepoInv(timer) /\ timer.running = r.running /\ SamePriorities(r, timer) /\ timer \in Draft
  BY ResetTimerEffect, RepositoryIsDraft DEF RepoInv
<1>3. RepoInv(normal) /\ normal.running = r.running /\ Present(normal, i)
  BY SetJobPriorityInv DEF JobPriority
<1>. HIDE DEF normal
<1>4. reset.running = r.running /\ reset \in Draft
  BY <1>3, ResetTimerEffect, RepositoryIsDraft DEF RepoInv
<1>. HIDE DEF timer, reset
<1>5. Prepare(r, i).running \subseteq r.running
  BY <1>1, ChangeStateToEffect DEF Prepare, JobState
<1>6. /\ ChangeStateTo(timer, i, "COMPLETED").running \subseteq timer.running
      /\ SamePriorities(timer, ChangeStateTo(timer, i, "COMPLETED"))
  BY <1>2, ChangeStateToEffect DEF JobState
<1>7. /\ ChangeStateTo(reset, i, "FAILED").running \subseteq reset.running
      /\ ChangeStateTo(reset, i, "ERROR").running \subseteq reset.running
  BY <1>4, ChangeStateToEffect DEF JobState
<1>. QED  BY <1>2, <1>4, <1>5, <1>6, <1>7
          DEF Complete, Fail, SetError, SamePriorities, timer, reset, normal

LEMMA StartEffect ==
  ASSUME NEW r, RepoInv(r), NEW i \in Image
  PROVE  Start(r, i).running \subseteq r.running \cup {i}
<1>. DEFINE jobs == [r.job EXCEPT ![i].timer = TRUE]
            t == [r EXCEPT !.job = jobs]
<1>1. r \in Draft
  BY RepositoryIsDraft DEF RepoInv
<1>2. jobs \in [Image -> DraftJob] /\ [r EXCEPT !.job[i].timer = TRUE] = t
  BY <1>1 DEF Draft, DraftJob
<1>. HIDE DEF jobs
<1>3. t \in Draft /\ t.running = r.running
  BY <1>1, <1>2 DEF Draft
<1>. HIDE DEF t
<1>. QED  BY <1>2, <1>3, ChangeStateToEffect DEF Start, JobState

LEMMA AddDeferredJobEffect ==
  ASSUME NEW r, RepoInv(r), NEW i \in Image
  PROVE  AddDeferredJob(r, i).running \subseteq r.running
<1>. DEFINE new == [state |-> "NONE", priority |-> IF i \in Background THEN "HIGH" ELSE "NORMAL",
                    timer |-> FALSE]
            jobs == [r.job EXCEPT ![i] = new]
            t == [r EXCEPT !.job = jobs]
            created == UpdateTime(t, i)
<1>1. r \in Draft
  BY RepositoryIsDraft DEF RepoInv
<1>2. new \in DraftJob /\ [r EXCEPT !.job[i] = new] = t
  BY <1>1 DEF Draft, DraftJob, JobPriority
<1>3. /\ \/ AddDeferredJob(r, i) = r
         \/ AddDeferredJob(r, i) = Prepare(created, i)
         \/ AddDeferredJob(r, i) = Prepare(PushJob(created, i), i)
  BY <1>2 DEF AddDeferredJob
<1>. HIDE DEF new
<1>4. t \in Draft /\ t.running = r.running
  BY <1>1, <1>2 DEF Draft
<1>. HIDE DEF t
<1>5. created \in Draft /\ created.running = r.running
  BY <1>4, UpdateTimeType
<1>. HIDE DEF created
<1>6. PushJob(created, i) \in Draft /\ PushJob(created, i).running = r.running
  BY <1>5, PushJobType
<1>. QED  BY <1>3, <1>5, <1>6, ChangeStateToEffect DEF Prepare, JobState

\* A removal takes the job's priority with the job, and no other.
LEMMA DeleteJobEffect ==
  ASSUME NEW r, RepoInv(r), NEW i \in Image
  PROVE  LET t == DeleteJob(r, i)
         IN  /\ t.running \subseteq r.running
             /\ ~ IsActive(t, i)
             /\ \A j \in Image : j # i => t.job[j] = r.job[j]
<1>. DEFINE taken == IF i \in Background THEN r ELSE RemoveJob(r, i)
            jobs == [taken.job EXCEPT ![i] = NoJob]
            b == Forget(r, i)
<1>1. r \in Draft /\ r.job \in [Image -> Job \cup {NoJob}]
  BY RepositoryIsDraft DEF RepoInv, Repository
<1>2. taken \in Draft /\ taken.job = r.job /\ taken.running = r.running
  BY <1>1, RemoveJobType
<1>. HIDE DEF taken
<1>3. DeleteJob(r, i) = [taken EXCEPT !.job = jobs, !.running = taken.running \ {i}, !.before = b]
  BY <1>2 DEF DeleteJob, taken, Draft
<1>4. jobs[i].state = "NONE" /\ \A j \in Image : j # i => jobs[j] = r.job[j]
  BY <1>1, <1>2 DEF NoJob
<1>. HIDE DEF jobs, b
<1>5. DeleteJob(r, i).job = jobs /\ DeleteJob(r, i).running = taken.running \ {i}
  BY <1>2, <1>3 DEF Draft
<1>. QED  BY <1>2, <1>4, <1>5 DEF IsActive

LEMMA LowerPriorityEffect ==
  ASSUME NEW r, RepoInv(r), NEW i \in Image
  PROVE  LowerPriority(r, i).running = r.running
<1>. DEFINE lowered == SetJobPriority(r, i, "LOW")
<1>1. lowered \in Draft /\ lowered.running = r.running
  BY RepositoryIsDraft, SetJobPriorityType DEF RepoInv, JobPriority
<1>. HIDE DEF lowered
<1>2. UpdateRoot(lowered).running = r.running /\ UpdateJob(lowered, i).running = r.running
  BY <1>1, UpdateRootType, UpdateJobType
<1>. QED  BY <1>2 DEF LowerPriority, lowered
-----------------------------------------------------------------------------
(***************************************************************************)
(* The state m a handler works on: it has put no job into the running set, *)
(* is still under the strategy and holds back the photo it began with, and *)
(* has queued no cache event.                                              *)
(***************************************************************************)
Plain == {c \in Command : c.op = "Event" => c.event.type # "cache"}

Kept(m) ==
  /\ MidInv(m)
  /\ m.repo.running \subseteq repo.running
  /\ m.strategy = strategy
  /\ m.result.bp = result.bp
  /\ m.cmds \in Seq(Plain)

LEMMA PlainCommands ==
  /\ Plain \subseteq Command
  /\ <<>> \in Seq(Plain)
  /\ <<JobChanged>> \in Seq(Plain)
  /\ \A i \in Image, e \in Error : Failed(i, e) \in Plain
<1>1. JobChanged \in Plain
  BY DEF Plain, JobChanged, Command
<1>2. \A i \in Image, e \in Error : Failed(i, e) \in Plain
  BY DEF Plain, Failed, Command
<1>3. Plain \subseteq Command
  BY DEF Plain
<1>. QED  BY <1>1, <1>2, <1>3

LEMMA PlainNotices ==
  ASSUME NEW r, NEW i, NEW s
  PROVE  Notices(r, i, s) \in Seq(Plain)
BY PlainCommands DEF Notices

LEMMA KeptRepo ==
  ASSUME NEW m, Kept(m), NEW r, RepoInv(r), r.running \subseteq m.repo.running
  PROVE  Kept([m EXCEPT !.repo = r]) /\ [m EXCEPT !.repo = r].repo = r
BY NewRepo DEF Kept, MidInv, MidState

LEMMA KeptResult ==
  ASSUME NEW m, Kept(m), NEW x \in Result, x.bp = m.result.bp
  PROVE  Kept([m EXCEPT !.result = x]) /\ [m EXCEPT !.result = x].repo = m.repo
BY NewResult DEF Kept, MidInv, MidState

LEMMA KeptSend ==
  ASSUME NEW m, Kept(m), NEW c \in Seq(Plain)
  PROVE  Kept(Send(m, c)) /\ Send(m, c).repo = m.repo
<1>1. m.cmds \o c \in Seq(Plain)
  BY ConcatProperties DEF Kept
<1>2. Seq(Plain) \subseteq Seq(Command)
  BY PlainCommands
<1>3. MidInv(Send(m, c)) /\ Send(m, c).repo = m.repo
  BY <1>2, SendInv DEF Kept
<1>. QED  BY <1>1, <1>3 DEF Send, Kept, MidInv, MidState

\* What the handlers do to the record of the results.
LEMMA KeptResults ==
  ASSUME NEW m, Kept(m), NEW i \in Image, NEW what \in {"image", "error"}, NEW e
  PROVE  /\ Kept([m EXCEPT !.result.high = @ \ {i}])
         /\ Kept([m EXCEPT !.result.high = @ \cup {i}])
         /\ Kept(TakeResult(m, i))
         /\ Kept(RecordResult(m, i, what))
         /\ Kept([m EXCEPT !.result.timeouts = 0])
         /\ Kept([m EXCEPT !.result.crash[i] = 0])
         /\ Kept(CountError(m, i, e))
<1>. DEFINE res == m.result
            kept == IF res.cache[i] = "none" THEN what ELSE res.cache[i]
            count == CrashCount(m, i, e)
            row == IF e = "TIMEOUT" THEN res.timeouts ELSE 0
            Changed(x) == [m EXCEPT !.result = x]
<1>1. res \in Result /\ kept \in {"none", "image", "error"}
  BY DEF Kept, MidInv, MidState, Result
<1>2. count \in 0 .. 3 /\ row \in 0 .. 2
  BY <1>1 DEF CrashCount, Result
<1>3. /\ [m EXCEPT !.result.high = @ \ {i}] = Changed([res EXCEPT !.high = @ \ {i}])
      /\ [m EXCEPT !.result.high = @ \cup {i}] = Changed([res EXCEPT !.high = @ \cup {i}])
      /\ TakeResult(m, i) = Changed([res EXCEPT !.cache[i] = "none"])
      /\ RecordResult(m, i, what) = Changed([res EXCEPT !.cache[i] = kept])
      /\ [m EXCEPT !.result.timeouts = 0] = Changed([res EXCEPT !.timeouts = 0])
      /\ [m EXCEPT !.result.crash[i] = 0] = Changed([res EXCEPT !.crash[i] = 0])
      /\ CountError(m, i, e) = Changed([res EXCEPT !.crash[i] = count, !.timeouts = row])
  BY DEF Kept, MidInv, MidState, Result, TakeResult, RecordResult, CountError
<1>. HIDE DEF kept, count, row, res
<1>4. /\ [res EXCEPT !.high = @ \ {i}] \in Result /\ [res EXCEPT !.high = @ \ {i}].bp = res.bp
      /\ [res EXCEPT !.high = @ \cup {i}] \in Result /\ [res EXCEPT !.high = @ \cup {i}].bp = res.bp
  BY <1>1 DEF Result
<1>5. \A x \in {"none", "image", "error"} :
        [res EXCEPT !.cache[i] = x] \in Result /\ [res EXCEPT !.cache[i] = x].bp = res.bp
  BY <1>1 DEF Result
<1>6. \A c \in 0 .. 3, t \in 0 .. 2 :
        LET x == [res EXCEPT !.crash[i] = c, !.timeouts = t]
        IN  x \in Result /\ x.bp = res.bp
  BY <1>1 DEF Result
<1>7. /\ [res EXCEPT !.timeouts = 0] \in Result /\ [res EXCEPT !.timeouts = 0].bp = res.bp
      /\ [res EXCEPT !.crash[i] = 0] \in Result /\ [res EXCEPT !.crash[i] = 0].bp = res.bp
  BY <1>1 DEF Result
<1>8. \A x \in Result : x.bp = res.bp => Kept(Changed(x))
  BY KeptResult DEF res
<1>. HIDE DEF Changed
<1>9. Kept(Changed([res EXCEPT !.high = @ \ {i}])) /\ Kept(Changed([res EXCEPT !.high = @ \cup {i}]))
  BY <1>4, <1>8
<1>10. Kept(Changed([res EXCEPT !.cache[i] = "none"])) /\ Kept(Changed([res EXCEPT !.cache[i] = kept]))
  BY <1>1, <1>5, <1>8
<1>11. Kept(Changed([res EXCEPT !.crash[i] = count, !.timeouts = row]))
  BY <1>2, <1>6, <1>8
<1>12. Kept(Changed([res EXCEPT !.timeouts = 0])) /\ Kept(Changed([res EXCEPT !.crash[i] = 0]))
  BY <1>7, <1>8
<1>. QED  BY <1>3, <1>9, <1>10, <1>11, <1>12

LEMMA KeptHdi ==
  ASSUME NEW m, Kept(m), NEW i \in Image
  PROVE  /\ Kept(Interrupt(m)) /\ Interrupt(m).repo = m.repo
         /\ Kept(PostRemove(m, i)) /\ PostRemove(m, i).repo = m.repo
<1>. DEFINE Rest(n) == n.strategy = m.strategy /\ n.result = m.result /\ n.cmds = m.cmds
<1>1. m \in MidState /\ m.hal.session \in {"null", "dead", "live"}
  BY DEF Kept, MidInv, MidState, PostProcessor, SessionState
<1>2. Rest(Interrupt(m))
  BY <1>1 DEF Interrupt, MidState
<1>3. Rest(PostRemove(m, i))
  BY <1>1 DEF PostRemove, MidState
<1>. QED  BY <1>2, <1>3, InterruptInv, PostRemoveInv DEF Kept

LEMMA KeptStopTimer ==
  ASSUME NEW m, Kept(m), NEW i \in Image
  PROVE  LET n == StopTimer(m, i)
         IN  /\ Kept(n) /\ SamePriorities(m.repo, n.repo)
             /\ Present(m.repo, i) => Present(n.repo, i)
<1>1. RepoInv(m.repo)
  BY MidRepo DEF Kept
<1>2. StopTimer(m, i) = [m EXCEPT !.repo = ResetTimer(m.repo, i)]
  BY DEF StopTimer, Kept, MidInv, MidState
<1>3. LET t == ResetTimer(m.repo, i)
      IN  /\ RepoInv(t) /\ t.running = m.repo.running /\ SamePriorities(m.repo, t)
          /\ Present(m.repo, i) => Present(t, i)
  BY <1>1, ResetTimerEffect
<1>. QED  BY <1>2, <1>3, KeptRepo

\* A photo given to the HDI, or failed at once without one.
LEMMA DoProcessEffect ==
  ASSUME NEW m, MidInv(m), m.cmds \in Seq(Plain), NEW i \in Image
  PROVE  LET n == DoProcess(m, i)
         IN  /\ n.strategy = m.strategy /\ n.result.bp = m.result.bp
             /\ n.cmds \in Seq(Plain)
             /\ n.repo.running \subseteq m.repo.running \cup {i}
<1>. DEFINE r == Start(m.repo, i)
            high == m.result.high \ {i}
            n == [m EXCEPT !.repo = r, !.result.high = high]
            p == PostProcess(n, i)
            sent == m.cmds \o <<Failed(i, "NOT_READY")>>
<1>1. r.running \subseteq m.repo.running \cup {i}
  BY MidRepo, StartEffect
<1>2. DoProcess(m, i) = p
  BY DEF DoProcess, MidInv, MidState, Result
<1>. HIDE DEF r, high
<1>3. /\ n.repo = r /\ n.strategy = m.strategy /\ n.result.bp = m.result.bp
      /\ n.cmds = m.cmds /\ n.hal = m.hal
      /\ n \in [repo : {r}, result : {n.result}, hal : PostProcessor, ive : Ive,
                strategy : Strategy, cmds : Seq(Command)]
  BY DEF MidInv, MidState, Result
<1>4. sent \in Seq(Plain)
  <2>1. <<Failed(i, "NOT_READY")>> \in Seq(Plain)
    BY PlainCommands DEF Error
  <2>. QED  BY <2>1, ConcatProperties
<1>5. n.hal.session \in {"null", "dead", "live"}
  BY <1>3 DEF MidInv, MidState, PostProcessor, SessionState
<1>. HIDE DEF n
<1>6. /\ p.repo = n.repo /\ p.strategy = n.strategy /\ p.result = n.result
      /\ p.cmds = n.cmds \/ p.cmds = n.cmds \o <<Failed(i, "NOT_READY")>>
  BY <1>3, <1>5 DEF PostProcess, Send
<1>. HIDE DEF p
<1>. QED  BY <1>1, <1>2, <1>3, <1>4, <1>6
-----------------------------------------------------------------------------
(***************************************************************************)
(* The invariant, and what a step does.                                    *)
(***************************************************************************)
Gates == StrategyOK(strategy) /\ CacheGate /\ cmds \in Seq(Plain)

MayStart(i) ==
  IF repo.job[i].priority = "HIGH" THEN events.camera # "SYSTEM_OPEN" ELSE IsOpen(strategy')

GatedStep == Gates' /\ \A i \in Image : Starts(i) => MayStart(i)

\* A job of high priority is one still when m says that it waits.
Raised(m) ==
  \A j \in Image : IsActive(m.repo, j) /\ repo.job[j].priority = "HIGH"
                     => m.repo.job[j].priority = "HIGH"

LEMMA GatesNext ==
  ASSUME NEW st, strategy' = st, StrategyOK(st), cmds' \in Seq(Plain),
         st.cache = "CACHED" <=> result'.bp # "Null"
  PROVE  Gates'
BY DEF Gates, StrategyOK, IsOpen, Closed, CacheGate

\* By the two parts of RunningJobs, a job that starts was not in runningJob_.
LEMMA StartsIsNew ==
  ASSUME RepoInv(repo), RepoInv(repo'), NEW i \in Image, Starts(i)
  PROVE  i \in repo'.running \ repo.running
BY DEF RepoInv, RunningIsState, Starts

LEMMA KeptStep ==
  ASSUME IInv, Gates, NEW m, Kept(m), Become(m)
  PROVE  GatedStep
<1>1. RepoInv(repo) /\ RepoInv(repo')
  BY BecomeInv DEF IInv, ThreadInv, Kept
<1>2. repo'.running \subseteq repo.running /\ strategy' = strategy /\ result'.bp = result.bp
      /\ cmds' \in Seq(Plain)
  BY DEF Become, Kept
<1>3. Gates'
  BY <1>2, GatesNext DEF Gates, CacheGate
<1>. QED  BY <1>1, <1>2, <1>3, StartsIsNew DEF GatedStep

\* Without an evaluation that says go, the scheduler may only see the jobs as they are.
LEMMA TryDoScheduleGates ==
  ASSUME IInv, NEW m, MidInv(m), TryDoSchedule(m),
         m.repo.running \subseteq repo.running, m.cmds \in Seq(Plain), StrategyOK(m.strategy),
         m.strategy.cache = "CACHED" <=> m.result.bp # "Null",
         Raised(m), m.strategy.isNeedStop => m.repo = repo
  PROVE  GatedStep
<1>1. RepoInv(repo) /\ RepoInv(repo')
  BY TryDoScheduleInv DEF IInv, ThreadInv
<1>2. CASE Become(m)
  <2>1. repo'.running \subseteq repo.running
    BY <1>2 DEF Become
  <2>2. Gates'
    BY <1>2, GatesNext DEF Become
  <2>. QED  BY <1>1, <2>1, <2>2, StartsIsNew DEF GatedStep
<1>3. CASE \E i \in Image : CanProcess(m, i) /\ Become(DoProcess(m, i))
  <2>1. PICK i \in Image : CanProcess(m, i) /\ Become(DoProcess(m, i))
    BY <1>3
  <2>. DEFINE n == DoProcess(m, i)
  <2>2. /\ n.strategy = m.strategy /\ n.result.bp = m.result.bp
        /\ n.cmds \in Seq(Plain)
        /\ n.repo.running \subseteq m.repo.running \cup {i}
    BY DoProcessEffect
  <2>. HIDE DEF n
  <2>3. /\ repo' = n.repo /\ strategy' = n.strategy /\ result' = n.result /\ cmds' = n.cmds
    BY <2>1 DEF Become, n
  <2>4. Gates'
    BY <2>2, <2>3, GatesNext
  <2>5. ASSUME NEW j \in Image, Starts(j)
        PROVE  MayStart(j)
    <3>1. j = i
      BY <1>1, <2>2, <2>3, <2>5, StartsIsNew
    <3>2. IsActive(m.repo, i) /\ MayProcess(m.strategy, m.repo.job[i].priority, events.camera)
      BY <2>1 DEF CanProcess
    <3>3. CASE repo.job[i].priority = "HIGH"
      <4>1. m.repo.job[i].priority = "HIGH"
        BY <3>2, <3>3 DEF Raised
      <4>. QED  BY <3>1, <3>2, <3>3, <4>1 DEF MayProcess, MayStart
    <3>4. CASE repo.job[i].priority # "HIGH"
      <4>1. ~ m.strategy.isNeedStop
        BY <3>2, <3>4 DEF MayProcess
      <4>2. IsOpen(strategy')
        BY <2>2, <2>3, <4>1 DEF StrategyOK
      <4>. QED  BY <3>1, <3>4, <4>2 DEF MayStart
    <3>. QED  BY <3>3, <3>4
  <2>. QED  BY <2>4, <2>5 DEF GatedStep
<1>. QED  BY <1>2, <1>3 DEF TryDoSchedule

LEMMA EventChangedGates ==
  ASSUME IInv, NEW m, MidInv(m), NEW e \in Event, EventChanged(m, e),
         m.repo.running \subseteq repo.running, m.cmds \in Seq(Plain), StrategyOK(m.strategy),
         (IF e.type = "cache" THEN e.value ELSE m.strategy.cache) = "CACHED"
           <=> m.result.bp # "Null",
         Raised(m)
  PROVE  GatedStep
<1>1. PICK left \in BOOLEAN :
        LET st == HandleEventChanged(m.strategy, e, events.needTrailing, left)
            changed == [m EXCEPT !.strategy = st]
        IN  \/ Become(changed)
            \/ Become(Interrupt(changed))
            \/ ~ st.isNeedStop /\ TryDoSchedule(changed)
  BY DEF EventChanged
<1>. DEFINE st == HandleEventChanged(m.strategy, e, events.needTrailing, left)
            changed == [m EXCEPT !.strategy = st]
<1>2. /\ st \in Strategy /\ StrategyOK(st)
      /\ st.cache = IF e.type = "cache" THEN e.value ELSE m.strategy.cache
  BY HandleEventChangedEffect DEF IInv, OthersOK, EventsOK, MidInv, MidState
<1>. HIDE DEF st
<1>3. /\ MidInv(changed) /\ changed.repo = m.repo /\ changed.strategy = st
      /\ changed.result = m.result /\ changed.cmds = m.cmds
  BY <1>2, NewStrategy DEF MidInv, MidState
<1>. HIDE DEF changed
<1>4. /\ MidInv(Interrupt(changed)) /\ Interrupt(changed).repo = m.repo
      /\ Interrupt(changed).strategy = st /\ Interrupt(changed).result = m.result
      /\ Interrupt(changed).cmds = m.cmds
  <2>1. /\ Interrupt(changed).strategy = changed.strategy
        /\ Interrupt(changed).result = changed.result
        /\ Interrupt(changed).cmds = changed.cmds
    BY <1>3 DEF Interrupt, MidInv, MidState
  <2>. QED  BY <1>3, <2>1, InterruptInv
<1>5. ASSUME NEW n, Become(n), MidInv(n), n.repo = m.repo, n.strategy = st,
             n.result = m.result, n.cmds = m.cmds
      PROVE  GatedStep
  <2>1. RepoInv(repo) /\ RepoInv(repo')
    BY <1>5, BecomeInv DEF IInv, ThreadInv
  <2>2. /\ repo'.running \subseteq repo.running /\ strategy' = st /\ result' = m.result
        /\ cmds' \in Seq(Plain)
    BY <1>5 DEF Become
  <2>3. Gates'
    BY <1>2, <2>2, GatesNext
  <2>. QED  BY <2>1, <2>2, <2>3, StartsIsNew DEF GatedStep
<1>6. CASE ~ st.isNeedStop /\ TryDoSchedule(changed)
  <2>1. Raised(changed)
    BY <1>3 DEF Raised
  <2>. QED  BY <1>2, <1>3, <1>6, <2>1, TryDoScheduleGates
<1>. QED  BY <1>1, <1>3, <1>4, <1>5, <1>6 DEF st, changed

\* The photo is released together with the event that says so.
LEMMA DeRecordResultGates ==
  ASSUME IInv, Gates, NEW m, Kept(m), Raised(m), NEW i \in Image, DeRecordResult(m, i)
  PROVE  GatedStep
<1>. DEFINE taken == TakeResult(m, i)
            n == [taken EXCEPT !.result.bp = "Null"]
            e == CacheEvent("NO_CACHE")
<1>1. Kept(taken) /\ taken.repo = m.repo
  BY KeptResults, TakeResultInv DEF Kept
<1>. HIDE DEF taken
<1>2. e \in Event /\ e.type = "cache" /\ e.value = "NO_CACHE"
  BY DEF CacheEvent, Event, CacheStatus
<1>. HIDE DEF e
<1>3. CASE EventChanged(n, e)
  <2>1. /\ MidInv(n) /\ n.repo = m.repo /\ n.strategy = strategy /\ n.cmds = taken.cmds
        /\ n.result.bp = "Null"
    <3>1. MidInv(n) /\ n.repo = m.repo
      BY <1>1, SetBpInv DEF Kept
    <3>. QED  BY <1>1, <3>1 DEF Kept, MidInv, MidState, Result
  <2>2. Raised(n)
    BY <2>1 DEF Raised
  <2>. HIDE DEF n
  <2>3. n.repo.running \subseteq repo.running /\ n.cmds \in Seq(Plain) /\ StrategyOK(n.strategy)
    BY <1>1, <2>1 DEF Kept, Gates
  <2>. QED  BY <1>2, <1>3, <2>1, <2>2, <2>3, EventChangedGates
<1>4. CASE Become(taken)
  BY <1>1, <1>4, KeptStep
<1>. QED  BY <1>3, <1>4 DEF DeRecordResult, taken, n, e

LEMMA KeptNow ==
  ASSUME IInv, Gates, NEW op, Took(op)
  PROVE  /\ Kept(Now) /\ Now.repo = repo /\ RepoInv(repo) /\ Head(cmds) \in Plain
         /\ Raised(Now)
<1>1. MidInv(Now) /\ Now.repo = repo /\ RepoInv(repo)
  BY TookCommand
<1>2. Tail(cmds) \in Seq(Plain) /\ Head(cmds) \in Plain
  BY HeadTailProperties DEF Gates, Took
<1>. QED  BY <1>1, <1>2 DEF Now, Kept, Raised
-----------------------------------------------------------------------------
(***************************************************************************)
(* The handlers.                                                           *)
(***************************************************************************)
LEMMA HandleAddGates ==
  ASSUME IInv, Gates, HandleAdd
  PROVE  GatedStep
<1>. DEFINE i == Head(cmds).image
            m == TakeResult(Now, i)
            n == [m EXCEPT !.repo = AddDeferredJob(m.repo, i)]
<1>1. Kept(Now) /\ Now.repo = repo /\ Raised(Now) /\ i \in Image
  BY KeptNow, TookCommand, CommandImage DEF HandleAdd
<1>2. Kept(m)
  BY <1>1, KeptResults
<1>3. n = [m EXCEPT !.repo = AddDeferredJob(@, i)]
  BY <1>2 DEF Kept, MidInv, MidState
<1>4. CatchResult(Now, i) \/ Become(n)
  BY <1>3 DEF HandleAdd
<1>. HIDE DEF m
<1>5. Kept(n)
  <2>1. RepoInv(m.repo)
    BY <1>2, MidRepo DEF Kept
  <2>. QED  BY <1>1, <1>2, <2>1, AddDeferredJobInv, AddDeferredJobEffect, KeptRepo
<1>. HIDE DEF n, i
<1>. QED  BY <1>1, <1>4, <1>5, DeRecordResultGates, KeptStep DEF CatchResult

LEMMA HandleRemoveRestorableGates ==
  ASSUME IInv, Gates, HandleRemoveRestorable
  PROVE  GatedStep
<1>. DEFINE i == Head(cmds).image
            m == [Now EXCEPT !.result.high = @ \ {i}]
            n == [m EXCEPT !.repo = LowerPriority(m.repo, i)]
<1>1. Kept(Now) /\ Now.repo = repo /\ RepoInv(repo) /\ i \in Image
  BY KeptNow, TookCommand, CommandImage DEF HandleRemoveRestorable
<1>2. Kept(m) /\ m.repo = repo
  BY <1>1, KeptResults, ForgetHighInv DEF Kept
<1>3. n = [m EXCEPT !.repo = LowerPriority(@, i)]
  BY <1>2 DEF Kept, MidInv, MidState
<1>4. (Present(repo, i) /\ Become(n)) \/ Become(m)
  BY <1>3 DEF HandleRemoveRestorable
<1>. HIDE DEF m
<1>5. Present(repo, i) => Kept(n)
  BY <1>1, <1>2, LowerPriorityInv, LowerPriorityEffect, KeptRepo
<1>. HIDE DEF n, i
<1>. QED  BY <1>2, <1>4, <1>5, KeptStep

LEMMA HandleRemoveGates ==
  ASSUME IInv, Gates, HandleRemove
  PROVE  GatedStep
<1>. DEFINE i == Head(cmds).image
            m == [Now EXCEPT !.result.high = @ \ {i}]
            stopped == IF i \in repo.running THEN Interrupt(m) ELSE m
            deleted == [stopped EXCEPT !.repo = DeleteJob(stopped.repo, i)]
            removed == IF Present(repo, i) THEN deleted ELSE stopped
            left == PostRemove(removed, i)
            n == [left EXCEPT !.result.crash[i] = 0]
<1>1. Kept(Now) /\ Now.repo = repo /\ RepoInv(repo) /\ i \in Image
  BY KeptNow, TookCommand, CommandImage DEF HandleRemove
<1>2. Kept(m) /\ m.repo = repo
  BY <1>1, KeptResults, ForgetHighInv DEF Kept
<1>. HIDE DEF m
<1>3. Kept(stopped) /\ stopped.repo = repo
  BY <1>1, <1>2, KeptHdi
<1>. HIDE DEF stopped
<1>4. Kept(deleted) /\ deleted.repo = DeleteJob(repo, i)
  BY <1>1, <1>3, DeleteJobInv, DeleteJobEffect, KeptRepo
<1>5. deleted = [stopped EXCEPT !.repo = DeleteJob(@, i)]
  BY <1>3 DEF Kept, MidInv, MidState
<1>. HIDE DEF deleted
<1>6. Kept(removed) /\ (removed.repo = repo \/ removed.repo = DeleteJob(repo, i))
  BY <1>3, <1>4
<1>. HIDE DEF removed
<1>7. Kept(left) /\ left.repo = removed.repo
  BY <1>1, <1>6, KeptHdi
<1>. HIDE DEF left
<1>8. Kept(n) /\ n.repo = removed.repo
  BY <1>1, <1>7, KeptResults, ResetCrashInv DEF Kept
<1>. HIDE DEF n
<1>9. DeRecordResult(n, i)
  BY <1>5 DEF HandleRemove, n, left, removed, stopped, m
<1>. HIDE DEF i
<1>10. Raised(n)
  BY <1>1, <1>6, <1>8, DeleteJobEffect DEF Raised
<1>. QED  BY <1>1, <1>8, <1>9, <1>10, DeRecordResultGates

LEMMA HandleRestoreGates ==
  ASSUME IInv, Gates, HandleRestore
  PROVE  GatedStep
<1>. DEFINE i == Head(cmds).image
            normal == SetJobPriority(Now.repo, i, "NORMAL")
            r == UpdateJob(normal, i)
            n == [Now EXCEPT !.repo = r]
<1>1. Kept(Now) /\ Now.repo = repo /\ RepoInv(repo) /\ i \in Image
  BY KeptNow, TookCommand, CommandImage DEF HandleRestore
<1>2. n = [Now EXCEPT !.repo = UpdateJob(SetJobPriority(@, i, "NORMAL"), i)]
  BY <1>1 DEF Kept, MidInv, MidState
<1>3. (Present(repo, i) /\ Become(Send(n, <<JobChanged>>))) \/ Become(Now)
  BY <1>2 DEF HandleRestore
<1>4. Present(repo, i) => RepoInv(normal) /\ normal.running = repo.running
  BY <1>1, SetJobPriorityInv DEF JobPriority
<1>. HIDE DEF normal
<1>5. Present(repo, i) => RepoInv(r) /\ r.running = repo.running
  BY <1>4, UpdateJobInv, UpdateJobType, RepositoryIsDraft DEF RepoInv
<1>. HIDE DEF r
<1>6. Present(repo, i) => Kept(n)
  BY <1>1, <1>5, KeptRepo
<1>. HIDE DEF n
<1>7. Present(repo, i) => Kept(Send(n, <<JobChanged>>))
  BY <1>6, KeptSend, PlainCommands
<1>. QED  BY <1>1, <1>3, <1>7, KeptStep

LEMMA HandleCancelGates ==
  ASSUME IInv, Gates, HandleCancel
  PROVE  GatedStep
<1>. DEFINE i == Head(cmds).image
            m == [Now EXCEPT !.result.high = @ \ {i}]
            normal == SetJobPriority(m.repo, i, "NORMAL")
            r == UpdateJob(normal, i)
            n == [m EXCEPT !.repo = r]
<1>1. Kept(Now) /\ Now.repo = repo /\ RepoInv(repo) /\ i \in Image
  BY KeptNow, TookCommand, CommandImage DEF HandleCancel
<1>2. Kept(m) /\ m.repo = repo
  BY <1>1, KeptResults, ForgetHighInv DEF Kept
<1>3. n = [m EXCEPT !.repo = UpdateJob(SetJobPriority(@, i, "NORMAL"), i)]
  BY <1>2 DEF Kept, MidInv, MidState
<1>4. Become(Now) \/ (Present(repo, i) /\ Become(n)) \/ Become(m)
  BY <1>3 DEF HandleCancel
<1>. HIDE DEF m
<1>5. Present(repo, i) => RepoInv(normal) /\ normal.running = repo.running
  BY <1>1, <1>2, SetJobPriorityInv DEF JobPriority
<1>. HIDE DEF normal
<1>6. Present(repo, i) => RepoInv(r) /\ r.running = repo.running
  BY <1>5, UpdateJobInv, UpdateJobType, RepositoryIsDraft DEF RepoInv
<1>. HIDE DEF r
<1>7. Present(repo, i) => Kept(n)
  BY <1>2, <1>6, KeptRepo
<1>. HIDE DEF n
<1>. QED  BY <1>1, <1>2, <1>4, <1>7, KeptStep

LEMMA OnProcessErrorGates ==
  ASSUME IInv, Gates, NEW m, Kept(m), NEW i \in Image, NEW e, OnProcessError(m, i, e)
  PROVE  GatedStep
<1>. DEFINE counted == StopTimer(CountError(m, i, e), i)
            type == ErrorType(m, i, EffectiveError(m, i, e))
            next == CASE type = "RETRY" -> Prepare(counted.repo, i)
                      [] type = "FATAL_NOTIFY" -> SetError(counted.repo, i)
                      [] OTHER -> Fail(counted.repo, i)
            entered == CASE type = "RETRY" -> "PENDING"
                         [] type = "FATAL_NOTIFY" -> "ERROR"
                         [] OTHER -> "FAILED"
            done == [counted EXCEPT !.repo = next]
            notices == Notices(m.repo, i, entered)
<1>1. Kept(counted) /\ (Present(m.repo, i) => Present(counted.repo, i))
  <2>1. Kept(CountError(m, i, e))
    BY KeptResults
  <2>2. CountError(m, i, e).repo = m.repo
    BY CountErrorInv DEF Kept
  <2>. QED  BY <2>1, <2>2, KeptStopTimer
<1>2. \/ Become(RecordResult(counted, i, "error"))
      \/ Present(m.repo, i) /\ Become(Send(done, notices))
  BY DEF OnProcessError
<1>. HIDE DEF counted, type
<1>3. CASE Become(RecordResult(counted, i, "error"))
  BY <1>1, <1>3, KeptResults, KeptStep
<1>4. CASE Present(m.repo, i) /\ Become(Send(done, notices))
  <2>1. RepoInv(counted.repo) /\ Present(counted.repo, i)
    BY <1>1, <1>4, MidRepo DEF Kept
  <2>2. RepoInv(next) /\ next.running \subseteq counted.repo.running
    <3>1. CASE type = "RETRY"
      BY <2>1, <3>1, PrepareInv, NothingStarts
    <3>2. CASE type = "FATAL_NOTIFY"
      BY <2>1, <3>2, FailInv, NothingStarts
    <3>3. CASE type \notin {"RETRY", "FATAL_NOTIFY"}
      BY <2>1, <3>3, FailInv, NothingStarts
    <3>. QED  BY <3>1, <3>2, <3>3
  <2>. HIDE DEF next
  <2>3. Kept(done)
    BY <1>1, <2>2, KeptRepo
  <2>4. notices \in Seq(Plain)
    BY PlainNotices
  <2>. HIDE DEF done, notices
  <2>. QED  BY <1>4, <2>3, <2>4, KeptSend, KeptStep
<1>. QED  BY <1>2, <1>3, <1>4

LEMMA HandleFailedGates ==
  ASSUME IInv, Gates, HandleFailed
  PROVE  GatedStep
<1>1. Kept(Now) /\ Head(cmds).image \in Image
  BY KeptNow, TookCommand, CommandImage DEF HandleFailed
<1>. QED  BY <1>1, OnProcessErrorGates DEF HandleFailed

\* The other handler that sends a cache event at once.
LEMMA HandleSuccessGates ==
  ASSUME IInv, Gates, HandleSuccess
  PROVE  GatedStep
<1>. DEFINE i == Head(cmds).image
            reset == [Now EXCEPT !.result.timeouts = 0]
            m == StopTimer(reset, i)
            finished == [m EXCEPT !.repo = Complete(m.repo, i)]
            notices == Notices(repo, i, "COMPLETED")
            completed == Send(finished, notices)
            held == RecordResult(completed, i, "image")
            gated == [held EXCEPT !.result.bp = i]
            e == CacheEvent("CACHED")
<1>1. Kept(Now) /\ Now.repo = repo /\ i \in Image
  BY KeptNow, TookCommand, CommandImage DEF HandleSuccess
<1>. HIDE DEF i
<1>2. Kept(reset) /\ reset.repo = repo
  BY <1>1, KeptResults, ResetTimeoutsInv DEF Kept
<1>. HIDE DEF reset
<1>3. Kept(m) /\ SamePriorities(repo, m.repo) /\ (Present(repo, i) => Present(m.repo, i))
  BY <1>1, <1>2, KeptStopTimer
<1>. HIDE DEF m
<1>4. finished = [m EXCEPT !.repo = Complete(@, i)]
  BY <1>3 DEF Kept, MidInv, MidState
<1>5. \/ Become(RecordResult(m, i, "image"))
      \/ Present(repo, i) /\ EventChanged(gated, e)
      \/ Present(repo, i) /\ Become(completed)
  <2>. HIDE DEF finished
  <2>. QED  BY <1>4 DEF HandleSuccess, m, reset, i
<1>6. Present(repo, i) => Kept(completed) /\ SamePriorities(repo, completed.repo)
  <2>. SUFFICES ASSUME Present(repo, i)
                PROVE  Kept(completed) /\ SamePriorities(repo, completed.repo)
    OBVIOUS
  <2>1. RepoInv(m.repo)
    BY <1>3, MidRepo DEF Kept
  <2>2. Kept(finished) /\ SamePriorities(m.repo, finished.repo)
    BY <1>1, <1>3, <2>1, CompleteInv, NothingStarts, KeptRepo
  <2>. HIDE DEF finished
  <2>3. Kept(completed) /\ completed.repo = finished.repo
    BY <2>2, PlainNotices, KeptSend
  <2>. QED  BY <1>3, <2>2, <2>3 DEF SamePriorities
<1>. HIDE DEF completed
<1>7. CASE Become(RecordResult(m, i, "image"))
  BY <1>1, <1>3, <1>7, KeptResults, KeptStep
<1>8. CASE Present(repo, i) /\ Become(completed)
  BY <1>6, <1>8, KeptStep
<1>9. CASE Present(repo, i) /\ EventChanged(gated, e)
  <2>1. Kept(held) /\ held.repo = completed.repo
    BY <1>1, <1>6, <1>9, KeptResults, RecordResultInv DEF Kept
  <2>. HIDE DEF held
  <2>2. /\ MidInv(gated) /\ gated.repo = held.repo /\ gated.strategy = strategy
        /\ gated.cmds = held.cmds /\ gated.result.bp = i
    <3>1. MidInv(gated) /\ gated.repo = held.repo
      BY <1>1, <2>1, SetBpInv DEF Kept
    <3>. QED  BY <2>1, <3>1 DEF Kept, MidInv, MidState, Result
  <2>. HIDE DEF gated
  <2>3. Raised(gated)
    BY <1>6, <1>9, <2>1, <2>2 DEF Raised, SamePriorities
  <2>4. e \in Event /\ e.type = "cache" /\ e.value = "CACHED"
    BY DEF CacheEvent, Event, CacheStatus
  <2>. HIDE DEF e
  <2>5. i # "Null"
    BY <1>1, ConstantsAssumption
  <2>6. gated.repo.running \subseteq repo.running /\ gated.cmds \in Seq(Plain)
        /\ StrategyOK(gated.strategy)
    BY <2>1, <2>2 DEF Kept, Gates
  <2>. QED  BY <1>9, <2>2, <2>3, <2>4, <2>5, <2>6, EventChangedGates
<1>. QED  BY <1>5, <1>7, <1>8, <1>9

LEMMA HandleProcessGates ==
  ASSUME IInv, Gates, HandleProcess
  PROVE  GatedStep
<1>. DEFINE i == Head(cmds).image
            high == SetJobPriority(repo, i, "HIGH")
            ready == IF high.job[i].state = "FAILED" THEN Prepare(high, i) ELSE high
            requested == [Now EXCEPT !.repo = UpdateJob(ready, i)]
            m == Send(requested, <<JobChanged>>)
            taken == TakeResult(m, i)
            marked == [taken EXCEPT !.result.high = @ \cup {i}]
<1>1. Kept(Now) /\ Now.repo = repo /\ RepoInv(repo) /\ i \in Image
  BY KeptNow, TookCommand, CommandImage DEF HandleProcess
<1>2. \/ Become(Now)
      \/ OnProcessError(Now, i, "FATAL")
      \/ Present(repo, i) /\ CatchResult(m, i)
      \/ Present(repo, i) /\ Become(marked)
  BY DEF HandleProcess
<1>. HIDE DEF i
<1>3. Present(repo, i) => Kept(m) /\ Raised(m)
  <2>. SUFFICES ASSUME Present(repo, i)
                PROVE  Kept(m) /\ Raised(m)
    OBVIOUS
  <2>0. repo \in Draft /\ repo.job \in [Image -> Job \cup {NoJob}]
    BY <1>1, RepositoryIsDraft DEF RepoInv, Repository
  <2>1. RepoInv(high) /\ Present(high, i) /\ high.running = repo.running
    BY <1>1, SetJobPriorityInv DEF JobPriority
  <2>2. \A j \in Image : repo.job[j].priority = "HIGH" => high.job[j].priority = "HIGH"
    <3>1. high.job = [repo.job EXCEPT ![i].priority = "HIGH"]
      BY <1>1, <2>0, SetJobPriorityType DEF JobPriority
    <3>2. \A j \in Image : j # i => [repo.job EXCEPT ![i].priority = "HIGH"][j] = repo.job[j]
      BY <2>0
    <3>3. [repo.job EXCEPT ![i].priority = "HIGH"][i].priority = "HIGH"
      BY <1>1, <2>0 DEF Job, NoJob
    <3>. QED  BY <3>1, <3>2, <3>3
  <2>. HIDE DEF high
  <2>3. RepoInv(ready) /\ ready.running \subseteq repo.running /\ SamePriorities(high, ready)
    <3>1. SamePriorities(high, Prepare(high, i))
      BY <1>1, <2>1, ChangeStateToEffect, RepositoryIsDraft DEF RepoInv, Prepare, JobState
    <3>. QED  BY <1>1, <2>1, <3>1, PrepareInv, NothingStarts DEF SamePriorities
  <2>. HIDE DEF ready
  <2>4. /\ RepoInv(UpdateJob(ready, i)) /\ UpdateJob(ready, i).job = ready.job
        /\ UpdateJob(ready, i).running = ready.running
    BY <2>3, UpdateJobInv, UpdateJobType, RepositoryIsDraft DEF RepoInv
  <2>5. Kept(requested) /\ requested.repo = UpdateJob(ready, i)
    BY <1>1, <2>3, <2>4, KeptRepo
  <2>. HIDE DEF requested
  <2>6. Kept(m) /\ m.repo = requested.repo
    BY <2>5, PlainCommands, KeptSend
  <2>. QED  BY <2>2, <2>3, <2>4, <2>5, <2>6 DEF Raised, SamePriorities
<1>. HIDE DEF m
<1>4. Present(repo, i) => Kept(marked)
  <2>1. Present(repo, i) => Kept(taken)
    BY <1>1, <1>3, KeptResults
  <2>. HIDE DEF taken
  <2>. QED  BY <1>1, <2>1, KeptResults
<1>. HIDE DEF marked
<1>5. CASE Present(repo, i) /\ CatchResult(m, i)
  BY <1>1, <1>3, <1>5, DeRecordResultGates DEF CatchResult
<1>6. CASE OnProcessError(Now, i, "FATAL")
  BY <1>1, <1>6, OnProcessErrorGates
<1>. QED  BY <1>1, <1>2, <1>4, <1>5, <1>6, KeptStep

LEMMA HandleProcessCacheGates ==
  ASSUME IInv, Gates, HandleProcessCache
  PROVE  GatedStep
<1>. DEFINE i == result.bp
<1>1. Kept(Now) /\ Raised(Now)
  BY KeptNow DEF HandleProcessCache
<1>2. CASE i = "Null"
  BY <1>1, <1>2, KeptStep DEF HandleProcessCache
<1>3. CASE i # "Null"
  <2>1. i \in Image
    BY <1>3 DEF IInv, ThreadInv, Result
  <2>2. DeRecordResult(Now, i) \/ Become(TakeResult(Now, i))
    BY <1>3 DEF HandleProcessCache, CatchResult
  <2>3. Kept(TakeResult(Now, i))
    BY <1>1, <2>1, KeptResults
  <2>. QED  BY <1>1, <2>1, <2>2, <2>3, DeRecordResultGates, KeptStep
<1>. QED  BY <1>2, <1>3

LEMMA HandleJobChangedGates ==
  ASSUME IInv, Gates, HandleJobChanged
  PROVE  GatedStep
<1>1. Kept(Now) /\ Now.repo = repo /\ Raised(Now)
  BY KeptNow DEF HandleJobChanged
<1>2. /\ MidInv(Now) /\ Now.repo.running \subseteq repo.running /\ Now.cmds \in Seq(Plain)
      /\ StrategyOK(Now.strategy) /\ (Now.strategy.cache = "CACHED" <=> Now.result.bp # "Null")
  BY <1>1 DEF Kept, Gates, CacheGate
<1>. QED  BY <1>1, <1>2, TryDoScheduleGates DEF HandleJobChanged

\* An event that is not of the cache, while the state is as it was.
LEMMA PlainEventGates ==
  ASSUME IInv, Gates, Kept(Now), Raised(Now), NEW e \in Event, e.type # "cache",
         EventChanged(Now, e)
  PROVE  GatedStep
<1>1. /\ MidInv(Now) /\ Now.repo.running \subseteq repo.running /\ Now.cmds \in Seq(Plain)
      /\ StrategyOK(Now.strategy) /\ (Now.strategy.cache = "CACHED" <=> Now.result.bp # "Null")
  BY DEF Kept, Gates, CacheGate
<1>. QED  BY <1>1, EventChangedGates

LEMMA HandleEventGates ==
  ASSUME IInv, Gates, HandleEvent \/ HandleAddSession \/ HandleDeleteSession
  PROVE  GatedStep
<1>1. ASSUME NEW v \in MediaLibraryStatus
      PROVE  MediaEvent(v) \in Event /\ MediaEvent(v).type # "cache"
  BY DEF MediaEvent, Event
<1>2. CASE HandleEvent
  <2>1. Kept(Now) /\ Raised(Now) /\ Head(cmds) \in Plain /\ Head(cmds).op = "Event"
    BY <1>2, KeptNow, TookCommand DEF HandleEvent
  <2>2. Head(cmds).event \in Event /\ Head(cmds).event.type # "cache"
    BY <2>1, CommandImage DEF Plain
  <2>3. EventChanged(Now, Head(cmds).event)
    BY <1>2 DEF HandleEvent
  <2>. QED  BY <2>1, <2>2, <2>3, PlainEventGates
<1>3. CASE HandleAddSession
  <2>1. Kept(Now) /\ Raised(Now)
    BY <1>3, KeptNow DEF HandleAddSession
  <2>. QED  BY <1>1, <1>3, <2>1, PlainEventGates DEF HandleAddSession, MediaLibraryStatus
<1>4. CASE HandleDeleteSession
  <2>1. Kept(Now) /\ Raised(Now)
    BY <1>4, KeptNow DEF HandleDeleteSession
  <2>. QED  BY <1>1, <1>4, <2>1, PlainEventGates DEF HandleDeleteSession, MediaLibraryStatus
<1>. QED  BY <1>2, <1>3, <1>4

LEMMA HandlePhotoDiedGates ==
  ASSUME IInv, Gates, HandlePhotoDied
  PROVE  GatedStep
<1>1. Kept(Now) /\ hal.runningId \in SUBSET Image
  BY KeptNow DEF HandlePhotoDied, IInv, ThreadInv, PostProcessor
<1>2. PICK ids \in SX!SetToSeqs(hal.runningId) :
        Become(Send([Now EXCEPT !.hal.session = "null"],
                    [n \in 1 .. Len(ids) |-> Failed(ids[n], "NOT_READY")]
                      \o <<EventCommand("hal", "DISCONNECTED")>>))
  BY DEF HandlePhotoDied
<1>. DEFINE dead == [Now EXCEPT !.hal.session = "null"]
            failures == [n \in 1 .. Len(ids) |-> Failed(ids[n], "NOT_READY")]
            sent == failures \o <<EventCommand("hal", "DISCONNECTED")>>
<1>3. ids \in Seq(Image)
  <2>1. Cardinality(hal.runningId) \in Nat
    BY <1>1, ConstantsAssumption, FS_Subset, FS_CardinalityType
  <2>2. ids \in [1 .. Cardinality(hal.runningId) -> hal.runningId]
    <3>1. SX!Cardinality(hal.runningId) = Cardinality(hal.runningId)
      BY Zenon DEF SX!Cardinality, Cardinality
    <3>. QED  BY <1>2, <3>1 DEF SX!SetToSeqs
  <2>. QED  BY <1>1, <2>1, <2>2
<1>4. failures \in Seq(Plain)
  <2>1. \A n \in 1 .. Len(ids) : Failed(ids[n], "NOT_READY") \in Plain
    BY <1>3, PlainCommands DEF Error
  <2>2. Len(ids) \in Nat /\ failures \in [1 .. Len(ids) -> Plain]
    BY <1>3, <2>1
  <2>. HIDE DEF failures
  <2>. QED  BY <2>2
<1>5. <<EventCommand("hal", "DISCONNECTED")>> \in Seq(Plain)
  <2>1. EventCommand("hal", "DISCONNECTED") \in Command
    BY HalEventType DEF HdiStatus
  <2>2. EventCommand("hal", "DISCONNECTED") \in Plain
    BY <2>1 DEF EventCommand, Plain
  <2>. QED  BY <2>2
<1>6. sent \in Seq(Plain)
  BY <1>4, <1>5, ConcatProperties
<1>7. Kept(dead)
  <2>1. [Now.hal EXCEPT !.session = "null"] \in PostProcessor
    BY <1>1 DEF Kept, MidInv, MidState, PostProcessor, SessionState
  <2>2. dead = [Now EXCEPT !.hal = [Now.hal EXCEPT !.session = "null"]]
    BY <1>1 DEF Kept, MidInv, MidState
  <2>3. MidInv(dead) /\ dead.repo = Now.repo
    BY <1>1, <2>1, <2>2, NewPostProcessor DEF Kept
  <2>. QED  BY <1>1, <2>3 DEF Kept, MidInv, MidState
<1>. HIDE DEF dead, sent
<1>8. Become(Send(dead, sent))
  BY <1>2 DEF dead, sent
<1>. QED  BY <1>6, <1>7, <1>8, KeptSend, KeptStep

LEMMA CommandThreadGates ==
  ASSUME IInv, Gates, CommandThread
  PROVE  GatedStep
BY HandleAddGates, HandleRemoveGates, HandleRemoveRestorableGates, HandleRestoreGates,
   HandleCancelGates, HandleProcessGates, HandleProcessCacheGates, HandleSuccessGates,
   HandleFailedGates, HandleJobChangedGates, HandleEventGates, HandlePhotoDiedGates
   DEF CommandThread
-----------------------------------------------------------------------------
(***************************************************************************)
(* The other threads only queue commands, and none of them a cache event;  *)
(* no job starts, and the values of the strategy stay.                     *)
(***************************************************************************)
LEMMA OtherThreads ==
  ASSUME IInv, Gates, RepoInv(repo'), repo'.running = repo.running,
         strategy' = strategy \/ strategy' = [strategy EXCEPT !.trailingTimer = FALSE],
         result'.bp = result.bp,
         \/ UNCHANGED cmds
         \/ \E c \in Plain : Queue(c) \/ QueueUrgent(c)
  PROVE  GatedStep
<1>1. cmds' \in Seq(Plain)
  <2>1. ASSUME NEW c \in Plain
        PROVE  Append(cmds, c) \in Seq(Plain) /\ <<c>> \o cmds \in Seq(Plain)
    <3>1. cmds \in Seq(Plain) /\ <<c>> \in Seq(Plain)
      BY DEF Gates
    <3>2. <<c>> \o cmds \in Seq(Plain)
      BY <3>1, ConcatProperties
    <3>. QED  BY <3>1, <3>2
  <2>. QED  BY <2>1 DEF Gates, Queue, QueueUrgent
<1>2. StrategyOK(strategy') /\ strategy'.cache = strategy.cache
  BY DEF Gates, StrategyOK, IsOpen, Closed, IInv, ThreadInv, Strategy
<1>3. Gates'
  BY <1>1, <1>2, GatesNext DEF Gates, CacheGate
<1>4. RepoInv(repo)
  BY DEF IInv, ThreadInv
<1>. QED  BY <1>3, <1>4, StartsIsNew DEF GatedStep

LEMMA UnchangedThread ==
  ASSUME IInv, Gates, UNCHANGED threadState,
         \/ UNCHANGED cmds
         \/ \E c \in Plain : Queue(c) \/ QueueUrgent(c)
  PROVE  GatedStep
<1>1. RepoInv(repo') /\ repo' = repo /\ strategy' = strategy /\ result' = result
  BY DEF IInv, ThreadInv, threadState, RepoInv, RunningIsState
<1>. QED  BY <1>1, OtherThreads

LEMMA ClientThreadsGates ==
  ASSUME IInv, Gates, ClientThreads
  PROVE  GatedStep
<1>1. ASSUME NEW i \in Image,
             \/ ClientAdds(i) \/ ClientRemoves(i) \/ ClientRestores(i)
             \/ ClientRequests(i) \/ ClientCancels(i)
      PROVE  UNCHANGED threadState /\ \E c \in Plain : Queue(c) \/ QueueUrgent(c)
  <2>1. CASE ClientAdds(i)
    BY <2>1 DEF ClientAdds, Plain, Command
  <2>2. CASE ClientRemoves(i)
    BY <2>2 DEF ClientRemoves, Plain, Command
  <2>3. CASE ClientRestores(i)
    BY <2>3 DEF ClientRestores, Plain, Command
  <2>4. CASE ClientRequests(i)
    BY <2>4 DEF ClientRequests, Plain, Command
  <2>5. CASE ClientCancels(i)
    BY <2>5 DEF ClientCancels, Plain, Command
  <2>. QED  BY <1>1, <2>1, <2>2, <2>3, <2>4, <2>5
<1>2. LibraryIdle => UNCHANGED threadState /\ \E c \in Plain : Queue(c) \/ QueueUrgent(c)
  BY DEF LibraryIdle, Plain, Command
<1>3. ClientDies => UNCHANGED threadState /\ \E c \in Plain : Queue(c) \/ QueueUrgent(c)
  BY DEF ClientDies, Plain, Command
<1>4. ClientConnects => UNCHANGED threadState /\ \E c \in Plain : Queue(c) \/ QueueUrgent(c)
  BY DEF ClientConnects, Plain, Command
<1>. QED  BY <1>1, <1>2, <1>3, <1>4, UnchangedThread DEF ClientThreads

LEMMA PlainEvents ==
  ASSUME NEW type, NEW value, [type |-> type, value |-> value] \in Event, type # "cache"
  PROVE  EventCommand(type, value) \in Plain
<1>1. EventCommand(type, value) \in Command
  BY CommandTypes DEF EventCommand
<1>. QED  BY <1>1 DEF EventCommand, Plain

LEMMA HdiThreadsGates ==
  ASSUME IInv, Gates, workload \in Workload, HdiThreads
  PROVE  GatedStep
<1>0. ASSUME NEW v \in HdiStatus
      PROVE  EventCommand("hal", v) \in Plain
  BY PlainEvents DEF Event
<1>. DEFINE Thread == /\ UNCHANGED threadState
                      /\ \/ UNCHANGED cmds
                         \/ \E c \in Plain : Queue(c) \/ QueueUrgent(c)
<1>1. ASSUME NEW i \in Image, IveDone(i) \/ IveFails(i) \/ IveBackgroundDone(i)
      PROVE  Thread
  <2>1. [op |-> "Success", image |-> i] \in Plain
    BY DEF Plain, Command
  <2>2. CASE IveDone(i) \/ IveBackgroundDone(i)
    BY <2>1, <2>2 DEF IveDone, IveBackgroundDone
  <2>3. CASE IveFails(i)
    <3>1. \E e \in Error : Queue(Failed(i, e))
      BY <2>3, ConstantsAssumption DEF IveFails, IveError, Error
    <3>. QED  BY <2>3, <3>1, PlainCommands DEF IveFails
  <2>. QED  BY <1>1, <2>2, <2>3
<1>2. IveStatus => Thread
  <2>1. IveStatus => \E v \in HdiStatus : Queue(EventCommand("hal", v))
    BY ConstantsAssumption DEF IveStatus
  <2>. QED  BY <1>0, <2>1 DEF IveStatus
<1>3. IveDies => Thread
  BY DEF IveDies, Plain, Command
<1>4. IveRestarts \/ ServiceStarted => Thread
  BY DEF IveRestarts, ServiceStarted
<1>5. SessionInstalled => Thread
  BY <1>0 DEF SessionInstalled, HdiStatus
<1>. HIDE DEF Thread
<1>6. Thread
  BY <1>1, <1>2, <1>3, <1>4, <1>5 DEF HdiThreads
<1>. QED  BY <1>6, UnchangedThread DEF Thread

LEMMA TimerThreadGates ==
  ASSUME IInv, Gates, TimerThread
  PROVE  GatedStep
<1>1. ASSUME NEW i \in Image, TimerExpires(i) \/ OrphanExpires(i)
      PROVE  GatedStep
  <2>1. Failed(i, "TIMEOUT") \in Plain
    BY PlainCommands DEF Error
  <2>2. Timeout(i) /\ (repo' = repo \/ repo' = ResetTimer(repo, i))
    BY <1>1 DEF TimerExpires, OrphanExpires
  <2>3. RepoInv(repo') /\ repo'.running = repo.running
    BY <2>2, ResetTimerEffect DEF IInv, ThreadInv, RepoInv, RunningIsState
  <2>4. strategy' = strategy /\ result'.bp = result.bp
    BY <2>2 DEF Timeout, IInv, ThreadInv, Result
  <2>5. Queue(Failed(i, "TIMEOUT"))
    BY <2>2 DEF Timeout
  <2>. QED  BY <2>1, <2>3, <2>4, <2>5, OtherThreads
<1>2. CASE TrailingExpires
  <2>1. EventCommand("trailing", "ON_STOP") \in Plain
    BY PlainEvents DEF Event
  <2>2. RepoInv(repo') /\ repo' = repo /\ result' = result
    BY <1>2 DEF TrailingExpires, IInv, ThreadInv, RepoInv, RunningIsState
  <2>. QED  BY <1>2, <2>1, <2>2, OtherThreads DEF TrailingExpires
<1>. QED  BY <1>1, <1>2 DEF TimerThread

LEMMA SystemEventsGates ==
  ASSUME IInv, Gates, SystemEvents
  PROVE  GatedStep
<1>. DEFINE Thread == /\ UNCHANGED threadState
                      /\ \/ UNCHANGED cmds
                         \/ \E c \in Plain : Queue(c) \/ QueueUrgent(c)
<1>1. /\ \A v \in CameraStatus : EventCommand("camera", v) \in Plain
      /\ \A v \in ThermalLevel : EventCommand("thermal", v) \in Plain
      /\ EventCommand("interrupt", "IS_INTERRUPT") \in Plain
  BY PlainEvents DEF Event
<1>2. CameraChanges => Thread
  BY <1>1 DEF CameraChanges
<1>3. ThermalChanges => Thread
  BY <1>1 DEF ThermalChanges
<1>4. DeviceOpens \/ LowQualityImage => Thread
  BY <1>1 DEF DeviceOpens, LowQualityImage
<1>. HIDE DEF Thread
<1>5. Thread
  BY <1>2, <1>3, <1>4 DEF SystemEvents
<1>. QED  BY <1>5, UnchangedThread DEF Thread
-----------------------------------------------------------------------------
LEMMA InitGates ==
  ASSUME Init
  PROVE  Gates
<1>1. StrategyOK(strategy)
  BY DEF Init, InitialStrategy, StrategyOK, IsOpen, Closed
<1>2. CacheGate
  BY DEF Init, InitialStrategy, CacheGate
<1>3. cmds \in Seq(Plain)
  BY PlainCommands DEF Init
<1>. QED  BY <1>1, <1>2, <1>3 DEF Gates

LEMMA GatesInductive ==
  ASSUME IInv, WorkloadOK, Gates, [Next]_vars
  PROVE  GatedStep
<1>1. CASE Next
  BY <1>1, CommandThreadGates, ClientThreadsGates, HdiThreadsGates, TimerThreadGates,
     SystemEventsGates DEF Next, WorkloadOK
<1>2. CASE UNCHANGED vars
  BY <1>2, UnchangedThread DEF vars, pipeline, threadState
<1>. QED  BY <1>1, <1>2

(***************************************************************************)
(* For any photos: the work on ordinary photos is stopped for a photo that *)
(* the library has not fetched exactly while cachePhotoId_ names one, in   *)
(* whatever order answers, requests, removals and events come; a stop that *)
(* outlived its photo would never end, as no other event clears it.        *)
(***************************************************************************)
THEOREM CacheGateHolds == Spec => []CacheGate
<1>1. IInv /\ WorkloadOK /\ Gates /\ [Next]_vars => IInv' /\ WorkloadOK' /\ Gates'
  BY IInvInductive, GatesInductive DEF GatedStep
<1>2. Init => IInv /\ WorkloadOK /\ Gates
  BY InitInv, InitGates
<1>3. Gates => CacheGate
  BY DEF Gates
<1>. QED  BY <1>1, <1>2, <1>3, PTL DEF Spec

(***************************************************************************)
(* For any photos: no job starts that the conditions of that very moment   *)
(* forbid, although the scheduler asks the cached verdict isNeedStop_ and  *)
(* several state objects change without an evaluation.                     *)
(***************************************************************************)
THEOREM GatesRespected == Spec => GateRespected
<1>. DEFINE Allowed ==
       \A i \in Image : Starts(i) =>
         IF repo.job[i].priority = "HIGH"
         THEN events.camera # "SYSTEM_OPEN"
         ELSE ~ Closed(strategy') /\ (strategy'.isTrailing \/ strategy'.thermal = "NOMINAL")
<1>1. IInv /\ WorkloadOK /\ Gates /\ [Next]_vars => IInv' /\ WorkloadOK' /\ Gates' /\ Allowed
  <2>1. GatedStep => Gates' /\ Allowed
    BY DEF GatedStep, MayStart, IsOpen
  <2>. HIDE DEF Allowed
  <2>. QED  BY <2>1, IInvInductive, GatesInductive
<1>2. Init => IInv /\ WorkloadOK /\ Gates
  BY InitInv, InitGates
<1>3. Spec => [][Allowed]_vars
  <2>. HIDE DEF Allowed
  <2>. QED  BY <1>1, <1>2, PTL DEF Spec
<1>. QED  BY <1>3 DEF GateRespected
=============================================================================
