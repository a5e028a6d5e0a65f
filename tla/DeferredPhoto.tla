--------------------------- MODULE DeferredPhoto ---------------------------
(***************************************************************************)
(* The photo pipeline of the deferred processing service, for one user.    *)
(*                                                                         *)
(* A client (the media library) adds photos; the service hands them, one at*)
(* a time, to the image processing HDI and returns the results.  Every     *)
(* request, HDI callback, timeout and system event becomes a command on one*)
(* queue served by one thread (CommandServerImpl, MAX_THREAD_NUM = 1), so a*)
(* handler is atomic; what interleaves is the order in which commands are  *)
(* queued, two of them (an urgent command) at the front of the queue.      *)
(* State read or written outside that thread has actions of its own:       *)
(* EventsInfo, CameraTimer, the session's callback and OnServiceChange.    *)
(*                                                                         *)
(*   workload  what the environment does in this behaviour: the photos the *)
(*             client knows, the errors and session states the HDI reports,*)
(*             the features, and the length of the queue (maxCmds) from    *)
(*             which the environment sends no more                         *)
(*   repo      PhotoJobRepository: the jobs, which was created before which*)
(*             (createTime_), the offline queue's heap, runningJob_        *)
(*   result    DeferredPhotoResult: highImages_, crash counts, cacheMap_,  *)
(*             cachePhotoId_ (bp) and the count of timeouts in a row       *)
(*   hal       PhotoPostProcessor: photoSession_, runningId_,              *)
(*             removeNeededList_, and the session OnServiceChange has      *)
(*             prepared and not yet installed (next)                       *)
(*   ive       the HDI service (external): alive, photos it works on, told *)
(*             to interrupt, a start notification not yet delivered        *)
(*   strategy  PhotoStrategyCenter with its state objects                  *)
(*   events    EventsInfo: camera state, media library busy, NeedTrailing  *)
(*   client    the media library process, the PhotoSessionInfo that        *)
(*             SessionManager maps the user to, the infos whose callback_  *)
(*             is not null                                                 *)
(*   orphans   photos of removed jobs whose timer is still registered      *)
(*   cmds      the queue of the command server                             *)
(*   schedule  the controller's scheduleState_, as last told to the client *)
(*   answer    what the client was told about a photo since it added it    *)
(***************************************************************************)
EXTENDS Naturals, Sequences, FiniteSets, PhotoJobQueue, PhotoStrategyCenter

CONSTANTS
  Image,        \* the photos
  Background,   \* the photos of type BACKGROUND, which the HDI schedules itself
  Info,         \* identities for PhotoSessionInfo objects
  Workload      \* what the environment may do, one choice for a whole behaviour

Feature == {"start", "readd", "remove", "restore", "request", "cancel", "timeout", "death",
            "client", "library", "camera", "thermal", "interrupt", "trailing", "background"}

Error == {"FATAL", "TIMEOUT", "INTERRUPTED", "HIGH_TEMPERATURE", "ABNORMAL", "NOT_READY"}

\* The errors the HDI may report of its own accord.
IveError == Error \ {"INTERRUPTED", "NOT_READY"}

ASSUME ConstantsAssumption ==
  /\ IsFiniteSet(Image)
  /\ Background \subseteq Image
  /\ "Null" \notin Image /\ "none" \notin Info
  /\ Workload \subseteq [images : SUBSET Image, iveErrors : SUBSET IveError,
                         hdiReports : SUBSET HdiStatus, features : SUBSET Feature, maxCmds : Nat]

VARIABLES workload, repo, result, hal, ive, strategy, events, client, orphans, cmds, schedule, answer

pipeline == <<repo, result, hal, ive, strategy, events, client, orphans, cmds, schedule, answer>>

vars == <<workload, pipeline>>
-----------------------------------------------------------------------------
JobState == {"PENDING", "FAILED", "RUNNING", "COMPLETED", "ERROR"}
JobPriority == {"LOW", "NORMAL", "HIGH"}

NoJob == [state |-> "NONE", priority |-> "NONE", timer |-> FALSE]

Job == [state : JobState, priority : JobPriority, timer : BOOLEAN]

Command ==
  [op : {"Add", "Restore", "Process", "Cancel", "Success"}, image : Image]
    \cup [op : {"Remove"}, image : Image, restorable : BOOLEAN]
    \cup [op : {"Failed"}, image : Image, error : Error]
    \cup [op : {"ProcessCache", "JobChanged", "PhotoDied", "DeleteSession"}]
    \cup [op : {"AddSession"}, info : Info]
    \cup [op : {"Event"}, event : Event]

Failed(i, e) == [op |-> "Failed", image |-> i, error |-> e]
JobChanged == [op |-> "JobChanged"]
EventCommand(type, value) == [op |-> "Event", event |-> [type |-> type, value |-> value]]

Repository ==
  [job : [Image -> Job \cup {NoJob}], before : SUBSET (Image \X Image),
   heap : Seq(Image), running : SUBSET Image]

Result ==
  [high : SUBSET Image, crash : [Image -> 0 .. 3],
   cache : [Image -> {"none", "image", "error"}],
   bp : Image \cup {"Null"}, timeouts : 0 .. 2]

SessionState == {"null", "live", "dead"}

PostProcessor ==
  [session : SessionState, next : SessionState,
   runningId : SUBSET Image, removeNeeded : SUBSET Image]

Ive == [alive : BOOLEAN, work : SUBSET Image, aborted : BOOLEAN, started : BOOLEAN]

ScheduleStatus == {"IDLE", "RUNNING", "RUNNABLE", "SUSPENDED", "PREEMPTED"}

TypeOK ==
  /\ workload \in Workload
  /\ repo \in Repository
  /\ result \in Result
  /\ hal \in PostProcessor
  /\ ive \in Ive
  /\ strategy \in Strategy
  /\ events \in [camera : CameraStatus, mediaBusy : BOOLEAN, needTrailing : BOOLEAN]
  /\ client \in [alive : BOOLEAN, mapped : Info \cup {"none"}, callback : SUBSET Info]
  /\ orphans \subseteq Image
  /\ cmds \in Seq(Command)
  /\ schedule \in ScheduleStatus
  /\ answer \in [Image -> {"none", "done", "error"}]

(***************************************************************************)
(* The state the program is in once the first client has created a session *)
(* (CreatePhotoProcessor has registered the strategy's state objects and   *)
(* the media library event was handled): before the HDI's service manager  *)
(* has told of the image processing service, or, unless "start" is among   *)
(* the features, once its session is installed and its event handled.  The *)
(* device is cool and the system camera closed.                            *)
(***************************************************************************)
Init ==
  \E first \in Info :
    LET connected == "start" \notin workload.features IN
    /\ workload \in Workload
    /\ repo = [job |-> [i \in Image |-> NoJob], before |-> {}, heap |-> <<>>, running |-> {}]
    /\ result = [high |-> {}, crash |-> [i \in Image |-> 0],
                 cache |-> [i \in Image |-> "none"], bp |-> "Null", timeouts |-> 0]
    /\ hal = [session |-> IF connected THEN "live" ELSE "null", next |-> "null",
              runningId |-> {}, removeNeeded |-> {}]
    /\ ive = [alive |-> TRUE, work |-> {}, aborted |-> FALSE, started |-> ~ connected]
    /\ strategy = [InitialStrategy EXCEPT !.media = "AVAILABLE",
                                          !.hal = IF connected THEN "READY" ELSE @,
                                          !.isNeedStop = ~ connected]
    /\ events = [camera |-> "SYSTEM_CLOSED", mediaBusy |-> FALSE, needTrailing |-> FALSE]
    /\ client = [alive |-> TRUE, mapped |-> first, callback |-> {first}]
    /\ orphans = {}
    /\ cmds = <<>>
    /\ schedule = "IDLE"
    /\ answer = [i \in Image |-> "none"]
-----------------------------------------------------------------------------
(***************************************************************************)
(* The repository r: jobs, their order in the offline queue, running jobs. *)
(***************************************************************************)
Present(r, i) == r.job[i].state # "NONE"
IsActive(r, i) == r.job[i].state \in {"PENDING", "FAILED"}
IsHighJob(r, i) == r.job[i].priority = "HIGH"

StateRank(s) == CASE s = "PENDING" -> 0 [] s = "FAILED" -> 1 [] s = "RUNNING" -> 2
                  [] s = "COMPLETED" -> 3 [] s = "ERROR" -> 4 [] OTHER -> 5
PriorityRank(p) == CASE p = "LOW" -> 0 [] p = "NORMAL" -> 1 [] p = "HIGH" -> 2 [] OTHER -> 3

\* Mutant of IsBetter: the priority is not compared.
IsBetter_NoPriority(r, a, b) ==
  LET x == r.job[a]
      y == r.job[b]
  IN  IF x.state # y.state THEN StateRank(x.state) < StateRank(y.state)
      ELSE IF x.priority = "HIGH" THEN <<b, a>> \in r.before
      ELSE <<a, b>> \in r.before

\* operator>: work that waits before work that does not, then the priority,
\* then the state, then the age: newest first among high priority jobs.
IsBetter(r, a, b) ==
  LET x == r.job[a]
      y == r.job[b]
  IN  IF x.priority # y.priority
      THEN \/ IsActive(r, a) /\ ~ IsActive(r, b)
           \/ /\ IsActive(r, a) = IsActive(r, b)
              /\ PriorityRank(x.priority) > PriorityRank(y.priority)
      ELSE IF x.state # y.state THEN StateRank(x.state) < StateRank(y.state)
      ELSE IF x.priority = "HIGH" THEN <<b, a>> \in r.before
      ELSE <<a, b>> \in r.before

Better(r) == {p \in Image \X Image : IsBetter(r, p[1], p[2])}

PushJob(r, i) == [r EXCEPT !.heap = Push(r.heap, i, Better(r))]
UpdateJob(r, i) == [r EXCEPT !.heap = UpdateById(r.heap, i, Better(r))]
RemoveJob(r, i) == [r EXCEPT !.heap = Remove(r.heap, i, Better(r))]

\* Update(job) of a job that is not in the heap finds index 0.
UpdateRoot(r) == [r EXCEPT !.heap = Heapify(r.heap, 1, Better(r))]

Forget(r, i) == {p \in r.before : i \notin {p[1], p[2]}}

UpdateTime(r, i) ==
  [r EXCEPT !.before = Forget(r, i) \cup {<<k, i>> : k \in {j \in Image \ {i} : Present(r, j)}}]

SetJobPriority(r, i, p) ==
  LET timed == IF p = "HIGH" THEN UpdateTime(r, i) ELSE r
  IN  [timed EXCEPT !.job[i].priority = p]

ResetTimer(r, i) == [r EXCEPT !.job[i].timer = FALSE]

\* Mutant of ChangeStateTo: the queue is not told of the new state.
ChangeStateTo_NoUpdate(r, i, s) ==
  IF r.job[i].state = s
  THEN r
  ELSE [r EXCEPT !.job[i].state = s,
                 !.running = IF s = "RUNNING" THEN @ \cup {i} ELSE @ \ {i}]

(***************************************************************************)
(* ChangeStateTo with the hooks of the states: leaving and entering RUNNING*)
(* maintains runningJob_, and entering a state restores the queue's order. *)
(* Entering the state the job is in does nothing.                          *)
(***************************************************************************)
ChangeStateTo(r, i, s) ==
  IF r.job[i].state = s
  THEN r
  ELSE UpdateJob([r EXCEPT !.job[i].state = s,
                            !.running = IF s = "RUNNING" THEN @ \cup {i} ELSE @ \ {i}], i)

Prepare(r, i) == ChangeStateTo(r, i, "PENDING")

\* Mutant of Start: StartTimer is not called.
Start_NoTimer(r, i) == ChangeStateTo(r, i, "RUNNING")

Start(r, i) == ChangeStateTo([r EXCEPT !.job[i].timer = TRUE], i, "RUNNING")
Complete(r, i) == ChangeStateTo(ResetTimer(r, i), i, "COMPLETED")
Fail(r, i) == ChangeStateTo(ResetTimer(SetJobPriority(r, i, "NORMAL"), i), i, "FAILED")
SetError(r, i) == ChangeStateTo(ResetTimer(SetJobPriority(r, i, "NORMAL"), i), i, "ERROR")

\* The NotifyJobChanged a job sends when it enters s.
Notices(r, i, s) ==
  IF s \in {"FAILED", "COMPLETED", "ERROR"} /\ r.job[i].state # s THEN <<JobChanged>> ELSE <<>>

\* Mutant of AddDeferredJob: a job that exists is created again.
AddDeferredJob_Again(r, i) ==
  LET created == UpdateTime([r EXCEPT !.job[i] = [state |-> "NONE", priority |-> "NORMAL",
                                                  timer |-> FALSE]], i)
  IN  Prepare(PushJob(created, i), i)

AddDeferredJob(r, i) ==
  LET priority == IF i \in Background THEN "HIGH" ELSE "NORMAL"
      created == UpdateTime([r EXCEPT !.job[i] = [state |-> "NONE", priority |-> priority,
                                                  timer |-> FALSE]], i)
  IN  IF Present(r, i) THEN r
      ELSE IF i \in Background THEN Prepare(created, i)
      ELSE Prepare(PushJob(created, i), i)

\* Mutant: the job stays in runningJob_.
DeleteJob_Running(r, i) ==
  LET taken == IF i \in Background THEN r ELSE RemoveJob(r, i)
  IN  [taken EXCEPT !.job[i] = NoJob, !.before = Forget(r, i)]

DeleteJob(r, i) ==
  LET taken == IF i \in Background THEN r ELSE RemoveJob(r, i)
  IN  [taken EXCEPT !.job[i] = NoJob, !.running = @ \ {i}, !.before = Forget(r, i)]

LowerPriority(r, i) ==
  LET lowered == SetJobPriority(r, i, "LOW")
  IN  IF i \in Background THEN UpdateRoot(lowered) ELSE UpdateJob(lowered, i)
-----------------------------------------------------------------------------
(***************************************************************************)
(* What a handler works on: the command thread's state, its own command    *)
(* taken off the queue.  The operators below return it changed; Become     *)
(* makes it the new state.                                                 *)
(***************************************************************************)
Now == [repo |-> repo, result |-> result, hal |-> hal, ive |-> ive,
        strategy |-> strategy, cmds |-> Tail(cmds)]

Become(m) == /\ repo' = m.repo
             /\ result' = m.result
             /\ hal' = m.hal
             /\ ive' = m.ive
             /\ strategy' = m.strategy
             /\ cmds' = m.cmds

Send(m, commands) == [m EXCEPT !.cmds = @ \o commands]

HasCallback == client.mapped \in client.callback

\* PhotoPostProcessor::Interrupt; a dead session ignores the call.
Interrupt(m) ==
  IF m.hal.session = "live" /\ m.ive.work # {} THEN [m EXCEPT !.ive.aborted = TRUE] ELSE m

\* PhotoPostProcessor::ProcessImage: without a session the photo fails at once.
PostProcess(m, i) ==
  CASE m.hal.session = "null" -> Send(m, <<Failed(i, "NOT_READY")>>)
    [] m.hal.session = "dead" -> [m EXCEPT !.hal.runningId = @ \cup {i}]
    [] m.hal.session = "live" -> [m EXCEPT !.hal.runningId = @ \cup {i},
                                           !.ive.work = @ \cup {i}]

\* PhotoPostProcessor::RemoveImage: without a session it is put off until there is one.
PostRemove(m, i) ==
  LET left == [m EXCEPT !.hal.runningId = @ \ {i}]
  IN  CASE m.hal.session = "null" -> [left EXCEPT !.hal.removeNeeded = @ \cup {i}]
        [] m.hal.session = "dead" -> left
        [] m.hal.session = "live" -> [left EXCEPT !.ive.work = @ \ {i}]

DoProcess(m, i) ==
  PostProcess([m EXCEPT !.repo = Start(@, i), !.result.high = @ \ {i}], i)

(***************************************************************************)
(* PhotoStrategyCenter::GetJob: the root of the queue, if it waits and may *)
(* be processed now.                                                       *)
(***************************************************************************)
CanProcess(m, i) ==
  /\ m.repo.heap # <<>>
  /\ i = m.repo.heap[1]
  /\ IsActive(m.repo, i)
  /\ MayProcess(m.strategy, m.repo.job[i].priority, events.camera)

\* IsIdleState: no job, of the queue or in the background, that is not finished.
IsIdle(r) == \A i \in Image : r.job[i].state \notin {"PENDING", "FAILED", "RUNNING"}

ScheduleState(m) ==
  CASE m.repo.running # {} \/ (\E i \in Image : CanProcess(m, i)) -> "RUNNING"
    [] OTHER -> IF IsIdle(m.repo) THEN "IDLE"
                ELSE IF m.strategy.hal # "READY" THEN "SUSPENDED" ELSE "RUNNABLE"

\* Mutant of TryDoSchedule: HasRunningJob is not asked.
TryDoSchedule_Always(m) ==
  /\ schedule' = ScheduleState(m)
  /\ \/ \E i \in Image : CanProcess(m, i) /\ Become(DoProcess(m, i))
     \/ /\ \A i \in Image : ~ CanProcess(m, i)
        /\ Become(m)

TryDoSchedule(m) ==
  /\ schedule' = ScheduleState(m)
  /\ \/ /\ m.repo.running = {}
        /\ \E i \in Image : CanProcess(m, i) /\ Become(DoProcess(m, i))
     \/ /\ m.repo.running # {} \/ \A i \in Image : ~ CanProcess(m, i)
        /\ Become(m)

(***************************************************************************)
(* An event reaches the strategy centre; if the state object it is for     *)
(* changes, the controller's OnSchedulerChanged interrupts the running job *)
(* or tries to schedule.                                                   *)
(***************************************************************************)
EventChanged(m, e) ==
  \E left \in BOOLEAN :
    LET st == HandleEventChanged(m.strategy, e, events.needTrailing, left)
        changed == [m EXCEPT !.strategy = st]
    IN  \/ /\ ~ IsNewValue(m.strategy, e)
           /\ Become(changed)
           /\ UNCHANGED schedule
        \/ /\ IsNewValue(m.strategy, e) /\ st.isNeedStop
           /\ Become(IF m.repo.running # {} THEN Interrupt(changed) ELSE changed)
           /\ schedule' = IF e.type = "camera" THEN "PREEMPTED" ELSE schedule
        \/ /\ IsNewValue(m.strategy, e) /\ ~ st.isNeedStop
           /\ TryDoSchedule(changed)

CacheEvent(status) == [type |-> "cache", value |-> status]
MediaEvent(status) == [type |-> "media", value |-> status]

\* RecordResult: emplace keeps an entry that is there.
RecordResult(m, i, what) ==
  [m EXCEPT !.result.cache[i] = IF @ = "none" THEN what ELSE @]

\* GetCacheResult takes the entry out of the map.
TakeResult(m, i) == [m EXCEPT !.result.cache[i] = "none"]

\* Mutant of DeRecordResult: the cache state is not told.
DeRecordResult_NoEvent(m, i) ==
  /\ Become(IF m.result.bp = i THEN [TakeResult(m, i) EXCEPT !.result.bp = "Null"]
                               ELSE TakeResult(m, i))
  /\ UNCHANGED schedule

\* DeRecordResult: releasing the backpressure photo lets work go on, at once.
DeRecordResult(m, i) ==
  \/ /\ m.result.bp = i
     /\ EventChanged([TakeResult(m, i) EXCEPT !.result.bp = "Null"], CacheEvent("NO_CACHE"))
  \/ /\ m.result.bp # i
     /\ Become(TakeResult(m, i))
     /\ UNCHANGED schedule

(***************************************************************************)
(* ProcessCatchResults.  NotifyMediaLib gives the client a cached photo;   *)
(* for a cached error it only logs "Unexpected callback type".             *)
(***************************************************************************)
IsCaught(i) == result.cache[i] # "none" /\ HasCallback

\* Mutant of CatchResult: the entry is erased before it is read.
CatchResult_Erased(m, i) == DeRecordResult(m, i) /\ UNCHANGED answer

CatchResult(m, i) ==
  /\ answer' = IF result.cache[i] = "image" THEN [answer EXCEPT ![i] = "done"] ELSE answer
  /\ DeRecordResult(m, i)
-----------------------------------------------------------------------------
Took(op) == cmds # <<>> /\ Head(cmds).op = op

HandleAdd ==
  /\ Took("Add")
  /\ LET i == Head(cmds).image
         m == TakeResult(Now, i)
     IN  \/ IsCaught(i) /\ CatchResult(Now, i)
         \/ /\ ~ IsCaught(i)
            /\ Become([m EXCEPT !.repo = AddDeferredJob(@, i)])
            /\ answer' = IF Present(repo, i) THEN answer ELSE [answer EXCEPT ![i] = "none"]
            /\ UNCHANGED schedule
  /\ UNCHANGED <<events, client, orphans>>

\* A restorable removal (to the recycle bin) only lowers the priority.
HandleRemoveRestorable ==
  /\ Took("Remove")
  /\ Head(cmds).restorable
  /\ LET i == Head(cmds).image
         m == [Now EXCEPT !.result.high = @ \ {i}]
     IN  Become(IF Present(repo, i) THEN [m EXCEPT !.repo = LowerPriority(@, i)] ELSE m)
  /\ UNCHANGED <<events, client, orphans, schedule, answer>>

(***************************************************************************)
(* A final removal interrupts the photo if it is running and deletes the   *)
(* job.  Delete resets the job's timer id without unregistering the timer. *)
(***************************************************************************)
HandleRemove ==
  /\ Took("Remove")
  /\ ~ Head(cmds).restorable
  /\ LET i == Head(cmds).image
         m == [Now EXCEPT !.result.high = @ \ {i}]
         stopped == IF i \in repo.running THEN Interrupt(m) ELSE m
         removed == IF Present(repo, i) THEN [stopped EXCEPT !.repo = DeleteJob(@, i)] ELSE stopped
     IN  /\ DeRecordResult([PostRemove(removed, i) EXCEPT !.result.crash[i] = 0], i)
         /\ orphans' = IF repo.job[i].timer THEN orphans \cup {i} ELSE orphans
         /\ answer' = [answer EXCEPT ![i] = "none"]
  /\ UNCHANGED <<events, client>>

HandleRestore ==
  /\ Took("Restore")
  /\ LET i == Head(cmds).image
         restored == [Now EXCEPT !.repo = UpdateJob(SetJobPriority(@, i, "NORMAL"), i)]
     IN  Become(IF Present(repo, i) THEN Send(restored, <<JobChanged>>) ELSE Now)
  /\ UNCHANGED <<events, client, orphans, schedule, answer>>

HandleCancel ==
  /\ Took("Cancel")
  /\ LET i == Head(cmds).image
         m == [Now EXCEPT !.result.high = @ \ {i}]
     IN  CASE Present(repo, i) /\ i \in Background -> Become(Now)
           [] Present(repo, i) /\ i \notin Background ->
                Become([m EXCEPT !.repo = UpdateJob(SetJobPriority(@, i, "NORMAL"), i)])
           [] ~ Present(repo, i) -> Become(m)
  /\ UNCHANGED <<events, client, orphans, schedule, answer>>

-----------------------------------------------------------------------------
(***************************************************************************)
(* DeferredPhotoResult::OnError.  The third NOT_READY of a photo since it  *)
(* was last removed counts as fatal; only a timeout keeps the count of     *)
(* timeouts.                                                               *)
(***************************************************************************)
CrashCount(m, i, e) ==
  IF e # "NOT_READY" THEN m.result.crash[i]
  ELSE IF m.result.crash[i] = 3 THEN 3 ELSE m.result.crash[i] + 1

\* Mutant of EffectiveError: one crash too many is forgiven.
EffectiveError_Late(m, i, e) == IF e = "NOT_READY" /\ CrashCount(m, i, e) > 3 THEN "FATAL" ELSE e

EffectiveError(m, i, e) == IF e = "NOT_READY" /\ CrashCount(m, i, e) = 3 THEN "FATAL" ELSE e

CountError(m, i, e) ==
  [m EXCEPT !.result.crash[i] = CrashCount(m, i, e),
            !.result.timeouts = IF e = "TIMEOUT" THEN @ ELSE 0]

ErrorType(m, i, error) ==
  CASE error = "FATAL" -> "FATAL_NOTIFY"
    [] error # "FATAL" /\ IsHighJob(m.repo, i) ->
         IF error = "INTERRUPTED" /\ i \in m.result.high THEN "RETRY" ELSE "HIGH_FAILED"
    [] error = "HIGH_TEMPERATURE" /\ ~ IsHighJob(m.repo, i) -> "FAILED_NOTIFY"
    [] OTHER -> "NORMAL_FAILED"

\* The job's timer is unregistered (StopTimer), when there is a job.
StopTimer(m, i) == [m EXCEPT !.repo = ResetTimer(@, i)]

(***************************************************************************)
(* HandleError.  Without a job or a client the error is cached and the job *)
(* is left as it is; otherwise it waits again, has failed, or is given up. *)
(***************************************************************************)
OnProcessError(m, i, e) ==
  LET counted == StopTimer(CountError(m, i, e), i)
      type == ErrorType(m, i, EffectiveError(m, i, e))
      next == CASE type = "RETRY" -> Prepare(counted.repo, i)
                [] type = "FATAL_NOTIFY" -> SetError(counted.repo, i)
                [] OTHER -> Fail(counted.repo, i)
      entered == CASE type = "RETRY" -> "PENDING"
                   [] type = "FATAL_NOTIFY" -> "ERROR"
                   [] OTHER -> "FAILED"
  IN  /\ \/ /\ ~ Present(m.repo, i) \/ ~ HasCallback
            /\ Become(RecordResult(counted, i, "error"))
            /\ UNCHANGED answer
         \/ /\ Present(m.repo, i) /\ HasCallback
            /\ Become(Send([counted EXCEPT !.repo = next], Notices(m.repo, i, entered)))
            /\ answer' = IF type \in {"RETRY", "NORMAL_FAILED"} THEN answer
                         ELSE [answer EXCEPT ![i] = "error"]
      /\ UNCHANGED schedule

HandleFailed ==
  /\ Took("Failed")
  /\ OnProcessError(Now, Head(cmds).image, Head(cmds).error)
  /\ UNCHANGED <<events, client, orphans>>

(***************************************************************************)
(* HandleSuccess.  Without a job or a client the photo is cached and the   *)
(* job is left as it is.  While the media library is busy a photo that is  *)
(* not of high priority is cached too, and stops all ordinary work until   *)
(* the library asks for it.                                                *)
(***************************************************************************)
HandleSuccess ==
  /\ Took("Success")
  /\ LET i == Head(cmds).image
         m == StopTimer([Now EXCEPT !.result.timeouts = 0], i)
         completed == Send([m EXCEPT !.repo = Complete(@, i)], Notices(repo, i, "COMPLETED"))
         held == RecordResult(completed, i, "image")
     IN  \/ /\ ~ Present(repo, i) \/ ~ HasCallback
            /\ Become(RecordResult(m, i, "image"))
            /\ UNCHANGED <<events, schedule, answer>>
         \/ /\ Present(repo, i) /\ HasCallback
            /\ events.mediaBusy /\ ~ IsHighJob(repo, i)
            /\ EventChanged([held EXCEPT !.result.bp = i], CacheEvent("CACHED"))
            /\ UNCHANGED <<events, answer>>
         \/ /\ Present(repo, i) /\ HasCallback
            /\ ~ events.mediaBusy \/ IsHighJob(repo, i)
            /\ Become(completed)
            /\ events' = [events EXCEPT !.mediaBusy = TRUE]
            /\ answer' = [answer EXCEPT ![i] = "done"]
            /\ UNCHANGED schedule
  /\ UNCHANGED <<client, orphans>>

\* ProcessImage: a request for a photo at high priority.
HandleProcess ==
  /\ Took("Process")
  /\ LET i == Head(cmds).image
         high == SetJobPriority(repo, i, "HIGH")
         ready == IF high.job[i].state = "FAILED" THEN Prepare(high, i) ELSE high
         m == Send([Now EXCEPT !.repo = UpdateJob(ready, i)], <<JobChanged>>)
     IN  \/ /\ Present(repo, i) /\ i \in Background
            /\ Become(Now)
            /\ UNCHANGED <<schedule, answer>>
         \/ /\ ~ Present(repo, i)
            /\ OnProcessError(Now, i, "FATAL")
         \/ /\ Present(repo, i) /\ i \notin Background /\ IsCaught(i)
            /\ CatchResult(m, i)
         \/ /\ Present(repo, i) /\ i \notin Background /\ ~ IsCaught(i)
            /\ Become([TakeResult(m, i) EXCEPT !.result.high = @ \cup {i}])
            /\ UNCHANGED <<schedule, answer>>
  /\ UNCHANGED <<events, client, orphans>>

\* ProcessBPCache, on an urgent command of the media library.
HandleProcessCache ==
  /\ Took("ProcessCache")
  /\ LET i == result.bp
     IN  \/ /\ i = "Null"
            /\ Become(Now)
            /\ UNCHANGED <<schedule, answer>>
         \/ /\ i # "Null" /\ IsCaught(i)
            /\ CatchResult(Now, i)
         \/ /\ i # "Null" /\ ~ IsCaught(i)
            /\ Become(TakeResult(Now, i))
            /\ UNCHANGED <<schedule, answer>>
  /\ UNCHANGED <<events, client, orphans>>

HandleJobChanged ==
  /\ Took("JobChanged")
  /\ TryDoSchedule(Now)
  /\ UNCHANGED <<events, client, orphans, answer>>

HandleEvent ==
  /\ Took("Event")
  /\ LET e == Head(cmds).event
     IN  /\ EventChanged(Now, e)
         /\ events' = [events EXCEPT !.needTrailing = @ /\ ~ ReadsNeedTrailing(strategy, e)]
  /\ UNCHANGED <<client, orphans, answer>>

\* OnSessionDied: every photo handed to the session and not removed since fails.
HandlePhotoDied ==
  /\ Took("PhotoDied")
  /\ \E ids \in SX!SetToSeqs(hal.runningId) :
       Become(Send([Now EXCEPT !.hal.session = "null"],
                   [n \in 1 .. Len(ids) |-> Failed(ids[n], "NOT_READY")]
                     \o <<EventCommand("hal", "DISCONNECTED")>>))
  /\ UNCHANGED <<events, client, orphans, schedule, answer>>

HandleAddSession ==
  /\ Took("AddSession")
  /\ client' = [client EXCEPT !.mapped = Head(cmds).info]
  /\ events' = [events EXCEPT !.mediaBusy = FALSE]
  /\ EventChanged(Now, MediaEvent("AVAILABLE"))
  /\ UNCHANGED <<orphans, answer>>

HandleDeleteSession ==
  /\ Took("DeleteSession")
  /\ client' = [client EXCEPT !.mapped = "none"]
  /\ EventChanged(Now, MediaEvent("DISCONNECTED"))
  /\ UNCHANGED <<events, orphans, answer>>

CommandThread ==
  \/ HandleAdd \/ HandleRemove \/ HandleRemoveRestorable \/ HandleRestore \/ HandleCancel
  \/ HandleProcess \/ HandleProcessCache \/ HandleSuccess \/ HandleFailed
  \/ HandleJobChanged \/ HandleEvent \/ HandlePhotoDied
  \/ HandleAddSession \/ HandleDeleteSession
-----------------------------------------------------------------------------
(***************************************************************************)
(* The other threads: client calls, HDI callbacks, timers, system events.  *)
(***************************************************************************)
Queue(c) == cmds' = Append(cmds, c)
QueueUrgent(c) == cmds' = <<c>> \o cmds

HasFeature(f) == f \in workload.features
HasRoom == Len(cmds) < workload.maxCmds
Environment(f) == HasFeature(f) /\ HasRoom
ClientKnows(i) == client.alive /\ i \in workload.images

threadState == <<repo, result, strategy, schedule, answer>>

\* DeferredPhotoProcessingSession, outside a synchronisation.  Unless "readd" is
\* among the features the client only adds photos the service does not have.
ClientAdds(i) ==
  /\ HasRoom /\ ClientKnows(i)
  /\ Present(repo, i) => HasFeature("readd")
  /\ Queue([op |-> "Add", image |-> i])
  /\ UNCHANGED <<threadState, hal, ive, events, client, orphans>>

\* Bounded: not again before the timer of the last removal has expired.
ClientRemoves(i) ==
  /\ Environment("remove") /\ ClientKnows(i) /\ i \notin orphans
  /\ \E restorable \in BOOLEAN :
       /\ restorable => HasFeature("restore")
       /\ Queue([op |-> "Remove", image |-> i, restorable |-> restorable])
  /\ UNCHANGED <<threadState, hal, ive, events, client, orphans>>

ClientRestores(i) ==
  /\ Environment("restore") /\ ClientKnows(i)
  /\ Queue([op |-> "Restore", image |-> i])
  /\ UNCHANGED <<threadState, hal, ive, events, client, orphans>>

ClientRequests(i) ==
  /\ Environment("request") /\ ClientKnows(i)
  /\ Queue([op |-> "Process", image |-> i])
  /\ UNCHANGED <<threadState, hal, ive, events, client, orphans>>

ClientCancels(i) ==
  /\ Environment("cancel") /\ ClientKnows(i)
  /\ Queue([op |-> "Cancel", image |-> i])
  /\ UNCHANGED <<threadState, hal, ive, events, client, orphans>>

\* NotifyProcessImage: the media library is ready for another photo.
LibraryIdle ==
  /\ Environment("library") /\ client.alive
  /\ events' = [events EXCEPT !.mediaBusy = FALSE]
  /\ QueueUrgent([op |-> "ProcessCache"])
  /\ UNCHANGED <<threadState, hal, ive, client, orphans>>

\* OnCallbackDied, in the death recipient's thread.
ClientDies ==
  /\ Environment("client") /\ client.alive
  /\ client' = [client EXCEPT !.alive = FALSE, !.callback = {}]
  /\ QueueUrgent([op |-> "DeleteSession"])
  /\ UNCHANGED <<threadState, hal, ive, events, orphans>>

\* CreateDeferredPhotoProcessingSession reuses the info that is mapped, if any.
ClientConnects ==
  /\ HasFeature("client") /\ ~ client.alive
  /\ \E n \in Info :
       /\ IF client.mapped = "none"
          THEN \A k \in 1 .. Len(cmds) : cmds[k].op = "AddSession" => cmds[k].info # n
          ELSE n = client.mapped
       /\ client' = [client EXCEPT !.alive = TRUE, !.callback = {n}]
       /\ QueueUrgent([op |-> "AddSession", info |-> n])
  /\ UNCHANGED <<threadState, hal, ive, events, orphans>>
-----------------------------------------------------------------------------
\* The HDI finishes a photo, fails, or gives up the photos it was told to interrupt.
IveDone(i) ==
  /\ i \in ive.work
  /\ ive' = [ive EXCEPT !.work = @ \ {i}, !.aborted = @ /\ ive.work # {i}]
  /\ Queue([op |-> "Success", image |-> i])
  /\ UNCHANGED <<threadState, hal, events, client, orphans>>

IveFails(i) ==
  /\ i \in ive.work
  /\ \E e \in workload.iveErrors \cup (IF ive.aborted THEN {"INTERRUPTED"} ELSE {}) : Queue(Failed(i, e))
  /\ ive' = [ive EXCEPT !.work = @ \ {i}, !.aborted = @ /\ ive.work # {i}]
  /\ UNCHANGED <<threadState, hal, events, client, orphans>>

\* A background photo is processed without being asked for.
IveBackgroundDone(i) ==
  /\ Environment("background") /\ ive.alive
  /\ i \in Background /\ repo.job[i].state = "PENDING"
  /\ Queue([op |-> "Success", image |-> i])
  /\ UNCHANGED <<threadState, hal, ive, events, client, orphans>>

IveStatus ==
  /\ Environment("death") /\ hal.session = "live"
  /\ \E v \in workload.hdiReports : v # strategy.hal /\ Queue(EventCommand("hal", v))
  /\ UNCHANGED <<threadState, hal, ive, events, client, orphans>>

Kill(session) == IF session = "live" THEN "dead" ELSE session

\* The HDI process dies; SessionDeathRecipient queues a PhotoDiedCommand.
IveDies ==
  /\ Environment("death") /\ ive.alive
  /\ ive' = [alive |-> FALSE, work |-> {}, aborted |-> FALSE, started |-> FALSE]
  /\ hal' = [hal EXCEPT !.session = Kill(@), !.next = Kill(@)]
  /\ IF "live" \in {hal.session, hal.next} THEN Queue([op |-> "PhotoDied"]) ELSE UNCHANGED cmds
  /\ UNCHANGED <<threadState, events, client, orphans>>

IveRestarts ==
  /\ ~ ive.alive
  /\ ive' = [ive EXCEPT !.alive = TRUE, !.started = TRUE]
  /\ UNCHANGED <<threadState, hal, events, client, orphans, cmds>>

\* OnServiceChange, in the HDI listener's thread, up to RemoveNeedJbo: ignored
\* while photoSession_ is not null.
ServiceStarted ==
  /\ ive.started
  /\ ive' = [ive EXCEPT !.started = FALSE]
  /\ hal' = IF hal.session = "null" THEN [hal EXCEPT !.next = "live", !.removeNeeded = {}] ELSE hal
  /\ UNCHANGED <<threadState, events, client, orphans, cmds>>

\* OnServiceChange from SetPhotoSession on.
SessionInstalled ==
  /\ hal.next # "null"
  /\ hal' = [hal EXCEPT !.session = hal.next, !.next = "null"]
  /\ Queue(EventCommand("hal", "READY"))
  /\ UNCHANGED <<threadState, ive, events, client, orphans>>
-----------------------------------------------------------------------------
\* Mutant of Timeout: IsNeedReset does not start to count again.
Timeout_NoReset(i) ==
  /\ Queue(Failed(i, "TIMEOUT"))
  /\ result' = [result EXCEPT !.timeouts = @ + 1]
  /\ UNCHANGED <<hal, ive, strategy, events, client, schedule, answer>>

\* Mutant of Timeout: the third timeout resets the HDI and does not fail the photo.
Timeout_Silent(i) ==
  /\ IF result.timeouts = 2 THEN UNCHANGED cmds ELSE Queue(Failed(i, "TIMEOUT"))
  /\ result' = [result EXCEPT !.timeouts = (@ + 1) % 3]
  /\ ive' = IF result.timeouts = 2 /\ hal.session = "live"
            THEN [ive EXCEPT !.work = {}, !.aborted = FALSE] ELSE ive
  /\ UNCHANGED <<hal, strategy, events, client, schedule, answer>>

(***************************************************************************)
(* ProcessPhotoTimeout, in the timer thread: the third timeout in a row    *)
(* resets the HDI session, which drops its work.                           *)
(***************************************************************************)
Timeout(i) ==
  /\ Queue(Failed(i, "TIMEOUT"))
  /\ result' = [result EXCEPT !.timeouts = (@ + 1) % 3]
  /\ ive' = IF result.timeouts = 2 /\ hal.session = "live"
            THEN [ive EXCEPT !.work = {}, !.aborted = FALSE] ELSE ive
  /\ UNCHANGED <<hal, strategy, events, client, schedule, answer>>

TimerExpires(i) ==
  /\ HasFeature("timeout") /\ repo.job[i].timer
  /\ repo' = ResetTimer(repo, i)
  /\ Timeout(i)
  /\ UNCHANGED orphans

OrphanExpires(i) ==
  /\ i \in orphans
  /\ orphans' = orphans \ {i}
  /\ Timeout(i)
  /\ UNCHANGED repo

TrailingExpires ==
  /\ strategy.trailingTimer
  /\ strategy' = [strategy EXCEPT !.trailingTimer = FALSE]
  /\ Queue(EventCommand("trailing", "ON_STOP"))
  /\ UNCHANGED <<repo, result, hal, ive, events, client, orphans, schedule, answer>>

\* SetCameraState takes effect at once, the event when its command is handled.
CameraChanges ==
  /\ Environment("camera")
  /\ \E v \in CameraStatus \ {events.camera} :
       /\ events' = [events EXCEPT !.camera = v]
       /\ Queue(EventCommand("camera", v))
  /\ UNCHANGED <<threadState, hal, ive, client, orphans>>

ThermalChanges ==
  /\ Environment("thermal")
  /\ \E v \in ThermalLevel \ {strategy.thermal} : Queue(EventCommand("thermal", v))
  /\ UNCHANGED <<threadState, hal, ive, events, client, orphans>>

\* NotifyInterrupt, when a camera device is opened.
DeviceOpens ==
  /\ Environment("interrupt")
  /\ Queue(EventCommand("interrupt", "IS_INTERRUPT"))
  /\ UNCHANGED <<threadState, hal, ive, events, client, orphans>>

\* NotifyLowQualityImage
LowQualityImage ==
  /\ Environment("trailing")
  /\ events' = [events EXCEPT !.needTrailing = TRUE]
  /\ UNCHANGED <<threadState, hal, ive, client, orphans, cmds>>

ClientThreads ==
  \/ \E i \in Image : \/ ClientAdds(i) \/ ClientRemoves(i) \/ ClientRestores(i)
                      \/ ClientRequests(i) \/ ClientCancels(i)
  \/ LibraryIdle \/ ClientDies \/ ClientConnects

HdiThreads ==
  \/ \E i \in Image : IveDone(i) \/ IveFails(i) \/ IveBackgroundDone(i)
  \/ IveStatus \/ IveDies \/ IveRestarts \/ ServiceStarted \/ SessionInstalled

TimerThread == \/ \E i \in Image : TimerExpires(i) \/ OrphanExpires(i)
               \/ TrailingExpires

SystemEvents == CameraChanges \/ ThermalChanges \/ DeviceOpens \/ LowQualityImage

Next == /\ CommandThread \/ ClientThreads \/ HdiThreads \/ TimerThread \/ SystemEvents
        /\ UNCHANGED workload

Spec == Init /\ [][Next]_vars

\* The thread of the command queue runs while there are commands, and a timer
\* that stays registered expires.  Nothing is assumed of the HDI or the client.
\* The disjunction is WF_pipeline(CommandThread): every command has a handler that can
\* take it, so the thread is disabled exactly while the queue is empty.
FairSpec == /\ Spec
            /\ []<>(cmds = <<>>) \/ []<><<CommandThread>>_pipeline
            /\ \A i \in Image : WF_pipeline(TimerExpires(i))

-----------------------------------------------------------------------------
(***************************************************************************)
(* What the client sees: the pipeline implements PhotoLifecycle.           *)
(***************************************************************************)
StatusOf(i) ==
  LET s == repo.job[i].state
  IN  CASE s = "NONE" -> "absent"
        [] s \in {"PENDING", "FAILED"} -> "waiting"
        [] s = "RUNNING" -> "running"
        [] s = "COMPLETED" -> "done"
        [] s = "ERROR" -> "given up"

Lifecycle == INSTANCE PhotoLifecycle
  WITH status <- [i \in Image |-> StatusOf(i)], told <- answer, kept <- result.cache,
       connected <- HasCallback

\* Whatever order commands, answers, timeouts and events come in, each handler does
\* to the photos what one step of PhotoLifecycle allows: it processes one at a time,
\* it takes only one that waits, it completes none without telling or keeping the
\* result, and it drops what it has kept only when the client has gone.
ImplementsLifecycle == Lifecycle!Spec

(***************************************************************************)
(* Safety.                                                                 *)
(***************************************************************************)

\* runningJob_, by which the scheduler decides whether it may start a photo
\* (HasRunningJob) and whether a removal must interrupt the HDI, is exactly the
\* set of jobs in state RUNNING, and the HDI is never given a second photo
\* while one is running.
RunningJobs ==
  /\ repo.running = {i \in Image : repo.job[i].state = "RUNNING"}
  /\ \A i, j \in repo.running : i = j

\* The offline queue holds every job that is not of background type once, and
\* nothing else: the three maps of the repository and the heap agree.
QueueHoldsJobs ==
  /\ Elements(repo.heap) = {i \in Image \ Background : Present(repo, i)}
  /\ Len(repo.heap) = Cardinality(Elements(repo.heap))

\* The scheduler looks at the root of the queue only.  While some job waits, the
\* root is one that waits, although jobs change in place and Fail lowers a
\* priority without an update of the queue when the job has failed already.
NoHiddenWork ==
  (\E i \in Image \ Background : IsActive(repo, i)) => IsActive(repo, repo.heap[1])

\* Work on ordinary photos is stopped for a photo the library has not fetched
\* (PHOTO_CACHE_STATE is CACHED) exactly while cachePhotoId_ names it.
CacheGate == strategy.cache = "CACHED" <=> result.bp # "Null"

\* A running photo is never left to itself: its timer is registered, or the
\* command that ends it is in the queue already.
RunningIsWatched ==
  \A i \in repo.running :
    \/ repo.job[i].timer
    \/ \E k \in 1 .. Len(cmds) : cmds[k].op \in {"Success", "Failed"} /\ cmds[k].image = i

\* A photo whose job is completed has been given to the client or is kept for it.
NoResultLost ==
  \A i \in Image : repo.job[i].state = "COMPLETED" => answer[i] = "done" \/ result.cache[i] = "image"

\* A job starts only when nothing forbids it at that moment: an ordinary photo
\* while no camera is open, the HDI is ready, the client is connected, no photo
\* is held back for it, and the device is cool or the camera has just closed; a
\* high priority photo while the system camera is closed.  The verdict is cached
\* in isNeedStop_, so this says that the cache is never stale.
Starts(i) == repo.job[i].state # "RUNNING" /\ repo'.job[i].state = "RUNNING"

GateRespected ==
  [][\A i \in Image : Starts(i) =>
       IF repo.job[i].priority = "HIGH"
       THEN events.camera # "SYSTEM_OPEN"
       ELSE ~ Closed(strategy') /\ (strategy'.isTrailing \/ strategy'.thermal = "NOMINAL")]_vars

\* A job starts only if no job that waits then has a higher priority.
HighestPriorityFirst ==
  [][\A i \in Image \ Background : Starts(i) =>
       \A j \in Image \ Background : IsActive(repo', j) =>
         PriorityRank(repo'.job[j].priority) <= PriorityRank(repo'.job[i].priority)]_vars

\* A photo that has been processed already and is then requested is returned
\* from the cache at once, whatever the processing came to.
CachedAnswerReturned ==
  [][HandleProcess /\ Present(repo, Head(cmds).image) /\ IsCaught(Head(cmds).image)
       => answer'[Head(cmds).image] # "none"]_vars

\* When the media library asks for the photo that is held back for it, the work
\* on ordinary photos is released.
BackpressureReleased == [][HandleProcessCache => result'.bp = "Null"]_vars

\* A photo the HDI has died on three times is not given to it again, until the
\* client removes it.
CrashingPhotoIsGivenUp ==
  [][\A i \in Image : Starts(i) => result.crash[i] < 3]_vars

(***************************************************************************)
(* Liveness.                                                               *)
(***************************************************************************)

\* Whatever the HDI does, a running photo stops running, and so never blocks the
\* photos behind it for good.
RunEnds == \A i \in Image : i \in repo.running ~> i \notin repo.running
=============================================================================
