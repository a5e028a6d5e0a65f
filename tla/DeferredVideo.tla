--------------------------- MODULE DeferredVideo ---------------------------
(***************************************************************************)
(* The video pipeline of the deferred processing service, for one user.    *)
(*                                                                         *)
(* Videos are added by the media library, ordered in a VideoJobQueue and    *)
(* handed, one at a time, to the video HDI.  As for photos every request,   *)
(* answer, timeout and event becomes a command for one thread; here the     *)
(* scheduling decision is split where the timer thread can come between     *)
(* (starting), for the controller's OnTimerOut runs in the timer thread.    *)
(*                                                                         *)
(*   repo      VideoJobRepository: jobs, creation order, heap, runningSet_  *)
(*   result    DeferredVideoResult: crash counts and cacheMap_              *)
(*   hal       VideoPostProcessor: the session, runningId_                  *)
(*   ive       the HDI service (external)                                   *)
(*   recorder  the video mediaManagerProxy_ writes, or "none"               *)
(*   strategy  VideoStrategyCenter with its state objects                   *)
(*   suspend   the timer of the time on battery: those registered, the one  *)
(*             normalTimeId_ names (0 is INVALID_TIMERID), how far OnTimerOut*)
(*   starting  the job TryDoSchedule has chosen and not yet set running     *)
(*   cameraOpen  EventsInfo's camera state                                  *)
(*   client    the media library, the VideoSessionInfo the user is mapped   *)
(*             to, the infos with a callback                                *)
(*   cmds      the queue of the command server                              *)
(***************************************************************************)
EXTENDS Naturals, Sequences, FiniteSets, PhotoJobQueue

CONSTANTS Video, Info, Workload

Feature == {"readd", "remove", "restore", "request", "cancel", "sync", "death", "client", "media",
            "camera", "screen", "thermal", "photo", "charging", "battery", "level", "interrupt", "time", "late"}

Error == {"FAILED", "TIMEOUT", "INTERRUPTED", "NOT_READY", "OTHER"}

ASSUME VideoAssumption ==
  /\ IsFiniteSet(Video) /\ Info # {}
  /\ "none" \notin Video /\ "none" \notin Info
  /\ Workload \subseteq [videos : SUBSET Video, errors : SUBSET {"FAILED", "OTHER"},
                         features : SUBSET Feature, charging : BOOLEAN,
                         maxCmds : Nat, maxCalls : Nat]

VARIABLES
  workload,  \* what the environment does in this behaviour
  calls,     \* how many calls and events there have been
  repo, result, hal, ive, recorder, strategy, suspend, starting, cameraOpen, client, cmds,
  leaked,    \* history: videos removed or restored while they ran
  unheard,   \* history: videos answered while there was no client to tell
  late,      \* history: videos with an answer of another run, theirs or another video's, in their run
  overlapped,\* history: videos that were being started when the time on battery ran out
  trashed    \* history: some video was moved to the recycle bin

pipeline == <<repo, result, hal, ive, recorder, strategy, suspend, starting, cameraOpen, client, cmds>>
history == <<leaked, unheard, late, overlapped, trashed>>
vars == <<workload, calls, pipeline, history>>
-----------------------------------------------------------------------------
JobState == {"PAUSE", "PENDING", "FAILED", "DELETED", "RUNNING", "COMPLETED", "ERROR"}

NoJob == [state |-> "NONE", priority |-> "NONE", timer |-> FALSE, suspend |-> TRUE]

Job == [state : JobState, priority : {"NORMAL", "HIGH"}, timer : BOOLEAN, suspend : BOOLEAN]

\* The state objects that can stop ordinary videos, by the event they are for.
Stop == {"camera", "hal", "media", "screen", "thermal", "photo"}
EventType == Stop \cup {"charging", "battery", "level", "interrupt"}

Command ==
  [op : {"Add", "Restore", "Process", "Cancel", "Success"}, video : Video]
    \cup [op : {"Remove"}, video : Video, restorable : BOOLEAN]
    \cup [op : {"Failed"}, video : Video, error : Error]
    \cup [op : {"Sync"}, videos : SUBSET Video]
    \cup [op : {"JobChanged", "VideoDied", "DeleteSession"}]
    \cup [op : {"AddSession"}, info : Info]
    \cup [op : {"Event"}, type : EventType, value : BOOLEAN]

Failed(v, e) == [op |-> "Failed", video |-> v, error |-> e]
JobChanged == [op |-> "JobChanged"]
Event(type, value) == [op |-> "Event", type |-> type, value |-> value]

TypeOK ==
  /\ workload \in Workload /\ calls \in 0 .. workload.maxCalls
  /\ repo \in [job : [Video -> Job \cup {NoJob}], before : SUBSET (Video \X Video),
               heap : Seq(Video), running : SUBSET Video, orphans : SUBSET Video]
  /\ result \in [crash : [Video -> 0 .. 3], cache : [Video -> {"none", "done", "fatal", "other"}]]
  /\ hal \in [session : {"null", "live", "dead"}, runningId : SUBSET Video]
  /\ ive \in [alive : BOOLEAN, work : SUBSET Video, aborted : BOOLEAN, started : BOOLEAN]
  /\ recorder \in Video \cup {"none"}
  /\ strategy \in [isNeedStop : BOOLEAN, stops : SUBSET Stop, charging : BOOLEAN, batteryLow : BOOLEAN,
                   levelLow : BOOLEAN, singleOver : BOOLEAN, totalOver : BOOLEAN]
  /\ suspend \in [timers : SUBSET (1 .. 2), id : 0 .. 2, out : {"idle", "fired", "cleared", "counted"}]
  /\ starting \in Video \cup {"none"}
  /\ cameraOpen \in BOOLEAN
  /\ client \in [alive : BOOLEAN, mapped : Info \cup {"none"}, callback : SUBSET Info]
  /\ cmds \in Seq(Command)
  /\ leaked \subseteq Video /\ unheard \subseteq Video /\ late \subseteq Video /\ overlapped \subseteq Video
  /\ trashed \in BOOLEAN

\* The first client and the HDI's session are there, nothing stops; the screen is off.
Init ==
  /\ workload \in Workload /\ calls = 0
  /\ repo = [job |-> [v \in Video |-> NoJob], before |-> {}, heap |-> <<>>, running |-> {}, orphans |-> {}]
  /\ result = [crash |-> [v \in Video |-> 0], cache |-> [v \in Video |-> "none"]]
  /\ hal = [session |-> "live", runningId |-> {}]
  /\ ive = [alive |-> TRUE, work |-> {}, aborted |-> FALSE, started |-> FALSE]
  /\ recorder = "none"
  /\ strategy = [isNeedStop |-> FALSE, stops |-> {}, charging |-> workload.charging, batteryLow |-> FALSE,
                 levelLow |-> FALSE, singleOver |-> FALSE, totalOver |-> FALSE]
  /\ suspend = [timers |-> {}, id |-> 0, out |-> "idle"]
  /\ starting = "none"
  /\ cameraOpen = FALSE
  /\ LET n == CHOOSE n \in Info : TRUE IN client = [alive |-> TRUE, mapped |-> n, callback |-> {n}]
  /\ cmds = <<>>
  /\ leaked = {} /\ unheard = {} /\ late = {} /\ overlapped = {} /\ trashed = FALSE
-----------------------------------------------------------------------------
(***************************************************************************)
(* The repository r.                                                       *)
(***************************************************************************)
Present(r, v) == r.job[v].state # "NONE"
IsHighJob(r, v) == r.job[v].priority = "HIGH"

StateRank(s) == CASE s = "PAUSE" -> 1 [] s = "PENDING" -> 2 [] s = "FAILED" -> 3 [] s = "DELETED" -> 4
                  [] s = "RUNNING" -> 5 [] s = "COMPLETED" -> 6 [] s = "ERROR" -> 7 [] OTHER -> 0

\* Mutant of Waits: whatever has not failed for good may be chosen.
Waits_Again(r, v) == StateRank(r.job[v].state) < StateRank("ERROR")

\* Below RUNNING: GetJob may choose the job, one in the recycle bin (DELETED) too.
Waits(r, v) == StateRank(r.job[v].state) < StateRank("RUNNING")

\* operator>
IsBetter(r, a, b) ==
  LET x == r.job[a]
      y == r.job[b]
  IN  IF x.priority # y.priority
      THEN \/ Waits(r, a) /\ ~ Waits(r, b)
           \/ Waits(r, a) = Waits(r, b) /\ IsHighJob(r, a)
      ELSE IF x.state # y.state THEN StateRank(x.state) < StateRank(y.state)
      ELSE IF IsHighJob(r, a) THEN <<b, a>> \in r.before
      ELSE <<a, b>> \in r.before

Better(r) == {p \in Video \X Video : IsBetter(r, p[1], p[2])}

UpdateJob(r, v) == [r EXCEPT !.heap = UpdateById(r.heap, v, Better(r))]

Forget(r, v) == {p \in r.before : v \notin {p[1], p[2]}}

UpdateTime(r, v) ==
  [r EXCEPT !.before = Forget(r, v) \cup {<<u, v>> : u \in {w \in Video \ {v} : Present(r, w)}}]

SetJobPriority(r, v, p) ==
  LET timed == IF p = "HIGH" THEN UpdateTime(r, v) ELSE r
  IN  [timed EXCEPT !.job[v].priority = p]

\* Mutant of SetJob: leaving RUNNING is not noticed.
SetJob_Counted(r, v, s) ==
  IF r.job[v].state = s THEN r
  ELSE UpdateJob([r EXCEPT !.job[v].state = s,
                           !.running = IF s = "RUNNING" THEN @ \cup {v} ELSE @], v)

(***************************************************************************)
(* SetJobRunning, -Completed, -Failed, -Pause, -Error: SetJobState and, if  *)
(* the state changed, UpdateRunningCountUnLocked, which looks at the state  *)
(* the job has just left: runningSet_ forgets only a job that was RUNNING.  *)
(***************************************************************************)
SetJob(r, v, s) ==
  IF r.job[v].state = s THEN r
  ELSE UpdateJob([r EXCEPT !.job[v].state = s,
                           !.running = IF s = "RUNNING" THEN @ \cup {v}
                                       ELSE IF r.job[v].state = "RUNNING" THEN @ \ {v} ELSE @], v)

\* Mutant of AddVideoJob: the priority is not initialised.
AddVideoJob_NoPriority(r, v) ==
  LET created == UpdateTime([r EXCEPT !.job[v] = [NoJob EXCEPT !.state = "PENDING"]], v)
  IN  IF Present(r, v) THEN r ELSE [created EXCEPT !.heap = Push(r.heap, v, Better(created))]

AddVideoJob(r, v) ==
  LET created == UpdateTime([r EXCEPT !.job[v] = [NoJob EXCEPT !.state = "PENDING",
                                                              !.priority = "NORMAL"]], v)
  IN  IF Present(r, v) THEN r ELSE [created EXCEPT !.heap = Push(r.heap, v, Better(created))]

(***************************************************************************)
(* RemoveVideoJob.  UpdateRunningCountUnLocked(false, ..) does nothing:    *)
(* the heap is not reordered and runningSet_ keeps a video that ran.  Its   *)
(* timer is not stopped (orphans).                                         *)
(***************************************************************************)
RemoveVideoJob(r, v, restorable) ==
  IF restorable
  THEN [r EXCEPT !.job[v].state = "DELETED", !.job[v].priority = "NORMAL"]
  ELSE [r EXCEPT !.heap = Remove(r.heap, v, Better(r)), !.job[v] = NoJob, !.before = Forget(r, v),
                 !.orphans = IF r.job[v].timer THEN @ \cup {v} ELSE @]

RestoreVideoJob(r, v) ==
  IF r.job[v].state = "PENDING" THEN r ELSE UpdateJob([r EXCEPT !.job[v].state = "PENDING"], v)

\* Mutant of RequestJob: the heap is not told.
RequestJob_NoUpdate(r, v) ==
  LET high == SetJobPriority(r, v, "HIGH")
  IN  [high EXCEPT !.job[v].state = IF @ = "FAILED" THEN "PENDING" ELSE @]

RequestJob(r, v) ==
  LET high == SetJobPriority(r, v, "HIGH")
  IN  UpdateJob([high EXCEPT !.job[v].state = IF @ = "FAILED" THEN "PENDING" ELSE @], v)

CancelJob(r, v) ==
  IF IsHighJob(r, v) THEN UpdateJob(SetJobPriority(r, v, "NORMAL"), v) ELSE r
-----------------------------------------------------------------------------
Current == [repo |-> repo, result |-> result, hal |-> hal, ive |-> ive, recorder |-> recorder,
            strategy |-> strategy, suspend |-> suspend, starting |-> starting, cmds |-> cmds]

\* What a handler works on: its own command is off the queue.
Now == [Current EXCEPT !.cmds = Tail(@)]

Become(m) == /\ repo' = m.repo
             /\ result' = m.result
             /\ hal' = m.hal
             /\ ive' = m.ive
             /\ recorder' = m.recorder
             /\ strategy' = m.strategy
             /\ suspend' = m.suspend
             /\ starting' = m.starting
             /\ cmds' = m.cmds

Send(m, commands) == [m EXCEPT !.cmds = @ \o commands]

HasCallback == client.mapped \in client.callback

Drop(w, v) == [w EXCEPT !.work = @ \ {v}, !.aborted = @ /\ w.work # {v}]

\* VideoPostProcessor::PauseRequest: whatever runs is interrupted; a dead session ignores it.
Interrupt(w) == IF hal.session = "live" /\ w.work # {} THEN [w EXCEPT !.aborted = TRUE] ELSE w

\* DeferredVideoController::PauseRequests: the running video, unless it is of high priority.
PauseRequests(w, r) ==
  IF \E v \in r.running : ~ IsHighJob(r, v) THEN Interrupt(w) ELSE w

\* ReleaseStreams: without its streams the HDI gives the video up.
ReleaseStreams(m, v) == IF m.hal.session = "live" THEN [m EXCEPT !.ive = Drop(@, v)] ELSE m

\* A timer is left registered when normalTimeId_ no longer names it.
StartSuspendLock(m) ==
  IF m.suspend.id # 0 THEN m
  ELSE LET new == CHOOSE t \in 1 .. 2 : t \notin m.suspend.timers \/ m.suspend.timers = 1 .. 2
       IN  [m EXCEPT !.suspend.id = new, !.suspend.timers = @ \cup {new}]

StopSuspendLock(m) == [m EXCEPT !.suspend.timers = @ \ {m.suspend.id}, !.suspend.id = 0]
-----------------------------------------------------------------------------
(***************************************************************************)
(* TryDoSchedule: the root of the queue, if it waits and may run now.      *)
(* GetExecutionMode asks EventsInfo about a high priority job and the gate  *)
(* and the time left about the others.                                     *)
(***************************************************************************)
MayProcess(st, priority) ==
  IF priority = "HIGH" THEN ~ cameraOpen
  ELSE ~ st.isNeedStop /\ (st.charging \/ ~ (st.singleOver \/ st.totalOver))

\* Repository::GetJob: a failed job at the root waits again, even if it is not taken.
PendRoot(r) ==
  IF r.heap # <<>> /\ r.job[r.heap[1]].state = "FAILED"
  THEN UpdateJob([r EXCEPT !.job[r.heap[1]].state = "PENDING"], r.heap[1]) ELSE r

TryDoSchedule(m) ==
  LET root == m.repo.heap[1]
      asked == [m EXCEPT !.repo = PendRoot(@)]
      chosen == [asked EXCEPT !.starting = root, !.repo.job[root].suspend = ~ m.strategy.charging]
  IN  IF m.repo.running # {} THEN m
      ELSE IF m.repo.heap = <<>> \/ ~ Waits(m.repo, root) THEN StopSuspendLock(m)
      ELSE IF ~ MayProcess(m.strategy, m.repo.job[root].priority) THEN StopSuspendLock(asked)
      ELSE IF m.strategy.charging THEN chosen ELSE StartSuspendLock(chosen)

(***************************************************************************)
(* HandleEventChanged.  An event whose value is new re-evaluates: while a   *)
(* video runs on charge the answer is that of the charging state object,    *)
(* whose isNeedStop is TRUE by default.  An interrupt is always new: it is  *)
(* reset when it is read.                                                   *)
(***************************************************************************)
Noted(st, type, value) ==
  CASE type \in Stop -> [st EXCEPT !.stops = IF value THEN @ \cup {type} ELSE @ \ {type},
                                   !.singleOver = @ /\ ~ (type = "screen" /\ value)]
    [] type = "charging" -> [st EXCEPT !.charging = value, !.totalOver = @ /\ ~ value]
    [] type = "battery" -> [st EXCEPT !.batteryLow = value]
    [] type = "level" -> [st EXCEPT !.levelLow = value]
    [] OTHER -> st

IsNewValue(st, type, value) ==
  CASE type \in Stop -> value # (type \in st.stops)
    [] type = "charging" -> value # st.charging
    [] type = "battery" -> value # st.batteryLow
    [] type = "level" -> value # st.levelLow
    [] OTHER -> TRUE

\* Mutant of NeedStop: the battery is looked at only on charge.
NeedStop_NoBattery(st, type, running) ==
  \/ st.stops # {} \/ type = "interrupt"
  \/ st.charging /\ (running # {} \/ st.levelLow)

NeedStop(st, type, running) ==
  \/ st.stops # {} \/ type = "interrupt"
  \/ IF st.charging THEN running # {} \/ st.levelLow ELSE st.batteryLow

EventChanged(m, type, value) ==
  LET noted == Noted(m.strategy, type, value)
      stop == NeedStop(noted, type, m.repo.running)
      changed == [m EXCEPT !.strategy = [noted EXCEPT !.isNeedStop = stop]]
  IN  IF ~ IsNewValue(m.strategy, type, value) THEN [m EXCEPT !.strategy = noted]
      ELSE IF stop THEN [changed EXCEPT !.ive = PauseRequests(@, m.repo)]
      ELSE TryDoSchedule(changed)
-----------------------------------------------------------------------------
(***************************************************************************)
(* DoProcess, from SetJobRunning on: the streams, the recorder, the timer   *)
(* and the request to the HDI.  Without a session PrepareStreams and        *)
(* ProcessRequest each report an error.                                     *)
(***************************************************************************)
NotPrepared(m, v) ==
  Send([m EXCEPT !.repo.job[v].timer = TRUE],
       (IF m.hal.session = "null" THEN <<Failed(v, "NOT_READY")>> ELSE <<>>)
         \o IF m.recorder # "none" /\ m.hal.session = "null"
            THEN <<Failed(v, "NOT_READY")>> ELSE <<Failed(v, "FAILED")>>)

\* Mutant of Recording: the timer is not started.
Recording_NoTimer(m, v) == [m EXCEPT !.recorder = v]

Recording(m, v) == [m EXCEPT !.recorder = v, !.repo.job[v].timer = TRUE]

(***************************************************************************)
(* The answers.  HandleNormalSchedule charges the time of a video that was  *)
(* chosen on battery, StopTimer and StopMpeg follow.  A third NOT_READY     *)
(* since the video was last removed counts as FAILED.  Without a client the *)
(* result is cached and the job stays as it is.                             *)
(***************************************************************************)
Answered(m, v, spent) ==
  [m EXCEPT !.repo.job[v].timer = FALSE, !.recorder = "none",
            !.strategy.totalOver = @ \/ (spent /\ m.repo.job[v].suspend)]

RecordResult(m, v, what) == [m EXCEPT !.result.cache[v] = IF @ = "none" THEN what ELSE @]

CrashCount(m, v, e) ==
  IF e # "NOT_READY" THEN m.result.crash[v]
  ELSE IF m.result.crash[v] = 3 THEN 3 ELSE m.result.crash[v] + 1

IsFatal(m, v, e) == e = "FAILED" \/ (e = "NOT_READY" /\ CrashCount(m, v, e) = 3)

HandleError(m, v, e) ==
  LET fatal == IsFatal(m, v, e)
      counted == [m EXCEPT !.result.crash[v] = CrashCount(m, v, e)]
      next == IF fatal THEN "ERROR" ELSE IF e = "INTERRUPTED" THEN "PAUSE" ELSE "FAILED"
      set == [counted EXCEPT !.repo = SetJob(@, v, next)]
  IN  IF ~ HasCallback THEN RecordResult(counted, v, IF fatal THEN "fatal" ELSE "other")
      ELSE IF next = "PAUSE" THEN set ELSE Send(set, <<JobChanged>>)

HandleDone(m, v) ==
  IF ~ HasCallback THEN RecordResult(m, v, "done")
  ELSE Send([m EXCEPT !.repo = SetJob(@, v, "COMPLETED")], <<JobChanged>>)
-----------------------------------------------------------------------------
HasFeature(f) == f \in workload.features

\* Whether the time on battery was used up by the run that ends.
Spent == IF HasFeature("time") THEN BOOLEAN ELSE {FALSE}

Took(op) == cmds # <<>> /\ Head(cmds).op = op /\ starting = "none"

\* A cached result is told and forgotten, or the job is created.
AddVideo(m, v) ==
  IF m.result.cache[v] # "none" /\ HasCallback
  THEN [m EXCEPT !.result.cache[v] = "none"] ELSE [m EXCEPT !.repo = AddVideoJob(@, v)]

HandleAdd ==
  /\ Took("Add")
  /\ Become(AddVideo(Now, Head(cmds).video))
  /\ UNCHANGED <<cameraOpen, client, history>>

\* VideoSyncCommand: all of them without a session; else those the HDI has pending,
\* the others are told to be invalid and nothing changes for them.
HandleSync ==
  /\ Took("Sync")
  /\ \E pending \in SUBSET Head(cmds).videos :
       /\ hal.session = "live" \/ pending = Head(cmds).videos
       /\ \E order \in SX!SetToSeqs(pending) :
            LET add[n \in 0 .. Len(order)] == IF n = 0 THEN Now ELSE AddVideo(add[n - 1], order[n])
            IN  Become(add[Len(order)])
  /\ UNCHANGED <<cameraOpen, client, history>>

HandleRemove ==
  /\ Took("Remove")
  /\ LET v == Head(cmds).video
         restorable == Head(cmds).restorable
         ran == repo.job[v].state = "RUNNING"
         stopped == IF ran THEN Interrupt(ive) ELSE ive
         m == [Now EXCEPT !.result.crash[v] = 0, !.ive = stopped,
                          !.repo = IF Present(repo, v) THEN RemoveVideoJob(@, v, restorable) ELSE @]
     IN  /\ Become(IF restorable THEN m
                   ELSE [m EXCEPT !.hal.runningId = @ \ {v},
                                  !.ive = IF hal.session = "live" THEN Drop(@, v) ELSE @])
         /\ leaked' = IF ran THEN leaked \cup {v} ELSE leaked
         /\ trashed' = (trashed \/ (restorable /\ Present(repo, v)))
  /\ UNCHANGED <<cameraOpen, client, unheard, late, overlapped>>

HandleRestore ==
  /\ Took("Restore")
  /\ LET v == Head(cmds).video
     IN  /\ Become(IF Present(repo, v) THEN [Now EXCEPT !.repo = RestoreVideoJob(@, v)] ELSE Now)
         /\ leaked' = IF repo.job[v].state = "RUNNING" THEN leaked \cup {v} ELSE leaked
  /\ UNCHANGED <<cameraOpen, client, unheard, late, overlapped, trashed>>

HandleProcess ==
  /\ Took("Process")
  /\ LET v == Head(cmds).video
     IN  Become(IF Present(repo, v) THEN Send([Now EXCEPT !.repo = RequestJob(@, v)], <<JobChanged>>)
                ELSE Now)
  /\ UNCHANGED <<cameraOpen, client, history>>

HandleCancel ==
  /\ Took("Cancel")
  /\ LET v == Head(cmds).video
         m == IF Present(repo, v) THEN [Now EXCEPT !.repo = CancelJob(@, v)] ELSE Now
     IN  Become(IF v \in repo.running THEN [m EXCEPT !.ive = Interrupt(@)] ELSE m)
  /\ UNCHANGED <<cameraOpen, client, history>>

\* The history of an answer to v: another video runs; nobody can be told.
Heard(v) ==
  /\ late' = IF Present(repo, v) THEN late \cup (repo.running \ {v}) ELSE late
  /\ unheard' = IF Present(repo, v) /\ ~ HasCallback /\ v \in repo.running THEN unheard \cup {v} ELSE unheard
  /\ UNCHANGED <<leaked, overlapped, trashed>>

\* VideoProcessFailedCommand and VideoProcessTimeOutCommand; nothing without a job.
HandleFailed ==
  /\ Took("Failed")
  /\ \E spent \in Spent :
       LET v == Head(cmds).video
           e == Head(cmds).error
           m == ReleaseStreams(Now, v)
           unlocked == IF e = "INTERRUPTED" THEN StopSuspendLock(m) ELSE m
       IN  /\ Become(IF Present(repo, v) THEN HandleError(Answered(unlocked, v, spent), v, e) ELSE m)
           /\ Heard(v)
  /\ UNCHANGED <<cameraOpen, client>>

\* StopMpeg fails when nothing is recorded, or when the file cannot be finished.
HandleSuccess ==
  /\ Took("Success")
  /\ \E spent \in Spent, finished \in BOOLEAN :
       LET v == Head(cmds).video
           m == ReleaseStreams(Now, v)
           stopped == Answered(m, v, spent)
       IN  /\ ~ finished => HasFeature("media")
           /\ Become(IF ~ Present(repo, v) THEN m
                     ELSE IF recorder = "none" \/ ~ finished THEN HandleError(stopped, v, "FAILED")
                     ELSE HandleDone(stopped, v))
           /\ Heard(v)
  /\ UNCHANGED <<cameraOpen, client>>

HandleJobChanged ==
  /\ Took("JobChanged")
  /\ Become(TryDoSchedule(Now))
  /\ UNCHANGED <<cameraOpen, client, history>>

HandleEvent ==
  /\ Took("Event")
  /\ Become(EventChanged(Now, Head(cmds).type, Head(cmds).value))
  /\ UNCHANGED <<cameraOpen, client, history>>

\* OnSessionDied: every video ever handed to the session and not removed since fails.
HandleVideoDied ==
  /\ Took("VideoDied")
  /\ \E ids \in SX!SetToSeqs(hal.runningId) :
       Become(Send(StopSuspendLock([Now EXCEPT !.hal.session = "null"]),
                   [n \in 1 .. Len(ids) |-> Failed(ids[n], "NOT_READY")] \o <<Event("hal", TRUE)>>))
  /\ UNCHANGED <<cameraOpen, client, history>>

HandleAddSession ==
  /\ Took("AddSession")
  /\ client' = [client EXCEPT !.mapped = Head(cmds).info]
  /\ Become(EventChanged(Now, "media", FALSE))
  /\ UNCHANGED <<cameraOpen, history>>

HandleDeleteSession ==
  /\ Took("DeleteSession")
  /\ client' = [client EXCEPT !.mapped = "none"]
  /\ Become(EventChanged(Now, "media", TRUE))
  /\ UNCHANGED <<cameraOpen, history>>

\* No answer or timeout of v is queued.
Unanswered(v) == \A k \in 1 .. Len(cmds) : ~ (cmds[k].op \in {"Success", "Failed"} /\ cmds[k].video = v)

\* The second half of the handler that chose a job.
DoProcess ==
  /\ starting # "none"
  /\ LET v == starting
         m == [Current EXCEPT !.starting = "none", !.repo = SetJob(@, v, "RUNNING")]
         recording == Recording(m, v)
     IN  \/ /\ hal.session # "live" \/ HasFeature("media")
            /\ Become(NotPrepared(m, v))
            /\ UNCHANGED unheard
         \/ /\ hal.session = "live" /\ HasFeature("media")  \* StartMpeg fails
            /\ Become(HandleError([m EXCEPT !.recorder = v], v, "FAILED"))
            /\ unheard' = IF HasCallback THEN unheard ELSE unheard \cup {v}
         \/ /\ hal.session = "live"
            /\ cameraOpen \/ HasFeature("media")  \* or the HDI refuses streams or video
            /\ Become(Send(recording, <<Failed(v, "INTERRUPTED")>>))
            /\ UNCHANGED unheard
         \/ /\ hal.session = "live" /\ ~ cameraOpen
            /\ Become([recording EXCEPT !.hal.runningId = @ \cup {v}, !.ive.work = @ \cup {v}])
            /\ UNCHANGED unheard
  /\ late' = late \cup {v \in {starting} : ~ Unanswered(v)}
  /\ UNCHANGED <<cameraOpen, client, leaked, overlapped, trashed>>

CommandThread ==
  \/ HandleAdd \/ HandleSync \/ HandleRemove \/ HandleRestore \/ HandleProcess \/ HandleCancel
  \/ HandleFailed \/ HandleSuccess \/ HandleJobChanged \/ HandleEvent \/ HandleVideoDied
  \/ HandleAddSession \/ HandleDeleteSession \/ DoProcess
-----------------------------------------------------------------------------
(***************************************************************************)
(* The timer thread.                                                       *)
(***************************************************************************)
Queue(c) == cmds' = Append(cmds, c)
QueueUrgent(c) == cmds' = <<c>> \o cmds

commandState == <<repo, result, recorder, strategy, starting>>

TimerExpires(v) ==
  /\ suspend.out = "idle" /\ repo.job[v].timer
  /\ HasFeature("late") \/ Unanswered(v)
  /\ repo' = [repo EXCEPT !.job[v].timer = FALSE]
  /\ Queue(Failed(v, "TIMEOUT"))
  /\ UNCHANGED <<result, hal, ive, recorder, strategy, suspend, starting, cameraOpen, client, history>>

OrphanExpires(v) ==
  /\ suspend.out = "idle" /\ v \in repo.orphans
  /\ repo' = [repo EXCEPT !.orphans = @ \ {v}]
  /\ Queue(Failed(v, "TIMEOUT"))
  /\ UNCHANGED <<result, hal, ive, recorder, strategy, suspend, starting, cameraOpen, client, history>>

\* OnTimerOut: clears normalTimeId_, whichever timer it names by now, closes the time
\* until the screen is next on, and interrupts what runs.
SuspendFires ==
  /\ suspend.out = "idle" /\ HasFeature("time")
  /\ \E t \in suspend.timers :
       suspend' = [suspend EXCEPT !.timers = @ \ {t}, !.out = "fired"]
  /\ UNCHANGED <<commandState, hal, ive, cameraOpen, client, cmds, history>>

SuspendCleared ==
  /\ suspend.out = "fired"
  /\ suspend' = [suspend EXCEPT !.id = 0, !.out = "cleared"]
  /\ UNCHANGED <<commandState, hal, ive, cameraOpen, client, cmds, history>>

SuspendCounted ==
  /\ suspend.out = "cleared"
  /\ suspend' = [suspend EXCEPT !.out = "counted"]
  /\ strategy' = [strategy EXCEPT !.singleOver = TRUE]
  /\ UNCHANGED <<repo, result, recorder, starting, hal, ive, cameraOpen, client, cmds, history>>

\* Mutant of SuspendPauses: nothing is interrupted.
SuspendPauses_Nothing ==
  /\ suspend.out = "counted"
  /\ suspend' = [suspend EXCEPT !.out = "idle"]
  /\ UNCHANGED <<commandState, hal, ive, cameraOpen, client, cmds, history>>

SuspendPauses ==
  /\ suspend.out = "counted"
  /\ suspend' = [suspend EXCEPT !.out = "idle"]
  /\ ive' = PauseRequests(ive, repo)
  /\ overlapped' = overlapped \cup ({starting} \ {"none"})
  /\ UNCHANGED <<commandState, hal, cameraOpen, client, cmds, leaked, unheard, late, trashed>>

TimerThread ==
  \/ \E v \in Video : TimerExpires(v) \/ OrphanExpires(v)
  \/ SuspendFires \/ SuspendCleared \/ SuspendCounted \/ SuspendPauses
-----------------------------------------------------------------------------
(***************************************************************************)
(* The client, the HDI and the events.  Bounds: no call and no event while  *)
(* maxCmds commands wait, and maxCalls of them in a behaviour.             *)
(***************************************************************************)
Environment(f) == HasFeature(f) /\ Len(cmds) < workload.maxCmds
ClientKnows(v) == client.alive /\ v \in workload.videos /\ Len(cmds) < workload.maxCmds

quiet == <<commandState, suspend, history>>

ClientAdds(v) ==
  /\ ClientKnows(v)
  /\ Present(repo, v) => HasFeature("readd")
  /\ Queue([op |-> "Add", video |-> v])
  /\ UNCHANGED <<quiet, hal, ive, cameraOpen, client>>

ClientRemoves(v) ==
  /\ ClientKnows(v) /\ HasFeature("remove")
  /\ \E restorable \in BOOLEAN :
       /\ restorable => HasFeature("restore")
       /\ Queue([op |-> "Remove", video |-> v, restorable |-> restorable])
  /\ UNCHANGED <<quiet, hal, ive, cameraOpen, client>>

ClientCalls(v, op, feature) ==
  /\ ClientKnows(v) /\ HasFeature(feature)
  /\ Queue([op |-> op, video |-> v])
  /\ UNCHANGED <<quiet, hal, ive, cameraOpen, client>>

\* BeginSynchronize, AddVideo of some videos, EndSynchronize.
ClientSynchronizes ==
  /\ Environment("sync") /\ client.alive
  /\ \E videos \in SUBSET workload.videos : Queue([op |-> "Sync", videos |-> videos])
  /\ UNCHANGED <<quiet, hal, ive, cameraOpen, client>>

ClientDies ==
  /\ Environment("client") /\ client.alive
  /\ client' = [client EXCEPT !.alive = FALSE, !.callback = {}]
  /\ QueueUrgent([op |-> "DeleteSession"])
  /\ UNCHANGED <<quiet, hal, ive, cameraOpen>>

\* CreateDeferredVideoProcessingSession maps a new info at once or reuses the one mapped.
ClientConnects ==
  /\ HasFeature("client") /\ ~ client.alive
  /\ \E n \in Info :
       /\ IF client.mapped = "none"
          THEN \A k \in 1 .. Len(cmds) : cmds[k].op = "AddSession" => cmds[k].info # n
          ELSE n = client.mapped
       /\ client' = [alive |-> TRUE, mapped |-> n, callback |-> {n}]
       /\ QueueUrgent([op |-> "AddSession", info |-> n])
  /\ UNCHANGED <<quiet, hal, ive, cameraOpen>>

IveDone(v) ==
  /\ v \in ive.work /\ (HasFeature("late") \/ Unanswered(v))
  /\ ive' = Drop(ive, v)
  /\ Queue([op |-> "Success", video |-> v])
  /\ UNCHANGED <<quiet, hal, cameraOpen, client>>

IveFails(v) ==
  /\ v \in ive.work /\ (HasFeature("late") \/ Unanswered(v))
  /\ \E e \in workload.errors \cup (IF ive.aborted THEN {"INTERRUPTED"} ELSE {}) : Queue(Failed(v, e))
  /\ ive' = Drop(ive, v)
  /\ UNCHANGED <<quiet, hal, cameraOpen, client>>

\* The HDI process dies; the session's death recipient sends VideoDiedCommand.
IveDies ==
  /\ Environment("death") /\ ive.alive
  /\ ive' = [alive |-> FALSE, work |-> {}, aborted |-> FALSE, started |-> FALSE]
  /\ hal' = [hal EXCEPT !.session = IF @ = "live" THEN "dead" ELSE @]
  /\ IF hal.session = "live" THEN Queue([op |-> "VideoDied"]) ELSE UNCHANGED cmds
  /\ UNCHANGED <<quiet, cameraOpen, client>>

IveRestarts ==
  /\ ~ ive.alive
  /\ ive' = [ive EXCEPT !.alive = TRUE, !.started = TRUE]
  /\ UNCHANGED <<quiet, hal, cameraOpen, client, cmds>>

\* OnServiceChange: ignored while the session is not null.
ServiceStarted ==
  /\ ive.started
  /\ ive' = [ive EXCEPT !.started = FALSE]
  /\ IF hal.session = "null"
     THEN hal' = [hal EXCEPT !.session = "live"] /\ Queue(Event("hal", FALSE))
     ELSE UNCHANGED <<hal, cmds>>
  /\ UNCHANGED <<quiet, cameraOpen, client>>

\* EventsInfo knows of the camera before the event is handled.
CameraChanges ==
  /\ Environment("camera")
  /\ cameraOpen' = ~ cameraOpen
  /\ Queue(Event("camera", ~ cameraOpen))
  /\ UNCHANGED <<quiet, hal, ive, client>>

OtherEvent ==
  /\ \E type \in {"screen", "thermal", "photo", "charging", "battery", "level", "interrupt"}, value \in BOOLEAN :
       /\ Environment(type)
       /\ IsNewValue(strategy, type, value) /\ (type = "interrupt" => value)
       /\ Queue(Event(type, value))
  /\ UNCHANGED <<quiet, hal, ive, cameraOpen, client>>

\* What the pipeline does by itself, and what is done to it.
Inside ==
  \/ CommandThread \/ TimerThread \/ IveRestarts \/ ServiceStarted \/ ClientConnects
  \/ \E v \in Video : IveDone(v) \/ IveFails(v)

Outside ==
  \/ \E v \in Video :
       \/ ClientAdds(v) \/ ClientRemoves(v)
       \/ ClientCalls(v, "Restore", "restore") \/ ClientCalls(v, "Process", "request")
       \/ ClientCalls(v, "Cancel", "cancel")
  \/ ClientSynchronizes \/ ClientDies \/ IveDies \/ CameraChanges \/ OtherEvent

Next ==
  /\ \/ Inside /\ UNCHANGED calls
     \/ calls < workload.maxCalls /\ Outside /\ calls' = calls + 1
  /\ UNCHANGED workload

(***************************************************************************)
(* The command thread and the timer thread do not stop; a registered timer  *)
(* expires.  The HDI need not answer.  The disjunction is                   *)
(* WF_pipeline(CommandThread): every command has a handler that can take it. *)
(***************************************************************************)
Fairness == /\ []<>(cmds = <<>> /\ starting = "none") \/ []<><<CommandThread>>_pipeline
            /\ WF_pipeline(TimerThread)

Spec == Init /\ [][Next]_vars /\ Fairness
-----------------------------------------------------------------------------
(***************************************************************************)
(* HasRunningJob decides whether anything is scheduled: runningSet_ holds   *)
(* exactly the RUNNING videos.  Removing or restoring a video that runs     *)
(* leaves its id there (leaked), and nothing is ever scheduled again.       *)
(***************************************************************************)
RunningSetAgrees ==
  /\ \A v \in Video \ leaked : v \in repo.running <=> repo.job[v].state = "RUNNING"
  /\ Cardinality(repo.running) <= 1

(***************************************************************************)
(* An ordinary video that the HDI works on, on battery, is watched by the   *)
(* timer of the single time (named or not), or OnTimerOut is under way, or   *)
(* the HDI has been told to stop.  Excepted: a video that was being started  *)
(* when the time ran out (StartSuspendLock saw the id OnTimerOut was about   *)
(* to clear), one during which another's late answer was handled, and one    *)
(* that was removed or restored while it ran: a second removal makes it      *)
(* ordinary again and interrupts nothing, for it is no longer RUNNING.       *)
(***************************************************************************)
BatteryIsWatched ==
  \A v \in (ive.work \cap repo.running) \ (late \cup overlapped \cup leaked) :
    repo.job[v].suspend /\ ~ IsHighJob(repo, v) =>
      suspend.timers # {} \/ suspend.out # "idle" \/ ive.aborted

Started(v) == starting' = v /\ starting # v

(***************************************************************************)
(* An ordinary video is chosen only when no state object stops it and, on   *)
(* battery, there is time left: the gate that is computed when an event     *)
(* comes still says what the state objects say when the job is chosen.      *)
(***************************************************************************)
GateRespected ==
  [][\A v \in Video :
       Started(v) /\ ~ IsHighJob(repo, v) =>
         /\ strategy'.stops = {}
         /\ IF strategy'.charging THEN ~ strategy'.levelLow
            ELSE ~ strategy'.batteryLow /\ ~ strategy'.singleOver /\ ~ strategy'.totalOver]_vars

(***************************************************************************)
(* The video chosen is the best of those that wait: no request is passed    *)
(* over, nor a video that was interrupted.  Moving one to the recycle bin    *)
(* leaves the heap as it was, so nothing is promised after that.            *)
(***************************************************************************)
BestFirst ==
  [][\A v \in Video : Started(v) /\ ~ trashed => \A u \in Video \ {v} : ~ IsBetter(repo, u, v) \/ ~ Present(repo, u)]_vars

(***************************************************************************)
(* A video that was delivered is not processed again, unless it is removed   *)
(* or restored, a timeout was queued behind its answer, the answer of an     *)
(* earlier run comes after that of a later one (late), or the HDI died:      *)
(* runningId_ still names it, and it is reported NOT_READY.                  *)
(***************************************************************************)
DeliveredStays ==
  [][\A v \in Video :
       repo.job[v].state = "COMPLETED" /\ repo'.job[v].state # "COMPLETED" /\ v \notin late =>
         /\ cmds # <<>>
         /\ \/ Head(cmds).op \in {"Remove", "Restore"} /\ Head(cmds).video = v
            \/ Head(cmds).op = "Failed" /\ Head(cmds).video = v /\ Head(cmds).error \in {"TIMEOUT", "NOT_READY"}]_vars

(***************************************************************************)
(* A video does not run for ever: it is answered, fails or times out.  Only  *)
(* one removed or restored while it ran, or answered while no client was     *)
(* there, stays in runningSet_.                                              *)
(***************************************************************************)
RunEnds ==
  \A v \in Video : v \in repo.running ~> v \notin repo.running \/ v \in leaked \cup unheard
=============================================================================
