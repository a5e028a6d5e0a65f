# A formal model of the OpenHarmony camera framework's services

This directory specifies, in TLA+, the parts of `multimedia_camera_framework` that decide
*who* may have a camera, *when* and *in which order* something happens, and checks them: TLC on
small instances, TLAPS for every instance. It covers the deferred processing service
(`src/services/deferred_processing_service`, "DPS") for photos and for videos, the thread pool
and task groups under it (`src/common/src/task_manager`), and, of the camera service
(`src/services/camera_service`), the camera devices with their manager and the capture sessions
with their stream operators.

## 1. Inventory

### 1.1 Deferred processing service

A client, the media library, registers low quality photos and videos. The service hands them, one
photo and one video at a time, to a processing HDI when the system is idle, or as soon as possible when
the user opens one, and returns the result.

| component | state | operations | correct when |
|---|---|---|---|
| **Photo job queue** (`photo_job_queue.cpp`, also the videos') | `heap_`, `indexMap_`, `catchMap_` | Push, Pop, Remove, Update, UpdateById, Peek | the root is a best job; nothing is lost or duplicated |
| **Photo jobs and repository** (`photo_job_repository.cpp`, `deferred_photo_job.*`, `state_machine.cpp`) | the jobs (state, priority, `createTime_`, timer id), the offline queue, `backgroundJobMap_`, `runningJob_` | add, remove (restorable or final), restore, request, cancel; the state hooks | heap and maps hold the same jobs; `runningJob_` is the set of running jobs; the root waits if anybody does |
| **Photo processor, result cache, controller** (`deferred_photo_processor.cpp`, `deferred_photo_result.cpp`, `deferred_photo_controller.cpp`) | `highImages_`, `jobCrashCount_`, `cacheMap_`, `cachePhotoId_`, `timeoutCount_`, `scheduleState_` | the commands of the session and of the HDI, the error policy, timers, TryDoSchedule | every run ends; a result is delivered or kept; three crashes give a photo up; the best photo starts |
| **Photo strategy centre** (`photo_strategy_center.cpp`, `photo_*_state.cpp`, `interrupt_state.cpp`) | one value per kind of event, trailing timer and remaining time, `isNeedStop_` | HandleEventChanged, GetJob | nothing starts that the present conditions forbid |
| **Photo post processor** (`photo_post_processor.cpp`, `photo_process_result.cpp`) | `photoSession_`, `runningId_`, `removeNeededList_` | Process, Remove, Interrupt, Reset, OnServiceChange, OnSessionDied | a photo given to an HDI that dies fails; the session comes back |
| **Photo session** (`deferred_photo_processing_session.cpp`, `session_manager.cpp`) | `photoSessionInfos_`, `callback_`, `inSync_`, `imageIds_` | client calls, connection, death, synchronisation | no call is lost or applied to another session |
| **Video scheduling** (`schedule/video_processor`) | jobs, heap, `runningSet_`, cached results, crash counts, ten state objects, the time on battery and its timer | as for photos, with pause, recycle bin, and processing on charge or for a limited time on battery | one video at a time, the best first, only when it may, on battery only while watched |
| **Video session and post processor** (`video_session`, `video_post_processor.cpp`) | the HDI session, `runningId_`, `mediaManagerProxy_` | requests, pauses, removals, sync; death and restart | delivered videos stay delivered |
| **Command server** (`command_server_impl.cpp`) | the deque of commands | DPS_SendCommand (back), DPS_SendUrgentCommand (front) | one handler at a time, in queue order |
| **Events monitor** (`events_monitor.cpp`, `events_info.cpp`) | camera state, media library busy, NeedTrailing | Notify... | every change of a condition reaches the strategy centre |

Every client call, HDI callback, expired timer and system event becomes a command on one deque
served by one thread (`MAX_THREAD_NUM = 1`), so handlers are atomic with respect to each other. What
interleaves is the *order of the commands*: two urgent commands reverse, and between something
outside (the HDI finishes, the camera opens) and its command lies everything queued before. Some
state lives outside that thread: `EventsInfo` is updated at once and read by handlers;
`timeoutCount_` is raised in the timer thread, in which the whole `OnTimerOut` of the video
controller runs; `OnServiceChange` runs in the HDI listener's thread; `callback_` is cleared in the
death recipient's.

### 1.2 Thread pool and task groups

| component | state | operations | correct when |
|---|---|---|---|
| **Thread pool** (`thread_pool.cpp`) | `tasks_`, `isStopped_`, `mutex_`, `taskCv_`, the workers | Submit, WorkerLoop, GetTask, the destructor | no wake-up is lost; each task is run once; the destructor returns |
| **Task groups** (`task_group/*.cpp`, `task_registry.cpp`, `task_manager.cpp`) | `que_`, `inflight_`, the registry's map | SubmitTask, OnTaskComplete, CancelAllTasks, registration | a serial group runs one task at a time, also after a cancellation |

Several threads are inside at once, so here a step of the model lies between two acquisitions of a lock.

### 1.3 Camera service

| component | state | operations | correct when |
|---|---|---|---|
| **Camera device manager** (`hcamera_device_manager.cpp`) | `activeCameras_`, `pidToCameras_` | GetConflictDevices and the table of concurrent cameras, AddDevice, RemoveDevice | cameras in conflict are not open together, the cost stays within the limit |
| **Camera devices, host manager, privacy** (`hcamera_device.cpp`, `hcamera_host_manager.cpp`, `camera_privacy.cpp`) | `isOpenedCameraDevice_`, `cameraDevices_`, the registered uses of the permission; `g_deviceOpenCloseMutex_`, `opMutex_`, `mapMutex_`, the host manager's `mutex_` | Open, Close, eviction, permission callbacks, a host that goes and returns | the three records of who has a camera agree; uses end; locks are let go |
| **Capture sessions** (`hcapture_session.cpp`, `hcapture_session_wrapper.cpp`, `hcamera_session_manager.cpp`) | `currentState_`, `cameraDevice_`, the group of each client | BeginConfig ... CommitConfig, Start, Stop, Release, preemption, the client's death | a released session holds nothing; the group accounts for the sessions |
| **Stream operators, streams** (`hstream_operator*.cpp`, `hstream_common.cpp`) | the manager's map, the outputs, the HDI operator each stream keeps | link, create, unlink, release | a committed session's outputs are linked to its open device |

Binder threads of several clients, an evicting open, permission callbacks, the HDI's threads and
death recipients enter these objects under half a dozen locks; again a step lies between two
acquisitions.

### 1.4 The rest

Camera timer (only its promise is used), buffers and descriptors, reports, moving photo and movie
file pipelines, dynamic libraries, the native framework with its N-API, ANI and CJ bindings, IPC
stubs: section 9 says why they are not modelled. `PROJECT.json` lists every component
with its files and the hazards with their lines.

## 2. Modules

| module | kind | what it is |
|---|---|---|
| `PhotoJobQueue` | operators | the binary heap on a sequence and a comparison; used by both pipelines |
| `PhotoJobQueueSpec` | component | the heap with clients that push, change, remove and pop |
| `PhotoStrategyCenter` | operators | the photo strategy centre: event handling, trailing, the cached verdict |
| `DeferredPhoto` | component | the photo pipeline of 1.1, composed of the two operator modules |
| `PhotoLifecycle` | abstract specification | what the photo pipeline promises: one photo at a time, a result told or kept, without queues, commands, timers or the HDI. `DeferredPhoto` implements it (`ImplementsLifecycle`, a refinement mapping from jobs, `answer` and the cache) |
| `DeferredVideo` | component | the video pipeline, with the timer thread beside the command thread |
| `TaskPool` | component | the thread pool and one user of it: the command server, a serial or a parallel group. It justifies the single deque of the pipelines |
| `CameraDevices` | component | opening, closing and evicting devices: devices, device manager, host manager and privacy |
| `CaptureSession` | component | the sessions of one client with their operators, devices and group. It takes a device's open as one step, which `CameraDevices` takes apart |
| `PhotoJobQueue_proofs`, `PhotoJobQueueSpec_proofs` | proofs | what the heap's operations return; the root is best and nothing is lost |
| `DeferredPhoto_proofs` | proofs | types, the running job and the gates of the photo pipeline |
| `DeferredPhotoLifecycle_proofs` | proofs | that it implements `PhotoLifecycle`; its offline queue: no photo is lost from it and none that waits is hidden; what the client is owed while it stays |
| `DeferredVideo_proofs` | proofs | types, `runningSet_`, the gate, the queue and the watch on the battery of the video pipeline |
| `TaskPool_proofs` | proofs | types, serial groups, wake-ups and the place of each task of the pool |
| `CameraDevices_proofs` | proofs | who has which camera: types, agreement, uses, conflicts, costs |
| `CaptureSession_proofs` | proofs | types, listeners, locks, links, the group, releases and the client's death; all proofs in section 7 |
| `MC...` | | instances for TLC; the cfg files give the constants |

Every component takes a constant `Workload`: a set of records that say which photos, devices, calls
and faults a behaviour has. The initial state picks one and never changes it. So one run checks its
properties under several environments, each small enough to be explored in depth; what one leaves
out another has. Symmetry (over photos and session infos) is used in the photo runs without
liveness; these are interchangeable model values.

### 2.1 `DeferredPhoto`

| variable | code |
|---|---|
| `repo.job[i]` | the `DeferredPhotoJob` of image `i`: `curState`, `curPriority_`, and whether `timerId_` is set; `NoJob` when the repository has none |
| `repo.before`, `repo.heap`, `repo.running` | the order of `createTime_`, `offlineJobQueue_`, `runningJob_` |
| `result.high/crash/cache/bp/timeouts` | `highImages_`, `jobCrashCount_`, `cacheMap_`, `cachePhotoId_`, `timeoutCount_` |
| `hal.session` | `photoSession_`: null, live, or dead (the process is gone, the command that clears it has not run) |
| `hal.next`, `hal.runningId`, `hal.removeNeeded` | the session OnServiceChange holds between RemoveNeedJbo and SetPhotoSession; `runningId_`; `removeNeededList_` |
| `ive` | external: the HDI process, the photos it works on, whether it was told to interrupt, an undelivered start notification |
| `strategy`, `events` | the seven state objects and `isNeedStop_`; `EventsInfo` |
| `client` | is the media library alive; the `PhotoSessionInfo` SessionManager maps the user to; the infos whose `callback_` is set |
| `cmds`, `schedule` | the deque of the command server; `scheduleState_` |
| `orphans`, `answer` | history: photos deleted while their timer was registered; what the client was told of a photo |

Each command has one action, `Handle...`, that takes the head of `cmds` and makes the whole
handler's changes, the scheduling it triggers included: it builds the state `m` step by step with
one operator per function of the code (`DoProcess`, `DeRecordResult`, `EventChanged`,
`TryDoSchedule`...), in the order of the calls, and `Become(m)` makes it the next state. The other
threads queue commands and change the state they own. `ChangeStateTo` applies the hooks of the states:
it leaves and enters `RUNNING` in `runningJob_` and updates the heap; entering the state a job is in
does nothing.

### 2.2 `DeferredVideo`

The same style: `repo` (jobs, order, heap, `runningSet_`), `result`, `hal`, `ive`, `strategy`, `client`,
`cmds`. It differs where the code does:

* `starting` splits the scheduling decision (`TryDoSchedule` has chosen a job; `DoProcess` has not yet
  set it running), and `suspend.out` splits `OnTimerOut` into its four steps, because the timer
  thread and the command thread meet there without a lock.
* `recorder` is the video `mediaManagerProxy_` writes: an answer of another video stops it all the same.
* `strategy.stops` is the set of state objects that say stop; charging, battery, level and the two
  times on battery are fields of their own, for their handlers differ.
* `RemoveVideoJob` and `RestoreVideoJob` do not touch `runningSet_` and, when restorable, not the
  heap: this is what the code does (section 6).
* `calls` bounds the calls and events from outside (`maxCalls`), answers and timeouts excepted.

### 2.3 `TaskPool`

`tasks` and `isStopped` are the pool's; `pc`, `job` say where each worker is in `WorkerLoop` and
`GetTask` and what it took; `sub` how far each submitting thread is (flag read, pushed, notified);
`que`, `inflight`, `registered` are the group's; `teardown` is the destructor. A worker that found
no task is `falling` asleep, with the mutex, before it is `asleep`, without it. Conditions
may wake for no reason (`WakeSpuriously`). A task that runs may submit others. A group lives while the
registry or a running task holds it; the tasks queued in one that dies are dropped.

### 2.4 `CameraDevices`

`op[t]` is what thread `t` is doing, `lock` who holds `g_deviceOpenCloseMutex_`, and the other locks
are derived from `op`. `open`, `holders` and `hostMap` are the three records of who has a
camera: the device's flag, the manager's `activeCameras_`, the host manager's `cameraDevices_`. An
open passes CanOpenCamera (which evicts), HandlePrivacyBeforeOpenDevice, the HDI, AddDevice and the
registrations; a close passes the lock, the flag, privacy and the host. `workload.priced` selects
between an HDI that tells costs and conflicts and the older table of concurrent cameras. Where the code sorts
smart pointers instead of priorities, the model takes every order.

The HDI service dies first (`HostDies`, `host.up`): from then on an open fails, and what is asked for costs and
conflicts gets no answer, so that CanOpenCamera turns to the table and AddDevice records a holder without
either (`unpriced`, read through `CostHeld` and `IsConflicting`). Later the host's thread notices (`HostStops`)
and removes the host, camera by camera, with the mutex: `RemoveNext` reports the camera unavailable, which closes the
device found in `cameraDevices_`; then `RemoveResourceWhenHostDied` searches the map a second time,
whatever the first search found, and takes a device that registered between the two out of the
lists without closing it (`stranded`). `lost` are the open devices whose HDI service is gone; its next process
(`HostStarts`) opens their cameras again without knowing of them.

### 2.5 `CaptureSession`

`session` (state, input device, whether the client holds the proxy), `operator` (listed in the
manager's map, HDI operator, outputs), `linked` (the HDI operator each stream object keeps), `device` (open, listener,
callback), `group`, `gate` (`g_deviceOpenCloseMutex_`), `letGo` (the HDI keeps an operator of a
closed device). A session has only a weak pointer to its operator: `HasOperator` says who else keeps it
alive, and every handler that promotes the pointer has a branch for null. `Step(t)` is the next step of
a call under way, `Call(t)` the start of one; the evictor closes devices, the reaper deals with the client's death.

## 3. Abstractions

Common: names, metadata, sizes, formats, reports and log lines are left out; no property tells them
apart. A clock is an order (`before`) or a flag (a timer is registered; the trailing time or the time on battery
is used up), and how much is left is nondeterministic.

* **Photos.** A result is *image* or *error*; `createTime_` is a strict total order (it is in
  milliseconds, and equal times differ in the last criterion only); orphaned timers are remembered one per photo;
  one user, always the current one; the death of the client clears `callback_` and queues
  DeleteSession in one step. The HDI may fail, finish or die at any moment and answer a photo after
  its removal; `NOT_READY` arises only from its death, `INTERRUPTED` only after an interrupt.
* **Videos.** Also: temporary files, storage reports and progress are left out; a failure of the media
  part is nondeterministic, and so is one of the HDI's CreateStreams, CommitStreams and ProcessVideo, which the
  code treats alike (`video_post_processor.cpp:247-265`); `ReleaseStreams` makes the HDI give the video up; `removeNeededList_` is left
  out because nothing ever hands it to the HDI for videos; the HDI's answer to a synchronisation is any
  subset of the videos.
* **Task pool.** One group per pool. Delayed groups, which sit on the timers, are left out, as is the
  case of a task that holds the last reference of its `AvcodecTaskManager` and would destroy the pool
  from the pool's own worker.
* **Camera devices.** The priority of system processes, target concurrency types, peer
  devices (`stateOfRgmCamera_`), shared devices, prelaunch and the remote client's exemption from
  privacy are left out, as are plug-in cameras, for which a question of the cost that fails gives a default
  (`hcamera_device.cpp:2044`); `pidToCameras_` is derived from the holders; that the HDI refuses to open a camera that
  is open is external. The host that is removed has the cameras of the workload's devices (`HostCameras`).
* **Sessions.** Dynamic configuration (system applications), offline streams, `isNeedCommitting_`, shared and
  multi-camera sessions, PC's AddSessionForPC, moving photo and sketch streams, secure cameras and colour
  spaces are left out. A stream belongs to one session; creating and adding a session are one step,
  as are creating and committing its streams; the limit of the group is fixed per workload.
  A data race on a smart pointer (`LinkInput` against `Release`) is the choice of its two defined outcomes.

## 4. Runs

| run | instance | what it shows |
|---|---|---|
| `queue` | 7 jobs, 4 ranks | `PeekIsBest`, `NoJobLost` for every sequence of operations |
| `photos` | 2 photos with requests and timeouts; 2 with removals and fatal errors; 1 offline and 1 background photo with everything; 2 with an HDI that dies | `TypeOK`, `RunningJobs`, `RunningIsWatched`, `NoResultLost`, `QueueHoldsJobs`, `NoHiddenWork` |
| `order` | 3 photos with requests; 2 with an HDI that dies, 1 that is also requested | `HighestPriorityFirst`, `CrashingPhotoIsGivenUp` |
| `gates` | 2 photos and a library that is slow, dies, returns; 1 photo with reversed urgent commands, or with all events, or with removals, timeouts and fatal errors | `CacheGate`, `GateRespected`, `ImplementsLifecycle` |
| `progress` | 2 photos; an offline and a background photo; `FairSpec` | `RunEnds` |
| `task_pool` | 2 workers, 1 outside thread; 3 tasks in a serial group, 2 commands, 2 tasks in a parallel group; `FairSpec` | `NoLostWakeup`, `TaskIsSomewhere`, `SerialOneAtATime`, `SubmittedRuns`, `ShutdownEnds` |
| `camera_devices` | 2 processes, 3 cameras, 4 devices in ten workloads; `FairSpec` | `HoldersAgree`, `ConflictFree`, `CostWithinLimit`, `UsageEnds`, `LocksAreLetGo` |
| `capture_session` | `Preempted` (limit 1, 2 sessions, an evictor), `TwoThreads` (one session, permission lost, failures), `Sharing` (two sessions, one camera), `Dying` (everything, then the client's death) | `ReleasedHoldsNothing`, `ListenerAgrees`, `CommittedIsLinked`, `GroupAccounts`, `DeathLeavesNothing`, `NoDeadlock` |
| `video` | up to 3 videos in eleven workloads; fairness in `Spec` | `TypeOK`, `RunningSetAgrees`, `BatteryIsWatched`, `GateRespected`, `BestFirst`, `DeliveredStays`, `RunEnds` |
| `lowered_order`, `cached_error`, `lost_release` | | one finding each, section 6 |

**Bounds.** `maxCmds` is the number of queued commands from which the *environment* sends no more;
answers, timeouts, and what handlers send are never held back, so queues of four and more arise with
`maxCmds` 1. Two reversed urgent commands need 2. `maxCalls` (videos) and `MaxSessions` are histories
long enough for each hazard: the mutants and the exemptions below were each reached well within them. Two photos
are enough for invariants that relate one photo that runs or is held back to one other; priorities
need three (one that runs, one that changes behind it, one that should win). Seven jobs are three full
levels of the heap, so the job a removal moves has a subtree on both sides. Two workers are the
least for a wake-up that goes to the wrong one, three serial tasks the least with one running, one next
and one behind. Three cameras are the least where a request conflicts with two holders. The theorems of
section 7 show that for `PeekIsBest` and `NoJobLost` of the heap, for `TypeOK`, `RunningJobs`, `CacheGate`,
`GateRespected`, `ImplementsLifecycle`, `QueueHoldsJobs` and `NoHiddenWork` of the photos (and, under the hypotheses
stated in 7.1, `HighestPriorityFirst`, `NoResultLost`, `RunningIsWatched` and `CrashingPhotoIsGivenUp`), for every safety property of the
videos, for `TypeOK`, `SerialOneAtATime`, `NoLostWakeup` and
`TaskIsSomewhere` of the pool, for `TypeOK`, `HoldersAgree`, `ConflictFree`, `CostWithinLimit` and
`UsageEnds` of the devices, and for `TypeOK`, `ReleasedHoldsNothing`, `ListenerAgrees`,
`CommittedIsLinked`, `GroupAccounts` and `DeathLeavesNothing` of the sessions, the bounds do not matter.

**Exemptions.** Where the code breaks a property in one identified way, the property names that way
by a history variable and is checked for all others, so that the run stays a check of the rest. Each exemption was
seen to be needed (without it TLC finds the violation) and is described in section 6:
`late`, `overrun` (task pool); `overlap`, `via`, `spared`, `unpriced`, `stranded`, `refused`, `Stuck` (devices); `shared`,
`crossed`, `late`, `skipped`, `lost`, `inFlight` (sessions); `leaked`, `unheard`, `late`,
`overlapped`, `trashed` (videos).

**Mutants.** Every property has one: a definition with a plausible slip (`ChangeStateTo_NoUpdate` is
`ChangeStateTo` that forgets to update the heap, and so on, each beside the definition it replaces) that makes
the run fail.

**Deadlock** is checked in the photo and queue runs, where something can always be added or handled.
The others may really stop (a destroyed pool; devices when the workload is exhausted; a dead client; no
calls left), so `CHECK_DEADLOCK FALSE`; `LocksAreLetGo`, `NoDeadlock`, `ShutdownEnds` and `SubmittedRuns`
say what must not stop.

## 5. Fairness

* **Photos and videos**: the command thread runs while there are commands (written as "the queue is
  empty again and again, or the thread takes a step again and again": weak fairness, for every command has
  a handler that can take it), and a registered timer that stays registered expires. Nothing is assumed
  of the HDI or the client. `RunEnds` then says that a run ends, because its timer fails it. It does not
  say that waiting photos start: that needs the camera to stay closed, the device cool, and so on.
* **Task pool**: threads run and tasks end (weak), and a lock that is free again and again is acquired in the end
  (strong, on the steps that need a lock others take in between). Nobody has to submit, cancel or destroy.
* **Devices**: each thread in an operation makes a step in the end, also when its lock is only free now and then
  (strong). Nobody has to open or close.
* **Sessions**: no fairness; `NoDeadlock` is an invariant over ENABLED.

## 6. What the runs found

Three runs are violations: the code does not do what its own text says.

* **`lowered_order`** (`deferred_photo_job.cpp:108`). `Fail()` sets the priority to NORMAL before it
  changes the state; when the job is FAILED already the state change does nothing, and nobody updates
  the heap. With a restorable removal (LOW) in between, the root may be a LOW job while a NORMAL one waits.
  `deferred_photo_job.h:110` says "Compare based on priority first". `NoHiddenWork` still holds.
* **`cached_error`** (`deferred_photo_processor.cpp:386`). A photo that failed while the client was away
  has its error cached; when the client asks for it, the entry is erased and only a log line is written,
  where line 91 promises the cached result.
* **`lost_release`** (`deferred_photo_processor.cpp:382`). `NotifyProcessImage` queues an urgent command; if
  the session is deleted first (also urgent, so it overtakes), the handler takes the held photo out of
  the cache and returns without releasing `cachePhotoId_`: ordinary work stays stopped until that photo
  is removed or requested. `CacheGate` still holds.

The following are behaviours that no text of the repository contradicts; the properties name them as exemptions, or
they are noted here.

*Photos.* A timeout or an interrupted answer handled after the fatal error of the same photo moves it from
ERROR to FAILED, so it is processed again (`CrashingPhotoIsGivenUp` holds for crashes alone).
`HandleSuccess` and `OnProcessError` stop the timer first and return early when the callback is null: the
photo stays RUNNING and blocks every other until it is removed (`RunEnds` is checked without the
client's death). Adding a photo, or a RETRY, triggers no scheduling
(`deferred_photo_processor.cpp:59`). An interrupt leaves `isNeedStop_` true until another state object
changes (`photo_strategy_center.cpp:213`). Only one photo can be held back by name. OnServiceChange is
ignored when it comes before the dead session was cleared (`photo_post_processor.cpp:342`), and a removal between
RemoveNeedJbo and SetPhotoSession is put off to the next restart (`:390`). A client that dies
and reconnects at once loses its session to the reversed pair of urgent commands. Newest-first among high
priority photos can starve an old request (`deferred_photo_job.h:131`).

*Videos.* Removing or restoring a video that runs leaves its id in `runningSet_` and its timer registered:
nothing is scheduled again (`leaked`). A restorable removal does not reorder the heap, and DELETED ranks
below RUNNING, so a video in the recycle bin may still be chosen (`trashed`). An answer with no callback is cached and
the video stays RUNNING (`unheard`). `runningId_` forgets only what is removed, so after a death of the
HDI delivered videos fail and are processed again. `VideoChargingState`'s default is to stop: with a video
running on charge any state object that changes stops it, and `isNeedStop_` stays true. With no session,
PrepareStreams queues NOT_READY and ProcessRequest FAILED, which is fatal for a requested video while the service is
away. An answer is not checked to be the running video's: it stops the recorder and the timer of
another (`late`), and a timeout queued behind its answer makes a delivered video FAILED. `OnTimerOut`
meets the start of a video half way (`overlapped`). A synchronisation tells the client INVALID for videos
the HDI does not have pending while an existing job stays queued. A video that was removed or restored while it ran and is
then removed restorably becomes ordinary, and loses the exemption of a requested video from the time on battery,
while the HDI still works on it: nothing interrupts it, for it is no longer RUNNING, and no timer is registered for it.
The first version of `BatteryIsWatched` did not except `leaked`; its proof failed at this step, and
the eleventh workload of the run now reaches it.

*Task pool.* The destructor sets `isStopped_` without the mutex: a worker between the predicate and the
wait is never woken and `join` never returns (`late` of `ShutdownEnds`). CancelAllTasks of a serial group forgets the
task that runs, so the next one may overlap it (`overrun`); of a parallel group it cancels nothing, for every task
is in the pool already. Tasks accepted when the pool stops are never run.

*Devices.* The permission callbacks close what they saw open without the lock and may meet an opening
(`overlap`, which also stands for a camera opened again whose device outlived the HDI service: both devices
then think they have it). Of several holders in conflict with a request the first decides alone (`spared`), and the
cost is then not counted (`via`). While the HDI's host is away the older table of concurrent cameras decides,
which knows no conflicts: if the host returns before the open reaches it, the camera is opened beside
one in conflict with it. `spared` names these pairs too; the first version of `ConflictFree` did not, and
its proof failed at this step. AddDevice ignores that the HDI service does not answer
(`hcamera_device_manager.cpp:79`): the holder has cost 0 and no conflicts, and once the service is back a second camera is
let in beside it although the two cost 60 each, or although the first names the second as its conflict
(`unpriced`). RemoveCameraHost looks for each camera's device twice: one that
registers between the two looks is in no list any more and still open, until it is opened again
or closed (`stranded`). A failure after StartUsingPermissionCallback leaves the use registered (`refused`).
RemoveCameraHost keeps the host manager's mutex while it waits for the lock of an open that asks the host manager
(`Stuck`): both wait for ever. The table of concurrent cameras does not count the requested camera among those
open and evicts even when it then refuses; an open may evict others and then fail. The
second expensive camera of the process of highest priority is refused, where the comment at
`hcamera_device_manager.cpp:420` says "unless the input has the highest priority".

*Sessions.* BeginConfig and AddOutput create an operator before they look at the state: after a release it
is put into the map for a session that is gone (`late`). Release returns success when the operator is gone, and
leaves the session configured, with device and listener, but out of its group (`lost`). A device that is the input of two
sessions has one listener (`shared`). A session that asks a device for its HDI operator between the
listeners' notice and the close is never told (`crossed`). Stop in the middle of a configuration commits what was
never linked (`skipped`). A session created, or a device opened, while the client's death is dealt with survives it
(`inFlight`).

*Real, but not covered by a property of this project:* the destruction of a pool by its own worker
(`avcodec_task_manager.cpp:50`); `inSync_` read before the mutex in AddImage and AddVideo
(`deferred_photo_processing_session.cpp:69`); state objects shared by the strategy centres of several users, so
that the first hides a change from the second (`state_factory.h:22`); UpdateDeviceSetting failing after
the open (`hcamera_device.cpp:640`); `cameraUseCallbackPtr_` kept (`hcamera_device.cpp:720`);
an uninitialised `errCode` returned by BeginConfig (`hcapture_session.cpp:463`); in `src/common`, a
timeout that races an empty timeline in the timer core; and the count of references of `HSharedCameraDevice`, read and
acted upon in two steps.

## 7. Proofs

Every theorem below holds for any value of the constants that satisfies the named assumption of its
component's module, and nothing else is assumed. TLC evaluates these assumptions in every run.

### 7.1 The photo pipeline

`ConstantsAssumption`: photos and session infos are distinct from the two null values, the photo set is
finite, a workload has the fields and sets the code knows. All the invariants below are proved over
`Spec`, without fairness, for any number of photos, queued commands and reconnections.

| theorem | module | states |
|---|---|---|
| `TypeCorrect` | `DeferredPhoto_proofs` | `Spec => []TypeOK` |
| `OneRunningJob` | `DeferredPhoto_proofs` | `Spec => []RunningJobs` |
| `CacheGateHolds` | `DeferredPhoto_proofs` | `Spec => []CacheGate` |
| `GatesRespected` | `DeferredPhoto_proofs` | `Spec => GateRespected` |
| `LifecycleImplemented` | `DeferredPhotoLifecycle_proofs` | `Spec => ImplementsLifecycle` |
| `QueueComplete` | `DeferredPhotoLifecycle_proofs` | `Spec => []QueueHoldsJobs` |
| `RootWaits` | `DeferredPhotoLifecycle_proofs` | `Spec => []NoHiddenWork` |
| `HighestFirst` | `DeferredPhotoLifecycle_proofs` | `Spec /\ [][FailureNoticed]_vars => HighestPriorityFirst` |
| `NoResultIsLost` | `DeferredPhotoLifecycle_proofs` | `Spec /\ []HasCallback => []NoResultLost` |
| `RunsAreWatched` | `DeferredPhotoLifecycle_proofs` | `Spec /\ []HasCallback => []RunningIsWatched` |
| `CrashesAreGivenUp` | `DeferredPhotoLifecycle_proofs` | `Spec /\ []HasCallback /\ [][FailureInTime]_vars => CrashingPhotoIsGivenUp` |

*Types and the running job.* Neither `TypeOK` nor `RunningJobs` is inductive alone. That a start leaves one running photo needs that the scheduler, which asks
whether `runningJob_` is empty, sees every job whose state is RUNNING (`RepoInv`: the set equals those
jobs). And to type what a handler makes of a job one needs that the job exists, which comes from the
handler's guard. The invariant `IInv` conjoins the repository's invariant, the types of what handlers change
(`ThreadInv`) and of what other threads own (`OthersOK`). The proof follows the model: lemmas for each
repository operation (`ChangeStateToInv`, `StartInv`, `DeleteJobInv`...), lifted to the state `m` a
handler works on (`DoProcessInv`, `EventChangedInv`, `DeRecordResultInv`...), then one lemma per action
and `IInvInductive`, which combines them. A handler between its steps has a repository that satisfies
less (a new job is in the heap before it has a state): `DraftInv` describes that.
The heap's part, that every operation returns a vector of photos whatever the comparison, comes from
`PhotoJobQueue_proofs` (7.3).

*Gates.* The scheduler does not look at the camera, the HDI or the temperature, but at the verdict
`isNeedStop_`, which an event re-evaluates only if it brings a new value. The strengthening is
`StrategyOK`, of the strategy centre alone: when the verdict says go, nothing is closed and the device
is cool or trailing; and when it is trailing, the trailing state agrees with the camera's, so an event that
skips the evaluation has nothing to change. `CacheGate` relates the strategy to the result cache. It holds
because the event that a photo was cached or fetched is raised only in the handlers that change
`cachePhotoId_`, never queued: the invariant says that the commands are in `Seq(Plain)`. The `Effect`
lemmas say what each function changes of strategy and cache; the `Gates` lemmas, one per handler, that the
invariant stays and that only a photo that may start does (`GatedStep`). The action property follows from the
same induction.

*Refinement.* `IInv` is enough as invariant. The mapping shows of a job's state what the client sees (`Seen`),
so the restorable deletion, priorities, queues and timers disappear. `Scheduled` says what the scheduler may
do to the jobs within a handler: at most start one that waits. Each handler is then a quiet step
(`QuietStep`), a step of its photo (`PhotoStep`), the answer to a photo that is kept (`TakenStep`) or an
answer that comes too late (`LateStep`). That the abstract specification's "no other photo
is being processed" holds in the mapped state is `RunningJobs`.

*The offline queue.* The heap is *not* always in order by `operator>`: `Fail` of a job that has failed already sets
its priority to NORMAL without an update, and a restorable removal in between has made it LOW, so it stays below what
it should now precede (section 6). Two coarser orders are kept (`Precedes(r, by)`). By `"wait"`, the first thing
`operator>` compares, whether a job waits: always in order, since a change of a priority does not touch it and
`ChangeStateTo` updates the queue. By `"priority"`, of what waits the higher priority first: in order as long as
no failure changes the priority of a FAILED job (`FailureNoticed`). The invariant `QueueOK(repo, by)` is that the heap
holds the photos that are present and not of background type, each once, in the coarser order. The heap's lemmas
(7.3) apply because `operator>` agrees with both (`PrecedesAgrees`): it puts `a` before `b` where they do, and never
where they put `b` before `a`; so one proof serves both orders. Whether a photo is in the queue at all is part of each lemma:
an update of one that is not leaves the heap alone, but for `LowerPriority` of a background photo, which
sinks the root, to where it is already.

A handler first changes the repository and then may run the scheduler, in one step. Each handler's lemma says that
there is a repository in between (`Served`) whose queue is in order and in which no job was started (`Tidy`), and that the next
one is that, or that with its root started (`Picks`). From the first the invariant follows, from the second
that what starts is the best. `HighestPriorityFirst` therefore speaks of the state after the step: a request, a
removal or an answer can change priorities and start a photo in the same step, and the scheduler compares what it finds then.
The hypothesis `FailureNoticed` is what run `lowered_order` violates, and the theorem says that nothing
else breaks the order. TLC confirms that the workload of run `order` satisfies it, although photos fail there
twice.

*While the client stays.* Three properties hold only while `callback_` is set: without it `HandleSuccess`
and `OnProcessError` return after the timer is stopped and before the job leaves RUNNING (section 6), and an answer
nobody can be told is an error kept of a photo that is there. `HasCallback` is therefore a hypothesis, `[]HasCallback`,
and the runs check these properties with a client that does not die. `NoResultLost` uses no handler at all: it is an
invariant of the *abstract* specification's steps, carried back through the refinement mapping (`LostNone`,
`LifecycleKeeps`).
`RunningIsWatched` is strengthened to `WatchInv`: every RUNNING job has a timer or a queued command that ends its run
(`Coming`). A handler takes one command from the queue, so the proof says of each how it treats the other jobs
(`Steady`: a job that runs afterwards without a timer ran so before, and one that is over stays over), that
it loses no other command (`Holds`), and of the few that end a run what they do to their own photo (`FailedStep`,
`RemovedStep`). `CrashingPhotoIsGivenUp` uses the same: a photo the HDI has died on three times is COMPLETED or
in ERROR (`GivenUp`). What could undo that is the failure of an earlier run, handled late; `FailureInTime` says
that this does not happen. TLC finds the violation without it (section 6), and confirms that the workload
of run `order` satisfies it.

### 7.2 The thread pool

`ThreadsAssumption`: workers and clients are finite disjoint sets, the null task is no task, and a workload
names a use the code knows.

| theorem | states |
|---|---|
| `TypeCorrect` | `Spec => []TypeOK` |
| `SerialHolds` | `Spec => []SerialOneAtATime` |
| `NoWakeupLost` | `Spec => []NoLostWakeup` |
| `NoTaskLost` | `Spec => []TaskIsSomewhere` |

`SerialOneAtATime` counts the tasks of a serial group in the pool's queue, in a submitting thread's hands and in
the workers'. It is not inductive: nothing in it stops the next dispatch. `SerialOK` adds that `inflight_` is
set whenever there is one, and takes "at most one" apart by place (`OneBelow`), so that every step moves
the task from one place to the next.

`NoLostWakeup` is a count: while a worker sleeps, the tasks in the queue are no more than the workers awake plus
the notifications under way. A push adds a task and a notification; `notify_one` turns a notification
into a worker awake, or finds none asleep; taking a task removes one of both. The step that could break it is the worker
that found no task and falls asleep: `WakeupOK` adds that the queue stays empty until it sleeps, because it holds
the mutex. With the predicate read outside the mutex (the mutant) that fails.

`TaskIsSomewhere` counts the places in which a submitted task is. The proof replaces the count by sets (`PlacedOK`): the
group's queue, the pool's, what threads carry and what workers took each hold a task once (`PlacedOnce`), no
two hold the same one (`PlacedApart`), and together they hold exactly what is submitted
(`PlacedAsSubmitted`). Every step then takes an element from one set and puts it into the next.

### 7.3 The heap

`MaxRankAssumption`: ranks are natural numbers. The set of jobs is any set.

| theorem | states |
|---|---|
| `PeekHolds` | `Spec => []PeekIsBest` |
| `NoneLost` | `Spec => NoJobLost` |

The invariant (`IInv` of `PhotoJobQueueSpec_proofs`) is that the vector holds every job once and is in heap
order. What an operation returns is the matter of `PhotoJobQueue_proofs`, for any vector and any comparison
and any strict weak order that the comparison agrees with, which may be coarser than the comparison itself. Sifting is written as the code's loop: a recursive function of the number of rounds, each
round (`Rise`, `Sink`) a swap with the parent or the better child. `RiseLoop` and `SinkLoop` turn it into a chain
of states that stay in any set no round leaves. That set is, for the membership, the vectors with the
same elements (`Sifted`); for the order, those in heap order `Around` the moving element: between all
others, its children and its parent included. A rising element is in order with its children, a sinking one
with its parent, and each round moves it, so the loop ends where it fits (`HeapInsertOrder`,
`HeapifyOrder`). `UpdateAt` needs no more than order around the position it updates, and this is what is left
when an owner changes a job in place (`OrderAroundChanged`), or when a removal puts the last element in the
middle (`Moved`); it is also why two changes without an update between them are not repaired. That the
root is best (`RootIsBest`) follows by the least position that would be better.

Induction enters as a lemma about sets of numbers (`Least`, `Induction`, from the well-foundedness of `<`),
because the library's induction theorems take an operator as a parameter.

### 7.4 Camera devices

`DevicesAssumption`: cameras and devices are finite sets, processes are distinct from the two other threads,
each device has an owner and a camera, and costs are natural numbers.

| theorem | states |
|---|---|
| `TypeCorrect` | `Spec => []TypeOK` |
| `KnowledgeAgrees` | `Spec => []HoldersAgree` |
| `UseEnds` | `Spec => []UsageEnds` |
| `ConflictsAreSpared` | `Spec => []ConflictFree` |
| `WithinLimit` | `Spec => []CostWithinLimit` |

The mutual exclusion comes first, and with the types: `ThreadsOK` says for each kind of thread where it can be,
that a process is somewhere in a call exactly while it has `g_deviceOpenCloseMutex_`, and that the
callbacks never have it (`ProcessOK`, `WatcherOK`, `HostOK`).

`HoldersAgree` is a statement about moments at which nobody is between the steps of opening or closing a
camera. What is true in between is `DevicesOK`, about the open devices but for the stranded ones (`Listed`): a holder
is open, and what is open is a holder or about to be added
(`HoldersOK`); the host manager's map has what is open but for what is being added or registered, and nothing else but
what is leaving (`MapOK`); no callback is about to close a camera that is being added (`WatchedOK`); a camera that is
leaving is not open (`LeavingOK`); and no two open devices are of one camera (`OneOfCamera`). `WatchedOK` and
`OneOfCamera` are what `overlap` exempts: the callbacks close without the lock, and a new HDI service does not know
what the old one had open. By `MapOK` a device that the second look of a host's removal finds is open and listed,
and then stranded, or another thread is closing it and has taken it out of the holders before.

`UsageEnds` needs `UsingOK`: whoever is registered as using the camera holds one, is about to, or has one whose close has
still to unregister it.

A verdict is about the holders the request saw, and the eviction and AddDevice come later. `AdmittedOK` carries the verdict
from there: while a request is pending (`Pending`), each holder in conflict is spared or in the list of those to evict,
and the cost of the others leaves room for it (`RequestOK`). Nobody else adds a
holder meanwhile, because the request has the lock; callbacks, hosts and the removal of a host only take some away.
What a holder costs and conflicts with is what was recorded of it, and a step changes that only for the
device it adds or removes (`OtherCosts`), so a sum made before such a step is one after it. When the list is empty
the request becomes the last holder, and the pairs (`PairsOK`) and sums (`CostsOK`) of the
holders are kept *by order of admission*: a later removal leaves a subsequence.

The loops over the holders are folds, defined by a choice of a recursive function. That one exists is `FoldExists`, and
what it gives for the first `k` elements follows round by round (`FoldRounds`). Sums of costs are stated without
recursion: *some* sequence of partial sums (`Sums`) stays within the limit.

### 7.5 Capture sessions

`SessionsAssumption`: devices and streams are finite sets, the three kinds of threads are distinct, a
workload has the fields the code knows and a limit that is not zero.

| theorem | states |
|---|---|
| `TypeCorrect` | `Spec => []TypeOK` |
| `ListenersAgree` | `Spec => []ListenerAgrees` |
| `OneHolder` | `Spec => []LocksOK` |
| `ReleasedIsEmpty` | `Spec => []ReleasedHoldsNothing` |
| `GroupAccountsForAll` | `Spec => []GroupAccounts` |
| `NothingIsLeft` | `Spec => []DeathLeavesNothing` |
| `CommittedStaysLinked` | `Spec => []CommittedIsLinked` |

The invariants build on each other.

* `Typed` is `TypeOK` with what a call can be doing in each place (`Fits`), and that sessions are numbered
  in the order of their creation, one that does not exist has nothing, and the group holds none twice (`SessionsOK`).
* `ListenersOK` relates every session to every device, so that a step which moves an input or a listener is
  judged against all others.
* `LocksOK`: `sessionStateLock_` has one holder, and what the holder found (`Found`: the state in which a
  commit may link, the device a release closes) stays. This is the invariant that makes the steps of
  CommitConfig and Release one operation to everybody who takes the lock; that the closes, evictions
  and deaths which do not take it leave those two alone is what the proof shows.
* `ReleasedOK` adds to `ReleasedHoldsNothing` the threads on their way: one that is about to set a
  session released has taken it out of the group before (`Leaves`), or was started by its last proxy (`Dropped`).
* `GroupOK` says of a session that was not released and is missing from the group that its release
  found the operator gone or that a thread is going to release it (`Going`): one that preempts holds it in its
  list long before it takes it out.
* `DeathOK` is about the thread that deals with the death: from each point in it on, the group is empty, all devices
  still open are in its list, or no operator is listed (`ReaperOK`); and every other step only makes
  these fewer (`Fewer`).
* `LinksOK`: the HDI operator of a session is its own input device, open, or there is none; nobody closes that device with
  `hdiClose` unless the session was `crossed`, because the listener's notice takes the operator away first;
  and a commit goes stream by stream (`LinksOf`), regardless of closes, so what it has linked stays linked
  unless a close is on its way to release the operator (`Leaving`), and then the session is no longer due (`Due`).

Each action has one lemma for its types (`...Typed`) and one that says what it does (`...Does`), from which the
invariants' steps follow without the definition of the action; frames such as `Gentle`, `Fewer`, `Aside`,
`Keeps` and `Steady` serve the many steps that leave an invariant alone.

### 7.6 The video pipeline

`VideoAssumption`: the set of videos is finite, there is a session info, the null values are distinct, a workload
has the fields and kinds of calls the code knows.

| theorem | states |
|---|---|
| `TypeCorrect` | `Spec => []TypeOK` |
| `RunningSetCorrect` | `Spec => []RunningSetAgrees` |
| `BatteryWatched` | `Spec => []BatteryIsWatched` |
| `GatesRespected` | `Spec => GateRespected` |
| `BestIsFirst` | `Spec => BestFirst` |
| `DeliveredOnce` | `Spec => DeliveredStays` |

One invariant, `IInv`, serves all six; each action has a lemma (`...Step`) that concludes `IInv'` and what the action
properties say of a step (`Chosen`, `Kept`).

* `QueueOK`: the heap holds the videos of the repository, each once, and creation times are distinct. `Ordered`: it is
  in heap order by `operator>` itself, as long as no video was moved to the recycle bin. Unlike the photos', every change of
  a video's state or priority updates the heap, so the root is best (`BestFirst`).
* `RunningOK`: `runningSet_` has at most one video, every RUNNING one, and nothing else but `leaked`; `StartOK`: a start
  that is half way (the media file is being opened) has found it empty, and its video waits.
* `GateOK`: when the verdict is go, no state object stops and the battery allows it. The verdict is computed from the
  state objects and the charge together, so a change of either re-establishes it.
* `SessionOK` ties the HDI to the pipeline: what it works on is in `runningSet_`, it works only for a live session, and
  one death is reported once.
* `TimerNamed`, `StartWatched` and `Watched` are the battery's: the id that is remembered is of a timer that is registered or
  has just fired, so releasing it stops the right one; a video that is being started on battery has its timer from the
  moment the lock is taken; and what the HDI works on stays watched. The timer thread's steps between reading and
  clearing the id are steps of their own, and the exemptions are the states they meet.
* `AnswersOK`: of each video at most one own answer of the HDI is queued, none while the HDI still works on it,
  and while either is the case the video is not COMPLETED. This makes a second answer for a delivered video impossible.

The heap's lemmas are those of 7.3, for the comparison of the videos.

## 8. What is only model-checked

* Liveness (`RunEnds`, `SubmittedRuns`, `ShutdownEnds`, `LocksAreLetGo`) and `NoDeadlock`, which uses
  ENABLED: outside the prover's reach.
* `HighestPriorityFirst` and `CrashingPhotoIsGivenUp` are proved under a hypothesis on the histories, `NoResultLost` and
  `RunningIsWatched` while the client stays (7.1). Where a hypothesis fails, section 6 says what TLC finds.

## 9. Not modelled

The repository has about 244 000 implementation lines. Most of them hold no control that a model
checker adds to: the native framework (`src/frameworks/native`), a client-side mirror of the services' interfaces
with capability tables and metadata; the N-API, ANI, CJ and NDK bindings, and the IPC stubs, which marshal;
the moving photo and movie file pipelines, which move buffers between codecs; the adapters to dynamic
libraries; the descriptors, buffers and reports of the deferred service. The models concentrate on the services, where
state is shared between threads and processes. A share of the implementation that is small in lines is
therefore the share that decides.

Of the services themselves these are left out: the camera timer (`src/common/src/timer`), whose promise alone is
used (a registered timer that is not unregistered in time calls back once, in its own thread); BeginSynchronize and
EndSynchronize with PhotoSyncCommand; several users at once; capture requests and their results, torch, mute, prelaunch and
settings; offline, shared and multi-camera sessions.

## 10. Next

1. The synchronisation of a photo session: BeginSynchronize, EndSynchronize and AddImage by two binder threads.
2. Two strategy centres over shared state objects.
3. The timer core of `src/common`, which both pipelines and the task groups rest on.
4. Liveness of scheduling: under conditions that stay good, a waiting photo starts.
