------------------------ MODULE PhotoStrategyCenter ------------------------
(***************************************************************************)
(* PhotoStrategyCenter: whether the deferred processing service may work   *)
(* on ordinary photos now.  It keeps one state object per kind of event    *)
(* and re-evaluates them all when one of them takes a new value; the       *)
(* verdict is cached in isNeedStop_ until the next change.                 *)
(*                                                                         *)
(* A strategy is a record: the value of each state object, the trailing    *)
(* state's isTrailing_, live timer and remaining time (only whether it is  *)
(* zero is kept; an expired timer leaves none), and the cached verdict     *)
(* isNeedStop_.  The interrupt state object is absent: GetSchedulerInfo    *)
(* resets it to NO_INTERRUPT in the very evaluation an interrupt event     *)
(* causes, so between two events it holds no information.                  *)
(***************************************************************************)
EXTENDS Naturals

CameraStatus == {"SYSTEM_OPEN", "SYSTEM_CLOSED", "NORMAL_OPEN", "NORMAL_CLOSED"}
HdiStatus == {"READY", "READY_SPACE_LIMIT", "DISCONNECTED", "NOT_READY"}
MediaLibraryStatus == {"AVAILABLE", "DISCONNECTED"}
ThermalLevel == {"NOMINAL", "FAIR", "SEVERE"}
CacheStatus == {"CACHED", "NO_CACHE"}
TrailingStatus == {"SYSTEM_OFF_START", "NORMAL_OFF_START", "ON_STOP"}

Strategy == [camera : CameraStatus, hal : HdiStatus, media : MediaLibraryStatus,
             thermal : ThermalLevel, cache : CacheStatus, trailing : TrailingStatus,
             isTrailing : BOOLEAN, trailingTimer : BOOLEAN, remaining : BOOLEAN,
             isNeedStop : BOOLEAN]

\* An event the strategy centre handles, as EventsMonitor dispatches it.
Event == [type : {"camera"}, value : CameraStatus]
           \cup [type : {"hal"}, value : HdiStatus]
           \cup [type : {"media"}, value : MediaLibraryStatus]
           \cup [type : {"thermal"}, value : ThermalLevel]
           \cup [type : {"cache"}, value : CacheStatus]
           \cup [type : {"trailing"}, value : {"ON_STOP"}]
           \cup [type : {"interrupt"}, value : {"IS_INTERRUPT"}]

InitialStrategy ==
  [camera |-> "SYSTEM_CLOSED", hal |-> "DISCONNECTED", media |-> "DISCONNECTED",
   thermal |-> "NOMINAL", cache |-> "NO_CACHE", trailing |-> "ON_STOP",
   isTrailing |-> FALSE, trailingTimer |-> FALSE, remaining |-> FALSE,
   isNeedStop |-> TRUE]
-----------------------------------------------------------------------------
(***************************************************************************)
(* The trailing state: after a camera closes, photos may be processed for  *)
(* a while although the device is warm, if the camera delivered a low      *)
(* quality picture since (EventsInfo::NeedTrailing, which reads and clears *)
(* the flag).  left says whether any of the remaining time is left when    *)
(* the running timer is stopped.                                           *)
(***************************************************************************)
StopTrailing(st, left) ==
  IF st.isTrailing
  THEN [st EXCEPT !.isTrailing = FALSE, !.trailingTimer = FALSE, !.remaining = left /\ st.trailingTimer]
  ELSE st

StartTrailing(st, hasDuration, needTrailing, left) ==
  LET stopped == StopTrailing(st, left)
      time == hasDuration \/ stopped.remaining
  IN  IF needTrailing
      THEN [stopped EXCEPT !.isTrailing = time, !.trailingTimer = time, !.remaining = time]
      ELSE st

SetTrailing(st, value, needTrailing, left) ==
  LET set == [st EXCEPT !.trailing = value]
  IN  CASE st.trailing = value -> st
        [] st.trailing # value /\ value = "ON_STOP" -> StopTrailing(set, left)
        [] st.trailing # value /\ value # "ON_STOP" ->
             StartTrailing(set, value = "SYSTEM_OFF_START", needTrailing, left)

TrailingAfterCamera(camera) ==
  CASE camera = "SYSTEM_CLOSED" -> "SYSTEM_OFF_START"
    [] camera = "NORMAL_CLOSED" -> "NORMAL_OFF_START"
    [] OTHER -> "ON_STOP"

\* Whether the event makes the trailing state read, and so clear, the flag.
ReadsNeedTrailing(st, e) ==
  /\ e.type = "camera"
  /\ TrailingAfterCamera(e.value) \notin {"ON_STOP", st.trailing}
-----------------------------------------------------------------------------
\* The conditions that stop work on ordinary photos whatever the temperature.
Closed(st) ==
  \/ st.camera \in {"SYSTEM_OPEN", "NORMAL_OPEN"}
  \/ st.hal \notin {"READY", "READY_SPACE_LIMIT"}
  \/ st.media = "DISCONNECTED"
  \/ st.cache = "CACHED"

\* Mutant of Reevaluate: a warm device is taken for a cool one.
Reevaluate_Warm(st, interrupted) ==
  [st EXCEPT !.isNeedStop = \/ Closed(st) \/ interrupted
                            \/ ~ st.isTrailing /\ st.thermal = "SEVERE"]

(***************************************************************************)
(* ReevaluateSchedulerInfo: closed, or neither trailing nor cool.  An      *)
(* interrupt stops work too, until some other state changes.               *)
(***************************************************************************)
Reevaluate(st, interrupted) ==
  [st EXCEPT !.isNeedStop = \/ Closed(st) \/ interrupted
                            \/ ~ st.isTrailing /\ st.thermal # "NOMINAL"]

\* The state objects after the event, before any evaluation.
SetValue(st, e, needTrailing, left) ==
  CASE e.type = "camera" -> [SetTrailing(st, TrailingAfterCamera(e.value), needTrailing, left)
                               EXCEPT !.camera = e.value]
    [] e.type = "trailing" -> SetTrailing(st, e.value, needTrailing, left)
    [] e.type = "hal" -> [st EXCEPT !.hal = e.value]
    [] e.type = "media" -> [st EXCEPT !.media = e.value]
    [] e.type = "thermal" -> [st EXCEPT !.thermal = e.value]
    [] e.type = "cache" -> [st EXCEPT !.cache = e.value]
    [] e.type = "interrupt" -> st

\* UpdateSchedulerInfo: does the state object of the event take a new value?
IsNewValue(st, e) == e.type # "interrupt" => st[e.type] # e.value

(***************************************************************************)
(* HandleEventChanged with UpdateValue.  HandleCameraEvent updates the     *)
(* trailing state first, without an evaluation; the verdict is computed    *)
(* only when the event's own state object changes.                         *)
(***************************************************************************)
HandleEventChanged(st, e, needTrailing, left) ==
  LET set == SetValue(st, e, needTrailing, left)
  IN  IF IsNewValue(st, e) THEN Reevaluate(set, e.type = "interrupt") ELSE set

(***************************************************************************)
(* GetExecutionMode: a high priority photo only waits for the system       *)
(* camera to close, of which EventsInfo knows before the event is handled; *)
(* any other photo waits until isNeedStop_ is false.                       *)
(***************************************************************************)
MayProcess(st, priority, cameraNow) ==
  IF priority = "HIGH" THEN cameraNow # "SYSTEM_OPEN" ELSE ~ st.isNeedStop
=============================================================================
