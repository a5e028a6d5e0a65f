--------------------------- MODULE CaptureSession ---------------------------
(***************************************************************************)
(* The capture sessions of one client of the camera service: the states of  *)
(* HCaptureSession, the stream operator that holds its outputs, the devices  *)
(* that are its input, HCameraSessionManager's group of the client, and the  *)
(* ways a session ends: Release, the device closed under it, preemption by   *)
(* a newer session, the last proxy gone, the client's death.                 *)
(*                                                                         *)
(*   op       what each thread is doing                                     *)
(*   gate     who holds g_deviceOpenCloseMutex_                             *)
(*   session  state, cameraDevice_ and whether the client holds the proxy   *)
(*   operator the session's HStreamOperator: in HStreamOperatorManager's    *)
(*            map, its HDI operator, its outputs                            *)
(*   linked   the HDI operator each stream object keeps                     *)
(*   device   opened, its close listener, whose callback the HDI has        *)
(*   letGo    sessions whose operator the HDI still keeps, its device closed *)
(*   group    the client's sessions in HCameraSessionManager, oldest first  *)
(*                                                                         *)
(* A session keeps only a weak pointer to its operator: the operator lives   *)
(* while the map, the HDI or a thread in the middle of a call holds it.      *)
(***************************************************************************)
EXTENDS Naturals, FiniteSets, SequencesExt

CONSTANTS
  Client,        \* the binder threads of the client
  Evictor,       \* the thread of another client or of a callback that closes devices
  Reaper,        \* the thread that is told of the client's death
  Device, Stream,
  NoDevice, Stale,  \* no HDI operator; the operator of a device that was closed
  MaxSessions,   \* bound on the sessions created
  Workload

ASSUME SessionsAssumption ==
  /\ IsFiniteSet(Device) /\ IsFiniteSet(Stream) /\ MaxSessions \in Nat
  /\ Evictor \notin Client /\ Reaper \notin Client /\ Evictor # Reaper
  /\ {NoDevice, Stale} \cap Device = {} /\ NoDevice # Stale
  /\ Workload \subseteq [sessions : 0..MaxSessions, limit : Nat \ {0}, devices : SUBSET Device,
                         threads : SUBSET Client,
                         calls : SUBSET {"begin", "addInput", "removeInput", "addOutput", "removeOutput",
                                         "commit", "start", "stop", "release", "close"},
                         actors : SUBSET {"eviction", "permission", "failure", "drop", "death"}]

VARIABLES
  workload,  \* the sessions the client creates, the limit of its group, its devices,
             \* threads and calls, and what happens beside them
  op, gate, session, operator, linked, device, letGo, group, alive,
  shared,    \* history: devices that were the input of two sessions at once
  crossed,   \* history: sessions given an HDI operator by a device that was being closed
  late,      \* history: released sessions in which a call was still under way
  skipped,   \* history: sessions that Stop took out of their configuration
  lost,      \* history: sessions whose Release found the operator gone
  inFlight   \* history: a call was under way when the client died

state == <<op, gate, session, operator, linked, device, letGo, group, alive>>
history == <<shared, crossed, late, skipped, lost, inFlight>>
vars == <<workload, state, history>>

Session == 1..MaxSessions
None == 0
Thread == Client \cup {Evictor, Reaper}
States == {"none", "init", "configuring", "committed", "started", "released", "gone"}
Places == {"idle", "overflow", "begin", "addOutput", "link", "create", "stop", "release", "closeLock",
           "listener", "operatorRelease", "hdiClose", "finish", "removeGroup", "operators", "done"}
Idle == [pc |-> "idle", s |-> None, dev |-> NoDevice, ways |-> {}, todo |-> <<>>, devs |-> <<>>, next |-> "idle"]

TypeOK ==
  /\ workload \in Workload
  /\ op \in [Thread -> [pc : Places, s : Session \cup {None}, dev : Device \cup {NoDevice},
                        ways : SUBSET Stream, todo : Seq(Session), devs : Seq(Device),
                        next : {"idle", "created", "dropped", "removeGroup", "operators", "done"}]]
  /\ gate \in Thread \cup {"free"}
  /\ session \in [Session -> [st : States, input : Device \cup {NoDevice}, proxy : BOOLEAN]]
  /\ operator \in [Session -> [listed : BOOLEAN, hdi : Device \cup {NoDevice, Stale}, outputs : SUBSET Stream]]
  /\ linked \in [Session -> [Stream -> Device \cup {NoDevice, Stale}]]
  /\ device \in [Device -> [open : BOOLEAN, listener : Session \cup {None}, callback : Session \cup {None}]]
  /\ letGo \subseteq Session /\ group \in Seq(Session) /\ alive \in BOOLEAN
  /\ shared \subseteq Device /\ crossed \subseteq Session /\ late \subseteq Session /\ skipped \subseteq Session
  /\ lost \subseteq Session /\ inFlight \in BOOLEAN

NoOperator == [listed |-> FALSE, hdi |-> NoDevice, outputs |-> {}]

Init ==
  /\ workload \in Workload
  /\ op = [t \in Thread |-> Idle] /\ gate = "free"
  /\ session = [s \in Session |-> [st |-> "none", input |-> NoDevice, proxy |-> FALSE]]
  /\ operator = [s \in Session |-> NoOperator]
  /\ linked = [s \in Session |-> [x \in Stream |-> NoDevice]]
  /\ device = [d \in Device |-> [open |-> FALSE, listener |-> None, callback |-> None]]
  /\ letGo = {} /\ group = <<>> /\ alive = TRUE
  /\ shared = {} /\ crossed = {} /\ late = {} /\ skipped = {} /\ lost = {} /\ inFlight = FALSE
-----------------------------------------------------------------------------
(* The locks and the lives of the operators. *)

At(t, pc) == op[t].pc = pc
GoTo(t, pc) == op' = [op EXCEPT ![t].pc = pc]

\* sessionStateLock_ of s is held across steps by a commit and by a release past its check.
StateLockFree(s) ==
  \A t \in Thread : op[t].s = s =>
    op[t].pc \notin {"link", "create", "closeLock", "listener", "operatorRelease", "hdiClose", "finish"}

\* HCaptureSessionWrapper::mutex_ of s, which a release of the client holds to its end.
WrapperFree(s) ==
  \A t \in Client : op[t].s = s => op[t].pc \in {"begin", "addOutput", "link", "create"} \/ op[t].next = "created"

\* cameraCloseListenerMutex_ of d.
ListenerLockFree(d) == \A t \in Thread : At(t, "operatorRelease") => op[t].dev # d

\* HCameraService::mutex_, held while a session is created and others are preempted for it.
ServiceFree == \A t \in Thread : op[t].next # "created"

\* The threads whose call holds the operator of s.
Pinned(s) ==
  \E t \in Thread : \/ op[t].s = s /\ ~StateLockFree(s)
                    \/ At(t, "operatorRelease") /\ device[op[t].dev].listener = s

\* Does hStreamOperator_.promote() find the operator?
HasOperator(s) ==
  operator[s].listed \/ s \in letGo \/ (\E d \in Device : device[d].callback = s) \/ Pinned(s)

\* What a thread does when a session is released or a device closed.
Resume(t, o) ==
  IF o.todo # <<>> THEN [o EXCEPT !.pc = IF t = Reaper THEN "release" ELSE "stop",
                                  !.s = Head(o.todo), !.todo = Tail(o.todo)]
  ELSE IF o.devs # <<>> THEN [o EXCEPT !.pc = "closeLock", !.s = None, !.dev = Head(o.devs), !.devs = Tail(o.devs)]
  ELSE [Idle EXCEPT !.pc = IF o.next \in {"created", "dropped"} THEN "idle" ELSE o.next]

Proceed(t) == op' = [op EXCEPT ![t] = Resume(t, op[t])]

InGroup(s) == s \in ToSet(group)
-----------------------------------------------------------------------------
(* Creation. *)

\* NewInstance: the constructor, with a stream operator, and AddSession.
NewInstance(t) ==
  LET s == 1 + Cardinality({k \in Session : session[k].st # "none"}) IN
  /\ At(t, "idle") /\ alive /\ ServiceFree /\ s <= workload.sessions
  /\ session' = [session EXCEPT ![s] = [st |-> "init", input |-> NoDevice, proxy |-> TRUE]]
  /\ operator' = [operator EXCEPT ![s].listed = TRUE]
  /\ group' = Append(group, s)
  /\ op' = [op EXCEPT ![t] = [Idle EXCEPT !.pc = "overflow", !.next = "created"]]
  /\ UNCHANGED <<workload, gate, linked, device, letGo, alive, history>>

\* Mutant: the overflow is what it was before the new session was added.
PreemptOverflowSessions_Early(t) ==
  LET n == IF Len(group) - 1 > workload.limit THEN Len(group) - 1 - workload.limit ELSE 0 IN
  /\ At(t, "overflow")
  /\ group' = SubSeq(group, n + 1, Len(group))
  /\ op' = [op EXCEPT ![t] = Resume(t, [@ EXCEPT !.todo = SubSeq(group, 1, n)])]
  /\ UNCHANGED <<workload, gate, session, operator, linked, device, letGo, alive, history>>

\* PreemptOverflowSessions: the oldest leave the group, then they are released one by one.
PreemptOverflowSessions(t) ==
  LET n == IF Len(group) > workload.limit THEN Len(group) - workload.limit ELSE 0 IN
  /\ At(t, "overflow")
  /\ group' = SubSeq(group, n + 1, Len(group))
  /\ op' = [op EXCEPT ![t] = Resume(t, [@ EXCEPT !.todo = SubSeq(group, 1, n)])]
  /\ UNCHANGED <<workload, gate, session, operator, linked, device, letGo, alive, history>>
-----------------------------------------------------------------------------
(* Configuration. *)

\* A client's thread may call s; CallbackEnter asks without the lock if s is released.
MayCall(t, s, call) ==
  /\ At(t, "idle") /\ alive /\ call \in workload.calls
  /\ session[s].proxy /\ session[s].st \notin {"none", "released", "gone"}

\* BeginConfig and AddOutput past CallbackEnter: they create an operator whatever they find.
Enter(t, s, call) ==
  /\ MayCall(t, s, call) /\ call \in {"begin", "addOutput"}
  /\ op' = [op EXCEPT ![t].pc = call, ![t].s = s]
  /\ UNCHANGED <<workload, gate, session, operator, linked, device, letGo, group, alive, history>>

\* InitialHStreamOperator.
InitialOperator(s) == IF HasOperator(s) THEN operator[s] ELSE [NoOperator EXCEPT !.listed = TRUE]

Unlink(s, outputs) == [x \in Stream |-> IF x \in outputs THEN NoDevice ELSE linked[s][x]]

\* BeginConfig: the operator comes first, the check of the state after it.
BeginConfig(t) ==
  LET s == op[t].s  valid == session[s].st \in {"init", "committed", "started"} IN
  /\ At(t, "begin") /\ StateLockFree(s)
  /\ operator' = [operator EXCEPT ![s] = InitialOperator(s)]
  /\ IF valid THEN /\ session' = [session EXCEPT ![s].st = "configuring"]
                   /\ linked' = [linked EXCEPT ![s] = Unlink(s, InitialOperator(s).outputs)]
              ELSE UNCHANGED <<session, linked>>
  /\ late' = IF session[s].st = "released" THEN late \cup {s} ELSE late
  /\ skipped' = IF valid THEN skipped \ {s} ELSE skipped
  /\ op' = [op EXCEPT ![t] = Idle]
  /\ UNCHANGED <<workload, gate, device, letGo, group, alive, shared, crossed, lost, inFlight>>

AddOutput(t, x) ==
  LET s == op[t].s IN
  /\ At(t, "addOutput") /\ StateLockFree(s)
  /\ operator' = [operator EXCEPT ![s] =
       [InitialOperator(s) EXCEPT !.outputs = IF session[s].st = "configuring" THEN @ \cup {x} ELSE @]]
  /\ late' = IF session[s].st = "released" THEN late \cup {s} ELSE late
  /\ op' = [op EXCEPT ![t] = Idle]
  /\ UNCHANGED <<workload, gate, session, linked, device, letGo, group, alive, shared, crossed, skipped, lost, inFlight>>

\* RemoveOutput takes x out of the operator; its link was undone when the configuration began.
RemoveOutput(t, s, x) ==
  /\ MayCall(t, s, "removeOutput") /\ StateLockFree(s)
  /\ session[s].st = "configuring" /\ HasOperator(s) /\ x \in operator[s].outputs
  /\ operator' = [operator EXCEPT ![s].outputs = @ \ {x}]
  /\ UNCHANGED <<workload, op, gate, session, linked, device, letGo, group, alive, history>>

\* Mutant: AddInput does not set the close listener.
AddInput_NoListener(t, s, d) ==
  /\ MayCall(t, s, "addInput") /\ StateLockFree(s) /\ WrapperFree(s) /\ ListenerLockFree(d)
  /\ d \in workload.devices /\ session[s].st = "configuring" /\ session[s].input = NoDevice
  /\ session' = [session EXCEPT ![s].input = d]
  /\ shared' = IF \E k \in Session : session[k].input = d THEN shared \cup {d} ELSE shared
  /\ UNCHANGED <<workload, op, gate, operator, linked, device, letGo, group, alive, crossed, late, skipped, lost, inFlight>>

\* AddInput: SetCameraDevice makes the session the device's close listener, whether or not
\* another session is.
AddInput(t, s, d) ==
  /\ MayCall(t, s, "addInput") /\ StateLockFree(s) /\ WrapperFree(s) /\ ListenerLockFree(d)
  /\ d \in workload.devices /\ session[s].st = "configuring" /\ session[s].input = NoDevice
  /\ session' = [session EXCEPT ![s].input = d]
  /\ device' = [device EXCEPT ![d].listener = s]
  /\ shared' = IF \E k \in Session : session[k].input = d THEN shared \cup {d} ELSE shared
  /\ UNCHANGED <<workload, op, gate, operator, linked, letGo, group, alive, crossed, late, skipped, lost, inFlight>>

\* RemoveInput lets go of the device without closing it.
RemoveInput(t, s) ==
  LET d == session[s].input IN
  /\ MayCall(t, s, "removeInput") /\ StateLockFree(s) /\ WrapperFree(s)
  /\ session[s].st = "configuring" /\ d # NoDevice /\ ListenerLockFree(d)
  /\ session' = [session EXCEPT ![s].input = NoDevice]
  /\ device' = [device EXCEPT ![d].listener = None]
  /\ operator' = [operator EXCEPT ![s].hdi = NoDevice]
  /\ UNCHANGED <<workload, op, gate, linked, letGo, group, alive, history>>
-----------------------------------------------------------------------------
(* Commit, start and stop. *)

\* CommitConfig up to the validation.  An operator without an HDI operator asks the device for
\* one, and gets it if the device is open.
CommitConfig(t, s) ==
  LET d == session[s].input
      asks == operator[s].hdi = NoDevice /\ d # NoDevice /\ device[d].open
  IN
  /\ MayCall(t, s, "commit") /\ StateLockFree(s)
  /\ session[s].st \in {"configuring", "started"} /\ HasOperator(s)
  /\ operator' = IF asks THEN [operator EXCEPT ![s].hdi = d] ELSE operator
  /\ device' = IF asks THEN [device EXCEPT ![d].callback = s] ELSE device
  /\ letGo' = IF asks THEN (letGo \cup {device[d].callback}) \ {s, None} ELSE letGo
  /\ op' = IF d # NoDevice /\ operator[s].outputs # {}
             THEN [op EXCEPT ![t] = [Idle EXCEPT !.pc = "link", !.s = s, !.ways = operator[s].outputs]]
             ELSE op
  /\ crossed' = IF asks /\ \E k \in Thread : At(k, "hdiClose") /\ op[k].dev = d THEN crossed \cup {s} ELSE crossed
  /\ UNCHANGED <<workload, gate, session, linked, group, alive, shared, late, skipped, lost, inFlight>>

\* One stream is linked; the HDI operator may have been reset meanwhile by a close.
LinkStream(t, x) ==
  LET s == op[t].s IN
  /\ At(t, "link") /\ x \in op[t].ways
  /\ IF operator[s].hdi = NoDevice
       THEN op' = [op EXCEPT ![t] = Idle] /\ UNCHANGED linked
       ELSE /\ linked' = [linked EXCEPT ![s][x] = operator[s].hdi]
            /\ op' = [op EXCEPT ![t].ways = @ \ {x}, ![t].pc = IF op[t].ways = {x} THEN "create" ELSE @]
  /\ UNCHANGED <<workload, gate, session, operator, device, letGo, group, alive, history>>

\* Mutant: what CreateStreams and CommitStreams return is not looked at.
CreateStreams_Unchecked(t) ==
  LET s == op[t].s IN
  /\ At(t, "create")
  /\ session' = [session EXCEPT ![s].st = "committed"]
  /\ op' = [op EXCEPT ![t] = Idle]
  /\ UNCHANGED <<workload, gate, operator, linked, device, letGo, group, alive, history>>

\* CreateStreams and CommitStreams fail without an HDI operator or with a stale one, and may
\* fail in the HDI; only their success commits the session.
CreateStreams(t) ==
  LET s == op[t].s IN
  /\ At(t, "create")
  /\ \E ok \in IF operator[s].hdi \notin Device THEN {FALSE}
               ELSE IF "failure" \in workload.actors THEN BOOLEAN ELSE {TRUE} :
       session' = IF ok THEN [session EXCEPT ![s].st = "committed"] ELSE session
  /\ op' = [op EXCEPT ![t] = Idle]
  /\ UNCHANGED <<workload, gate, operator, linked, device, letGo, group, alive, history>>

\* Start needs the operator; that the preview streams do not start does not keep it back.
Start(t, s) ==
  /\ MayCall(t, s, "start") /\ StateLockFree(s) /\ session[s].st = "committed" /\ HasOperator(s)
  /\ session' = [session EXCEPT ![s].st = "started"]
  /\ UNCHANGED <<workload, op, gate, operator, linked, device, letGo, group, alive, history>>

\* What Stop does to s, which the table of transitions allows in the middle of a
\* configuration too.
StopEffect(s) ==
  IF session[s].st \in {"configuring", "started"} /\ HasOperator(s)
    THEN /\ session' = [session EXCEPT ![s].st = "committed"]
         /\ skipped' = IF session[s].st = "configuring" THEN skipped \cup {s} ELSE skipped
    ELSE UNCHANGED <<session, skipped>>

Stop(t, s) ==
  /\ MayCall(t, s, "stop") /\ StateLockFree(s) /\ session[s].st \in {"configuring", "started"} /\ StopEffect(s)
  /\ UNCHANGED <<workload, op, gate, operator, linked, device, letGo, group, alive, shared, crossed, late, lost, inFlight>>
-----------------------------------------------------------------------------
(* Release. *)

\* Release() of the client: Stop first, and Release(type) after it, the lock let go between.
Release(t, s) ==
  /\ MayCall(t, s, "release") /\ StateLockFree(s) /\ WrapperFree(s) /\ StopEffect(s)
  /\ op' = [op EXCEPT ![t] = [Idle EXCEPT !.pc = "release", !.s = s]]
  /\ UNCHANGED <<workload, gate, operator, linked, device, letGo, group, alive, shared, crossed, late, lost, inFlight>>

\* The Stop of a preempted session.
StopPreempted(t) ==
  /\ At(t, "stop") /\ StateLockFree(op[t].s) /\ StopEffect(op[t].s)
  /\ GoTo(t, "release")
  /\ UNCHANGED <<workload, gate, operator, linked, device, letGo, group, alive, shared, crossed, late, lost, inFlight>>

\* The client lets go of its last proxy: ~HCaptureSessionWrapper releases the session, but
\* does not take it from the group.
DropProxy(t, s) ==
  /\ "drop" \in workload.actors \/ ~alive
  /\ t \in Client /\ At(t, "idle") /\ session[s].proxy /\ WrapperFree(s)
  /\ \A k \in Client : op[k].s = s => op[k].next = "created"
  /\ session' = [session EXCEPT ![s].proxy = FALSE]
  /\ op' = [op EXCEPT ![t] = [Idle EXCEPT !.pc = "release", !.s = s, !.next = "dropped"]]
  /\ UNCHANGED <<workload, gate, operator, linked, device, letGo, group, alive, history>>

\* Release(type) with the lock: out of the group, nothing more if the operator is gone, or
\* else the outputs released, then the device closed.
ReleaseSession(t) ==
  LET s == op[t].s  d == session[s].input  proceeds == session[s].st # "released" IN
  /\ At(t, "release") /\ StateLockFree(s)
  /\ group' = IF proceeds /\ op[t].next # "dropped" THEN RemoveFirst(group, s) ELSE group
  /\ IF proceeds /\ HasOperator(s)
       THEN /\ linked' = [linked EXCEPT ![s] = Unlink(s, operator[s].outputs)]
            /\ operator' = [operator EXCEPT ![s].outputs = {}]
            /\ op' = [op EXCEPT ![t].pc = IF d = NoDevice THEN "finish" ELSE "closeLock", ![t].dev = d]
            /\ UNCHANGED lost
       ELSE /\ Proceed(t) /\ UNCHANGED <<linked, operator>>
            /\ lost' = IF proceeds THEN lost \cup {s} ELSE lost
  /\ UNCHANGED <<workload, gate, session, device, letGo, alive, shared, crossed, late, skipped, inFlight>>

\* Mutant: the device keeps its input, as SetCameraDevice(nullptr) is not called.
ReleaseFinish_KeepsDevice(t) ==
  LET s == op[t].s IN
  /\ At(t, "finish")
  /\ session' = [session EXCEPT ![s].st = "released"]
  /\ operator' = [operator EXCEPT ![s] = NoOperator]
  /\ Proceed(t)
  /\ UNCHANGED <<workload, gate, linked, device, letGo, group, alive, history>>

\* Then SetCameraDevice(nullptr), the operator's Release, and the state.
ReleaseFinish(t) ==
  LET s == op[t].s  d == session[s].input IN
  /\ At(t, "finish") /\ (d # NoDevice => ListenerLockFree(d))
  /\ session' = [session EXCEPT ![s].st = "released", ![s].input = NoDevice]
  /\ device' = IF d # NoDevice THEN [device EXCEPT ![d].listener = None] ELSE device
  /\ operator' = [operator EXCEPT ![s] = NoOperator]
  /\ Proceed(t)
  /\ UNCHANGED <<workload, gate, linked, letGo, group, alive, history>>
-----------------------------------------------------------------------------
(* The devices. *)

Open(t, d) ==
  /\ At(t, "idle") /\ alive /\ t \in Client /\ d \in workload.devices /\ gate = "free" /\ ~device[d].open
  /\ device' = [device EXCEPT ![d].open = TRUE]
  /\ UNCHANGED <<workload, op, gate, session, operator, linked, letGo, group, alive, history>>

\* A client's Close; an eviction, with the lock of another client's Open; the loss of the
\* permission, which closes without the lock.
Close(t, d) ==
  /\ At(t, "idle") /\ d \in workload.devices
  /\ \/ t \in Client /\ alive /\ "close" \in workload.calls /\ gate = "free" /\ gate' = t
     \/ t = Evictor /\ "eviction" \in workload.actors /\ device[d].open /\ gate = "free" /\ gate' = t
     \/ t = Evictor /\ "permission" \in workload.actors /\ device[d].open /\ UNCHANGED gate
  /\ op' = [op EXCEPT ![t] = [Idle EXCEPT !.pc = "listener", !.dev = d]]
  /\ UNCHANGED <<workload, session, operator, linked, device, letGo, group, alive, history>>

\* The lock for the close of a device in a release or after the client's death.
CloseLock(t) ==
  /\ At(t, "closeLock") /\ gate = "free" /\ gate' = t
  /\ GoTo(t, "listener")
  /\ UNCHANGED <<workload, session, operator, linked, device, letGo, group, alive, history>>

\* Mutant: BeforeDeviceClose asks for the lock of the session's state.
BeforeDeviceClose_Locked(t) ==
  LET d == op[t].dev  s == device[d].listener IN
  /\ At(t, "listener") /\ ListenerLockFree(d)
  /\ s # None => StateLockFree(s) \/ op[t].s = s
  /\ IF s # None /\ HasOperator(s)
       THEN /\ linked' = [linked EXCEPT ![s] = Unlink(s, operator[s].outputs)]
            /\ GoTo(t, "operatorRelease")
       ELSE GoTo(t, "hdiClose") /\ UNCHANGED linked
  /\ UNCHANGED <<workload, gate, session, operator, device, letGo, group, alive, history>>

\* BeforeDeviceClose, without the lock of the session's state: the outputs are unlinked, ...
BeforeDeviceClose(t) ==
  LET d == op[t].dev  s == device[d].listener IN
  /\ At(t, "listener") /\ ListenerLockFree(d)
  /\ IF s # None /\ HasOperator(s)
       THEN /\ linked' = [linked EXCEPT ![s] = Unlink(s, operator[s].outputs)]
            /\ GoTo(t, "operatorRelease")
       ELSE GoTo(t, "hdiClose") /\ UNCHANGED linked
  /\ UNCHANGED <<workload, gate, session, operator, device, letGo, group, alive, history>>

\* Mutant: the operator is not released, only unlinked.
OperatorRelease_Not(t) ==
  /\ At(t, "operatorRelease")
  /\ GoTo(t, "hdiClose")
  /\ UNCHANGED <<workload, gate, session, operator, linked, device, letGo, group, alive, history>>

\* ... and the operator is released: no HDI operator, out of the manager's map.
OperatorRelease(t) ==
  /\ At(t, "operatorRelease")
  /\ operator' = [operator EXCEPT ![device[op[t].dev].listener].listed = FALSE,
                                  ![device[op[t].dev].listener].hdi = NoDevice]
  /\ GoTo(t, "hdiClose")
  /\ UNCHANGED <<workload, gate, session, linked, device, letGo, group, alive, history>>

\* Mutant: the callback of the device that is closed is taken for set.
HdiClose_NoNullCheck(t) ==
  LET d == op[t].dev IN
  /\ At(t, "hdiClose")
  /\ device' = [device EXCEPT ![d].open = FALSE, ![d].callback = None]
  /\ letGo' = letGo \cup {device[d].callback}
  /\ gate' = IF gate = t THEN "free" ELSE gate
  /\ IF op[t].s # None THEN GoTo(t, "finish") ELSE Proceed(t)
  /\ UNCHANGED <<workload, session, operator, linked, group, alive, history>>

\* CloseDevice: the HDI's device is closed if it is open, and the lock let go.
HdiClose(t) ==
  LET d == op[t].dev
      Gone(h) == IF h = d THEN Stale ELSE h
  IN
  /\ At(t, "hdiClose")
  /\ IF device[d].open
       THEN /\ device' = [device EXCEPT ![d].open = FALSE, ![d].callback = None]
            /\ letGo' = (letGo \cup {device[d].callback}) \ {None}
            /\ operator' = [s \in Session |-> [operator[s] EXCEPT !.hdi = Gone(@)]]
            /\ linked' = [s \in Session |-> [x \in Stream |-> Gone(linked[s][x])]]
       ELSE UNCHANGED <<device, letGo, operator, linked>>
  /\ gate' = IF gate = t THEN "free" ELSE gate
  /\ IF op[t].s # None THEN GoTo(t, "finish") ELSE Proceed(t)
  /\ UNCHANGED <<workload, session, group, alive, history>>

\* The HDI's process lets go of the callback of a device that was closed.
HdiLetsGo(s) ==
  /\ s \in letGo /\ letGo' = letGo \ {s}
  /\ UNCHANGED <<workload, op, gate, session, operator, linked, device, group, alive, history>>
-----------------------------------------------------------------------------
(* The client's death. *)

\* DestroyStubObjectForPid copies the group and releases its sessions one by one.
Die ==
  /\ "death" \in workload.actors /\ alive /\ alive' = FALSE
  /\ inFlight' = \E t \in Client : ~At(t, "idle")
  /\ op' = [op EXCEPT ![Reaper] = Resume(Reaper, [Idle EXCEPT !.todo = group, !.next = "removeGroup"])]
  /\ UNCHANGED <<workload, gate, session, operator, linked, device, letGo, group, shared, crossed, late, skipped, lost>>

\* RemoveGroup; then CloseCameraForDestroy closes the cameras the client holds, ...
RemoveGroup(t) ==
  /\ At(t, "removeGroup") /\ group' = <<>>
  /\ op' = [op EXCEPT ![t] = Resume(t, [Idle EXCEPT !.devs = SetToSeq({d \in Device : device[d].open}),
                                                    !.next = "operators"])]
  /\ UNCHANGED <<workload, gate, session, operator, linked, device, letGo, alive, history>>

\* Mutant: the stream operators of the client stay where they are.
ReleaseOperators_Not(t) ==
  /\ At(t, "operators")
  /\ op' = [op EXCEPT ![t] = Resume(t, [Idle EXCEPT !.devs = SetToSeq(workload.devices), !.next = "done"])]
  /\ UNCHANGED <<workload, gate, session, operator, linked, device, letGo, group, alive, history>>

\* ... releases the client's stream operators, and closes its devices once more by their wrappers.
ReleaseOperators(t) ==
  /\ At(t, "operators")
  /\ operator' = [s \in Session |-> IF operator[s].listed
                                       THEN [operator[s] EXCEPT !.listed = FALSE, !.hdi = NoDevice]
                                       ELSE operator[s]]
  /\ op' = [op EXCEPT ![t] = Resume(t, [Idle EXCEPT !.devs = SetToSeq(workload.devices), !.next = "done"])]
  /\ UNCHANGED <<workload, gate, session, linked, device, letGo, group, alive, history>>

\* The last reference of a session: its members go, and the weak pointers to it find nothing.
Destroy(s) ==
  /\ session[s].st \notin {"none", "gone"} /\ ~session[s].proxy /\ ~InGroup(s)
  /\ \A t \in Thread : /\ op[t].s # s /\ s \notin ToSet(op[t].todo)
                       /\ At(t, "operatorRelease") => device[op[t].dev].listener # s
  /\ session' = [session EXCEPT ![s].st = "gone", ![s].input = NoDevice]
  /\ device' = [d \in Device |-> [device[d] EXCEPT !.listener = IF @ = s THEN None ELSE @]]
  /\ UNCHANGED <<workload, op, gate, operator, linked, letGo, group, alive, history>>
-----------------------------------------------------------------------------
(* The specification. *)

\* What a thread does next in a call under way.
Step(t) ==
  \/ PreemptOverflowSessions(t)
  \/ BeginConfig(t) \/ \E x \in Stream : AddOutput(t, x) \/ LinkStream(t, x)
  \/ CreateStreams(t)
  \/ StopPreempted(t) \/ ReleaseSession(t) \/ ReleaseFinish(t)
  \/ CloseLock(t) \/ BeforeDeviceClose(t) \/ OperatorRelease(t) \/ HdiClose(t)
  \/ RemoveGroup(t) \/ ReleaseOperators(t)

Call(t) ==
  \/ NewInstance(t)
  \/ \E s \in Session :
       \/ \E call \in {"begin", "addOutput"} : Enter(t, s, call)
       \/ \E x \in Stream : RemoveOutput(t, s, x)
       \/ \E d \in Device : AddInput(t, s, d)
       \/ RemoveInput(t, s) \/ CommitConfig(t, s) \/ Start(t, s) \/ Stop(t, s)
       \/ Release(t, s) \/ DropProxy(t, s)
  \/ \E d \in Device : Open(t, d) \/ Close(t, d)

Next ==
  \/ \E t \in Thread : Step(t)
  \/ \E t \in workload.threads : Call(t)
  \/ \E d \in Device : Close(Evictor, d)
  \/ \E s \in Session : HdiLetsGo(s) \/ Destroy(s)
  \/ Die

Spec == Init /\ [][Next]_vars
-----------------------------------------------------------------------------
(* Properties. *)

\* No thread works on s or is about to.
AtRest(s) == \A t \in Thread : op[t].s # s /\ s \notin ToSet(op[t].todo)

\* A released session holds nothing: no device, no listener, no output linked to an open device,
\* no operator in the manager's map, unless a call that had passed CallbackEnter before the
\* release ran after it; and it is in the group only if its last proxy was let go
\* (hcapture_session.cpp Release, hcapture_session_wrapper.cpp's destructor).
ReleasedHoldsNothing ==
  \A s \in Session : session[s].st = "released" =>
    /\ session[s].input = NoDevice
    /\ \A d \in Device : device[d].listener # s
    /\ s \notin late => ~operator[s].listed
    /\ InGroup(s) => ~session[s].proxy

\* A device tells its session that it closes: the listener is the session whose input it is,
\* and no other, unless two sessions had it as their input at once, which AddInput does not
\* prevent (SetCameraDevice, SetCameraCloseListener).
ListenerAgrees ==
  \A s \in Session, d \in Device : d \notin shared =>
    (session[s].input = d <=> device[d].listener = s)

\* What a committed session outputs to is linked to its device, and that is open, until its
\* operator is released by the close of the device, whatever closes met the commit, and unless
\* Stop committed what was never linked (CommitConfig, BeforeDeviceClose, Stop).
CommittedIsLinked ==
  \A s \in Session :
    LET d == session[s].input IN
    /\ session[s].st \in {"committed", "started"} /\ s \notin skipped \cup crossed
    /\ operator[s].listed /\ operator[s].outputs # {} /\ d \notin shared
    /\ \A t \in Thread : ~At(t, "operatorRelease") /\ op[t].s # s
    => d # NoDevice /\ device[d].open /\ \A x \in operator[s].outputs : linked[s][x] = d

\* The group accounts for the sessions: one that was not released is in it, unless its Release
\* found the operator gone; and it is no larger than its limit while none is created
\* (AddSession, RemoveSession, PreemptOverflowSessions).
GroupAccounts ==
  /\ \A s \in Session :
       session[s].st \notin {"none", "released", "gone"} /\ session[s].proxy /\ AtRest(s) /\ alive
         => InGroup(s) \/ s \in lost
  /\ ServiceFree => Len(group) <= workload.limit
  /\ IsInjective(group)

\* Once the client's death is dealt with nothing of it is left: no session in the group, no
\* device open, no operator in the map, unless a call was under way when it died
\* (DestroyStubObjectForPid, CloseCameraForDestroy).
DeathLeavesNothing ==
  At(Reaper, "done") /\ ~inFlight =>
    /\ group = <<>>
    /\ \A d \in Device : ~device[d].open
    /\ \A s \in Session : ~operator[s].listed

\* No deadlock: while calls are under way one of them can go on, so that the locks of the
\* sessions, of the devices' listeners, of opening and closing and of the service are never
\* waited for in a circle (the orders of HCaptureSession::Release, HCameraDevice::Close and
\* CloseDevice, and CreateCaptureSession).
NoDeadlock ==
  (\E t \in Thread : op[t].pc \notin {"idle", "done"}) => ENABLED \E t \in Thread : Step(t)
=============================================================================
