---------------------------- MODULE CameraDevices ----------------------------
(***************************************************************************)
(* The camera devices of the camera service: HCameraDevice's open and close *)
(* with the evictions HCameraDeviceManager decides, the host manager's map  *)
(* of open devices, the use of the camera permission, and the loss of a     *)
(* camera or of the whole HDI service, step by step between two locks.      *)
(*                                                                         *)
(*   op       what each thread is doing: a client's binder thread, the      *)
(*            thread of the permission callbacks, that of the HDI's host    *)
(*   lock     who holds g_deviceOpenCloseMutex_                             *)
(*   host     does the HDI service live, is it in cameraHostInfos_; does    *)
(*            the host's thread hold HCameraHostManager::mutex_; the        *)
(*            cameras it has yet to close                                   *)
(*   open     the devices with isOpenedCameraDevice_                        *)
(*   lost     those of them whose HDI service died: its next process knows  *)
(*            nothing of them                                               *)
(*   holders  activeCameras_, whose holders pidToCameras_ groups by process *)
(*   unpriced the devices whose holder was made without cost and conflicts  *)
(*   hostMap  HCameraHostManager::cameraDevices_                            *)
(*   privacy  the processes registered as using the camera, the devices     *)
(*            whose cameraUseCallbackPtr_ or permissionCallbackPtr_ is set, *)
(*            and, for the properties, the processes of which a later step  *)
(*            of the registration failed                                    *)
(***************************************************************************)
EXTENDS Naturals, FiniteSets, SequencesExt

CONSTANTS
  Process,       \* the clients, each with one thread here
  Watcher,       \* the thread of the permission callbacks
  HostThread,    \* the thread of the HDI's callbacks
  Camera,
  Device,        \* HCameraDevice objects
  NoDevice,
  OwnerOf,       \* [Device -> Process]
  CameraOf,      \* [Device -> Camera]
  Workload       \* the cameras a behaviour is about

MaxCost == 100

ASSUME DevicesAssumption ==
  /\ IsFiniteSet(Camera) /\ IsFiniteSet(Device)
  /\ Watcher \notin Process /\ HostThread \notin Process /\ Watcher # HostThread
  /\ "free" \notin Process \cup {Watcher, HostThread}
  /\ NoDevice \notin Device
  /\ OwnerOf \in [Device -> Process] /\ CameraOf \in [Device -> Camera]
  /\ Workload \subseteq [devices : SUBSET Device, priced : BOOLEAN, cost : [Camera -> Nat],
                         conflicts : SUBSET (Camera \X Camera), table : SUBSET SUBSET Camera,
                         actors : SUBSET {"permission", "refusal", "host"}]

VARIABLES
  workload,  \* the devices there are; whether the HDI tells what cameras cost (V1_3), the
             \* costs, the cameras in conflict; the groups of concurrent cameras; what happens
             \* beside the clients' calls: callbacks of the permission, refusals of its use,
             \* failures of the HDI's host
  op, lock, host, open, lost, holders, unpriced, hostMap, privacy,
  via,       \* history: how each holder was admitted
  spared,    \* history: pairs of a device and a holder whose conflict did not evict it
  stranded,  \* history: the open devices the removal of the host took out of the lists
  overlap    \* history: a camera was opened that a callback had seen open before, or whose
             \* device had outlived the HDI service that opened it

state == <<op, lock, host, open, lost, holders, unpriced, hostMap, privacy>>
history == <<via, spared, stranded, overlap>>
vars == <<workload, state, history>>

Thread == Process \cup {Watcher, HostThread}
Idle == [pc |-> "idle", dev |-> NoDevice, todo |-> <<>>, next |-> "idle"]
Places == {"idle", "admit", "privacy", "hdi", "addLock", "add", "register",
           "closeLock", "close", "closePrivacy", "closeHost", "hostNext", "hostDied"}

TypeOK ==
  /\ workload \in Workload
  /\ op \in [Thread -> [pc : Places, dev : Device \cup {NoDevice}, todo : Seq(Device),
                        next : {"idle", "privacy", "hostDied"}]]
  /\ lock \in Thread \cup {"free"}
  /\ host \in [up : BOOLEAN, known : BOOLEAN, locked : BOOLEAN, cams : Seq(Camera)]
  /\ open \subseteq Device /\ lost \subseteq Device /\ holders \in Seq(Device) /\ unpriced \subseteq Device
  /\ hostMap \in [Camera -> Device \cup {NoDevice}]
  /\ privacy \in [using : SUBSET Process, useCb : SUBSET Device, permCb : SUBSET Device,
                  refused : SUBSET Process]
  /\ via \in [Device -> {"none", "cost", "conflict", "table"}]
  /\ spared \subseteq Device \X Device /\ stranded \subseteq Device /\ overlap \in BOOLEAN

Init ==
  /\ workload \in Workload
  /\ op = [t \in Thread |-> Idle] /\ lock = "free"
  /\ host = [up |-> TRUE, known |-> TRUE, locked |-> FALSE, cams |-> <<>>]
  /\ open = {} /\ lost = {} /\ holders = <<>> /\ unpriced = {} /\ hostMap = [c \in Camera |-> NoDevice]
  /\ privacy = [using |-> {}, useCb |-> {}, permCb |-> {}, refused |-> {}]
  /\ via = [d \in Device |-> "none"] /\ spared = {} /\ stranded = {}
  /\ overlap = FALSE
-----------------------------------------------------------------------------
(* The locks.  HCameraHostManager::mutex_ is held across steps by the thread *)
(* that removes a host, mapMutex_ by a thread that adds a device and asks    *)
(* the host for its cost meanwhile, a device's opMutex_ by one that closes   *)
(* it.                                                                       *)

HostMutexFree == ~host.locked
MapMutexFree == \A t \in Thread : op[t].pc # "add"
OpMutexFree(d) == \A t \in Thread : op[t].pc = "closePrivacy" => Head(op[t].todo) # d

At(t, pc) == op[t].pc = pc
GoTo(t, pc) == op' = [op EXCEPT ![t].pc = pc]

\* The end of an Open.
Return(t) == op' = [op EXCEPT ![t] = Idle] /\ lock' = "free"
-----------------------------------------------------------------------------
(* Who is evicted for device d, given the processes of a higher priority. *)

HoldersOf(p) == {d \in ToSet(holders) : OwnerOf[d] = p}

\* Among the given holders.
IsMultiCameraActive(p, ds) == \E d \in ToSet(ds) : OwnerOf[d] = p

\* What the HDI says a camera costs, and whether it says so.
Cost(d) == workload.cost[CameraOf[d]]
TellsCost == workload.priced /\ host.up

\* The cost of a holder.
CostHeld(d) == IF d \in unpriced THEN 0 ELSE Cost(d)
CostOf(ds) == FoldLeft(LAMBDA n, d : n + CostHeld(d), 0, ds)
TotalCost == CostOf(holders)

\* Holder e and the request for d: the request's conflicts are known, the holder's only if
\* the HDI told them when it was added.
IsConflicting(e, d) ==
  LET c == CameraOf[e]  k == CameraOf[d]
  IN  c = k \/ <<k, c>> \in workload.conflicts \/ (e \notin unpriced /\ <<c, k>> \in workload.conflicts)

Refuse == [ok |-> FALSE, evict |-> <<>>, via |-> "none"]

\* Mutant: the cost of the camera that is requested is not counted.
ByCost_Current(d, higher) ==
  LET mine == \A e \in ToSet(holders) : OwnerOf[e] \notin higher
      Consider(r, e) ==
        IF /\ r.total > MaxCost /\ CostHeld(e) > 0 /\ OwnerOf[e] \notin higher
           /\ ~(mine /\ OwnerOf[e] = OwnerOf[d])
          THEN [total |-> r.total - CostHeld(e), evict |-> Append(r.evict, e)]
          ELSE r
      done == FoldLeft(Consider, [total |-> TotalCost, evict |-> <<>>], holders)
  IN  IF done.total > MaxCost THEN Refuse ELSE [ok |-> TRUE, evict |-> done.evict, via |-> "cost"]

\* Without a conflict, holders of no higher priority go, the oldest first, until the cost
\* fits; the requesting process' own only if some holder is of higher priority.
ByCost(d, higher) ==
  LET mine == \A e \in ToSet(holders) : OwnerOf[e] \notin higher
      Consider(r, e) ==
        IF /\ r.total > MaxCost /\ CostHeld(e) > 0 /\ OwnerOf[e] \notin higher
           /\ ~(mine /\ OwnerOf[e] = OwnerOf[d])
          THEN [total |-> r.total - CostHeld(e), evict |-> Append(r.evict, e)]
          ELSE r
      done == FoldLeft(Consider, [total |-> TotalCost + Cost(d), evict |-> <<>>], holders)
  IN  IF done.total > MaxCost THEN Refuse ELSE [ok |-> TRUE, evict |-> done.evict, via |-> "cost"]

\* Mutant: only the holder is asked for its conflicts, not the device that is requested.
WouldEvict_OneWay(d, higher) ==
  LET conflicts == {i \in DOMAIN holders : LET c == CameraOf[holders[i]]
                                           IN  \/ c = CameraOf[d]
                                               \/ /\ holders[i] \notin unpriced
                                                  /\ <<c, CameraOf[d]>> \in workload.conflicts}
      first == holders[Min(conflicts)]
  IN  IF conflicts = {} THEN ByCost(d, higher)
      ELSE IF OwnerOf[first] \notin higher
        THEN [ok |-> TRUE, evict |-> <<first>>, via |-> "conflict"]
        ELSE Refuse

\* The first holder in conflict decides alone.
WouldEvict(d, higher) ==
  LET conflicts == {i \in DOMAIN holders : IsConflicting(holders[i], d)}
      first == holders[Min(conflicts)]
  IN  IF conflicts = {} THEN ByCost(d, higher)
      ELSE IF OwnerOf[first] \notin higher
        THEN [ok |-> TRUE, evict |-> <<first>>, via |-> "conflict"]
        ELSE Refuse

Concurrent(ds) == \E g \in workload.table : {CameraOf[e] : e \in ds} \subseteq g

\* SaveConcurrentCameras: is holder e kept beside those kept already?
IsKept(e, kept, d, higher) ==
  IF OwnerOf[e] = OwnerOf[d] THEN CameraOf[e] # CameraOf[d]
  ELSE Concurrent(kept \cup {e}) \/ OwnerOf[e] \in higher

\* Without costs, by the table of concurrent cameras, in the given order of the holders.
GetConflictDevices(d, higher, order) ==
  LET Confirm(r, e) == IF IsKept(e, r.kept, d, higher)
                         THEN [r EXCEPT !.kept = @ \cup {e}]
                         ELSE [r EXCEPT !.evict = Append(@, e)]
      done == FoldLeft(Confirm, [kept |-> {}, evict |-> <<>>], order)
  IN  [ok |-> done.kept = {} \/ Concurrent(done.kept), evict |-> done.evict, via |-> "table"]
-----------------------------------------------------------------------------
(* Open. *)

\* Open takes the lock; what waits for it has no effect yet.  A process that is not in the
\* foreground or lacks the permission is turned away with nothing changed.
Open(t, d) ==
  /\ At(t, "idle") /\ d \in workload.devices /\ OwnerOf[d] = t /\ ~overlap
  /\ lock = "free" /\ lock' = t
  /\ op' = [op EXCEPT ![t] = [Idle EXCEPT !.pc = "admit", !.dev = d]]
  /\ UNCHANGED <<workload, host, open, lost, holders, unpriced, hostMap, privacy, history>>

\* The holders in conflict with d that the verdict leaves, unless it saw no conflict.
Spared(d, verdict) ==
  {<<d, e>> : e \in {e \in ToSet(holders) \ ToSet(verdict.evict) : verdict.via # "cost" /\ IsConflicting(e, d)}}

\* Mutant: an evicted device is closed with Close, which takes the lock again.
Decide_Close(t, d, verdict) ==
  /\ IF verdict.evict = <<>> /\ ~verdict.ok THEN Return(t)
     ELSE /\ op' = [op EXCEPT ![t].todo = verdict.evict, ![t].next = IF verdict.ok THEN "privacy" ELSE "idle",
                              ![t].pc = IF verdict.evict = <<>> THEN "privacy" ELSE "closeLock"]
          /\ UNCHANGED lock
  /\ via' = IF verdict.ok THEN [via EXCEPT ![d] = verdict.via] ELSE via
  /\ spared' = IF verdict.ok THEN spared \cup Spared(d, verdict) ELSE spared

\* The evicted are closed also if the request is refused, which the table may do.
Decide(t, d, verdict) ==
  /\ IF verdict.evict = <<>> /\ ~verdict.ok THEN Return(t)
     ELSE /\ op' = [op EXCEPT ![t].todo = verdict.evict, ![t].next = IF verdict.ok THEN "privacy" ELSE "idle",
                              ![t].pc = IF verdict.evict = <<>> THEN "privacy" ELSE "close"]
          /\ UNCHANGED lock
  /\ via' = IF verdict.ok THEN [via EXCEPT ![d] = verdict.via] ELSE via
  /\ spared' = IF verdict.ok THEN spared \cup Spared(d, verdict) ELSE spared

CanOpenCamera(t) ==
  /\ At(t, "admit") /\ HostMutexFree /\ MapMutexFree
  /\ \E higher \in SUBSET (Process \ {t}) :
       LET d == op[t].dev
       IN  IF TellsCost
             THEN Decide(t, d, WouldEvict(d, higher))
             ELSE \E order \in SetToSeqs(DOMAIN holders) :
                    Decide(t, d, GetConflictDevices(d, higher, [i \in DOMAIN order |-> holders[order[i]]]))
  /\ UNCHANGED <<workload, host, open, lost, holders, unpriced, hostMap, privacy, stranded, overlap>>

\* StartUsingPermissionCallback: what it asks for a second time it takes for granted.
StartUsing(p, d, granted) ==
  [p EXCEPT !.useCb = @ \cup {d},
            !.using = IF d \notin p.useCb /\ granted THEN @ \cup {OwnerOf[d]} ELSE @]

Started(p, d, granted) == d \in p.useCb \/ granted

\* HandlePrivacyBeforeOpenDevice: the first camera of a process starts the use, registers
\* for changes of the permission and is recorded.  Whoever fails leaves what is done.
HandlePrivacyBeforeOpenDevice(t) ==
  /\ At(t, "privacy") /\ MapMutexFree
  /\ LET d == op[t].dev  p == OwnerOf[d]
     IN  \/ /\ HoldersOf(p) # {} /\ GoTo(t, "hdi") /\ UNCHANGED <<lock, privacy>>
         \/ /\ HoldersOf(p) = {}
            /\ \E granted \in IF "refusal" \in workload.actors THEN BOOLEAN ELSE {TRUE} :
                 LET started == StartUsing(privacy, d, granted)
                     registered == [started EXCEPT !.permCb = @ \cup {d}]
                 IN  \/ /\ ~Started(privacy, d, granted)
                        /\ privacy' = started /\ Return(t)
                     \/ /\ Started(privacy, d, granted) /\ "refusal" \in workload.actors
                        /\ privacy' = [registered EXCEPT !.refused = @ \cup {p}] /\ Return(t)
                     \/ /\ Started(privacy, d, granted)
                        /\ privacy' = registered /\ GoTo(t, "hdi") /\ UNCHANGED lock
  /\ UNCHANGED <<workload, host, open, lost, holders, unpriced, hostMap, history>>

\* StopUsingPermissionCallback, unless the process has one of the holders, and
\* UnregisterPermissionCallback, in any case.
StopUsing(p, d, ds) ==
  LET watched == [p EXCEPT !.permCb = @ \ {d}]
  IN  IF IsMultiCameraActive(OwnerOf[d], ds) THEN watched
      ELSE [watched EXCEPT !.useCb = @ \ {d}, !.using = @ \ {OwnerOf[d]}, !.refused = @ \ {OwnerOf[d]}]

\* Mutant: a failed open leaves the permission in use.
OpenFails_NoStop(t) ==
  /\ At(t, "hdi") /\ HostMutexFree /\ MapMutexFree
  /\ Return(t)
  /\ UNCHANGED <<workload, host, open, lost, holders, unpriced, hostMap, privacy, history>>

OpenFails(t) ==
  /\ At(t, "hdi") /\ HostMutexFree /\ MapMutexFree
  /\ privacy' = StopUsing(privacy, op[t].dev, holders)
  /\ Return(t)
  /\ UNCHANGED <<workload, host, open, lost, holders, unpriced, hostMap, history>>

\* The HDI opens a camera once at a time, but does not know what an earlier process of it
\* had open; a callback may still be on its way to a device of this camera that it saw open.
OpenSucceeds(t) ==
  /\ At(t, "hdi") /\ HostMutexFree /\ host.up
  /\ LET d == op[t].dev
         same == {e \in Device : CameraOf[e] = CameraOf[d]}
     IN  /\ open \cap same \subseteq lost
         /\ open' = open \cup {d} /\ lost' = lost \ {d} /\ stranded' = stranded \ {d}
         /\ overlap' = (\/ overlap \/ (open \cap same) \ ({d} \cap stranded) # {}
                       \/ \E e \in ToSet(op[Watcher].todo) : e \in same)
  /\ GoTo(t, "addLock")
  /\ UNCHANGED <<workload, lock, host, holders, unpriced, hostMap, privacy, via, spared>>

\* AddDevice asks the host for the cost while it holds mapMutex_.
AddDeviceWaits(t) ==
  /\ At(t, "addLock") /\ MapMutexFree /\ ~HostMutexFree
  /\ GoTo(t, "add")
  /\ UNCHANGED <<workload, lock, host, open, lost, holders, unpriced, hostMap, privacy, history>>

\* Whether the host answers or not, the device becomes a holder.
AddDevice(t) ==
  /\ At(t, "add") \/ (At(t, "addLock") /\ MapMutexFree)
  /\ HostMutexFree
  /\ holders' = Append(holders, op[t].dev)
  /\ unpriced' = IF TellsCost THEN unpriced \ {op[t].dev} ELSE unpriced \cup {op[t].dev}
  /\ GoTo(t, "register")
  /\ UNCHANGED <<workload, lock, host, open, lost, hostMap, privacy, history>>

\* AddCameraDevice, unless the device was closed meanwhile.
Register(t) ==
  /\ At(t, "register") /\ OpMutexFree(op[t].dev)
  /\ hostMap' = IF op[t].dev \in open THEN [hostMap EXCEPT ![CameraOf[op[t].dev]] = op[t].dev] ELSE hostMap
  /\ Return(t)
  /\ UNCHANGED <<workload, host, open, lost, holders, unpriced, privacy, history>>
-----------------------------------------------------------------------------
(* CloseDevice of the first device on a thread's list, then of the next. *)

\* A thread that has the list behind it goes on with its open, or lets the lock go.
Closed(t) ==
  LET rest == Tail(op[t].todo)
  IN  IF rest # <<>>
        THEN op' = [op EXCEPT ![t].todo = rest, ![t].pc = "close"] /\ UNCHANGED lock
        ELSE IF op[t].next = "privacy"
          THEN op' = [op EXCEPT ![t].todo = rest, ![t].pc = "privacy"] /\ UNCHANGED lock
          ELSE /\ op' = [op EXCEPT ![t] = [Idle EXCEPT !.pc = op[t].next]]
               /\ lock' = IF lock = t THEN "free" ELSE lock

IsBeingOpened(d) == \E t \in Process : op[t].dev = d

\* RemoveDevice removes the first holder of the camera; a thread that is opening it again
\* keeps its verdict.
RemoveDevice(c) ==
  LET here == {i \in DOMAIN holders : CameraOf[holders[i]] = c}
      i == Min(here)
      d == holders[i]
  IN  IF here = {} THEN UNCHANGED <<holders, unpriced, via, spared>>
      ELSE /\ holders' = RemoveAt(holders, i) /\ unpriced' = unpriced \ {d}
           /\ via' = IF IsBeingOpened(d) THEN via ELSE [via EXCEPT ![d] = "none"]
           /\ spared' = {s \in spared : s[2] # d /\ (s[1] = d => IsBeingOpened(d))}

\* Mutant: the device stays in the list of the active ones.
CloseDevice_NoRemove(t) ==
  /\ At(t, "close") /\ OpMutexFree(Head(op[t].todo))
  /\ LET d == Head(op[t].todo)
     IN  IF d \in open
           THEN /\ MapMutexFree
                /\ open' = open \ {d} /\ lost' = lost \ {d} /\ stranded' = stranded \ {d}
                /\ GoTo(t, "closePrivacy") /\ UNCHANGED lock
           ELSE Closed(t) /\ UNCHANGED <<open, lost, stranded>>
  /\ UNCHANGED <<workload, host, holders, unpriced, hostMap, privacy, via, spared, overlap>>

\* A device that is closed already is left alone; otherwise RemoveHdiCamera ...
CloseDevice(t) ==
  /\ At(t, "close") /\ OpMutexFree(Head(op[t].todo))
  /\ LET d == Head(op[t].todo)
     IN  IF d \in open
           THEN /\ MapMutexFree
                /\ open' = open \ {d} /\ lost' = lost \ {d} /\ stranded' = stranded \ {d}
                /\ RemoveDevice(CameraOf[d])
                /\ GoTo(t, "closePrivacy") /\ UNCHANGED lock
           ELSE Closed(t) /\ UNCHANGED <<open, lost, holders, unpriced, via, spared, stranded>>
  /\ UNCHANGED <<workload, host, hostMap, privacy, overlap>>

\* ... to HandlePrivacyAfterCloseDevice at its end, ...
ClosePrivacy(t) ==
  /\ At(t, "closePrivacy") /\ MapMutexFree
  /\ privacy' = StopUsing(privacy, Head(op[t].todo), holders)
  /\ GoTo(t, "closeHost")
  /\ UNCHANGED <<workload, lock, host, open, lost, holders, unpriced, hostMap, history>>

\* ... then RemoveCameraDevice.
CloseHost(t) ==
  /\ At(t, "closeHost")
  /\ hostMap' = [hostMap EXCEPT ![CameraOf[Head(op[t].todo)]] = NoDevice]
  /\ Closed(t)
  /\ UNCHANGED <<workload, host, open, lost, holders, unpriced, privacy, history>>

\* Close takes the lock; the host's thread waits for it, with what it holds.
Close(t, d) ==
  /\ At(t, "idle") /\ d \in workload.devices /\ OwnerOf[d] = t
  /\ lock = "free" /\ lock' = t
  /\ op' = [op EXCEPT ![t] = [Idle EXCEPT !.pc = "close", !.todo = <<d>>]]
  /\ UNCHANGED <<workload, host, open, lost, holders, unpriced, hostMap, privacy, history>>

CloseLock(t) ==
  /\ At(t, "closeLock") /\ lock = "free"
  /\ lock' = t
  /\ GoTo(t, "close")
  /\ UNCHANGED <<workload, host, open, lost, holders, unpriced, hostMap, privacy, history>>
-----------------------------------------------------------------------------
(* The callbacks of the permission close what they saw open, without the lock. *)
(* Bound: once overlap is set no callback comes and no open starts, so that the  *)
(* holders this leaves behind do not pile up.                                  *)

CallbackCloses(devices) ==
  /\ "permission" \in workload.actors /\ ~overlap
  /\ At(Watcher, "idle") /\ MapMutexFree /\ devices # <<>>
  /\ op' = [op EXCEPT ![Watcher] = [Idle EXCEPT !.pc = "close", !.todo = devices]]
  /\ UNCHANGED <<workload, lock, host, open, lost, holders, unpriced, hostMap, privacy, history>>

\* GetCamerasByPid: the holders of one process, in their order.
GetCamerasByPid(p) == FoldLeft(LAMBDA q, d : IF OwnerOf[d] = p THEN Append(q, d) ELSE q, <<>>, holders)

\* Of one process, as its permission is withdrawn or it uses the camera from the background.
PermStateChange(p) ==
  /\ p \in privacy.using \/ \E d \in privacy.permCb : OwnerOf[d] = p
  /\ CallbackCloses(GetCamerasByPid(p))

PermDisablePolicy == CallbackCloses(holders)
-----------------------------------------------------------------------------
(* The HDI's host: a camera fails, the service stops and starts. *)

HostCloses(c, next) ==
  op' = [op EXCEPT ![HostThread] = [Idle EXCEPT !.pc = "closeLock", !.todo = <<hostMap[c]>>, !.next = next]]

CameraFails(c) ==
  /\ "host" \in workload.actors /\ At(HostThread, "idle") /\ host.up /\ hostMap[c] # NoDevice
  /\ HostCloses(c, "idle")
  /\ UNCHANGED <<workload, lock, host, open, lost, holders, unpriced, hostMap, privacy, history>>

\* The service dies before its end is known: what it is asked from now on fails.
HostDies ==
  /\ "host" \in workload.actors /\ host.up
  /\ host' = [host EXCEPT !.up = FALSE] /\ lost' = open
  /\ UNCHANGED <<workload, op, lock, open, holders, unpriced, hostMap, privacy, history>>

\* GetCameras of the host.  Bound: it has the cameras of the workload's devices.
HostCameras == {CameraOf[d] : d \in workload.devices}

HostStops ==
  /\ At(HostThread, "idle") /\ host.known /\ ~host.up
  /\ host' = [host EXCEPT !.locked = TRUE, !.cams = SetToSeq(HostCameras)]
  /\ GoTo(HostThread, "hostNext")
  /\ UNCHANGED <<workload, lock, open, lost, holders, unpriced, hostMap, privacy, history>>

HostRemoved == [host EXCEPT !.known = FALSE, !.locked = FALSE]

\* Mutant: a camera without a device is closed, too.
RemoveNext_Blind ==
  /\ At(HostThread, "hostNext")
  /\ IF host.cams = <<>> THEN host' = HostRemoved /\ GoTo(HostThread, "idle")
     ELSE HostCloses(Head(host.cams), "hostDied") /\ UNCHANGED host
  /\ UNCHANGED <<workload, lock, open, lost, holders, unpriced, hostMap, privacy, history>>

\* RemoveCameraHost: each camera is reported unavailable, which closes the device in the
\* map, if there is one; either way the map is searched again.
RemoveNext ==
  /\ At(HostThread, "hostNext")
  /\ IF host.cams = <<>> THEN host' = HostRemoved /\ GoTo(HostThread, "idle")
     ELSE /\ UNCHANGED host
          /\ IF hostMap[Head(host.cams)] = NoDevice THEN GoTo(HostThread, "hostDied")
             ELSE HostCloses(Head(host.cams), "hostDied")
  /\ UNCHANGED <<workload, lock, open, lost, holders, unpriced, hostMap, privacy, history>>

\* CloseCameraDevice: a device that is in the map by then is taken out of the lists without
\* being closed.  One step, as nobody becomes a holder while the host is removed.
RemoveResourceWhenHostDied ==
  /\ At(HostThread, "hostDied")
  /\ LET c == Head(host.cams)  d == hostMap[c]
     IN  IF d = NoDevice THEN UNCHANGED <<holders, unpriced, hostMap, privacy, via, spared, stranded>>
         ELSE /\ MapMutexFree /\ RemoveDevice(c)
              /\ hostMap' = [hostMap EXCEPT ![c] = NoDevice]
              /\ privacy' = StopUsing(privacy, d, holders')
              /\ stranded' = stranded \cup ({d} \cap open)
  /\ host' = [host EXCEPT !.cams = Tail(@)]
  /\ GoTo(HostThread, "hostNext")
  /\ UNCHANGED <<workload, lock, open, lost, overlap>>

HostStarts ==
  /\ At(HostThread, "idle") /\ ~host.known
  /\ host' = [host EXCEPT !.up = TRUE, !.known = TRUE]
  /\ UNCHANGED <<workload, op, lock, open, lost, holders, unpriced, hostMap, privacy, history>>
-----------------------------------------------------------------------------
OpenStep(t) ==
  \/ CanOpenCamera(t) \/ HandlePrivacyBeforeOpenDevice(t)
  \/ OpenFails(t) \/ OpenSucceeds(t) \/ AddDeviceWaits(t) \/ AddDevice(t) \/ Register(t)

CloseStep(t) == CloseDevice(t) \/ ClosePrivacy(t) \/ CloseHost(t)

HostStep == RemoveNext \/ RemoveResourceWhenHostDied

\* What a thread in an operation does next.
Step(t) ==
  \/ t \in Process /\ OpenStep(t)
  \/ CloseLock(t) \/ CloseStep(t)
  \/ t = HostThread /\ HostStep

Next ==
  \/ \E t \in Process, d \in Device : Open(t, d) \/ Close(t, d)
  \/ \E t \in Thread : Step(t)
  \/ \E p \in Process : PermStateChange(p)
  \/ PermDisablePolicy
  \/ \E c \in Camera : CameraFails(c)
  \/ HostDies \/ HostStops \/ HostStarts

Spec == Init /\ [][Next]_vars

\* The threads run, calls to the HDI return, and a lock that is free again and again is
\* acquired in the end.  Nobody has to open, close or withdraw anything.
Fairness == \A t \in Thread : SF_vars(Step(t))

FairSpec == Spec /\ Fairness
-----------------------------------------------------------------------------
\* No thread is between the steps of opening or closing device d.
Settled(d) ==
  \A t \in Thread : /\ op[t].pc \in {"addLock", "add", "register"} => op[t].dev # d
                    /\ op[t].pc \in {"closePrivacy", "closeHost"} => Head(op[t].todo) # d

\* What the device, the device manager and the host manager know of a device agree, however
\* opens, evictions, closes, callbacks and failures follow each other; but that a device the
\* removal of the host finds in the map only at its second look stays open outside the
\* lists, until it is opened again or closed; and unless a camera was opened that a callback
\* of the permission, which closes without the lock, had seen open, or whose device had
\* outlived the HDI service.
HoldersAgree ==
  ~overlap => \A d \in Device : Settled(d) =>
    /\ d \in open \ stranded <=> d \in ToSet(holders)
    /\ d \in open \ stranded <=> hostMap[CameraOf[d]] = d

\* Two cameras whose conflict the HDI told are open only if the request for the later one
\* conflicted with several holders, of which the first decides and the others stay; or was
\* decided by the table of concurrent cameras, as it is while the HDI service is away.  The
\* conflicts of a device that became a holder while the service was away stay unknown.
ConflictFree ==
  ~overlap => \A i, j \in DOMAIN holders :
    i < j /\ IsConflicting(holders[i], holders[j]) => <<holders[j], holders[i]>> \in spared

\* The cost of the active cameras stays within the limit, as long as each was admitted by
\* its cost and not because it replaced a camera in conflict; one that became a holder while
\* the HDI service was away counts nothing.
CostWithinLimit == ~overlap /\ (\A d \in ToSet(holders) : via[d] = "cost") => TotalCost <= MaxCost

\* A process without a camera is not registered as using one once its calls have returned,
\* unless a step of the registration failed: that leaves the steps before it in place; or a
\* callback met an opening, after which the wrong holder may be removed.
UsageEnds ==
  ~overlap => \A p \in Process :
    /\ At(p, "idle") /\ ~IsMultiCameraActive(p, holders)
    /\ \A t \in Thread : op[t].pc = "closePrivacy" => OwnerOf[Head(op[t].todo)] # p
    => p \notin privacy.using \ privacy.refused

\* The thread that removes the host waits, with the host manager's mutex, for the lock of
\* a thread that waits for the mutex.
Stuck ==
  /\ ~HostMutexFree /\ At(HostThread, "closeLock")
  /\ lock \in Process /\ op[lock].pc \in {"admit", "hdi", "add"}

\* Whoever opens or closes a device lets the lock go, evictions and failures of cameras
\* included, and the removal of the host its mutex, unless the host is removed while a
\* device is being opened.
LocksAreLetGo ==
  /\ lock # "free" ~> (lock = "free" \/ Stuck)
  /\ host.locked ~> (~host.locked \/ Stuck)
=============================================================================
