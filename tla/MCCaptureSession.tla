-------------------------- MODULE MCCaptureSession --------------------------
(* Small instances of CaptureSession, all in one run: preemption and an     *)
(* evictor; two threads on one session; two sessions that share a device;   *)
(* the client's death.                                                      *)
EXTENDS CaptureSession

CONSTANTS t1, t2, d1

Configure == {"begin", "addInput", "addOutput", "commit", "start"}
All == Configure \cup {"removeInput", "removeOutput", "stop", "release", "close"}

Preempted == [sessions |-> 2, limit |-> 1, devices |-> {d1}, threads |-> {t1},
              calls |-> Configure \ {"start"}, actors |-> {"eviction"}]
TwoThreads == [sessions |-> 1, limit |-> 1, devices |-> {d1}, threads |-> {t1, t2},
               calls |-> All \ {"removeOutput", "start"}, actors |-> {"permission", "failure"}]
Sharing == [sessions |-> 2, limit |-> 2, devices |-> {d1}, threads |-> {t1},
            calls |-> {"begin", "addInput", "removeInput", "release"}, actors |-> {"eviction"}]
Dying == [sessions |-> 1, limit |-> 1, devices |-> {d1}, threads |-> {t1}, calls |-> All,
          actors |-> {"eviction", "drop", "death"}]

MCWorkload == {Preempted, TwoThreads, Sharing, Dying}
MCClient == {t1, t2}
MCDevice == {d1}
=============================================================================
