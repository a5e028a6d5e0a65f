-------------------------- MODULE MCDeferredVideo --------------------------
(***************************************************************************)
(* Instances of the video pipeline: each workload is one question, with the *)
(* videos and the features it needs.                                       *)
(***************************************************************************)
EXTENDS DeferredVideo, FiniteSetsExt

Work(n, errors, features, charging, maxCmds, maxCalls) ==
  {[videos |-> s, errors |-> errors, features |-> features, charging |-> charging, 
    maxCmds |-> maxCmds, maxCalls |-> maxCalls] :
     s \in {CHOOSE t \in kSubset(n, Video) : TRUE}}

VideoWorkload ==
  Work(3, {}, {"request", "camera"}, FALSE, 1, 6)
    \cup Work(2, {}, {"request", "screen", "time"}, FALSE, 1, 4)
    \cup Work(2, {}, {"request", "cancel", "screen"}, FALSE, 1, 5)
    \cup Work(2, {"FAILED"}, {"remove", "restore", "readd", "request"}, FALSE, 1, 5)
    \cup Work(2, {}, {"request", "death"}, TRUE, 1, 5)
    \cup Work(2, {}, {"request", "charging", "battery", "level"}, TRUE, 1, 5)
    \cup Work(1, {"OTHER"}, {"client", "sync", "request"}, FALSE, 2, 6)
    \cup Work(1, {}, {"request", "media", "thermal", "photo", "interrupt"}, TRUE, 2, 6)
    \cup Work(2, {}, {"request", "late"}, FALSE, 1, 5)
    \cup Work(1, {}, {"request", "late", "charging", "time"}, FALSE, 1, 4)
    \cup Work(1, {}, {"request", "remove", "restore", "time"}, FALSE, 2, 5)
=============================================================================
