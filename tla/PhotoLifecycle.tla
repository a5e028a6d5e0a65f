--------------------------- MODULE PhotoLifecycle ---------------------------
(***************************************************************************)
(* What the photo pipeline promises its client, without queues, priorities,*)
(* commands, timers or the HDI.                                            *)
(*                                                                         *)
(*   status     where the service is with a photo                          *)
(*   told       what the client was told of it since it was added          *)
(*   kept       a result (or an error) kept for the client to ask for; the *)
(*              first one that is kept stays until it is taken             *)
(*   connected  is there a client to tell                                  *)
(*                                                                         *)
(* One photo is processed at a time, and only one that waits; a photo is   *)
(* done only when its result has been told or kept; what is kept leaves    *)
(* only to be told, unless the photo is removed or nobody is connected.    *)
(***************************************************************************)
CONSTANT Image

VARIABLES status, told, kept, connected

vars == <<status, told, kept, connected>>

Status == {"absent", "waiting", "running", "done", "given up"}

Init ==
  /\ status = [i \in Image |-> "absent"]
  /\ told = [i \in Image |-> "none"]
  /\ kept = [i \in Image |-> "none"]
  /\ connected = TRUE

Becomes(i, s, t, k) == status'[i] = s /\ told'[i] = t /\ kept'[i] = k

\* Any step may leave the processor free, and so may start a photo that waits.
MayBegin(i) == {status[i]} \cup (IF status[i] = "waiting" THEN {"running"} ELSE {})

Keeping(i, what) == IF kept[i] = "none" THEN what ELSE kept[i]

Untouched(i) == \E s \in MayBegin(i) : Becomes(i, s, told[i], kept[i])

Added(i) ==
  /\ status[i] = "absent"
  /\ connected => kept[i] = "none"
  /\ Becomes(i, "waiting", "none", "none")

Removed(i) == Becomes(i, "absent", "none", "none")

Processed(i) ==
  /\ connected /\ status[i] # "absent"
  /\ \/ Becomes(i, "done", "done", kept[i])
     \/ Becomes(i, "done", told[i], Keeping(i, "image"))

Retried(i) ==
  /\ connected /\ status[i] # "absent"
  /\ \E t \in {told[i], "error"} : Becomes(i, "waiting", t, kept[i])

GivenUp(i) ==
  /\ connected /\ status[i] # "absent"
  /\ Becomes(i, "given up", "error", kept[i])

\* An answer for a photo that is not there any more, or that nobody waits for.
AnsweredLate(i) ==
  /\ connected => status[i] = "absent"
  /\ \E what \in {"image", "error"} : Becomes(i, status[i], told[i], Keeping(i, what))

Returned(i) ==
  /\ connected /\ kept[i] # "none"
  /\ \E s \in MayBegin(i) :
       Becomes(i, s, IF kept[i] = "image" THEN "done" ELSE told[i], "none")

Dropped(i) ==
  /\ ~ connected
  /\ \E s \in MayBegin(i) : Becomes(i, s, told[i], "none")

Running == {i \in Image : status[i] = "running"}

\* A photo is started only when no other is running afterwards.
OneAtATime == Running' \subseteq Running \/ \E i \in Image : Running' = {i}

Photo(i) ==
  \/ Added(i) \/ Removed(i) \/ Processed(i) \/ Retried(i) \/ GivenUp(i)
  \/ AnsweredLate(i) \/ Returned(i) \/ Dropped(i)

Next ==
  /\ status' \in [Image -> Status] /\ DOMAIN told' = Image /\ DOMAIN kept' = Image
  /\ OneAtATime
  /\ \/ /\ \E i \in Image : Photo(i) /\ \A j \in Image \ {i} : Untouched(j)
        /\ UNCHANGED connected
     \/ /\ \A i \in Image : Untouched(i)
        /\ connected' \in BOOLEAN

Spec == Init /\ [][Next]_vars
=============================================================================
