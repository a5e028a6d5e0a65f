-------------------------- MODULE MCDeferredPhoto --------------------------
(***************************************************************************)
(* Instances of the photo pipeline.  A run has the workloads its           *)
(* properties hold under; each has the photos and the features that one    *)
(* question needs.                                                         *)
(***************************************************************************)
EXTENDS DeferredPhoto, FiniteSetsExt, TLC

Symmetry == Permutations(Image) \cup Permutations(Info)

Work(images, errors, reports, features, maxCmds) ==
  [images |-> images, iveErrors |-> errors, hdiReports |-> reports,
   features |-> features, maxCmds |-> maxCmds]

\* The same for every choice of n ordinary photos.
SomeOf(n, errors, reports, features, maxCmds) ==
  {Work(s, errors, reports, features, maxCmds) : s \in kSubset(n, Image \ Background)}

WithBackground(work) == {[w EXCEPT !.images = @ \cup Background] : w \in work}

\* Requests race answers and timeouts; removals of both kinds; an offline and a
\* background photo that come and go; an HDI that dies and returns.
PhotosWorkload ==
  SomeOf(2, {}, {}, {"request", "timeout"}, 1)
    \cup SomeOf(2, {"FATAL"}, {}, {"remove", "restore"}, 1)
    \cup WithBackground(SomeOf(1, {}, {}, {"remove", "request", "cancel", "timeout", "background",
                                           "readd"}, 1))
    \cup SomeOf(2, {}, {}, {"start", "request", "death"}, 1)

\* Three photos with requests and failures; an HDI that dies, with two photos or
\* with one that is requested.
OrderWorkload ==
  SomeOf(3, {"HIGH_TEMPERATURE"}, {}, {"request", "cancel"}, 1)
    \cup SomeOf(2, {}, {}, {"start", "death"}, 1)
    \cup SomeOf(1, {}, {}, {"start", "request", "death"}, 1)

\* A slow library that dies and returns; the events that open and close the gate;
\* one photo and everything a client and a timer may do to it.
GatesWorkload ==
  SomeOf(2, {}, {}, {"remove", "library", "client"}, 1)
    \cup SomeOf(1, {}, {}, {"remove", "library", "client"}, 2)
    \cup SomeOf(1, {}, {"READY", "NOT_READY"},
                {"camera", "thermal", "interrupt", "request", "death"}, 1)
    \cup SomeOf(1, {}, {"READY"}, {"camera", "thermal", "interrupt", "trailing", "death"}, 1)
    \cup SomeOf(1, {}, {}, {"camera", "thermal", "trailing", "request", "library"}, 1)
    \cup SomeOf(1, {"FATAL"}, {}, {"remove", "restore", "request", "cancel", "timeout", "readd"}, 1)

ProgressWorkload ==
  SomeOf(2, {}, {}, {"restore", "timeout"}, 1)
    \cup WithBackground(SomeOf(1, {}, {}, {"remove", "request", "timeout", "background"}, 1))

LoweredOrderWorkload == SomeOf(3, {"ABNORMAL"}, {}, {"remove", "restore"}, 1)
CachedErrorWorkload == SomeOf(1, {"ABNORMAL"}, {}, {"request", "client"}, 1)
LostReleaseWorkload == SomeOf(2, {}, {}, {"library", "client", "restore"}, 2)
=============================================================================
