------------------------ MODULE DeferredVideo_proofs ------------------------
(***************************************************************************)
(* For every set of videos, queue of commands and history of calls: the    *)
(* types of the video pipeline, its running set, its gates, the best video *)
(* first, the watch over work on battery, and delivered videos that stay   *)
(* delivered.  The only assumption is VideoAssumption.                     *)
(*                                                                         *)
(* None of them is inductive.  IInv conjoins what they need: the heap      *)
(* holds the videos there are, in order by operator> until one goes to the *)
(* recycle bin (QueueOK, Ordered), the running set (RunningOK), the video  *)
(* TryDoSchedule chose and DoProcess has not yet started (StartOK), the    *)
(* verdict isNeedStop_ (GateOK), the HDI and its death (SessionOK), the    *)
(* timer of the single time on battery and the timer thread between its    *)
(* steps (TimerNamed, StartWatched, Watched), and the answers that are     *)
(* under way (AnswersOK).                                                  *)
(*                                                                         *)
(* A handler builds the next state of the pipeline from Now with one       *)
(* operator per function of the code.  Each operator has a lemma that says *)
(* what it leaves and what it makes, each action a lemma of its own        *)
(* (...Step) with the same conclusion: the invariant holds afterwards, a   *)
(* video chosen is the root of the heap and may be processed (Chosen), and *)
(* a delivered one stays delivered (Kept).                                 *)
(***************************************************************************)
EXTENDS DeferredVideo, PhotoJobQueue_proofs, FiniteSetTheorems

-----------------------------------------------------------------------------
(***************************************************************************)
(* The types of what the state is made of, and the invariant.              *)
(***************************************************************************)
Repository ==
  [job : [Video -> Job \cup {NoJob}], before : SUBSET (Video \X Video),
   heap : Seq(Video), running : SUBSET Video, orphans : SUBSET Video]

Strategy ==
  [isNeedStop : BOOLEAN, stops : SUBSET Stop, charging : BOOLEAN, batteryLow : BOOLEAN,
   levelLow : BOOLEAN, singleOver : BOOLEAN, totalOver : BOOLEAN]

Result == [crash : [Video -> 0 .. 3], cache : [Video -> {"none", "done", "fatal", "other"}]]
Hal == [session : {"null", "live", "dead"}, runningId : SUBSET Video]
Ive == [alive : BOOLEAN, work : SUBSET Video, aborted : BOOLEAN, started : BOOLEAN]
Suspend == [timers : SUBSET (1 .. 2), id : 0 .. 2, out : {"idle", "fired", "cleared", "counted"}]

\* What a handler works on.
Pipe ==
  [repo : Repository, result : Result, hal : Hal, ive : Ive, recorder : Video \cup {"none"},
   strategy : Strategy, suspend : Suspend, starting : Video \cup {"none"}, cmds : Seq(Command)]

Videos(r) == {v \in Video : Present(r, v)}

\* The videos of r in the order of their creation or last request.
Chronological(r) ==
  /\ \A a, b \in Video : <<a, b>> \in r.before => Present(r, a) /\ Present(r, b)
  /\ \A a \in Video : <<a, a>> \notin r.before
  /\ \A a, b, c \in Video : <<a, b>> \in r.before /\ <<b, c>> \in r.before => <<a, c>> \in r.before
  /\ \A a, b \in Videos(r) : a = b \/ <<a, b>> \in r.before \/ <<b, a>> \in r.before

QueueOK(r) ==
  /\ r \in Repository
  /\ Distinct(r.heap) /\ Elements(r.heap) = Videos(r)
  /\ Chronological(r)

\* runningSet_ has at most one video, and every RUNNING one; one that left that
\* state behind its back (leaked) stays there.
RunningOK(r, lost) ==
  /\ \A u, v \in r.running : u = v
  /\ \A v \in Video : r.job[v].state = "RUNNING" => v \in r.running
  /\ \A v \in r.running : v \notin lost => r.job[v].state = "RUNNING"
  /\ \A v \in lost : v \in r.running /\ r.job[v].state # "RUNNING"

Ordered(r) == HeapOrder(r.heap, Better(r))

StartOK(r, s) == s # "none" => r.running = {} /\ Present(r, s) /\ Waits(r, s)

GateOK(st) ==
  ~ st.isNeedStop => st.stops = {} /\ (IF st.charging THEN ~ st.levelLow ELSE ~ st.batteryLow)

\* No command of the queue q is in A; at most one is.
None(q, A) == \A k \in 1 .. Len(q) : q[k] \notin A
Once(q, A) == \A j, k \in 1 .. Len(q) : q[j] \in A /\ q[k] \in A => j = k

Deaths == {c \in Command : c.op = "VideoDied"}

\* The answers of the HDI, and of the pipeline for it.
Own(v) == {c \in Command : /\ c.op \in {"Success", "Failed"} /\ c.video = v
                           /\ c.op = "Failed" => c.error \notin {"TIMEOUT", "NOT_READY"}}

SessionOK(h, w, r, q) ==
  /\ w.work \subseteq r.running
  /\ w.work # {} => h.session = "live"
  /\ Once(q, Deaths)
  /\ h.session # "dead" => None(q, Deaths)

TimerNamed(s) == s.id # 0 => s.id \in s.timers \/ s.out = "fired"

Ticking(s) == s.timers # {} \/ s.out # "idle"

StartWatched(r, s, start, over) ==
  start # "none" /\ start \notin over /\ r.job[start].suspend => Ticking(s)

Watched(r, s, w, spared) ==
  \A v \in w.work : v \notin spared /\ r.job[v].suspend /\ ~ IsHighJob(r, v) => Ticking(s) \/ w.aborted

AnswersOK(r, w, q, lost) ==
  \A v \in Video \ lost :
    /\ Once(q, Own(v))
    /\ v \in w.work => None(q, Own(v))
    /\ v \in w.work \/ ~ None(q, Own(v)) => r.job[v].state # "COMPLETED"

IInv ==
  /\ TypeOK
  /\ QueueOK(repo) /\ RunningOK(repo, leaked) /\ StartOK(repo, starting)
  /\ trashed \/ Ordered(repo)
  /\ GateOK(strategy)
  /\ SessionOK(hal, ive, repo, cmds)
  /\ TimerNamed(suspend) /\ StartWatched(repo, suspend, starting, overlapped)
  /\ Watched(repo, suspend, ive, late \cup overlapped \cup leaked)
  /\ AnswersOK(repo, ive, cmds, late)
-----------------------------------------------------------------------------
(***************************************************************************)
(* operator>.                                                              *)
(***************************************************************************)
LEMMA Ranks ==
  /\ StateRank("NONE") = 0
  /\ StateRank("PAUSE") = 1 /\ StateRank("PENDING") = 2
  /\ StateRank("FAILED") = 3 /\ StateRank("DELETED") = 4
  /\ StateRank("RUNNING") = 5 /\ StateRank("COMPLETED") = 6
  /\ StateRank("ERROR") = 7
BY DEF StateRank

\* A state is its rank, and a job has a state.
LEMMA RankType ==
  ASSUME NEW r \in Repository, NEW v \in Video
  PROVE  /\ r.job[v] \in Job \cup {NoJob}
         /\ StateRank(r.job[v].state) \in 0 .. 7
         /\ Present(r, v) => r.job[v] \in Job
         /\ Waits(r, v) <=> r.job[v].state \notin {"RUNNING", "COMPLETED", "ERROR"}
<1>1. r.job[v] \in Job \cup {NoJob}
  BY DEF Repository
<1>2. r.job[v].state \in JobState \cup {"NONE"}
  BY <1>1 DEF Job, NoJob
<1>3. StateRank(r.job[v].state) \in 0 .. 7
  BY <1>2, Ranks DEF JobState
<1>4. Waits(r, v) <=> r.job[v].state \notin {"RUNNING", "COMPLETED", "ERROR"}
  BY <1>2, Ranks DEF JobState, Waits
<1>5. Present(r, v) => r.job[v] \in Job
  BY <1>1 DEF Present, NoJob
<1>. QED  BY <1>1, <1>3, <1>4, <1>5

\* Which of two videos comes first: waiting, high, further from its end, older (newer if high).
LEMMA BetterIs ==
  ASSUME NEW r \in Repository, NEW a \in Video, NEW b \in Video
  PROVE  /\ <<a, b>> \in Better(r) <=> IsBetter(r, a, b)
         /\ Present(r, a) /\ Present(r, b) =>
              (IsBetter(r, a, b) <=>
                 IF ~ (IsHighJob(r, a) <=> IsHighJob(r, b))
                 THEN \/ Waits(r, a) /\ ~ Waits(r, b)
                      \/ (Waits(r, a) <=> Waits(r, b)) /\ IsHighJob(r, a)
                 ELSE IF StateRank(r.job[a].state) # StateRank(r.job[b].state)
                      THEN StateRank(r.job[a].state) < StateRank(r.job[b].state)
                      ELSE IF IsHighJob(r, a) THEN <<b, a>> \in r.before ELSE <<a, b>> \in r.before)
<1>1. <<a, b>> \in Better(r) <=> IsBetter(r, a, b)
  BY DEF Better
<1>2. ASSUME Present(r, a), Present(r, b)
      PROVE  IsBetter(r, a, b) <=>
               IF ~ (IsHighJob(r, a) <=> IsHighJob(r, b))
               THEN \/ Waits(r, a) /\ ~ Waits(r, b)
                    \/ (Waits(r, a) <=> Waits(r, b)) /\ IsHighJob(r, a)
               ELSE IF StateRank(r.job[a].state) # StateRank(r.job[b].state)
                    THEN StateRank(r.job[a].state) < StateRank(r.job[b].state)
                    ELSE IF IsHighJob(r, a) THEN <<b, a>> \in r.before ELSE <<a, b>> \in r.before
  <2>1. r.job[a] \in Job /\ r.job[b] \in Job
    BY <1>2, RankType
  <2>2. /\ r.job[a].state \in JobState /\ r.job[b].state \in JobState
        /\ r.job[a].priority \in {"NORMAL", "HIGH"} /\ r.job[b].priority \in {"NORMAL", "HIGH"}
    BY <2>1 DEF Job
  <2>3. r.job[a].state # r.job[b].state
          <=> StateRank(r.job[a].state) # StateRank(r.job[b].state)
    BY <2>2, Ranks DEF JobState
  <2>4. r.job[a].priority # r.job[b].priority <=> ~ (IsHighJob(r, a) <=> IsHighJob(r, b))
    BY <2>2 DEF IsHighJob
  <2>5. Waits(r, a) \in BOOLEAN /\ Waits(r, b) \in BOOLEAN
    BY DEF Waits
  <2>. QED  BY <2>3, <2>4, <2>5 DEF IsBetter
<1>. QED  BY <1>1, <1>2

\* On the videos there are, it is a strict weak order.
LEMMA BetterStrict ==
  ASSUME NEW r \in Repository, Chronological(r)
  PROVE  StrictWeak(Better(r), Videos(r))
<1>. DEFINE rank(a) == StateRank(r.job[a].state)
            high(a) == IsHighJob(r, a)
            wait(a) == Waits(r, a)
            old(a, b) == <<a, b>> \in r.before
            first(a, b) == <<a, b>> \in Better(r)
<1>1. \A a \in Videos(r) : rank(a) \in Nat /\ (wait(a) <=> rank(a) < 5)
  <2>. SUFFICES ASSUME NEW a \in Videos(r)
                PROVE  rank(a) \in Nat /\ (wait(a) <=> rank(a) < 5)
    OBVIOUS
  <2>1. a \in Video
    BY DEF Videos
  <2>2. rank(a) \in 0 .. 7
    BY <2>1, RankType
  <2>. QED  BY <2>2, Ranks DEF Waits
<1>2. \A a, b \in Videos(r) :
        first(a, b) <=> IF ~ (high(a) <=> high(b))
                        THEN \/ wait(a) /\ ~ wait(b)
                             \/ (wait(a) <=> wait(b)) /\ high(a)
                        ELSE IF rank(a) # rank(b) THEN rank(a) < rank(b)
                        ELSE IF high(a) THEN old(b, a) ELSE old(a, b)
  <2>. SUFFICES ASSUME NEW a \in Videos(r), NEW b \in Videos(r)
                PROVE  first(a, b) <=> IF ~ (high(a) <=> high(b))
                        THEN \/ wait(a) /\ ~ wait(b)
                             \/ (wait(a) <=> wait(b)) /\ high(a)
                        ELSE IF rank(a) # rank(b) THEN rank(a) < rank(b)
                        ELSE IF high(a) THEN old(b, a) ELSE old(a, b)
    OBVIOUS
  <2>1. a \in Video /\ b \in Video /\ Present(r, a) /\ Present(r, b)
    BY DEF Videos
  <2>. QED  BY <2>1, BetterIs, Zenon
<1>3. /\ \A a \in Videos(r) : ~ old(a, a)
      /\ \A a, b, c \in Videos(r) : old(a, b) /\ old(b, c) => old(a, c)
      /\ \A a, b \in Videos(r) : a = b \/ old(a, b) \/ old(b, a)
  BY DEF Chronological, Videos
<1>. HIDE DEF rank, high, wait, old, first
<1>4. \A a, b, c \in Videos(r) :
        /\ first(a, b) => ~ first(b, a)
        /\ ~ first(a, b) /\ ~ first(b, c) => ~ first(a, c)
  <2>. SUFFICES ASSUME NEW a \in Videos(r), NEW b \in Videos(r), NEW c \in Videos(r)
                PROVE  /\ first(a, b) => ~ first(b, a)
                       /\ ~ first(a, b) /\ ~ first(b, c) => ~ first(a, c)
    OBVIOUS
  <2>. DEFINE is(x, y) == first(x, y) <=> IF ~ (high(x) <=> high(y))
                        THEN \/ wait(x) /\ ~ wait(y)
                             \/ (wait(x) <=> wait(y)) /\ high(x)
                        ELSE IF rank(x) # rank(y) THEN rank(x) < rank(y)
                        ELSE IF high(x) THEN old(y, x) ELSE old(x, y)
  <2>1. is(a, b) /\ is(b, a) /\ is(b, c) /\ is(a, c)
    BY <1>2, Zenon
  <2>2. /\ rank(a) \in Nat /\ rank(b) \in Nat /\ rank(c) \in Nat
        /\ (wait(a) <=> rank(a) < 5) /\ (wait(b) <=> rank(b) < 5) /\ (wait(c) <=> rank(c) < 5)
    BY <1>1
  <2>3. /\ ~ old(a, a) /\ ~ old(b, b) /\ ~ old(c, c)
        /\ (a = b \/ old(a, b) \/ old(b, a)) /\ (b = c \/ old(b, c) \/ old(c, b))
        /\ (a = c \/ old(a, c) \/ old(c, a))
    BY <1>3
  <2>4. /\ old(a, b) /\ old(b, a) => old(a, a)
        /\ old(c, b) /\ old(b, a) => old(c, a)
        /\ old(a, b) /\ old(b, c) => old(a, c)
        /\ old(a, c) /\ old(c, b) => old(a, b)
        /\ old(b, a) /\ old(a, c) => old(b, c)
        /\ old(a, c) /\ old(c, a) => old(a, a)
    BY <1>3
  <2>5. first(a, b) => ~ first(b, a)
    BY <2>1, <2>2, <2>3, <2>4
  <2>6. ~ first(a, b) /\ ~ first(b, c) => ~ first(a, c)
    <3>1. CASE a = b \/ b = c
      BY <3>1
    <3>2. CASE a # b /\ b # c /\ a = c
      <4>1. is(a, a)
        BY <1>2, Zenon
      <4>. QED  BY <2>2, <2>3, <3>2, <4>1
    <3>3. CASE a # b /\ b # c /\ a # c
      BY <2>1, <2>2, <2>3, <2>4, <3>3
    <3>. QED  BY <3>1, <3>2, <3>3
  <2>. QED  BY <2>5, <2>6
<1>. QED  BY <1>4 DEF StrictWeak, first
-----------------------------------------------------------------------------
(***************************************************************************)
(* The operations of the repository.                                       *)
(***************************************************************************)
\* What an operation on video v leaves alone, and what holds of the queue after it.
Changed(r, t, v) ==
  /\ QueueOK(t)
  /\ \A u \in Video : u # v => t.job[u] = r.job[u]
  /\ Ordered(r) => Ordered(t)

LEMMA VideosType ==
  ASSUME NEW r, QueueOK(r)
  PROVE  /\ r \in Repository /\ r.heap \in Seq(Video) /\ r.heap \in Seq(Videos(r))
         /\ \A v \in Video : v \in Elements(r.heap) <=> Present(r, v)
         /\ StrictWeak(Better(r), Videos(r))
<1>1. r \in Repository /\ r.heap \in Seq(Video)
  BY DEF QueueOK, Repository
<1>2. Elements(r.heap) = Videos(r)
  BY DEF QueueOK
<1>3. r.heap \in Seq(Videos(r))
  <2>1. \A k \in 1 .. Len(r.heap) : r.heap[k] \in Videos(r)
    BY <1>1, <1>2 DEF Elements, SX!ToSet
  <2>. QED  BY <1>1, <2>1
<1>4. StrictWeak(Better(r), Videos(r))
  BY <1>1, BetterStrict DEF QueueOK
<1>. QED  BY <1>1, <1>2, <1>3, <1>4 DEF Videos

LEMMA StrictAgrees ==
  ASSUME NEW order, NEW S, StrictWeak(order, S)
  PROVE  Agrees(order, order, S)
BY DEF StrictWeak, Agrees

\* The order of two videos depends on nothing but their jobs and their times.
LEMMA SameOrder ==
  ASSUME NEW r \in Repository, NEW t \in Repository, NEW a \in Video, NEW b \in Video,
         t.job[a] = r.job[a], t.job[b] = r.job[b],
         <<a, b>> \in t.before <=> <<a, b>> \in r.before,
         <<b, a>> \in t.before <=> <<b, a>> \in r.before
  PROVE  <<a, b>> \in Better(t) <=> <<a, b>> \in Better(r)
<1>1. IsBetter(t, a, b) <=> IsBetter(r, a, b)
  BY DEF IsBetter, Waits, IsHighJob
<1>. QED  BY <1>1, BetterIs

LEMMA NewHeap ==
  ASSUME NEW r \in Repository, NEW h \in Seq(Video)
  PROVE  LET t == [r EXCEPT !.heap = h]
         IN  /\ t \in Repository /\ t.heap = h /\ t.job = r.job /\ t.before = r.before
             /\ t.running = r.running /\ t.orphans = r.orphans
             /\ Better(t) = Better(r) /\ Videos(t) = Videos(r)
             /\ Chronological(t) <=> Chronological(r)
<1>. DEFINE t == [r EXCEPT !.heap = h]
<1>1. /\ t \in Repository /\ t.heap = h /\ t.job = r.job /\ t.before = r.before
      /\ t.running = r.running /\ t.orphans = r.orphans
  BY DEF Repository
<1>. HIDE DEF t
<1>2. Better(t) = Better(r)
  BY <1>1 DEF Better, IsBetter, Waits, IsHighJob
<1>3. Videos(t) = Videos(r) /\ \A a \in Video : Present(t, a) <=> Present(r, a)
  BY <1>1 DEF Videos, Present
<1>4. Chronological(t) <=> Chronological(r)
  BY <1>1, <1>3 DEF Chronological
<1>. QED  BY <1>1, <1>2, <1>3, <1>4 DEF t

\* c is r after video v changed in place: Update restores the queue.
LEMMA UpdateChanged ==
  ASSUME NEW r, QueueOK(r), NEW v \in Video, Present(r, v),
         NEW c \in Repository, c.heap = r.heap, Present(c, v), Chronological(c),
         \A u \in Video : u # v => c.job[u] = r.job[u],
         \A a, b \in Video \ {v} : <<a, b>> \in c.before <=> <<a, b>> \in r.before
  PROVE  LET t == UpdateJob(c, v)
         IN  /\ Changed(r, t, v)
             /\ t.job = c.job /\ t.before = c.before
             /\ t.running = c.running /\ t.orphans = c.orphans
<1>. DEFINE S == Videos(r)
            h == UpdateById(c.heap, v, Better(c))
            t == UpdateJob(c, v)
<1>1. /\ r \in Repository /\ r.heap \in Seq(Video) /\ r.heap \in Seq(S)
      /\ StrictWeak(Better(r), S) /\ v \in Elements(r.heap)
      /\ Distinct(r.heap) /\ Elements(r.heap) = S
  BY VideosType DEF QueueOK
<1>2. Videos(c) = S
  BY DEF Videos, Present
<1>3. StrictWeak(Better(c), S)
  BY <1>2, BetterStrict
<1>4. h \in Seq(Video) /\ Permutes(h, r.heap)
  BY <1>1, UpdateByIdType
<1>5. /\ t \in Repository /\ t.heap = h /\ t.job = c.job /\ t.before = c.before
      /\ t.running = c.running /\ t.orphans = c.orphans
      /\ Better(t) = Better(c) /\ Videos(t) = S /\ Chronological(t)
  <2>. HIDE DEF h
  <2>1. t = [c EXCEPT !.heap = h]
    BY DEF UpdateJob, h
  <2>. QED  BY <1>2, <1>4, <2>1, NewHeap
<1>6. QueueOK(t)
  BY <1>1, <1>4, <1>5 DEF QueueOK, Permutes
<1>7. ASSUME Ordered(r)
      PROVE  Ordered(t)
  <2>. DEFINE p == PositionOf(r.heap, v)
  <2>1. p \in 1 .. Len(r.heap) /\ r.heap[p] = v
    BY <1>1, PositionType
  <2>2. \A a, b \in S \ {v} : <<a, b>> \in Better(c) => <<a, b>> \in Better(r)
    <3>. SUFFICES ASSUME NEW a \in S \ {v}, NEW b \in S \ {v}
                  PROVE  <<a, b>> \in Better(c) <=> <<a, b>> \in Better(r)
      OBVIOUS
    <3>1. a \in Video \ {v} /\ b \in Video \ {v}
      BY DEF Videos
    <3>2. c.job[a] = r.job[a] /\ c.job[b] = r.job[b]
      BY <3>1
    <3>. QED  BY <1>1, <3>1, <3>2, SameOrder
  <2>3. Around(r.heap, Better(c), p)
    <3>. HIDE DEF p, S
    <3>. QED  BY <1>1, <1>7, <2>1, <2>2, OrderAroundChanged DEF Ordered
  <2>4. HeapOrder(h, Better(c))
    BY <1>1, <1>3, <2>3, StrictAgrees, UpdateByIdOrder
  <2>. QED  BY <1>5, <2>4 DEF Ordered
<1>. HIDE DEF t
<1>8. \A u \in Video : u # v => t.job[u] = r.job[u]
  BY <1>5
<1>9. Changed(r, t, v)
  BY <1>6, <1>7, <1>8 DEF Changed
<1>. QED  BY <1>5, <1>9 DEF t

\* What does not touch a state, a priority, the order of time or the heap leaves the queue alone.
LEMMA QueueSame ==
  ASSUME NEW r, QueueOK(r), NEW t \in Repository, t.heap = r.heap, t.before = r.before, NEW v \in Video,
         \A u \in Video : u # v => t.job[u] = r.job[u],
         t.job[v].state = r.job[v].state, t.job[v].priority = r.job[v].priority
  PROVE  Changed(r, t, v)
<1>1. \A u \in Video : t.job[u].state = r.job[u].state /\ t.job[u].priority = r.job[u].priority
  OBVIOUS
<1>2. Videos(t) = Videos(r) /\ \A u \in Video : Present(t, u) <=> Present(r, u)
  BY <1>1 DEF Videos, Present
<1>3. Chronological(t)
  BY <1>2 DEF QueueOK, Chronological
<1>4. QueueOK(t)
  BY <1>2, <1>3 DEF QueueOK
<1>5. Better(t) = Better(r)
  <2>1. \A p \in Video \X Video : IsBetter(t, p[1], p[2]) <=> IsBetter(r, p[1], p[2])
    <3>. SUFFICES ASSUME NEW a \in Video, NEW b \in Video
                  PROVE  IsBetter(t, a, b) <=> IsBetter(r, a, b)
      OBVIOUS
    <3>. QED  BY <1>1 DEF IsBetter, Waits, IsHighJob
  <2>. QED  BY <2>1 DEF Better
<1>. QED  BY <1>4, <1>5 DEF Changed, Ordered

\* The videos are in the order of time, but for v.
ChronologicalBut(r, v) ==
  /\ \A a, b \in Video : <<a, b>> \in r.before => Present(r, a) /\ Present(r, b)
  /\ \A a \in Video : <<a, a>> \notin r.before
  /\ \A a, b, c \in Video : <<a, b>> \in r.before /\ <<b, c>> \in r.before => <<a, c>> \in r.before
  /\ \A a, b \in Videos(r) : a = b \/ <<a, b>> \in r.before \/ <<b, a>> \in r.before \/ v \in {a, b}

LEMMA UpdateTimeIs ==
  ASSUME NEW r \in Repository, NEW v \in Video, Present(r, v), ChronologicalBut(r, v)
  PROVE  LET t == UpdateTime(r, v)
         IN  /\ t \in Repository /\ Chronological(t) /\ t.job = r.job /\ t.heap = r.heap
             /\ t.running = r.running /\ t.orphans = r.orphans
             /\ \A a, b \in Video \ {v} : <<a, b>> \in t.before <=> <<a, b>> \in r.before
<1>. DEFINE times == Forget(r, v) \cup {<<u, v>> : u \in {w \in Video \ {v} : Present(r, w)}}
            t == UpdateTime(r, v)
<1>1. r.before \subseteq Video \X Video
  BY DEF Repository
<1>2. \A a, b \in Video : <<a, b>> \in times <=>
        \/ a # v /\ b # v /\ <<a, b>> \in r.before
        \/ a # v /\ b = v /\ Present(r, a)
  <2>. SUFFICES ASSUME NEW a \in Video, NEW b \in Video
                PROVE  <<a, b>> \in times <=> \/ a # v /\ b # v /\ <<a, b>> \in r.before
                                              \/ a # v /\ b = v /\ Present(r, a)
    OBVIOUS
  <2>1. <<a, b>> \in Forget(r, v) <=> a # v /\ b # v /\ <<a, b>> \in r.before
    BY DEF Forget
  <2>2. <<a, b>> \in {<<u, v>> : u \in {w \in Video \ {v} : Present(r, w)}}
          <=> a # v /\ b = v /\ Present(r, a)
    OBVIOUS
  <2>. QED  BY <2>1, <2>2
<1>3. times \in SUBSET (Video \X Video)
  BY <1>1 DEF Forget
<1>. HIDE DEF times
<1>4. /\ t \in Repository /\ t.job = r.job /\ t.heap = r.heap /\ t.before = times
      /\ t.running = r.running /\ t.orphans = r.orphans
  <2>1. t = [r EXCEPT !.before = times]
    BY DEF UpdateTime, times
  <2>. HIDE DEF t
  <2>. QED  BY <1>3, <2>1 DEF Repository
<1>. HIDE DEF t
<1>5. \A a \in Video : Present(t, a) <=> Present(r, a)
  BY <1>4 DEF Present
<1>6. Chronological(t)
  <2>1. \A a, b \in Video : <<a, b>> \in times => Present(t, a) /\ Present(t, b)
    BY <1>2, <1>5 DEF ChronologicalBut
  <2>2. \A a \in Video : <<a, a>> \notin times
    BY <1>2 DEF ChronologicalBut
  <2>3. \A a, b, c \in Video : <<a, b>> \in times /\ <<b, c>> \in times => <<a, c>> \in times
    BY <1>2 DEF ChronologicalBut
  <2>4. \A a, b \in Videos(t) : a = b \/ <<a, b>> \in times \/ <<b, a>> \in times
    <3>. SUFFICES ASSUME NEW a \in Videos(t), NEW b \in Videos(t), a # b
                  PROVE  <<a, b>> \in times \/ <<b, a>> \in times
      OBVIOUS
    <3>1. a \in Video /\ b \in Video /\ Present(r, a) /\ Present(r, b)
      BY <1>5 DEF Videos
    <3>2. <<a, b>> \in r.before \/ <<b, a>> \in r.before \/ v \in {a, b}
      BY <3>1 DEF ChronologicalBut, Videos
    <3>. QED  BY <1>2, <3>1, <3>2
  <2>. QED  BY <1>4, <2>1, <2>2, <2>3, <2>4 DEF Chronological
<1>. QED  BY <1>2, <1>4, <1>6 DEF t

\* UpdateRunningCountUnLocked.
RunningAfter(r, v, s) ==
  IF r.job[v].state = s THEN r.running
  ELSE IF s = "RUNNING" THEN r.running \cup {v}
  ELSE IF r.job[v].state = "RUNNING" THEN r.running \ {v} ELSE r.running

LEMMA SetJobIs ==
  ASSUME NEW r, QueueOK(r), NEW v \in Video, Present(r, v), NEW s \in JobState
  PROVE  LET t == SetJob(r, v, s)
         IN  /\ Changed(r, t, v)
             /\ t.job[v] = [r.job[v] EXCEPT !.state = s]
             /\ t.orphans = r.orphans
             /\ t.running = RunningAfter(r, v, s)
<1>0. r \in Repository /\ r.job \in [Video -> Job \cup {NoJob}] /\ r.running \subseteq Video
  BY DEF QueueOK, Repository
<1>1. r.job[v] \in Job
  BY <1>0, RankType
<1>2. CASE r.job[v].state = s
  <2>1. [r.job[v] EXCEPT !.state = s] = r.job[v]
    BY <1>1, <1>2 DEF Job
  <2>2. SetJob(r, v, s) = r
    BY <1>2 DEF SetJob
  <2>. QED  BY <1>2, <2>1, <2>2 DEF Changed, RunningAfter
<1>3. CASE r.job[v].state # s
  <2>. DEFINE jobs == [r.job EXCEPT ![v].state = s]
              now == IF s = "RUNNING" THEN r.running \cup {v}
                     ELSE IF r.job[v].state = "RUNNING" THEN r.running \ {v} ELSE r.running
              c == [r EXCEPT !.job = jobs, !.running = now]
  <2>1. /\ jobs[v] = [r.job[v] EXCEPT !.state = s]
        /\ jobs[v] \in Job /\ jobs[v].state = s
        /\ \A u \in Video : u # v => jobs[u] = r.job[u]
        /\ jobs \in [Video -> Job \cup {NoJob}]
    BY <1>0, <1>1 DEF Job
  <2>2. now \in SUBSET Video
    BY <1>0
  <2>3. SetJob(r, v, s) = UpdateJob(c, v)
    <3>1. [r EXCEPT !.job[v].state = s,
                    !.running = IF s = "RUNNING" THEN @ \cup {v}
                                ELSE IF r.job[v].state = "RUNNING" THEN @ \ {v} ELSE @] = c
      BY <1>0 DEF Repository
    <3>. QED  BY <1>3, <3>1 DEF SetJob
  <2>. HIDE DEF jobs, now
  <2>4. /\ c \in Repository /\ c.job = jobs /\ c.running = now
        /\ c.heap = r.heap /\ c.before = r.before /\ c.orphans = r.orphans
    BY <1>0, <2>1, <2>2 DEF Repository
  <2>. HIDE DEF c
  <2>5. Present(c, v) /\ \A u \in Video : Present(c, u) <=> Present(r, u)
    BY <2>1, <2>4 DEF Present, JobState
  <2>6. Videos(c) = Videos(r)
    BY <2>5 DEF Videos
  <2>7. Chronological(c)
    BY <2>4, <2>5, <2>6 DEF QueueOK, Chronological
  <2>8. /\ \A u \in Video : u # v => c.job[u] = r.job[u]
        /\ \A a, b \in Video \ {v} : <<a, b>> \in c.before <=> <<a, b>> \in r.before
    BY <2>1, <2>4
  <2>. DEFINE t == UpdateJob(c, v)
  <2>9. /\ Changed(r, t, v) /\ t.job = c.job /\ t.running = c.running /\ t.orphans = c.orphans
    BY <2>4, <2>5, <2>7, <2>8, UpdateChanged
  <2>. HIDE DEF t
  <2>. QED  BY <1>3, <2>1, <2>3, <2>4, <2>9 DEF t, now, RunningAfter
<1>. QED  BY <1>2, <1>3

LEMMA RestoreVideoJobIs ==
  ASSUME NEW r, QueueOK(r), NEW v \in Video, Present(r, v)
  PROVE  LET t == RestoreVideoJob(r, v)
         IN  /\ Changed(r, t, v)
             /\ t.job[v] = [r.job[v] EXCEPT !.state = "PENDING"]
             /\ t.orphans = r.orphans /\ t.running = r.running
<1>0. r \in Repository /\ r.job \in [Video -> Job \cup {NoJob}]
  BY DEF QueueOK, Repository
<1>1. r.job[v] \in Job
  BY <1>0, RankType
<1>2. CASE r.job[v].state = "PENDING"
  <2>1. [r.job[v] EXCEPT !.state = "PENDING"] = r.job[v]
    BY <1>1, <1>2 DEF Job
  <2>2. RestoreVideoJob(r, v) = r
    BY <1>2 DEF RestoreVideoJob
  <2>. QED  BY <2>1, <2>2 DEF Changed
<1>3. CASE r.job[v].state # "PENDING"
  <2>. DEFINE jobs == [r.job EXCEPT ![v].state = "PENDING"]
              c == [r EXCEPT !.job = jobs]
  <2>1. /\ jobs[v] = [r.job[v] EXCEPT !.state = "PENDING"]
        /\ jobs[v] \in Job /\ jobs[v].state = "PENDING"
        /\ \A u \in Video : u # v => jobs[u] = r.job[u]
        /\ jobs \in [Video -> Job \cup {NoJob}]
    BY <1>0, <1>1 DEF Job, JobState
  <2>2. RestoreVideoJob(r, v) = UpdateJob(c, v)
    <3>1. [r EXCEPT !.job[v].state = "PENDING"] = c
      BY <1>0 DEF Repository
    <3>. QED  BY <1>3, <3>1 DEF RestoreVideoJob
  <2>. HIDE DEF jobs
  <2>3. /\ c \in Repository /\ c.job = jobs /\ c.running = r.running
        /\ c.heap = r.heap /\ c.before = r.before /\ c.orphans = r.orphans
    BY <1>0, <2>1 DEF Repository
  <2>. HIDE DEF c
  <2>4. Present(c, v) /\ \A u \in Video : Present(c, u) <=> Present(r, u)
    BY <2>1, <2>3 DEF Present
  <2>5. Videos(c) = Videos(r)
    BY <2>4 DEF Videos
  <2>6. Chronological(c)
    BY <2>3, <2>4, <2>5 DEF QueueOK, Chronological
  <2>7. /\ \A u \in Video : u # v => c.job[u] = r.job[u]
        /\ \A a, b \in Video \ {v} : <<a, b>> \in c.before <=> <<a, b>> \in r.before
    BY <2>1, <2>3
  <2>. DEFINE t == UpdateJob(c, v)
  <2>8. /\ Changed(r, t, v) /\ t.job = c.job /\ t.running = c.running /\ t.orphans = c.orphans
    BY <2>3, <2>4, <2>6, <2>7, UpdateChanged
  <2>. HIDE DEF t
  <2>. QED  BY <2>1, <2>2, <2>3, <2>8 DEF t
<1>. QED  BY <1>2, <1>3

\* A new priority, before the queue is told.
LEMMA SetJobPriorityIs ==
  ASSUME NEW r, QueueOK(r), NEW v \in Video, Present(r, v), NEW p \in {"NORMAL", "HIGH"}
  PROVE  LET c == SetJobPriority(r, v, p)
         IN  /\ c \in Repository /\ c.heap = r.heap /\ c.running = r.running /\ c.orphans = r.orphans
             /\ Chronological(c)
             /\ c.job = [r.job EXCEPT ![v].priority = p]
             /\ \A a, b \in Video \ {v} : <<a, b>> \in c.before <=> <<a, b>> \in r.before
<1>0. r \in Repository /\ r.job \in [Video -> Job \cup {NoJob}]
  BY DEF QueueOK, Repository
<1>1. r.job[v] \in Job
  BY <1>0, RankType
<1>. DEFINE timed == IF p = "HIGH" THEN UpdateTime(r, v) ELSE r
            jobs == [r.job EXCEPT ![v].priority = p]
            c == SetJobPriority(r, v, p)
<1>2. ChronologicalBut(r, v)
  BY DEF QueueOK, Chronological, ChronologicalBut
<1>3. /\ timed \in Repository /\ Chronological(timed) /\ timed.job = r.job /\ timed.heap = r.heap
      /\ timed.running = r.running /\ timed.orphans = r.orphans
      /\ \A a, b \in Video \ {v} : <<a, b>> \in timed.before <=> <<a, b>> \in r.before
  <2>1. CASE p = "HIGH"
    BY <1>0, <1>2, <2>1, UpdateTimeIs
  <2>2. CASE p # "HIGH"
    BY <2>2 DEF QueueOK
  <2>. QED  BY <2>1, <2>2
<1>4. /\ jobs \in [Video -> Job \cup {NoJob}]
      /\ \A u \in Video : jobs[u].state = r.job[u].state
  BY <1>0, <1>1 DEF Job
<1>5. c = [timed EXCEPT !.job = jobs]
  <2>1. c = [timed EXCEPT !.job[v].priority = p]
    BY DEF SetJobPriority
  <2>. HIDE DEF timed, c
  <2>2. timed \in Repository /\ timed.job = r.job
    BY <1>3
  <2>. QED  BY <2>1, <2>2 DEF Repository
<1>. HIDE DEF timed, jobs, c
<1>6. /\ c \in Repository /\ c.job = jobs /\ c.heap = r.heap /\ c.running = r.running
      /\ c.orphans = r.orphans /\ c.before = timed.before
  BY <1>3, <1>4, <1>5 DEF Repository
<1>7. \A u \in Video : Present(c, u) <=> Present(timed, u)
  BY <1>3, <1>4, <1>6 DEF Present
<1>8. Chronological(c)
  <2>1. Videos(c) = Videos(timed)
    BY <1>7 DEF Videos
  <2>. QED  BY <1>3, <1>6, <1>7, <2>1 DEF Chronological
<1>. QED  BY <1>3, <1>6, <1>8 DEF c, jobs

Requested(j) == [j EXCEPT !.priority = "HIGH", !.state = IF @ = "FAILED" THEN "PENDING" ELSE @]

LEMMA RequestedIs ==
  ASSUME NEW j \in Job
  PROVE  /\ Requested(j) \in Job /\ Requested(j).priority = "HIGH"
         /\ Requested(j).timer = j.timer /\ Requested(j).suspend = j.suspend
         /\ j.state = "FAILED" => Requested(j).state = "PENDING"
         /\ j.state # "FAILED" => Requested(j).state = j.state
BY DEF Requested, Job, JobState

LEMMA RequestJobIs ==
  ASSUME NEW r, QueueOK(r), NEW v \in Video, Present(r, v)
  PROVE  LET t == RequestJob(r, v)
         IN  /\ Changed(r, t, v)
             /\ t.job[v] = Requested(r.job[v])
             /\ t.orphans = r.orphans /\ t.running = r.running
<1>0. r \in Repository /\ r.job \in [Video -> Job \cup {NoJob}]
  BY DEF QueueOK, Repository
<1>1. r.job[v] \in Job
  BY <1>0, RankType
<1>. DEFINE high == SetJobPriority(r, v, "HIGH")
            job == Requested(r.job[v])
            jobs == [r.job EXCEPT ![v] = job]
            c == [high EXCEPT !.job = jobs]
<1>2. /\ high \in Repository /\ high.heap = r.heap /\ high.running = r.running
      /\ high.orphans = r.orphans /\ Chronological(high)
      /\ high.job = [r.job EXCEPT ![v].priority = "HIGH"]
      /\ \A a, b \in Video \ {v} : <<a, b>> \in high.before <=> <<a, b>> \in r.before
  BY SetJobPriorityIs, ZenonT(20)
<1>. HIDE DEF high
<1>3. /\ job \in Job /\ job.state = IF r.job[v].state = "FAILED" THEN "PENDING" ELSE r.job[v].state
  BY <1>1, RequestedIs
<1>4. [high.job EXCEPT ![v].state = IF @ = "FAILED" THEN "PENDING" ELSE @] = jobs
  <2>1. [r.job EXCEPT ![v].priority = "HIGH"][v] = [r.job[v] EXCEPT !.priority = "HIGH"]
    BY <1>0
  <2>2. [[r.job[v] EXCEPT !.priority = "HIGH"] EXCEPT !.state = IF @ = "FAILED" THEN "PENDING" ELSE @] = job
    BY <1>1 DEF Job, Requested
  <2>. HIDE DEF job
  <2>. QED  BY <1>0, <1>2, <2>1, <2>2
<1>5. RequestJob(r, v) = UpdateJob(c, v)
  <2>1. [high EXCEPT !.job[v].state = IF @ = "FAILED" THEN "PENDING" ELSE @] = c
    BY <1>2, <1>4 DEF Repository
  <2>. QED  BY <2>1, Zenon DEF RequestJob, high
<1>. HIDE DEF job
<1>6. /\ jobs[v] = job /\ jobs \in [Video -> Job \cup {NoJob}]
      /\ \A u \in Video : u # v => jobs[u] = r.job[u]
  BY <1>0, <1>3
<1>. HIDE DEF jobs
<1>7. /\ c \in Repository /\ c.job = jobs /\ c.running = r.running
      /\ c.heap = r.heap /\ c.before = high.before /\ c.orphans = r.orphans
  BY <1>2, <1>6 DEF Repository
<1>. HIDE DEF c
<1>8. Present(c, v) /\ \A u \in Video : Present(c, u) <=> Present(high, u)
  <2>1. \A u \in Video : u # v => high.job[u] = r.job[u]
    BY <1>0, <1>2
  <2>2. high.job[v].state = r.job[v].state
    BY <1>0, <1>1, <1>2 DEF Job
  <2>3. Present(high, v) /\ Present(c, v)
    BY <1>3, <1>6, <1>7, <2>2 DEF Present
  <2>. QED  BY <1>6, <1>7, <2>1, <2>3 DEF Present
<1>9. Chronological(c)
  <2>1. Videos(c) = Videos(high)
    BY <1>8 DEF Videos
  <2>. QED  BY <1>2, <1>7, <1>8, <2>1 DEF Chronological
<1>10. /\ \A u \in Video : u # v => c.job[u] = r.job[u]
       /\ \A a, b \in Video \ {v} : <<a, b>> \in c.before <=> <<a, b>> \in r.before
  BY <1>2, <1>6, <1>7
<1>. DEFINE t == UpdateJob(c, v)
<1>11. /\ Changed(r, t, v) /\ t.job = c.job /\ t.running = c.running /\ t.orphans = c.orphans
  BY <1>7, <1>8, <1>9, <1>10, UpdateChanged
<1>. HIDE DEF t
<1>. QED  BY <1>5, <1>6, <1>7, <1>11 DEF t, job

LEMMA CancelJobIs ==
  ASSUME NEW r, QueueOK(r), NEW v \in Video, Present(r, v)
  PROVE  LET t == CancelJob(r, v)
         IN  /\ Changed(r, t, v)
             /\ t.job[v] = [r.job[v] EXCEPT !.priority = "NORMAL"]
             /\ t.orphans = r.orphans /\ t.running = r.running
<1>0. r \in Repository /\ r.job \in [Video -> Job \cup {NoJob}]
  BY DEF QueueOK, Repository
<1>1. r.job[v] \in Job
  BY <1>0, RankType
<1>2. CASE ~ IsHighJob(r, v)
  <2>1. [r.job[v] EXCEPT !.priority = "NORMAL"] = r.job[v]
    BY <1>1, <1>2 DEF Job, IsHighJob
  <2>2. CancelJob(r, v) = r
    BY <1>2 DEF CancelJob
  <2>. QED  BY <2>1, <2>2 DEF Changed
<1>3. CASE IsHighJob(r, v)
  <2>. DEFINE c == SetJobPriority(r, v, "NORMAL")
              t == UpdateJob(c, v)
  <2>1. /\ c \in Repository /\ c.heap = r.heap /\ c.running = r.running /\ c.orphans = r.orphans
        /\ Chronological(c)
        /\ c.job = [r.job EXCEPT ![v].priority = "NORMAL"]
        /\ \A a, b \in Video \ {v} : <<a, b>> \in c.before <=> <<a, b>> \in r.before
    BY SetJobPriorityIs
  <2>2. CancelJob(r, v) = t
    BY <1>3 DEF CancelJob
  <2>. HIDE DEF c
  <2>3. /\ \A u \in Video : u # v => c.job[u] = r.job[u]
        /\ c.job[v] = [r.job[v] EXCEPT !.priority = "NORMAL"]
    BY <1>0, <2>1
  <2>4. Present(c, v)
    BY <1>1, <2>3 DEF Present, Job
  <2>5. /\ c \in Repository /\ c.heap = r.heap /\ Chronological(c)
        /\ \A u \in Video : u # v => c.job[u] = r.job[u]
        /\ \A a, b \in Video \ {v} : <<a, b>> \in c.before <=> <<a, b>> \in r.before
    BY <2>1, <2>3
  <2>6. /\ Changed(r, t, v) /\ t.job = c.job /\ t.running = c.running /\ t.orphans = c.orphans
    BY <2>4, <2>5, UpdateChanged
  <2>. HIDE DEF t
  <2>. QED  BY <2>1, <2>2, <2>3, <2>6
<1>. QED  BY <1>2, <1>3

Created == [NoJob EXCEPT !.state = "PENDING", !.priority = "NORMAL"]

LEMMA CreatedIs == Created \in Job /\ Created.state = "PENDING"
BY DEF Created, NoJob, Job, JobState

JobAdded(r, v) == IF Present(r, v) THEN r.job[v] ELSE Created

LEMMA AddVideoJobIs ==
  ASSUME NEW r, QueueOK(r), NEW v \in Video
  PROVE  LET t == AddVideoJob(r, v)
         IN  /\ Changed(r, t, v)
             /\ t.job[v] = JobAdded(r, v)
             /\ t.orphans = r.orphans /\ t.running = r.running
<1>0. r \in Repository /\ r.job \in [Video -> Job \cup {NoJob}]
  BY DEF QueueOK, Repository
<1>1. CASE Present(r, v)
  BY <1>1 DEF AddVideoJob, Changed, JobAdded
<1>2. CASE ~ Present(r, v)
  <2>. DEFINE jobs == [r.job EXCEPT ![v] = Created]
              born == [r EXCEPT !.job = jobs]
              c == UpdateTime(born, v)
              h == Push(r.heap, v, Better(c))
              t == [c EXCEPT !.heap = h]
              S == Videos(r)
  <2>1. /\ jobs \in [Video -> Job \cup {NoJob}] /\ jobs[v] = Created
        /\ \A u \in Video : u # v => jobs[u] = r.job[u]
    BY <1>0, CreatedIs
  <2>2. AddVideoJob(r, v) = t
    <3>1. [r EXCEPT !.job[v] = [NoJob EXCEPT !.state = "PENDING", !.priority = "NORMAL"]] = born
      BY DEF Created
    <3>. QED  BY <1>2, <3>1, Zenon DEF AddVideoJob
  <2>. HIDE DEF jobs
  <2>3. /\ born \in Repository /\ born.job = jobs /\ born.heap = r.heap /\ born.before = r.before
        /\ born.running = r.running /\ born.orphans = r.orphans
    BY <1>0, <2>1 DEF Repository
  <2>. HIDE DEF born
  <2>4. Present(born, v) /\ \A u \in Video : u # v => (Present(born, u) <=> Present(r, u))
    BY <2>1, <2>3, CreatedIs DEF Present
  <2>5. ChronologicalBut(born, v)
    <3>1. \A a, b \in Video : <<a, b>> \in r.before => Present(r, a) /\ Present(r, b)
      BY DEF QueueOK, Chronological
    <3>2. \A a, b \in Video : <<a, b>> \in r.before => Present(born, a) /\ Present(born, b)
      BY <1>2, <2>4, <3>1
    <3>3. \A a, b \in Videos(born) : a = b \/ <<a, b>> \in r.before \/ <<b, a>> \in r.before \/ v \in {a, b}
      BY <2>4 DEF QueueOK, Chronological, Videos
    <3>. QED  BY <2>3, <3>2, <3>3 DEF QueueOK, Chronological, ChronologicalBut
  <2>6. /\ c \in Repository /\ Chronological(c) /\ c.job = jobs /\ c.heap = r.heap
        /\ c.running = r.running /\ c.orphans = r.orphans
        /\ \A a, b \in Video \ {v} : <<a, b>> \in c.before <=> <<a, b>> \in r.before
    BY <2>3, <2>4, <2>5, UpdateTimeIs
  <2>. HIDE DEF c
  <2>7. /\ r.heap \in Seq(Video) /\ r.heap \in Seq(S)
        /\ StrictWeak(Better(r), S) /\ v \notin Elements(r.heap)
        /\ Distinct(r.heap) /\ Elements(r.heap) = S
    BY <1>2, VideosType DEF QueueOK
  <2>8. Videos(c) = S \cup {v}
    <3>1. \A u \in Video : Present(c, u) <=> Present(born, u)
      BY <2>3, <2>6 DEF Present
    <3>. QED  BY <2>4, <3>1 DEF Videos
  <2>9. /\ h \in Seq(Video) /\ Elements(h) = S \cup {v} /\ Distinct(h)
    BY <2>7, PushType
  <2>10. /\ t \in Repository /\ t.heap = h /\ t.job = c.job /\ t.before = c.before
         /\ t.running = c.running /\ t.orphans = c.orphans
         /\ Better(t) = Better(c) /\ Videos(t) = S \cup {v} /\ Chronological(t)
    <3>. HIDE DEF h
    <3>. QED  BY <2>6, <2>8, <2>9, NewHeap
  <2>11. QueueOK(t)
    BY <2>9, <2>10 DEF QueueOK
  <2>12. ASSUME Ordered(r)
         PROVE  Ordered(t)
    <3>1. StrictWeak(Better(c), S \cup {v})
      BY <2>6, <2>8, BetterStrict
    <3>2. \A a, b \in Elements(r.heap) : <<a, b>> \in Better(c) => <<a, b>> \in Better(r)
      <4>. SUFFICES ASSUME NEW a \in S, NEW b \in S
                    PROVE  <<a, b>> \in Better(c) <=> <<a, b>> \in Better(r)
        BY <2>7
      <4>1. a \in Video \ {v} /\ b \in Video \ {v}
        BY <1>2 DEF Videos
      <4>2. c.job[a] = r.job[a] /\ c.job[b] = r.job[b]
        BY <2>1, <2>6, <4>1
      <4>. QED  BY <1>0, <2>6, <4>1, <4>2, SameOrder
    <3>3. HeapOrder(r.heap, Better(c))
      BY <2>7, <2>12, <3>2, OrderStays DEF Ordered
    <3>4. r.heap \in Seq(S \cup {v}) /\ v \in S \cup {v}
      BY <2>7
    <3>5. HeapOrder(h, Better(c))
      <4>. HIDE DEF S, h
      <4>. QED  BY <3>1, <3>3, <3>4, StrictAgrees, PushOrder DEF h
    <3>. QED  BY <2>10, <3>5 DEF Ordered
  <2>. HIDE DEF t
  <2>13. Changed(r, t, v)
    BY <2>1, <2>6, <2>10, <2>11, <2>12 DEF Changed
  <2>. QED  BY <1>2, <2>1, <2>2, <2>6, <2>10, <2>13 DEF JobAdded
<1>. QED  BY <1>1, <1>2

\* The job is deleted.
LEMMA RemoveVideoJobIs ==
  ASSUME NEW r, QueueOK(r), NEW v \in Video, Present(r, v)
  PROVE  LET t == RemoveVideoJob(r, v, FALSE)
         IN  Changed(r, t, v) /\ t.job[v] = NoJob /\ t.running = r.running
<1>0. r \in Repository /\ r.job \in [Video -> Job \cup {NoJob}] /\ r.orphans \subseteq Video
      /\ r.before \subseteq Video \X Video
  BY DEF QueueOK, Repository
<1>. DEFINE h == Remove(r.heap, v, Better(r))
            jobs == [r.job EXCEPT ![v] = NoJob]
            times == Forget(r, v)
            left == IF r.job[v].timer THEN r.orphans \cup {v} ELSE r.orphans
            t == [r EXCEPT !.heap = h, !.job = jobs, !.before = times, !.orphans = left]
            S == Videos(r)
<1>1. RemoveVideoJob(r, v, FALSE) = t
  <2>1. [r EXCEPT !.heap = Remove(r.heap, v, Better(r)), !.job[v] = NoJob, !.before = Forget(r, v),
                  !.orphans = IF r.job[v].timer THEN @ \cup {v} ELSE @] = t
    BY <1>0 DEF Repository
  <2>. QED  BY <2>1 DEF RemoveVideoJob
<1>2. /\ r.heap \in Seq(Video) /\ r.heap \in Seq(S)
      /\ StrictWeak(Better(r), S)
      /\ Distinct(r.heap) /\ Elements(r.heap) = S
  BY VideosType DEF QueueOK
<1>3. /\ h \in Seq(Video) /\ h \in Seq(S) /\ Distinct(h) /\ Elements(h) = S \ {v}
      /\ Ordered(r) => HeapOrder(h, Better(r))
  <2>1. h \in Seq(S) /\ Distinct(h) /\ Elements(h) = S \ {v}
    BY <1>2, RemoveType
  <2>2. h \in Seq(Video)
    BY <1>2, RemoveType
  <2>3. Agrees(Better(r), Better(r), S)
    BY <1>2, StrictAgrees
  <2>4. Ordered(r) => HeapOrder(h, Better(r))
    <3>. HIDE DEF S
    <3>. QED  BY <1>2, <2>3, RemoveType DEF Ordered
  <2>. QED  BY <2>1, <2>2, <2>4
<1>4. /\ jobs \in [Video -> Job \cup {NoJob}] /\ jobs[v] = NoJob
      /\ \A u \in Video : u # v => jobs[u] = r.job[u]
  BY <1>0
<1>5. /\ times \in SUBSET (Video \X Video)
      /\ \A a, b \in Video : <<a, b>> \in times <=> a # v /\ b # v /\ <<a, b>> \in r.before
  BY <1>0 DEF Forget
<1>6. left \in SUBSET Video
  BY <1>0
<1>. HIDE DEF h, jobs, times, left
<1>7. /\ t \in Repository /\ t.heap = h /\ t.job = jobs /\ t.before = times
      /\ t.running = r.running
  BY <1>0, <1>3, <1>4, <1>5, <1>6 DEF Repository
<1>. HIDE DEF t
<1>8. ~ Present(t, v) /\ \A u \in Video : u # v => (Present(t, u) <=> Present(r, u))
  BY <1>4, <1>7 DEF Present, NoJob
<1>9. Videos(t) = S \ {v}
  BY <1>8 DEF Videos
<1>10. Chronological(t)
  <2>1. \A a, b \in Video : <<a, b>> \in times => Present(t, a) /\ Present(t, b)
    BY <1>5, <1>8 DEF QueueOK, Chronological
  <2>2. \A a \in Video : <<a, a>> \notin times
    BY <1>5 DEF QueueOK, Chronological
  <2>3. \A a, b, c \in Video : <<a, b>> \in times /\ <<b, c>> \in times => <<a, c>> \in times
    <3>1. \A a, b, c \in Video : <<a, b>> \in r.before /\ <<b, c>> \in r.before => <<a, c>> \in r.before
      BY DEF QueueOK, Chronological
    <3>. QED  BY <1>5, <3>1
  <2>4. \A a, b \in Videos(t) : a = b \/ <<a, b>> \in times \/ <<b, a>> \in times
    BY <1>5, <1>9 DEF QueueOK, Chronological, Videos
  <2>. QED  BY <1>7, <2>1, <2>2, <2>3, <2>4 DEF Chronological
<1>11. QueueOK(t)
  BY <1>3, <1>7, <1>9, <1>10 DEF QueueOK
<1>12. ASSUME Ordered(r)
       PROVE  Ordered(t)
  <2>1. \A a, b \in Elements(h) : <<a, b>> \in Better(t) => <<a, b>> \in Better(r)
    <3>. SUFFICES ASSUME NEW a \in S \ {v}, NEW b \in S \ {v}
                  PROVE  <<a, b>> \in Better(t) <=> <<a, b>> \in Better(r)
      BY <1>3
    <3>1. a \in Video \ {v} /\ b \in Video \ {v}
      BY DEF Videos
    <3>2. t.job[a] = r.job[a] /\ t.job[b] = r.job[b]
      BY <1>4, <1>7, <3>1
    <3>. QED  BY <1>0, <1>5, <1>7, <3>1, <3>2, SameOrder
  <2>2. HeapOrder(h, Better(t))
    BY <1>3, <1>12, <2>1, OrderStays
  <2>. QED  BY <1>7, <2>2 DEF Ordered
<1>13. Changed(r, t, v)
  BY <1>4, <1>7, <1>11, <1>12 DEF Changed
<1>. QED  BY <1>1, <1>4, <1>7, <1>13

\* The job goes to the recycle bin, and the queue is not told.
LEMMA TrashVideoJobIs ==
  ASSUME NEW r, QueueOK(r), NEW v \in Video, Present(r, v)
  PROVE  LET t == RemoveVideoJob(r, v, TRUE)
         IN  /\ QueueOK(t)
             /\ \A u \in Video : u # v => t.job[u] = r.job[u]
             /\ t.job[v] = [r.job[v] EXCEPT !.state = "DELETED", !.priority = "NORMAL"]
             /\ t.running = r.running
<1>0. r \in Repository /\ r.job \in [Video -> Job \cup {NoJob}]
  BY DEF QueueOK, Repository
<1>. DEFINE job == [r.job[v] EXCEPT !.state = "DELETED", !.priority = "NORMAL"]
            jobs == [r.job EXCEPT ![v] = job]
            t == [r EXCEPT !.job = jobs]
<1>1. r.job[v] \in Job
  BY <1>0, RankType
<1>2. RemoveVideoJob(r, v, TRUE) = t
  <2>1. [r EXCEPT !.job[v].state = "DELETED", !.job[v].priority = "NORMAL"] = t
    BY <1>0, <1>1 DEF Repository, Job
  <2>. QED  BY <2>1 DEF RemoveVideoJob
<1>3. job \in Job /\ job.state = "DELETED"
  BY <1>1 DEF Job, JobState
<1>. HIDE DEF job
<1>4. /\ jobs \in [Video -> Job \cup {NoJob}] /\ jobs[v] = job
      /\ \A u \in Video : u # v => jobs[u] = r.job[u]
  BY <1>0, <1>3
<1>. HIDE DEF jobs
<1>5. /\ t \in Repository /\ t.heap = r.heap /\ t.job = jobs /\ t.before = r.before
      /\ t.running = r.running
  BY <1>0, <1>4 DEF Repository
<1>. HIDE DEF t
<1>6. \A u \in Video : Present(t, u) <=> Present(r, u)
  BY <1>3, <1>4, <1>5 DEF Present
<1>7. Videos(t) = Videos(r)
  BY <1>6 DEF Videos
<1>8. QueueOK(t)
  BY <1>5, <1>6, <1>7 DEF QueueOK, Chronological
<1>. QED  BY <1>2, <1>4, <1>5, <1>8 DEF job

Pended(j) == [j EXCEPT !.state = IF @ = "FAILED" THEN "PENDING" ELSE @]

LEMMA PendedIs ==
  ASSUME NEW j \in Job
  PROVE  /\ Pended(j) \in Job /\ Pended(j).priority = j.priority
         /\ Pended(j).timer = j.timer /\ Pended(j).suspend = j.suspend
         /\ j.state = "FAILED" => Pended(j).state = "PENDING"
         /\ j.state # "FAILED" => Pended(j) = j
BY DEF Pended, Job, JobState

LEMMA PendRootIs ==
  ASSUME NEW r, QueueOK(r), r.heap # <<>>
  PROVE  LET t == PendRoot(r)
             v == r.heap[1]
         IN  /\ v \in Video /\ Present(r, v)
             /\ Changed(r, t, v)
             /\ t.job[v] = Pended(r.job[v])
             /\ t.running = r.running /\ t.orphans = r.orphans
<1>0. r \in Repository /\ r.job \in [Video -> Job \cup {NoJob}] /\ r.heap \in Seq(Video)
  BY DEF QueueOK, Repository
<1>. DEFINE v == r.heap[1]
<1>1. v \in Video /\ v \in Elements(r.heap)
  BY <1>0 DEF Elements, SX!ToSet
<1>2. Present(r, v)
  BY <1>1, VideosType
<1>. HIDE DEF v
<1>3. r.job[v] \in Job
  BY <1>0, <1>1, <1>2, RankType
<1>4. CASE r.job[v].state # "FAILED"
  <2>1. Pended(r.job[v]) = r.job[v]
    BY <1>3, <1>4, PendedIs
  <2>2. PendRoot(r) = r
    BY <1>4 DEF PendRoot, v
  <2>. QED  BY <1>1, <1>2, <2>1, <2>2 DEF Changed, v
<1>5. CASE r.job[v].state = "FAILED"
  <2>1. Pended(r.job[v]) = [r.job[v] EXCEPT !.state = "PENDING"]
    BY <1>3, <1>5 DEF Job, Pended
  <2>2. PendRoot(r) = RestoreVideoJob(r, v)
    BY <1>5 DEF PendRoot, RestoreVideoJob, v
  <2>3. LET t == RestoreVideoJob(r, v)
        IN  /\ Changed(r, t, v)
            /\ t.job[v] = [r.job[v] EXCEPT !.state = "PENDING"]
            /\ t.orphans = r.orphans /\ t.running = r.running
    BY <1>1, <1>2, RestoreVideoJobIs
  <2>. QED  BY <1>1, <1>2, <2>1, <2>2, <2>3 DEF v
<1>. QED  BY <1>4, <1>5

\* A timer or the use of the battery is noted in the job.
LEMMA SetTimerIs ==
  ASSUME NEW r, QueueOK(r), NEW v \in Video, Present(r, v), NEW b \in BOOLEAN
  PROVE  LET t == [r EXCEPT !.job[v].timer = b]
         IN  /\ Changed(r, t, v)
             /\ t.job[v] = [r.job[v] EXCEPT !.timer = b]
             /\ t.heap = r.heap /\ t.running = r.running /\ t.orphans = r.orphans
<1>0. r \in Repository /\ r.job \in [Video -> Job \cup {NoJob}]
  BY DEF QueueOK, Repository
<1>. DEFINE jobs == [r.job EXCEPT ![v].timer = b]
            t == [r EXCEPT !.job = jobs]
<1>1. r.job[v] \in Job
  BY <1>0, RankType
<1>2. [r EXCEPT !.job[v].timer = b] = t
  BY <1>0 DEF Repository
<1>3. /\ jobs \in [Video -> Job \cup {NoJob}] /\ jobs[v] = [r.job[v] EXCEPT !.timer = b]
      /\ \A u \in Video : u # v => jobs[u] = r.job[u]
      /\ jobs[v].state = r.job[v].state /\ jobs[v].priority = r.job[v].priority
  BY <1>0, <1>1 DEF Job
<1>. HIDE DEF jobs
<1>4. /\ t \in Repository /\ t.heap = r.heap /\ t.job = jobs /\ t.before = r.before
      /\ t.running = r.running /\ t.orphans = r.orphans
  BY <1>0, <1>3 DEF Repository
<1>. HIDE DEF t
<1>5. Changed(r, t, v)
  <2>1. /\ \A u \in Video : u # v => t.job[u] = r.job[u]
        /\ t.job[v].state = r.job[v].state /\ t.job[v].priority = r.job[v].priority
    BY <1>3, <1>4
  <2>. QED  BY <1>4, <2>1, QueueSame
<1>. QED  BY <1>2, <1>3, <1>4, <1>5

LEMMA SetSuspendIs ==
  ASSUME NEW r, QueueOK(r), NEW v \in Video, Present(r, v), NEW b \in BOOLEAN
  PROVE  LET t == [r EXCEPT !.job[v].suspend = b]
         IN  /\ Changed(r, t, v)
             /\ t.job[v] = [r.job[v] EXCEPT !.suspend = b]
             /\ t.heap = r.heap /\ t.running = r.running /\ t.orphans = r.orphans
<1>0. r \in Repository /\ r.job \in [Video -> Job \cup {NoJob}]
  BY DEF QueueOK, Repository
<1>. DEFINE jobs == [r.job EXCEPT ![v].suspend = b]
            t == [r EXCEPT !.job = jobs]
<1>1. r.job[v] \in Job
  BY <1>0, RankType
<1>2. [r EXCEPT !.job[v].suspend = b] = t
  BY <1>0 DEF Repository
<1>3. /\ jobs \in [Video -> Job \cup {NoJob}] /\ jobs[v] = [r.job[v] EXCEPT !.suspend = b]
      /\ \A u \in Video : u # v => jobs[u] = r.job[u]
      /\ jobs[v].state = r.job[v].state /\ jobs[v].priority = r.job[v].priority
  BY <1>0, <1>1 DEF Job
<1>. HIDE DEF jobs
<1>4. /\ t \in Repository /\ t.heap = r.heap /\ t.job = jobs /\ t.before = r.before
      /\ t.running = r.running /\ t.orphans = r.orphans
  BY <1>0, <1>3 DEF Repository
<1>. HIDE DEF t
<1>5. Changed(r, t, v)
  <2>1. /\ \A u \in Video : u # v => t.job[u] = r.job[u]
        /\ t.job[v].state = r.job[v].state /\ t.job[v].priority = r.job[v].priority
    BY <1>3, <1>4
  <2>. QED  BY <1>4, <2>1, QueueSame
<1>. QED  BY <1>2, <1>3, <1>4, <1>5
-----------------------------------------------------------------------------
(***************************************************************************)
(* runningSet_.                                                            *)
(***************************************************************************)
\* It goes on being right while nobody starts, ends or changes its mind.
LEMMA RunningSame ==
  ASSUME NEW r, NEW t, NEW lost, RunningOK(r, lost), t.running = r.running, r.running \subseteq Video,
         lost \subseteq Video,
         \A v \in Video : t.job[v].state = "RUNNING" <=> r.job[v].state = "RUNNING"
  PROVE  RunningOK(t, lost)
BY DEF RunningOK

\* SetJob keeps it right, if only one is set running.
LEMMA SetJobRunning ==
  ASSUME NEW r, QueueOK(r), NEW v \in Video, Present(r, v), NEW s \in JobState,
         NEW lost, lost \subseteq Video, RunningOK(r, lost), s = "RUNNING" => r.running = {}
  PROVE  RunningOK(SetJob(r, v, s), lost)
<1>. DEFINE t == SetJob(r, v, s)
<1>0. r \in Repository /\ r.running \subseteq Video /\ r.job[v] \in Job
  <2>1. r \in Repository
    BY DEF QueueOK
  <2>. QED  BY <2>1, RankType DEF Repository
<1>1. Changed(r, t, v) /\ t.job[v] = [r.job[v] EXCEPT !.state = s] /\ t.running = RunningAfter(r, v, s)
  BY SetJobIs
<1>. HIDE DEF t
<1>2. t.job[v].state = s /\ \A u \in Video : u # v => t.job[u].state = r.job[u].state
  BY <1>0, <1>1 DEF Job, Changed
<1>. DEFINE new(u) == t.job[u].state
            old(u) == r.job[u].state
<1>3. /\ new(v) = s /\ \A u \in Video : u # v => new(u) = old(u)
      /\ t.running = IF old(v) = s THEN r.running
                     ELSE IF s = "RUNNING" THEN r.running \cup {v}
                     ELSE IF old(v) = "RUNNING" THEN r.running \ {v} ELSE r.running
  BY <1>1, <1>2 DEF RunningAfter
<1>4. /\ \A u, w \in r.running : u = w
      /\ \A u \in Video : old(u) = "RUNNING" => u \in r.running
      /\ \A u \in r.running : u \notin lost => old(u) = "RUNNING"
      /\ \A u \in lost : u \in r.running /\ old(u) # "RUNNING"
  BY DEF RunningOK
<1>. HIDE DEF new, old
<1>5. /\ \A u, w \in t.running : u = w
      /\ \A u \in Video : new(u) = "RUNNING" => u \in t.running
      /\ \A u \in t.running : u \notin lost => new(u) = "RUNNING"
      /\ \A u \in lost : u \in t.running /\ new(u) # "RUNNING"
  <2>1. CASE s = "RUNNING"
    <3>1. r.running = {} /\ lost = {} /\ \A u \in Video : old(u) # "RUNNING"
      BY <1>4, <2>1
    <3>2. t.running = {v}
      BY <1>3, <2>1, <3>1
    <3>. QED  BY <1>3, <2>1, <3>1, <3>2
  <2>2. CASE s # "RUNNING" /\ old(v) = "RUNNING"
    <3>1. t.running = r.running \ {v}
      BY <1>3, <2>2
    <3>2. v \notin lost
      BY <1>4, <2>2
    <3>. QED  BY <1>0, <1>3, <1>4, <2>2, <3>1, <3>2
  <2>3. CASE s # "RUNNING" /\ old(v) # "RUNNING"
    <3>1. t.running = r.running
      BY <1>3, <2>3
    <3>. QED  BY <1>0, <1>3, <1>4, <2>3, <3>1
  <2>. QED  BY <2>1, <2>2, <2>3
<1>. QED  BY <1>5 DEF RunningOK, t, new

-----------------------------------------------------------------------------
(***************************************************************************)
(* The queue of the command server.                                        *)
(***************************************************************************)
LEMMA TailQueue ==
  ASSUME NEW S, NEW q \in Seq(S), q # <<>>, NEW A
  PROVE  /\ Tail(q) \in Seq(S) /\ Head(q) \in S
         /\ None(q, A) => None(Tail(q), A)
         /\ Once(q, A) => Once(Tail(q), A)
         /\ Once(q, A) /\ Head(q) \in A => None(Tail(q), A)
         /\ Head(q) \notin A => (None(Tail(q), A) <=> None(q, A))
<1>1. Len(q) \in Nat /\ Len(q) # 0 /\ q[1] = Head(q)
  OBVIOUS
<1>2. /\ Tail(q) \in Seq(S) /\ Head(q) \in S
      /\ Len(Tail(q)) = Len(q) - 1 /\ \A k \in 1 .. Len(q) - 1 : Tail(q)[k] = q[k + 1]
  OBVIOUS
<1>. DEFINE t == Tail(q)
<1>. HIDE DEF t
<1>3. Len(t) = Len(q) - 1 /\ \A k \in 1 .. Len(t) : t[k] = q[k + 1] /\ k + 1 \in 1 .. Len(q) /\ k + 1 # 1
  BY <1>1, <1>2 DEF t
<1>4. \A k \in 1 .. Len(q) : k = 1 \/ (k - 1 \in 1 .. Len(t) /\ q[k] = t[k - 1])
  BY <1>1, <1>3
<1>5. None(q, A) => None(t, A)
  BY <1>3 DEF None
<1>6. Once(q, A) => Once(t, A)
  <2>. SUFFICES ASSUME Once(q, A), NEW j \in 1 .. Len(t), NEW k \in 1 .. Len(t), t[j] \in A, t[k] \in A
                PROVE  j = k
    BY DEF Once
  <2>1. j + 1 \in 1 .. Len(q) /\ k + 1 \in 1 .. Len(q) /\ q[j + 1] \in A /\ q[k + 1] \in A
    BY <1>3
  <2>2. j + 1 = k + 1
    BY <2>1 DEF Once
  <2>. QED  BY <1>1, <1>3, <2>2
<1>7. Once(q, A) /\ Head(q) \in A => None(t, A)
  BY <1>1, <1>3 DEF Once, None
<1>8. Head(q) \notin A /\ None(t, A) => None(q, A)
  BY <1>1, <1>4 DEF None
<1>. QED  BY <1>2, <1>5, <1>6, <1>7, <1>8 DEF t

LEMMA ConcatQueue ==
  ASSUME NEW S, NEW p \in Seq(S), NEW q \in Seq(S), NEW A
  PROVE  /\ p \o q \in Seq(S)
         /\ None(p \o q, A) <=> None(p, A) /\ None(q, A)
         /\ Once(p, A) /\ None(q, A) => Once(p \o q, A)
         /\ None(p, A) /\ Once(q, A) => Once(p \o q, A)
<1>. DEFINE t == p \o q
<1>1. t \in Seq(S) /\ Len(t) = Len(p) + Len(q) /\ Len(p) \in Nat /\ Len(q) \in Nat
  OBVIOUS
<1>2. /\ \A k \in 1 .. Len(p) : t[k] = p[k]
      /\ \A k \in 1 .. Len(q) : t[Len(p) + k] = q[k]
  OBVIOUS
<1>. HIDE DEF t
<1>3. \A k \in 1 .. Len(t) : \/ k \in 1 .. Len(p) /\ t[k] = p[k]
                             \/ k - Len(p) \in 1 .. Len(q) /\ t[k] = q[k - Len(p)]
  <2>. SUFFICES ASSUME NEW k \in 1 .. Len(t), k \notin 1 .. Len(p)
                PROVE  k - Len(p) \in 1 .. Len(q) /\ t[k] = q[k - Len(p)]
    BY <1>2
  <2>1. k - Len(p) \in 1 .. Len(q) /\ Len(p) + (k - Len(p)) = k
    BY <1>1
  <2>. QED  BY <1>2, <2>1
<1>4. None(t, A) <=> None(p, A) /\ None(q, A)
  <2>1. ASSUME None(t, A), NEW k \in 1 .. Len(p)
        PROVE  p[k] \notin A
    <3>1. k \in 1 .. Len(t)
      BY <1>1
    <3>. QED  BY <1>2, <2>1, <3>1 DEF None
  <2>2. ASSUME None(t, A), NEW k \in 1 .. Len(q)
        PROVE  q[k] \notin A
    <3>1. Len(p) + k \in 1 .. Len(t)
      BY <1>1
    <3>. QED  BY <1>2, <2>2, <3>1 DEF None
  <2>3. None(p, A) /\ None(q, A) => None(t, A)
    BY <1>3 DEF None
  <2>. QED  BY <2>1, <2>2, <2>3 DEF None
<1>5. Once(p, A) /\ None(q, A) => Once(t, A)
  <2>. SUFFICES ASSUME Once(p, A), None(q, A),
                       NEW j \in 1 .. Len(t), NEW k \in 1 .. Len(t), t[j] \in A, t[k] \in A
                PROVE  j = k
    BY DEF Once
  <2>1. j \in 1 .. Len(p) /\ t[j] = p[j] /\ k \in 1 .. Len(p) /\ t[k] = p[k]
    BY <1>3 DEF None
  <2>. QED  BY <2>1 DEF Once
<1>6. None(p, A) /\ Once(q, A) => Once(t, A)
  <2>. SUFFICES ASSUME None(p, A), Once(q, A),
                       NEW j \in 1 .. Len(t), NEW k \in 1 .. Len(t), t[j] \in A, t[k] \in A
                PROVE  j = k
    BY DEF Once
  <2>1. /\ j - Len(p) \in 1 .. Len(q) /\ t[j] = q[j - Len(p)]
        /\ k - Len(p) \in 1 .. Len(q) /\ t[k] = q[k - Len(p)]
    BY <1>3 DEF None
  <2>2. j - Len(p) = k - Len(p)
    BY <2>1 DEF Once
  <2>. QED  BY <1>1, <2>2
<1>. QED  BY <1>1, <1>4, <1>5, <1>6 DEF t

LEMMA SingleQueue ==
  ASSUME NEW S, NEW c \in S, NEW A
  PROVE  <<c>> \in Seq(S) /\ Once(<<c>>, A) /\ (None(<<c>>, A) <=> c \notin A)
BY DEF Once, None

LEMMA EmptyQueue ==
  ASSUME NEW A
  PROVE  \A S : <<>> \in Seq(S) /\ Once(<<>>, A) /\ None(<<>>, A)
BY DEF Once, None

LEMMA NoneOnce ==
  ASSUME NEW q, NEW A, None(q, A)
  PROVE  Once(q, A)
BY DEF Once, None

LEMMA AppendOne ==
  ASSUME NEW S, NEW q \in Seq(S), NEW c \in S
  PROVE  Append(q, c) = q \o <<c>>
OBVIOUS

\* A command with no part in the answers and the deaths, wherever it is put.
Plain(c) == c \in Command /\ c.op \notin {"Success", "Failed", "VideoDied"}

LEMMA PlainCommand ==
  ASSUME NEW c, Plain(c)
  PROVE  c \in Command /\ c \notin Deaths /\ \A v : c \notin Own(v)
BY DEF Plain, Deaths, Own

LEMMA FailedCommand ==
  ASSUME NEW v \in Video, NEW e \in Error
  PROVE  /\ Failed(v, e) \in Command /\ Failed(v, e) \notin Deaths
         /\ \A u \in Video : Failed(v, e) \in Own(u) <=> u = v /\ e \notin {"TIMEOUT", "NOT_READY"}
BY DEF Failed, Command, Deaths, Own

LEMMA SuccessCommand ==
  ASSUME NEW v \in Video
  PROVE  LET c == [op |-> "Success", video |-> v]
         IN  /\ c \in Command /\ c \notin Deaths
             /\ \A u \in Video : c \in Own(u) <=> u = v
BY DEF Command, Deaths, Own

LEMMA PlainCommands ==
  /\ Plain(JobChanged)
  /\ \A type \in EventType, value \in BOOLEAN : Plain(Event(type, value))
BY DEF Plain, JobChanged, Event, Command

\* What is queued, in front or behind, when it is not an answer or a death.
LEMMA MorePlain ==
  ASSUME NEW q \in Seq(Command), NEW c, Plain(c)
  PROVE  /\ q \o <<c>> \in Seq(Command) /\ <<c>> \o q \in Seq(Command) /\ Append(q, c) = q \o <<c>>
         /\ \A A \in {Deaths} \cup {Own(v) : v \in Video} :
              /\ None(q \o <<c>>, A) <=> None(q, A)
              /\ Once(q, A) => Once(q \o <<c>>, A)
              /\ None(<<c>> \o q, A) <=> None(q, A)
              /\ Once(q, A) => Once(<<c>> \o q, A)
<1>1. c \in Command /\ <<c>> \in Seq(Command)
  BY DEF Plain
<1>2. q \o <<c>> \in Seq(Command) /\ <<c>> \o q \in Seq(Command) /\ Append(q, c) = q \o <<c>>
  BY <1>1
<1>3. ASSUME NEW A \in {Deaths} \cup {Own(v) : v \in Video}
      PROVE  /\ None(q \o <<c>>, A) <=> None(q, A)
             /\ Once(q, A) => Once(q \o <<c>>, A)
             /\ None(<<c>> \o q, A) <=> None(q, A)
             /\ Once(q, A) => Once(<<c>> \o q, A)
  <2>1. c \notin A
    BY PlainCommand
  <2>2. None(<<c>>, A)
    BY <1>1, <2>1, SingleQueue
  <2>3. /\ None(q \o <<c>>, A) <=> None(q, A) /\ None(<<c>>, A)
        /\ Once(q, A) /\ None(<<c>>, A) => Once(q \o <<c>>, A)
    BY <1>1, ConcatQueue
  <2>4. /\ None(<<c>> \o q, A) <=> None(<<c>>, A) /\ None(q, A)
        /\ None(<<c>>, A) /\ Once(q, A) => Once(<<c>> \o q, A)
    BY <1>1, ConcatQueue
  <2>. QED  BY <2>2, <2>3, <2>4
<1>. QED  BY <1>2, <1>3
-----------------------------------------------------------------------------
(***************************************************************************)
(* Scheduling.                                                             *)
(***************************************************************************)
LEMMA StartSuspendLockIs ==
  ASSUME NEW m \in Pipe, TimerNamed(m.suspend)
  PROVE  LET n == StartSuspendLock(m)
         IN  /\ n \in Pipe
             /\ n.repo = m.repo /\ n.result = m.result /\ n.hal = m.hal /\ n.ive = m.ive
             /\ n.recorder = m.recorder /\ n.strategy = m.strategy /\ n.starting = m.starting
             /\ n.cmds = m.cmds
             /\ TimerNamed(n.suspend) /\ Ticking(n.suspend)
<1>0. m.suspend \in Suspend
  BY DEF Pipe
<1>1. CASE m.suspend.id # 0
  <2>1. StartSuspendLock(m) = m
    BY <1>1 DEF StartSuspendLock
  <2>2. Ticking(m.suspend)
    BY <1>0, <1>1 DEF TimerNamed, Ticking, Suspend
  <2>. QED  BY <2>1, <2>2
<1>2. CASE m.suspend.id = 0
  <2>. DEFINE new == CHOOSE t \in 1 .. 2 : t \notin m.suspend.timers \/ m.suspend.timers = 1 .. 2
              s == [m.suspend EXCEPT !.id = new, !.timers = @ \cup {new}]
              n == [m EXCEPT !.suspend = s]
  <2>1. new \in 1 .. 2
    <3>1. \E t \in 1 .. 2 : t \notin m.suspend.timers \/ m.suspend.timers = 1 .. 2
      BY <1>0 DEF Suspend
    <3>. QED  BY <3>1
  <2>2. StartSuspendLock(m) = n
    <3>. HIDE DEF new
    <3>1. [m EXCEPT !.suspend.id = new, !.suspend.timers = @ \cup {new}] = n
      BY <1>0 DEF Pipe, Suspend
    <3>. QED  BY <1>2, <3>1 DEF StartSuspendLock, new
  <2>. HIDE DEF new
  <2>. DEFINE all == m.suspend.timers \cup {new}
  <2>a. all \in SUBSET (1 .. 2) /\ new \in 0 .. 2 /\ new \in all
    BY <1>0, <2>1 DEF Suspend
  <2>. HIDE DEF all
  <2>b. s = [m.suspend EXCEPT !.id = new, !.timers = all]
    BY <1>0 DEF Suspend, all
  <2>3. s \in Suspend /\ s.id = new /\ s.timers = all
    BY <1>0, <2>a, <2>b DEF Suspend
  <2>4. TimerNamed(s) /\ Ticking(s)
    BY <2>3, <2>a DEF TimerNamed, Ticking
  <2>. HIDE DEF s
  <2>. QED  BY <2>2, <2>3, <2>4 DEF Pipe
<1>. QED  BY <1>1, <1>2

LEMMA StopSuspendLockIs ==
  ASSUME NEW m \in Pipe
  PROVE  LET n == StopSuspendLock(m)
         IN  /\ n \in Pipe
             /\ n.repo = m.repo /\ n.result = m.result /\ n.hal = m.hal /\ n.ive = m.ive
             /\ n.recorder = m.recorder /\ n.strategy = m.strategy /\ n.starting = m.starting
             /\ n.cmds = m.cmds
             /\ TimerNamed(n.suspend)
<1>. DEFINE s == [m.suspend EXCEPT !.timers = @ \ {m.suspend.id}, !.id = 0]
            n == [m EXCEPT !.suspend = s]
<1>0. m.suspend \in Suspend
  BY DEF Pipe
<1>1. StopSuspendLock(m) = n
  BY <1>0 DEF StopSuspendLock, Pipe, Suspend
<1>2. s \in Suspend /\ s.id = 0
  <2>. DEFINE left == m.suspend.timers \ {m.suspend.id}
  <2>1. left \in SUBSET (1 .. 2) /\ 0 \in 0 .. 2
    BY <1>0 DEF Suspend
  <2>. HIDE DEF left
  <2>2. s = [m.suspend EXCEPT !.timers = left, !.id = 0]
    BY <1>0 DEF Suspend, left
  <2>. QED  BY <1>0, <2>1, <2>2 DEF Suspend
<1>3. TimerNamed(s)
  BY <1>2 DEF TimerNamed
<1>. HIDE DEF s
<1>. QED  BY <1>1, <1>2, <1>3 DEF Pipe

\* What scheduling may do.
Scheduled(m, n) ==
  /\ n \in Pipe /\ QueueOK(n.repo) /\ (Ordered(m.repo) => Ordered(n.repo))
  /\ n.repo.running = m.repo.running
  /\ \A v \in Video :
       /\ \/ n.repo.job[v].state = m.repo.job[v].state
          \/ m.repo.job[v].state = "FAILED" /\ n.repo.job[v].state = "PENDING"
       /\ n.repo.job[v].priority = m.repo.job[v].priority
  /\ TimerNamed(n.suspend)
  /\ StartOK(n.repo, n.starting)
  /\ n.starting # "none" /\ n.repo.job[n.starting].suspend => Ticking(n.suspend)
  /\ m.repo.running # {} => n.repo = m.repo /\ n.suspend = m.suspend /\ n.starting = "none"
  /\ n.starting # "none" => /\ m.repo.heap # <<>> /\ n.starting = m.repo.heap[1]
                            /\ MayProcess(n.strategy, m.repo.job[n.starting].priority)
  /\ n.result = m.result /\ n.hal = m.hal /\ n.recorder = m.recorder /\ n.cmds = m.cmds
  /\ GateOK(n.strategy)
  /\ n.ive.work = m.ive.work /\ (m.ive.aborted => n.ive.aborted)

LEMMA TryDoScheduleIs ==
  ASSUME NEW m \in Pipe, QueueOK(m.repo), m.starting = "none",
         TimerNamed(m.suspend), GateOK(m.strategy)
  PROVE  Scheduled(m, TryDoSchedule(m)) /\ TryDoSchedule(m).ive = m.ive
         /\ TryDoSchedule(m).strategy = m.strategy
<1>. DEFINE root == m.repo.heap[1]
            asked == [m EXCEPT !.repo = PendRoot(m.repo)]
            chosen == [asked EXCEPT !.starting = root, !.repo.job[root].suspend = ~ m.strategy.charging]
            n == TryDoSchedule(m)
<1>1. CASE m.repo.running # {}
  <2>1. n = m
    BY <1>1 DEF TryDoSchedule
  <2>. QED  BY <1>1, <2>1 DEF Scheduled, StartOK
<1>2. CASE m.repo.running = {} /\ (m.repo.heap = <<>> \/ ~ Waits(m.repo, root))
  <2>1. n = StopSuspendLock(m)
    BY <1>2 DEF TryDoSchedule
  <2>. HIDE DEF n
  <2>2. /\ n \in Pipe
        /\ n.repo = m.repo /\ n.result = m.result /\ n.hal = m.hal /\ n.ive = m.ive
        /\ n.recorder = m.recorder /\ n.strategy = m.strategy /\ n.starting = m.starting
        /\ n.cmds = m.cmds
        /\ TimerNamed(n.suspend)
    BY <2>1, StopSuspendLockIs
  <2>3. Scheduled(m, n)
    BY <1>2, <2>2 DEF Scheduled, StartOK
  <2>. QED  BY <2>2, <2>3 DEF n
<1>3. CASE m.repo.running = {} /\ m.repo.heap # <<>> /\ Waits(m.repo, root)
  <2>. DEFINE r == PendRoot(m.repo)
  <2>1. /\ root \in Video /\ Present(m.repo, root)
        /\ Changed(m.repo, r, root)
        /\ r.job[root] = Pended(m.repo.job[root])
        /\ r.running = m.repo.running
    BY <1>3, PendRootIs
  <2>2. m.repo \in Repository /\ m.repo.job[root] \in Job /\ m.strategy \in Strategy
    <3>1. m.repo \in Repository /\ m.strategy \in Strategy
      BY DEF Pipe
    <3>. QED  BY <2>1, <3>1, RankType
  <2>. DEFINE job == m.repo.job[root]
  <2>3. /\ r.job[root].priority = job.priority /\ r.job[root].suspend = job.suspend
        /\ job.state = "FAILED" => r.job[root].state = "PENDING"
        /\ job.state # "FAILED" => r.job[root].state = job.state
    BY <2>1, <2>2, PendedIs, SMTT(20)
  <2>4. QueueOK(r) /\ r \in Repository
    BY <2>1 DEF Changed, QueueOK
  <2>5. /\ \A v \in Video :
             /\ \/ r.job[v].state = m.repo.job[v].state
                \/ m.repo.job[v].state = "FAILED" /\ r.job[v].state = "PENDING"
             /\ r.job[v].priority = m.repo.job[v].priority
        /\ Ordered(m.repo) => Ordered(r)
    BY <2>1, <2>3 DEF Changed
  <2>6. /\ asked \in Pipe /\ asked.repo = r
        /\ asked.result = m.result /\ asked.hal = m.hal /\ asked.ive = m.ive
        /\ asked.recorder = m.recorder /\ asked.strategy = m.strategy /\ asked.suspend = m.suspend
        /\ asked.starting = m.starting /\ asked.cmds = m.cmds
    <3>. HIDE DEF r
    <3>. QED  BY <2>4 DEF Pipe, r
  <2>. HIDE DEF asked, r
  <2>7. CASE ~ MayProcess(m.strategy, m.repo.job[root].priority)
    <3>1. n = StopSuspendLock(asked)
      BY <1>3, <2>7 DEF TryDoSchedule, asked
    <3>. HIDE DEF n
    <3>2. /\ n \in Pipe
          /\ n.repo = r /\ n.result = m.result /\ n.hal = m.hal /\ n.ive = m.ive
          /\ n.recorder = m.recorder /\ n.strategy = m.strategy /\ n.starting = m.starting
          /\ n.cmds = m.cmds
          /\ TimerNamed(n.suspend)
      BY <2>6, <3>1, StopSuspendLockIs
    <3>3. Scheduled(m, n)
      BY <1>3, <2>1, <2>4, <2>5, <3>2 DEF Scheduled, StartOK
    <3>. QED  BY <3>2, <3>3 DEF n
  <2>8. CASE MayProcess(m.strategy, m.repo.job[root].priority)
    <3>. DEFINE b == ~ m.strategy.charging
                t == [r EXCEPT !.job[root].suspend = b]
    <3>1. b \in BOOLEAN
      OBVIOUS
    <3>. HIDE DEF b
    <3>2. Present(r, root)
      BY <2>1, <2>3 DEF Present
    <3>3. /\ Changed(r, t, root)
          /\ t.job[root] = [r.job[root] EXCEPT !.suspend = b]
          /\ t.running = r.running
      BY <2>1, <2>4, <3>1, <3>2, SetSuspendIs, SMTT(20)
    <3>4. chosen = [asked EXCEPT !.starting = root, !.repo = t]
      BY <2>6 DEF Pipe, b
    <3>. HIDE DEF t, chosen
    <3>5. QueueOK(t) /\ t \in Repository
      BY <3>3 DEF Changed, QueueOK
    <3>6. r.job[root] \in Job
      BY <2>1, <2>4, <3>2, RankType
    <3>7. /\ t.job[root].state = r.job[root].state /\ t.job[root].priority = r.job[root].priority
          /\ t.job[root].suspend = ~ m.strategy.charging
      BY <3>1, <3>3, <3>6 DEF Job, b
    <3>8. \A v \in Video :
             /\ t.job[v].state = r.job[v].state
             /\ t.job[v].priority = r.job[v].priority
      BY <3>3, <3>7 DEF Changed
    <3>9. StartOK(t, root)
      <4>1. t.running = {}
        BY <1>3, <2>1, <3>3
      <4>2. Present(t, root)
        BY <2>1, <3>2, <3>8 DEF Present
      <4>3. Waits(r, root)
        BY <1>3, <2>3, Ranks DEF Waits
      <4>4. Waits(t, root)
        BY <2>1, <3>8, <4>3 DEF Waits
      <4>. QED  BY <4>1, <4>2, <4>4 DEF StartOK
    <3>10. /\ chosen \in Pipe /\ chosen.repo = t /\ chosen.starting = root
           /\ chosen.result = m.result /\ chosen.hal = m.hal /\ chosen.ive = m.ive
           /\ chosen.recorder = m.recorder /\ chosen.strategy = m.strategy
           /\ chosen.suspend = m.suspend /\ chosen.cmds = m.cmds
      <4>. HIDE DEF root
      <4>. QED  BY <2>1, <2>6, <3>4, <3>5 DEF Pipe
    <3>11. n = IF m.strategy.charging THEN chosen ELSE StartSuspendLock(chosen)
      BY <1>3, <2>8 DEF TryDoSchedule, chosen, asked
    <3>12. /\ n \in Pipe /\ n.repo = t /\ n.starting = root
           /\ n.result = m.result /\ n.hal = m.hal /\ n.ive = m.ive
           /\ n.recorder = m.recorder /\ n.strategy = m.strategy /\ n.cmds = m.cmds
           /\ TimerNamed(n.suspend)
           /\ ~ m.strategy.charging => Ticking(n.suspend)
      <4>. HIDE DEF n, root
      <4>1. CASE m.strategy.charging
        BY <3>10, <3>11, <4>1
      <4>2. CASE ~ m.strategy.charging
        <5>1. n = StartSuspendLock(chosen)
          BY <3>11, <4>2
        <5>. QED  BY <3>10, <5>1, StartSuspendLockIs
      <4>. QED  BY <4>1, <4>2
    <3>. HIDE DEF n
    <3>13. /\ QueueOK(n.repo) /\ (Ordered(m.repo) => Ordered(n.repo))
           /\ n.repo.running = m.repo.running
      BY <2>1, <2>5, <3>3, <3>5, <3>12 DEF Changed
    <3>14. \A v \in Video :
             /\ \/ n.repo.job[v].state = m.repo.job[v].state
                \/ m.repo.job[v].state = "FAILED" /\ n.repo.job[v].state = "PENDING"
             /\ n.repo.job[v].priority = m.repo.job[v].priority
      BY <2>5, <3>8, <3>12
    <3>15. n.repo.job[n.starting].suspend => Ticking(n.suspend)
      BY <3>7, <3>12
    <3>16. /\ m.repo.heap # <<>> /\ n.starting = m.repo.heap[1]
           /\ MayProcess(n.strategy, m.repo.job[n.starting].priority)
      BY <1>3, <2>8, <3>12
    <3>17. StartOK(n.repo, n.starting)
      BY <3>9, <3>12
    <3>18. Scheduled(m, n)
      BY <1>3, <3>12, <3>13, <3>14, <3>15, <3>16, <3>17 DEF Scheduled
    <3>. QED  BY <3>12, <3>18 DEF n
  <2>. QED  BY <2>7, <2>8
<1>. QED  BY <1>1, <1>2, <1>3

LEMMA InterruptIs ==
  ASSUME NEW w \in Ive
  PROVE  /\ Interrupt(w) \in Ive
         /\ Interrupt(w).work = w.work
         /\ w.aborted => Interrupt(w).aborted
         /\ hal.session = "live" /\ w.work # {} => Interrupt(w).aborted
BY DEF Interrupt, Ive

LEMMA PauseRequestsIs ==
  ASSUME NEW w \in Ive, NEW r
  PROVE  /\ PauseRequests(w, r) \in Ive
         /\ PauseRequests(w, r).work = w.work
         /\ w.aborted => PauseRequests(w, r).aborted
         /\ (\E v \in r.running : ~ IsHighJob(r, v)) /\ hal.session = "live" /\ w.work # {}
              => PauseRequests(w, r).aborted
<1>. DEFINE some == \E v \in r.running : ~ IsHighJob(r, v)
<1>1. CASE some
  <2>1. PauseRequests(w, r) = Interrupt(w)
    BY <1>1 DEF PauseRequests
  <2>. QED  BY <2>1, InterruptIs
<1>2. CASE ~ some
  <2>1. PauseRequests(w, r) = w
    BY <1>2 DEF PauseRequests
  <2>. HIDE DEF some
  <2>. QED  BY <1>2, <2>1 DEF some
<1>. QED  BY <1>1, <1>2

LEMMA NotedIs ==
  ASSUME NEW st \in Strategy, NEW type \in EventType, NEW value \in BOOLEAN
  PROVE  /\ Noted(st, type, value) \in Strategy
         /\ ~ IsNewValue(st, type, value) /\ GateOK(st) => GateOK(Noted(st, type, value))
<1>. DEFINE n == Noted(st, type, value)
<1>1. CASE type \in Stop
  <2>. DEFINE now == IF value THEN st.stops \cup {type} ELSE st.stops \ {type}
              single == st.singleOver /\ ~ (type = "screen" /\ value)
  <2>1. now \in SUBSET Stop /\ single \in BOOLEAN
    BY <1>1 DEF Strategy
  <2>2. n = [st EXCEPT !.stops = now, !.singleOver = single]
    BY <1>1 DEF Noted, Stop
  <2>3. ~ IsNewValue(st, type, value) => now = st.stops
    <3>1. IsNewValue(st, type, value) <=> value # (type \in st.stops)
      BY <1>1 DEF IsNewValue, Stop
    <3>. QED  BY <1>1, <3>1 DEF Strategy
  <2>. HIDE DEF now, single, n
  <2>4. /\ n \in Strategy /\ n.isNeedStop = st.isNeedStop /\ n.stops = now
        /\ n.charging = st.charging /\ n.batteryLow = st.batteryLow /\ n.levelLow = st.levelLow
    BY <2>1, <2>2 DEF Strategy
  <2>5. ~ IsNewValue(st, type, value) /\ GateOK(st) => GateOK(n)
    BY <2>3, <2>4 DEF GateOK
  <2>. QED  BY <2>4, <2>5 DEF n
<1>2. CASE type = "charging"
  <2>. DEFINE total == st.totalOver /\ ~ value
  <2>1. total \in BOOLEAN
    BY DEF Strategy
  <2>2. n = [st EXCEPT !.charging = value, !.totalOver = total]
    BY <1>2 DEF Noted, Stop
  <2>3. ~ IsNewValue(st, type, value) => value = st.charging
    BY <1>2 DEF IsNewValue, Strategy, Stop
  <2>. HIDE DEF total, n
  <2>4. /\ n \in Strategy /\ n.isNeedStop = st.isNeedStop /\ n.stops = st.stops
        /\ n.charging = value /\ n.batteryLow = st.batteryLow /\ n.levelLow = st.levelLow
    BY <2>1, <2>2 DEF Strategy
  <2>5. ~ IsNewValue(st, type, value) /\ GateOK(st) => GateOK(n)
    BY <2>3, <2>4 DEF GateOK
  <2>. QED  BY <2>4, <2>5 DEF n
<1>3. CASE type = "battery"
  <2>1. n = [st EXCEPT !.batteryLow = value]
    BY <1>3 DEF Noted, Stop
  <2>2. ~ IsNewValue(st, type, value) => value = st.batteryLow
    BY <1>3 DEF IsNewValue, Strategy, Stop
  <2>. HIDE DEF n
  <2>3. /\ n \in Strategy /\ n.isNeedStop = st.isNeedStop /\ n.stops = st.stops
        /\ n.charging = st.charging /\ n.batteryLow = value /\ n.levelLow = st.levelLow
    BY <2>1 DEF Strategy
  <2>4. ~ IsNewValue(st, type, value) /\ GateOK(st) => GateOK(n)
    BY <2>2, <2>3 DEF GateOK
  <2>. QED  BY <2>3, <2>4 DEF n
<1>4. CASE type = "level"
  <2>1. n = [st EXCEPT !.levelLow = value]
    BY <1>4 DEF Noted, Stop
  <2>2. ~ IsNewValue(st, type, value) => value = st.levelLow
    BY <1>4 DEF IsNewValue, Strategy, Stop
  <2>. HIDE DEF n
  <2>3. /\ n \in Strategy /\ n.isNeedStop = st.isNeedStop /\ n.stops = st.stops
        /\ n.charging = st.charging /\ n.batteryLow = st.batteryLow /\ n.levelLow = value
    BY <2>1 DEF Strategy
  <2>4. ~ IsNewValue(st, type, value) /\ GateOK(st) => GateOK(n)
    BY <2>2, <2>3 DEF GateOK
  <2>. QED  BY <2>3, <2>4 DEF n
<1>5. CASE type = "interrupt"
  BY <1>5 DEF Noted, Stop
<1>. QED  BY <1>1, <1>2, <1>3, <1>4, <1>5 DEF EventType

LEMMA EventChangedIs ==
  ASSUME NEW m \in Pipe, QueueOK(m.repo), m.starting = "none",
         TimerNamed(m.suspend), GateOK(m.strategy),
         NEW type \in EventType, NEW value \in BOOLEAN
  PROVE  Scheduled(m, EventChanged(m, type, value))
<1>. DEFINE noted == Noted(m.strategy, type, value)
            stop == NeedStop(noted, type, m.repo.running)
            st == [noted EXCEPT !.isNeedStop = stop]
            changed == [m EXCEPT !.strategy = st]
            n == EventChanged(m, type, value)
<1>0. m.strategy \in Strategy /\ m.ive \in Ive
  BY DEF Pipe
<1>1. noted \in Strategy /\ (~ IsNewValue(m.strategy, type, value) => GateOK(noted))
  BY <1>0, NotedIs
<1>2. stop \in BOOLEAN
  BY DEF NeedStop
<1>3. ~ stop => noted.stops = {} /\ (noted.charging => ~ noted.levelLow) /\ (~ noted.charging => ~ noted.batteryLow)
  BY DEF NeedStop
<1>. HIDE DEF noted, stop
<1>4. /\ st \in Strategy /\ st.isNeedStop = stop /\ st.stops = noted.stops /\ st.charging = noted.charging
      /\ st.batteryLow = noted.batteryLow /\ st.levelLow = noted.levelLow
  BY <1>1, <1>2 DEF Strategy
<1>5. GateOK(st)
  BY <1>3, <1>4 DEF GateOK
<1>. HIDE DEF st
<1>6. CASE ~ IsNewValue(m.strategy, type, value)
  <2>1. n = [m EXCEPT !.strategy = noted]
    BY <1>6, Zenon DEF EventChanged, noted
  <2>. HIDE DEF n
  <2>2. /\ n \in Pipe /\ n.repo = m.repo /\ n.result = m.result /\ n.hal = m.hal /\ n.ive = m.ive
        /\ n.recorder = m.recorder /\ n.strategy = noted /\ n.suspend = m.suspend
        /\ n.starting = m.starting /\ n.cmds = m.cmds
    BY <1>1, <2>1 DEF Pipe
  <2>3. Scheduled(m, n)
    BY <1>1, <1>6, <2>2 DEF Scheduled, StartOK
  <2>. QED  BY <2>3 DEF n
<1>7. CASE IsNewValue(m.strategy, type, value) /\ stop
  <2>. DEFINE w == PauseRequests(m.ive, m.repo)
  <2>1. n = [changed EXCEPT !.ive = PauseRequests(@, m.repo)]
    BY <1>7, Zenon DEF EventChanged, noted, stop, st
  <2>2. n = [m EXCEPT !.strategy = st, !.ive = w]
    BY <2>1 DEF Pipe
  <2>3. w \in Ive /\ w.work = m.ive.work /\ (m.ive.aborted => w.aborted)
    BY <1>0, PauseRequestsIs
  <2>. HIDE DEF n, w
  <2>4. /\ n \in Pipe /\ n.repo = m.repo /\ n.result = m.result /\ n.hal = m.hal /\ n.ive = w
        /\ n.recorder = m.recorder /\ n.strategy = st /\ n.suspend = m.suspend
        /\ n.starting = m.starting /\ n.cmds = m.cmds
    BY <1>4, <2>2, <2>3 DEF Pipe
  <2>5. Scheduled(m, n)
    BY <1>5, <2>3, <2>4 DEF Scheduled, StartOK
  <2>. QED  BY <2>5 DEF n
<1>8. CASE IsNewValue(m.strategy, type, value) /\ ~ stop
  <2>1. n = TryDoSchedule(changed)
    BY <1>8, Zenon DEF EventChanged, noted, stop, st
  <2>2. /\ changed \in Pipe /\ changed.repo = m.repo /\ changed.result = m.result /\ changed.hal = m.hal
        /\ changed.ive = m.ive /\ changed.recorder = m.recorder /\ changed.strategy = st
        /\ changed.suspend = m.suspend /\ changed.starting = m.starting /\ changed.cmds = m.cmds
    BY <1>4 DEF Pipe
  <2>. HIDE DEF n, changed
  <2>3. Scheduled(changed, n)
    BY <1>5, <2>1, <2>2, TryDoScheduleIs
  <2>4. Scheduled(m, n)
    BY <2>2, <2>3 DEF Scheduled
  <2>. QED  BY <2>4 DEF n
<1>. QED  BY <1>6, <1>7, <1>8
-----------------------------------------------------------------------------
(***************************************************************************)
(* The answers.                                                            *)
(***************************************************************************)
LEMMA DropIs ==
  ASSUME NEW w \in Ive, NEW v
  PROVE  /\ Drop(w, v) \in Ive
         /\ Drop(w, v).work = w.work \ {v}
         /\ w.aborted /\ Drop(w, v).work # {} => Drop(w, v).aborted
<1>. DEFINE left == w.work \ {v}
            told == w.aborted /\ w.work # {v}
<1>1. left \in SUBSET Video /\ told \in BOOLEAN
  BY DEF Ive
<1>2. Drop(w, v) = [w EXCEPT !.work = left, !.aborted = told]
  BY DEF Drop
<1>3. w.aborted /\ left # {} => told
  OBVIOUS
<1>. HIDE DEF left, told
<1>4. Drop(w, v) \in Ive /\ Drop(w, v).work = left /\ Drop(w, v).aborted = told
  BY <1>1, <1>2 DEF Ive
<1>5. w.aborted /\ Drop(w, v).work # {} => Drop(w, v).aborted
  BY <1>3, <1>4
<1>. QED  BY <1>4, <1>5 DEF left

LEMMA ReleaseStreamsIs ==
  ASSUME NEW m \in Pipe, NEW v
  PROVE  LET n == ReleaseStreams(m, v)
         IN  /\ n \in Pipe
             /\ n.repo = m.repo /\ n.result = m.result /\ n.hal = m.hal /\ n.recorder = m.recorder
             /\ n.strategy = m.strategy /\ n.suspend = m.suspend /\ n.starting = m.starting
             /\ n.cmds = m.cmds
             /\ m.hal.session = "live" => n.ive.work = m.ive.work \ {v}
             /\ m.hal.session # "live" => n.ive.work = m.ive.work
             /\ m.ive.aborted /\ n.ive.work # {} => n.ive.aborted
<1>0. m.ive \in Ive
  BY DEF Pipe
<1>1. CASE m.hal.session = "live"
  <2>. DEFINE w == Drop(m.ive, v)
              n == [m EXCEPT !.ive = w]
  <2>1. ReleaseStreams(m, v) = n
    BY <1>1 DEF ReleaseStreams
  <2>2. w \in Ive /\ w.work = m.ive.work \ {v} /\ (m.ive.aborted /\ w.work # {} => w.aborted)
    BY <1>0, DropIs
  <2>. HIDE DEF w
  <2>3. /\ n \in Pipe
        /\ n.repo = m.repo /\ n.result = m.result /\ n.hal = m.hal /\ n.recorder = m.recorder
        /\ n.strategy = m.strategy /\ n.suspend = m.suspend /\ n.starting = m.starting
        /\ n.cmds = m.cmds /\ n.ive = w
    BY <2>2 DEF Pipe
  <2>. HIDE DEF n
  <2>. QED  BY <1>1, <2>1, <2>2, <2>3
<1>2. CASE m.hal.session # "live"
  <2>1. ReleaseStreams(m, v) = m
    BY <1>2 DEF ReleaseStreams
  <2>. QED  BY <1>2, <2>1
<1>. QED  BY <1>1, <1>2

LEMMA AnsweredIs ==
  ASSUME NEW m \in Pipe, QueueOK(m.repo), NEW v \in Video, Present(m.repo, v), NEW spent \in BOOLEAN
  PROVE  LET n == Answered(m, v, spent)
         IN  /\ n \in Pipe
             /\ Changed(m.repo, n.repo, v)
             /\ n.repo.job[v] = [m.repo.job[v] EXCEPT !.timer = FALSE]
             /\ n.repo.running = m.repo.running
             /\ n.result = m.result /\ n.hal = m.hal /\ n.ive = m.ive
             /\ n.suspend = m.suspend /\ n.starting = m.starting /\ n.cmds = m.cmds
             /\ GateOK(m.strategy) => GateOK(n.strategy)
<1>. DEFINE t == [m.repo EXCEPT !.job[v].timer = FALSE]
            total == m.strategy.totalOver \/ (spent /\ m.repo.job[v].suspend)
            st == [m.strategy EXCEPT !.totalOver = total]
            n == [m EXCEPT !.repo = t, !.recorder = "none", !.strategy = st]
<1>0. m.repo \in Repository /\ m.strategy \in Strategy
  BY DEF Pipe
<1>1. Answered(m, v, spent) = n
  BY <1>0 DEF Answered, Pipe, Repository, Strategy
<1>2. /\ Changed(m.repo, t, v)
      /\ t.job[v] = [m.repo.job[v] EXCEPT !.timer = FALSE]
      /\ t.running = m.repo.running
  BY SetTimerIs
<1>3. total \in BOOLEAN
  BY DEF Strategy
<1>. HIDE DEF t, total
<1>4. /\ st \in Strategy /\ st.isNeedStop = m.strategy.isNeedStop /\ st.stops = m.strategy.stops
      /\ st.charging = m.strategy.charging /\ st.batteryLow = m.strategy.batteryLow
      /\ st.levelLow = m.strategy.levelLow
  BY <1>0, <1>3 DEF Strategy
<1>5. GateOK(m.strategy) => GateOK(st)
  BY <1>4 DEF GateOK
<1>. HIDE DEF st
<1>6. t \in Repository
  BY <1>2 DEF Changed, QueueOK
<1>7. /\ n \in Pipe /\ n.repo = t /\ n.strategy = st
      /\ n.result = m.result /\ n.hal = m.hal /\ n.ive = m.ive
      /\ n.suspend = m.suspend /\ n.starting = m.starting /\ n.cmds = m.cmds
  BY <1>4, <1>6 DEF Pipe
<1>. HIDE DEF n
<1>. QED  BY <1>1, <1>2, <1>5, <1>7

Failures == {"ERROR", "PAUSE", "FAILED"}

\* The answer is told: the job goes to a state of S or stays, and the queue is asked again.
Told(m, n, v, S) ==
  /\ n \in Pipe
  /\ n.repo = m.repo \/ \E s \in S : n.repo = SetJob(m.repo, v, s)
  /\ n.hal = m.hal /\ n.ive = m.ive /\ n.recorder = m.recorder /\ n.strategy = m.strategy
  /\ n.suspend = m.suspend /\ n.starting = m.starting
  /\ n.cmds = m.cmds \/ n.cmds = m.cmds \o <<JobChanged>>

LEMMA RecordResultIs ==
  ASSUME NEW m \in Pipe, NEW v \in Video, NEW what \in {"done", "fatal", "other"}
  PROVE  LET n == RecordResult(m, v, what)
         IN  /\ n \in Pipe
             /\ n.repo = m.repo /\ n.hal = m.hal /\ n.ive = m.ive /\ n.recorder = m.recorder
             /\ n.strategy = m.strategy /\ n.suspend = m.suspend /\ n.starting = m.starting
             /\ n.cmds = m.cmds
<1>. DEFINE cached == [m.result.cache EXCEPT ![v] = IF @ = "none" THEN what ELSE @]
            s == [m.result EXCEPT !.cache = cached]
            n == [m EXCEPT !.result = s]
<1>0. m.result \in Result
  BY DEF Pipe
<1>1. RecordResult(m, v, what) = n
  BY <1>0 DEF RecordResult, Pipe, Result
<1>2. cached \in [Video -> {"none", "done", "fatal", "other"}]
  BY <1>0 DEF Result
<1>. HIDE DEF cached
<1>3. s \in Result
  BY <1>0, <1>2 DEF Result
<1>. HIDE DEF s
<1>. QED  BY <1>1, <1>3 DEF Pipe

LEMMA SendIs ==
  ASSUME NEW m \in Pipe, NEW q \in Seq(Command)
  PROVE  LET n == Send(m, q)
         IN  /\ n \in Pipe
             /\ n.repo = m.repo /\ n.result = m.result /\ n.hal = m.hal /\ n.ive = m.ive
             /\ n.recorder = m.recorder /\ n.strategy = m.strategy /\ n.suspend = m.suspend
             /\ n.starting = m.starting
             /\ n.cmds = m.cmds \o q
<1>1. m.cmds \o q \in Seq(Command)
  BY DEF Pipe
<1>. DEFINE all == m.cmds \o q
<1>. HIDE DEF all
<1>2. Send(m, q) = [m EXCEPT !.cmds = all]
  BY DEF Send, all
<1>. QED  BY <1>1, <1>2 DEF Pipe, all

LEMMA SetState ==
  ASSUME NEW m \in Pipe, QueueOK(m.repo), NEW v \in Video, Present(m.repo, v), NEW s \in JobState
  PROVE  LET n == [m EXCEPT !.repo = SetJob(@, v, s)]
         IN  /\ n \in Pipe /\ n.repo = SetJob(m.repo, v, s)
             /\ n.result = m.result /\ n.hal = m.hal /\ n.ive = m.ive
             /\ n.recorder = m.recorder /\ n.strategy = m.strategy /\ n.suspend = m.suspend
             /\ n.starting = m.starting /\ n.cmds = m.cmds
<1>. DEFINE t == SetJob(m.repo, v, s)
<1>1. t \in Repository
  BY SetJobIs DEF Changed, QueueOK
<1>. HIDE DEF t
<1>2. [m EXCEPT !.repo = SetJob(@, v, s)] = [m EXCEPT !.repo = t]
  BY DEF t
<1>. QED  BY <1>1, <1>2 DEF Pipe, t

LEMMA HandleErrorIs ==
  ASSUME NEW m \in Pipe, QueueOK(m.repo), NEW v \in Video, Present(m.repo, v), NEW e \in Error
  PROVE  Told(m, HandleError(m, v, e), v, Failures)
<1>. DEFINE fatal == IsFatal(m, v, e)
            counts == [m.result.crash EXCEPT ![v] = CrashCount(m, v, e)]
            s == [m.result EXCEPT !.crash = counts]
            counted == [m EXCEPT !.result = s]
            next == IF fatal THEN "ERROR" ELSE IF e = "INTERRUPTED" THEN "PAUSE" ELSE "FAILED"
            set == [counted EXCEPT !.repo = SetJob(@, v, next)]
            n == HandleError(m, v, e)
            what == IF fatal THEN "fatal" ELSE "other"
<1>0. m.result \in Result
  BY DEF Pipe
<1>1. next \in Failures /\ next \in JobState /\ what \in {"done", "fatal", "other"}
  BY DEF JobState, Failures
<1>2. CrashCount(m, v, e) \in 0 .. 3
  BY <1>0 DEF CrashCount, Result
<1>3. counts \in [Video -> 0 .. 3]
  BY <1>0, <1>2 DEF Result
<1>4. [m EXCEPT !.result.crash[v] = CrashCount(m, v, e)] = counted
  BY <1>0 DEF Pipe, Result
<1>5. n = IF ~ HasCallback THEN RecordResult(counted, v, what)
          ELSE IF next = "PAUSE" THEN set ELSE Send(set, <<JobChanged>>)
  BY <1>4, Zenon DEF HandleError
<1>. HIDE DEF counts, next, n, what
<1>6. s \in Result
  BY <1>0, <1>3 DEF Result
<1>. HIDE DEF s
<1>7. /\ counted \in Pipe /\ counted.repo = m.repo /\ counted.hal = m.hal /\ counted.ive = m.ive
      /\ counted.recorder = m.recorder /\ counted.strategy = m.strategy
      /\ counted.suspend = m.suspend /\ counted.starting = m.starting /\ counted.cmds = m.cmds
  BY <1>6 DEF Pipe
<1>. HIDE DEF counted
<1>8. /\ set \in Pipe /\ set.repo = SetJob(m.repo, v, next) /\ set.hal = m.hal /\ set.ive = m.ive
      /\ set.recorder = m.recorder /\ set.strategy = m.strategy
      /\ set.suspend = m.suspend /\ set.starting = m.starting /\ set.cmds = m.cmds
  BY <1>1, <1>7, SetState
<1>. HIDE DEF set
<1>9. CASE ~ HasCallback
  <2>1. n = RecordResult(counted, v, what)
    BY <1>5, <1>9
  <2>2. /\ n \in Pipe
        /\ n.repo = counted.repo /\ n.hal = counted.hal /\ n.ive = counted.ive
        /\ n.recorder = counted.recorder /\ n.strategy = counted.strategy
        /\ n.suspend = counted.suspend /\ n.starting = counted.starting
        /\ n.cmds = counted.cmds
    BY <1>1, <1>7, <2>1, RecordResultIs
  <2>. QED  BY <1>7, <2>2 DEF Told, n
<1>10. CASE HasCallback /\ next = "PAUSE"
  <2>1. n = set
    BY <1>5, <1>10
  <2>. QED  BY <1>1, <1>8, <2>1 DEF Told, n
<1>11. CASE HasCallback /\ next # "PAUSE"
  <2>1. n = Send(set, <<JobChanged>>)
    BY <1>5, <1>11
  <2>2. <<JobChanged>> \in Seq(Command)
    BY PlainCommands DEF Plain
  <2>3. /\ n \in Pipe /\ n.repo = set.repo /\ n.hal = set.hal /\ n.ive = set.ive
        /\ n.recorder = set.recorder /\ n.strategy = set.strategy
        /\ n.suspend = set.suspend /\ n.starting = set.starting
        /\ n.cmds = set.cmds \o <<JobChanged>>
    BY <1>8, <2>1, <2>2, SendIs
  <2>. QED  BY <1>1, <1>8, <2>3 DEF Told, n
<1>. QED  BY <1>9, <1>10, <1>11

LEMMA HandleDoneIs ==
  ASSUME NEW m \in Pipe, QueueOK(m.repo), NEW v \in Video, Present(m.repo, v)
  PROVE  Told(m, HandleDone(m, v), v, {"COMPLETED"})
<1>. DEFINE set == [m EXCEPT !.repo = SetJob(@, v, "COMPLETED")]
            n == HandleDone(m, v)
<1>1. CASE ~ HasCallback
  <2>1. n = RecordResult(m, v, "done")
    BY <1>1 DEF HandleDone
  <2>. HIDE DEF n
  <2>. QED  BY <2>1, RecordResultIs DEF Told, n
<1>2. CASE HasCallback
  <2>1. n = Send(set, <<JobChanged>>)
    BY <1>2 DEF HandleDone
  <2>2. <<JobChanged>> \in Seq(Command)
    BY PlainCommands DEF Plain
  <2>3. /\ set \in Pipe /\ set.repo = SetJob(m.repo, v, "COMPLETED") /\ set.hal = m.hal /\ set.ive = m.ive
        /\ set.recorder = m.recorder /\ set.strategy = m.strategy
        /\ set.suspend = m.suspend /\ set.starting = m.starting /\ set.cmds = m.cmds
    <3>1. "COMPLETED" \in JobState
      BY DEF JobState
    <3>. QED  BY <3>1, SetState
  <2>. HIDE DEF set, n
  <2>4. /\ n \in Pipe /\ n.repo = set.repo /\ n.hal = set.hal /\ n.ive = set.ive
        /\ n.recorder = set.recorder /\ n.strategy = set.strategy
        /\ n.suspend = set.suspend /\ n.starting = set.starting
        /\ n.cmds = set.cmds \o <<JobChanged>>
    BY <2>1, <2>2, <2>3, SendIs
  <2>. QED  BY <2>3, <2>4 DEF Told, n
<1>. QED  BY <1>1, <1>2

LEMMA ToldIs ==
  ASSUME NEW m \in Pipe, QueueOK(m.repo), NEW v \in Video, Present(m.repo, v),
         NEW S, S \subseteq JobState \ {"RUNNING"}, NEW n, Told(m, n, v, S),
         NEW lost, lost \subseteq Video, RunningOK(m.repo, lost)
  PROVE  /\ Changed(m.repo, n.repo, v)
         /\ RunningOK(n.repo, lost)
         /\ n.repo.running \subseteq m.repo.running
         /\ m.repo.running \ {v} \subseteq n.repo.running
         /\ n.repo.job[v].state = m.repo.job[v].state \/ n.repo.job[v].state \in S
<1>1. CASE n.repo = m.repo
  BY <1>1 DEF Changed
<1>2. CASE \E s \in S : n.repo = SetJob(m.repo, v, s)
  <2>1. PICK s \in S : n.repo = SetJob(m.repo, v, s)
    BY <1>2
  <2>2. s \in JobState /\ s # "RUNNING"
    OBVIOUS
  <2>. DEFINE r == m.repo
              t == SetJob(r, v, s)
  <2>3. Changed(r, t, v) /\ t.job[v] = [r.job[v] EXCEPT !.state = s] /\ t.running = RunningAfter(r, v, s)
    BY <2>2, SetJobIs
  <2>4. RunningOK(t, lost)
    BY <2>2, SetJobRunning
  <2>. HIDE DEF t
  <2>5. m.repo.job[v] \in Job
    <3>1. m.repo \in Repository
      BY DEF Pipe
    <3>. QED  BY <3>1, RankType
  <2>6. t.job[v].state = s
    BY <2>2, <2>3, <2>5 DEF Job
  <2>7. t.running \subseteq r.running /\ r.running \ {v} \subseteq t.running
    BY <2>2, <2>3 DEF RunningAfter
  <2>. QED  BY <2>1, <2>3, <2>4, <2>6, <2>7 DEF t
<1>. QED  BY <1>1, <1>2 DEF Told

\* What the handler of an answer of video v may do.
Answers(m, n, v, S, lost) ==
  /\ n \in Pipe /\ Changed(m.repo, n.repo, v) /\ RunningOK(n.repo, lost)
  /\ n.repo.running \subseteq m.repo.running /\ m.repo.running \ {v} \subseteq n.repo.running
  /\ n.repo.job[v].state = m.repo.job[v].state \/ n.repo.job[v].state \in S
  /\ n.hal = m.hal /\ n.starting = m.starting
  /\ n.ive.work \subseteq m.ive.work
  /\ m.hal.session = "live" => v \notin n.ive.work
  /\ m.ive.aborted /\ n.ive.work # {} => n.ive.aborted
  /\ n.suspend = m.suspend \/ (Present(m.repo, v) /\ TimerNamed(n.suspend))
  /\ GateOK(n.strategy)
  /\ n.cmds = m.cmds \/ n.cmds = m.cmds \o <<JobChanged>>

LEMMA ReleasedAnswer ==
  ASSUME NEW m \in Pipe, QueueOK(m.repo), NEW v \in Video, GateOK(m.strategy),
         NEW lost, lost \subseteq Video, RunningOK(m.repo, lost), NEW S
  PROVE  Answers(m, ReleaseStreams(m, v), v, S, lost)
<1>. DEFINE n == ReleaseStreams(m, v)
<1>1. /\ n \in Pipe
      /\ n.repo = m.repo /\ n.result = m.result /\ n.hal = m.hal /\ n.recorder = m.recorder
      /\ n.strategy = m.strategy /\ n.suspend = m.suspend /\ n.starting = m.starting
      /\ n.cmds = m.cmds
      /\ m.hal.session = "live" => n.ive.work = m.ive.work \ {v}
      /\ m.hal.session # "live" => n.ive.work = m.ive.work
      /\ m.ive.aborted /\ n.ive.work # {} => n.ive.aborted
  BY ReleaseStreamsIs
<1>. HIDE DEF n
<1>2. n.ive.work \subseteq m.ive.work /\ (m.hal.session = "live" => v \notin n.ive.work)
  BY <1>1
<1>3. Changed(m.repo, n.repo, v)
  BY <1>1 DEF Changed
<1>4. Answers(m, n, v, S, lost)
  BY <1>1, <1>2, <1>3 DEF Answers
<1>. QED  BY <1>4 DEF n

\* m released and perhaps without its timer (u), answered (a), told (n).
LEMMA ToldAnswer ==
  ASSUME NEW m \in Pipe, QueueOK(m.repo), NEW v \in Video, Present(m.repo, v), GateOK(m.strategy),
         NEW lost, lost \subseteq Video, RunningOK(m.repo, lost),
         NEW u \in Pipe, u = ReleaseStreams(m, v) \/ u = StopSuspendLock(ReleaseStreams(m, v)),
         NEW spent \in BOOLEAN, NEW S, S \subseteq JobState \ {"RUNNING"},
         NEW n, Told(Answered(u, v, spent), n, v, S)
  PROVE  Answers(m, n, v, S, lost)
<1>. DEFINE l == ReleaseStreams(m, v)
            a == Answered(u, v, spent)
<1>1. /\ l \in Pipe
      /\ l.repo = m.repo /\ l.hal = m.hal
      /\ l.strategy = m.strategy /\ l.suspend = m.suspend /\ l.starting = m.starting
      /\ l.cmds = m.cmds
      /\ m.hal.session = "live" => l.ive.work = m.ive.work \ {v}
      /\ m.hal.session # "live" => l.ive.work = m.ive.work
      /\ m.ive.aborted /\ l.ive.work # {} => l.ive.aborted
  BY ReleaseStreamsIs
<1>2. /\ u.repo = m.repo /\ u.hal = m.hal /\ u.ive = l.ive
      /\ u.strategy = m.strategy /\ u.starting = m.starting
      /\ u.cmds = m.cmds
      /\ u.suspend = m.suspend \/ TimerNamed(u.suspend)
  <2>1. CASE u = l
    BY <1>1, <2>1
  <2>2. CASE u = StopSuspendLock(l)
    <3>. HIDE DEF l
    <3>. QED  BY <1>1, <2>2, StopSuspendLockIs
  <2>. QED  BY <2>1, <2>2
<1>. HIDE DEF l
<1>3. /\ a \in Pipe
      /\ Changed(u.repo, a.repo, v)
      /\ a.repo.job[v] = [u.repo.job[v] EXCEPT !.timer = FALSE]
      /\ a.repo.running = u.repo.running
      /\ a.hal = u.hal /\ a.ive = u.ive
      /\ a.suspend = u.suspend /\ a.starting = u.starting /\ a.cmds = u.cmds
      /\ GateOK(u.strategy) => GateOK(a.strategy)
  BY <1>2, AnsweredIs
<1>. HIDE DEF a
<1>4. QueueOK(a.repo) /\ a.repo.job[v].state = m.repo.job[v].state
  <2>1. m.repo.job[v] \in Job
    <3>1. m.repo \in Repository
      BY DEF Pipe
    <3>. QED  BY <3>1, RankType
  <2>. QED  BY <1>2, <1>3, <2>1 DEF Changed, Job
<1>5. Present(a.repo, v) /\ \A w \in Video : a.repo.job[w].state = m.repo.job[w].state
  BY <1>2, <1>3, <1>4 DEF Changed, Present
<1>6. RunningOK(a.repo, lost)
  <2>1. m.repo.running \subseteq Video
    BY DEF QueueOK, Repository
  <2>2. \A w \in Video : a.repo.job[w].state = "RUNNING" <=> m.repo.job[w].state = "RUNNING"
    BY <1>5
  <2>3. a.repo.running = m.repo.running
    BY <1>2, <1>3
  <2>. QED  BY <2>1, <2>2, <2>3, RunningSame
<1>7. /\ Changed(a.repo, n.repo, v)
      /\ RunningOK(n.repo, lost)
      /\ n.repo.running \subseteq a.repo.running
      /\ a.repo.running \ {v} \subseteq n.repo.running
      /\ n.repo.job[v].state = a.repo.job[v].state \/ n.repo.job[v].state \in S
  <2>1. Told(a, n, v, S)
    BY DEF a
  <2>2. a \in Pipe /\ QueueOK(a.repo) /\ Present(a.repo, v) /\ RunningOK(a.repo, lost)
    BY <1>3, <1>4, <1>5, <1>6
  <2>. QED  BY <2>1, <2>2, ToldIs
<1>8. /\ n \in Pipe /\ n.hal = a.hal /\ n.ive = a.ive /\ n.strategy = a.strategy
      /\ n.suspend = a.suspend /\ n.starting = a.starting
      /\ n.cmds = a.cmds \/ n.cmds = a.cmds \o <<JobChanged>>
  <2>1. Told(a, n, v, S)
    BY DEF a
  <2>. QED  BY <2>1 DEF Told
<1>9. Changed(m.repo, n.repo, v)
  BY <1>2, <1>3, <1>7 DEF Changed
<1>10. /\ n.ive.work \subseteq m.ive.work
       /\ m.hal.session = "live" => v \notin n.ive.work
       /\ m.ive.aborted /\ n.ive.work # {} => n.ive.aborted
  BY <1>1, <1>2, <1>3, <1>8
<1>11. n.suspend = m.suspend \/ TimerNamed(n.suspend)
  BY <1>2, <1>3, <1>8
<1>. QED  BY <1>2, <1>3, <1>4, <1>7, <1>8, <1>9, <1>10, <1>11 DEF Answers
-----------------------------------------------------------------------------
(***************************************************************************)
(* Adding videos.                                                          *)
(***************************************************************************)
\* What adding some videos may do.
Adds(m, n) ==
  /\ n \in Pipe /\ QueueOK(n.repo) /\ (Ordered(m.repo) => Ordered(n.repo))
  /\ n.repo.running = m.repo.running
  /\ \A u \in Video : \/ n.repo.job[u] = m.repo.job[u]
                      \/ ~ Present(m.repo, u) /\ n.repo.job[u] = Created
  /\ n.hal = m.hal /\ n.ive = m.ive /\ n.recorder = m.recorder
  /\ n.strategy = m.strategy /\ n.suspend = m.suspend /\ n.starting = m.starting
  /\ n.cmds = m.cmds

LEMMA AddVideoIs ==
  ASSUME NEW m \in Pipe, NEW n, Adds(m, n), NEW v \in Video
  PROVE  Adds(m, AddVideo(n, v))
<1>. DEFINE k == AddVideo(n, v)
<1>0. n \in Pipe /\ n.result \in Result /\ QueueOK(n.repo)
  BY DEF Adds, Pipe
<1>1. CASE n.result.cache[v] # "none" /\ HasCallback
  <2>. DEFINE cached == [n.result.cache EXCEPT ![v] = "none"]
              s == [n.result EXCEPT !.cache = cached]
  <2>1. cached \in [Video -> {"none", "done", "fatal", "other"}]
    BY <1>0 DEF Result
  <2>2. k = [n EXCEPT !.result = s]
    <3>1. k = [n EXCEPT !.result.cache[v] = "none"]
      BY <1>1 DEF AddVideo
    <3>. QED  BY <1>0, <3>1 DEF Pipe, Result
  <2>. HIDE DEF cached, k
  <2>3. s \in Result
    BY <1>0, <2>1 DEF Result
  <2>. HIDE DEF s
  <2>4. /\ k \in Pipe /\ k.repo = n.repo /\ k.hal = n.hal /\ k.ive = n.ive /\ k.recorder = n.recorder
        /\ k.strategy = n.strategy /\ k.suspend = n.suspend /\ k.starting = n.starting
        /\ k.cmds = n.cmds
    BY <1>0, <2>2, <2>3 DEF Pipe
  <2>5. Adds(m, k)
    BY <2>4 DEF Adds
  <2>. QED  BY <2>5 DEF k
<1>2. CASE ~ (n.result.cache[v] # "none" /\ HasCallback)
  <2>. DEFINE t == AddVideoJob(n.repo, v)
  <2>1. /\ Changed(n.repo, t, v) /\ t.job[v] = JobAdded(n.repo, v)
        /\ t.running = n.repo.running
    BY <1>0, AddVideoJobIs
  <2>2. k = [n EXCEPT !.repo = t]
    BY <1>2 DEF AddVideo
  <2>. HIDE DEF t, k
  <2>3. t \in Repository /\ QueueOK(t)
    BY <2>1 DEF Changed, QueueOK
  <2>4. /\ k \in Pipe /\ k.repo = t /\ k.hal = n.hal /\ k.ive = n.ive /\ k.recorder = n.recorder
        /\ k.strategy = n.strategy /\ k.suspend = n.suspend /\ k.starting = n.starting
        /\ k.cmds = n.cmds
    BY <1>0, <2>2, <2>3 DEF Pipe
  <2>5. \A u \in Video : \/ t.job[u] = m.repo.job[u]
                         \/ ~ Present(m.repo, u) /\ t.job[u] = Created
    <3>. SUFFICES ASSUME NEW u \in Video
                  PROVE  \/ t.job[u] = m.repo.job[u]
                         \/ ~ Present(m.repo, u) /\ t.job[u] = Created
      OBVIOUS
    <3>1. \/ n.repo.job[u] = m.repo.job[u]
          \/ ~ Present(m.repo, u) /\ n.repo.job[u] = Created
      BY DEF Adds
    <3>2. CASE u # v
      BY <2>1, <3>1, <3>2 DEF Changed
    <3>3. CASE u = v /\ Present(n.repo, v)
      BY <2>1, <3>1, <3>3 DEF JobAdded
    <3>4. CASE u = v /\ ~ Present(n.repo, v)
      <4>1. t.job[u] = Created
        BY <2>1, <3>4 DEF JobAdded
      <4>2. ~ Present(m.repo, u)
        BY <3>1, <3>4 DEF Present
      <4>. QED  BY <4>1, <4>2
    <3>. QED  BY <3>2, <3>3, <3>4
  <2>6. Adds(m, k)
    BY <2>1, <2>3, <2>4, <2>5 DEF Adds, Changed
  <2>. QED  BY <2>6 DEF k
<1>. QED  BY <1>1, <1>2

\* The loop of VideoSyncCommand.
LEMMA AddAll ==
  ASSUME NEW T, NEW m \in T, NEW l \in Nat, NEW order \in [1 .. l -> Video],
         \A t \in T, v \in Video : AddVideo(t, v) \in T
  PROVE  LET add[n \in 0 .. l] == IF n = 0 THEN m ELSE AddVideo(add[n - 1], order[n])
         IN  add[l] \in T
<1>. DEFINE P == (0 .. l) \X T
            first == <<0, m>>
            F == [p \in P |-> IF p[1] < l THEN <<p[1] + 1, AddVideo(p[2], order[p[1] + 1])>> ELSE p]
            loop(f) == [n \in 0 .. l |-> IF n = 0 THEN m ELSE AddVideo(f[n - 1], order[n])]
            add == CHOOSE add : add = loop(add)
<1>1. F \in [P -> P] /\ first \in P
  <2>1. ASSUME NEW p \in P
        PROVE  (IF p[1] < l THEN <<p[1] + 1, AddVideo(p[2], order[p[1] + 1])>> ELSE p) \in P
    <3>1. p[1] \in 0 .. l /\ p[2] \in T
      OBVIOUS
    <3>2. CASE p[1] < l
      <4>1. p[1] + 1 \in 1 .. l /\ p[1] + 1 \in 0 .. l
        BY <3>1, <3>2
      <4>2. AddVideo(p[2], order[p[1] + 1]) \in T
        BY <3>1, <4>1
      <4>. QED  BY <3>2, <4>1, <4>2
    <3>3. CASE ~ (p[1] < l)
      BY <3>3
    <3>. QED  BY <3>2, <3>3
  <2>2. first \in P
    OBVIOUS
  <2>. QED  BY <2>1, <2>2
<1>2. PICK f \in [0 .. l -> P] : Iterates(f, F, first, l)
  <2>. HIDE DEF F, P, first
  <2>. QED  BY <1>1, Iteration
<1>3. \A n \in Nat : n <= l => f[n][1] = n
  <2>. DEFINE K == {n \in Nat : n <= l => f[n][1] = n}
  <2>1. 0 \in K
    BY <1>2 DEF Iterates
  <2>2. ASSUME NEW n \in Nat, n \in K
        PROVE  n + 1 \in K
    <3>1. CASE n + 1 <= l
      <4>1. n + 1 \in 1 .. l /\ n \in 0 .. l /\ (n + 1) - 1 = n
        BY <3>1
      <4>2. f[n + 1] = F[f[n]] /\ f[n] \in P
        BY <1>2, <4>1 DEF Iterates
      <4>3. f[n][1] = n /\ n < l
        BY <2>2, <3>1
      <4>4. F[f[n]] = <<n + 1, AddVideo(f[n][2], order[n + 1])>>
        BY <4>2, <4>3
      <4>. QED  BY <4>2, <4>4
    <3>. QED  BY <3>1
  <2>. HIDE DEF K
  <2>3. \A n \in Nat : n \in K
    BY <2>1, <2>2, Induction
  <2>. QED  BY <2>3 DEF K
<1>. DEFINE g == [n \in 0 .. l |-> f[n][2]]
<1>4. g = loop(g)
  <2>1. ASSUME NEW n \in 0 .. l
        PROVE  g[n] = IF n = 0 THEN m ELSE AddVideo(g[n - 1], order[n])
    <3>1. CASE n = 0
      BY <1>2, <3>1 DEF Iterates
    <3>2. CASE n # 0
      <4>1. n \in 1 .. l /\ n - 1 \in 0 .. l /\ n - 1 < l /\ n - 1 \in Nat /\ (n - 1) + 1 = n
        BY <3>2
      <4>2. f[n] = F[f[n - 1]] /\ f[n - 1] \in P
        BY <1>2, <4>1 DEF Iterates
      <4>3. f[n - 1][1] = n - 1
        BY <1>3, <4>1
      <4>4. F[f[n - 1]] = <<n, AddVideo(f[n - 1][2], order[n])>>
        BY <4>1, <4>2, <4>3
      <4>5. g[n] = f[n][2] /\ g[n - 1] = f[n - 1][2]
        BY <4>1
      <4>6. f[n][2] = AddVideo(f[n - 1][2], order[n])
        BY <4>2, <4>4
      <4>. HIDE DEF g
      <4>. QED  BY <3>2, <4>5, <4>6
    <3>. QED  BY <3>1, <3>2
  <2>. HIDE DEF P, F, first
  <2>. QED  BY <2>1
<1>5. add = loop(add)
  <2>. HIDE DEF loop, g
  <2>. QED  BY <1>4
<1>6. /\ add[0] = m /\ \A n \in 1 .. l : add[n] = AddVideo(add[n - 1], order[n])
      /\ DOMAIN add = 0 .. l
  <2>. HIDE DEF add
  <2>1. DOMAIN add = 0 .. l /\ \A n \in 0 .. l : add[n] = IF n = 0 THEN m ELSE AddVideo(add[n - 1], order[n])
    BY <1>5
  <2>2. add[0] = m
    BY <2>1
  <2>3. ASSUME NEW n \in 1 .. l
        PROVE  add[n] = AddVideo(add[n - 1], order[n])
    <3>1. n \in 0 .. l /\ n # 0
      OBVIOUS
    <3>. HIDE DEF loop
    <3>. QED  BY <2>1, <3>1
  <2>. QED  BY <2>1, <2>2, <2>3
<1>7. add[l] \in T
  <2>. HIDE DEF add
  <2>. DEFINE K == {n \in Nat : n <= l => add[n] \in T}
  <2>1. 0 \in K
    BY <1>6
  <2>2. ASSUME NEW n \in Nat, n \in K
        PROVE  n + 1 \in K
    <3>1. CASE n + 1 <= l
      <4>1. n + 1 \in 1 .. l /\ (n + 1) - 1 = n /\ n <= l
        BY <3>1
      <4>2. add[n + 1] = AddVideo(add[n], order[n + 1])
        BY <1>6, <4>1
      <4>3. order[n + 1] \in Video /\ add[n] \in T
        BY <2>2, <4>1
      <4>4. AddVideo(add[n], order[n + 1]) \in T
        BY <4>3
      <4>5. add[n + 1] \in T /\ n + 1 \in Nat
        BY <4>2, <4>4
      <4>. HIDE DEF add
      <4>. QED  BY <4>5
    <3>. QED  BY <3>1
  <2>. HIDE DEF K
  <2>3. \A n \in Nat : n \in K
    BY <2>1, <2>2, Induction
  <2>. QED  BY <2>3 DEF K
<1>. QED  BY <1>7
-----------------------------------------------------------------------------
(***************************************************************************)
(* The steps.                                                              *)
(***************************************************************************)
ClientType == [alive : BOOLEAN, mapped : Info \cup {"none"}, callback : SUBSET Info]

Clock == workload' = workload /\ calls' \in 0 .. workload.maxCalls

\* The video chosen is the root of the heap, and may be processed.
Chosen ==
  \A v \in Video : Started(v) => /\ repo.heap # <<>> /\ v = repo.heap[1]
                                 /\ MayProcess(strategy', repo.job[v].priority)

\* What DeliveredStays says of a step.
Kept ==
  \A v \in Video :
    repo.job[v].state = "COMPLETED" /\ repo'.job[v].state # "COMPLETED" /\ v \notin late =>
      /\ cmds # <<>>
      /\ \/ Head(cmds).op \in {"Remove", "Restore"} /\ Head(cmds).video = v
         \/ Head(cmds).op = "Failed" /\ Head(cmds).video = v /\ Head(cmds).error \in {"TIMEOUT", "NOT_READY"}

LEMMA NotChosen ==
  ASSUME starting' = starting \/ starting' = "none"
  PROVE  Chosen
BY VideoAssumption DEF Chosen, Started

LEMMA KeptSame ==
  ASSUME \A v \in Video : repo.job[v].state = "COMPLETED" => repo'.job[v].state = "COMPLETED"
  PROVE  Kept
BY DEF Kept

LEMMA TypeParts ==
  TypeOK <=> /\ workload \in Workload /\ calls \in 0 .. workload.maxCalls
             /\ repo \in Repository /\ result \in Result /\ hal \in Hal /\ ive \in Ive
             /\ recorder \in Video \cup {"none"} /\ strategy \in Strategy /\ suspend \in Suspend
             /\ starting \in Video \cup {"none"} /\ cameraOpen \in BOOLEAN /\ client \in ClientType
             /\ cmds \in Seq(Command)
             /\ leaked \subseteq Video /\ unheard \subseteq Video /\ late \subseteq Video
             /\ overlapped \subseteq Video /\ trashed \in BOOLEAN
BY DEF TypeOK, Repository, Result, Hal, Ive, Strategy, Suspend, ClientType

LEMMA CurrentIs ==
  ASSUME TypeOK
  PROVE  /\ Current \in Pipe
         /\ Current.repo = repo /\ Current.result = result /\ Current.hal = hal /\ Current.ive = ive
         /\ Current.recorder = recorder /\ Current.strategy = strategy /\ Current.suspend = suspend
         /\ Current.starting = starting /\ Current.cmds = cmds
BY TypeParts DEF Current, Pipe

LEMMA NowIs ==
  ASSUME TypeOK, cmds # <<>>
  PROVE  /\ Now \in Pipe
         /\ Now.repo = repo /\ Now.result = result /\ Now.hal = hal /\ Now.ive = ive
         /\ Now.recorder = recorder /\ Now.strategy = strategy /\ Now.suspend = suspend
         /\ Now.starting = starting /\ Now.cmds = Tail(cmds)
<1>1. cmds \in Seq(Command)
  BY TypeParts
<1>2. Tail(cmds) \in Seq(Command)
  BY <1>1
<1>. DEFINE t == Tail(cmds)
            m == Current
<1>. HIDE DEF t, m
<1>3. Now = [m EXCEPT !.cmds = t]
  BY CurrentIs DEF Now, m, t, Pipe
<1>. QED  BY <1>2, <1>3, CurrentIs DEF m, t, Pipe

LEMMA BecomeIs ==
  ASSUME TypeOK, Clock, NEW m \in Pipe, Become(m), cameraOpen' \in BOOLEAN, client' \in ClientType,
         leaked' \subseteq Video, unheard' \subseteq Video, late' \subseteq Video,
         overlapped' \subseteq Video, trashed' \in BOOLEAN
  PROVE  TypeOK'
<1>1. /\ repo' \in Repository /\ result' \in Result /\ hal' \in Hal /\ ive' \in Ive
      /\ recorder' \in Video \cup {"none"} /\ strategy' \in Strategy /\ suspend' \in Suspend
      /\ starting' \in Video \cup {"none"} /\ cmds' \in Seq(Command)
  BY DEF Become, Pipe
<1>2. workload' \in Workload /\ calls' \in 0 .. workload'.maxCalls
  BY TypeParts DEF Clock
<1>. QED  BY <1>1, <1>2 DEF TypeOK, Repository, Result, Hal, Ive, Strategy, Suspend, ClientType

\* The answers queued go on being right while none is added and no video is completed.
LEMMA AnswersSame ==
  ASSUME NEW r, NEW w, NEW q, NEW lost, AnswersOK(r, w, q, lost),
         NEW t, NEW x, NEW p, NEW gone, lost \subseteq gone,
         x.work \subseteq w.work,
         \A v \in Video \ gone :
           /\ Once(q, Own(v)) => Once(p, Own(v))
           /\ None(q, Own(v)) => None(p, Own(v))
           /\ t.job[v].state = "COMPLETED" => r.job[v].state = "COMPLETED"
  PROVE  AnswersOK(t, x, p, gone)
<1>. SUFFICES ASSUME NEW v \in Video \ gone
              PROVE  /\ Once(p, Own(v))
                     /\ v \in x.work => None(p, Own(v))
                     /\ v \in x.work \/ ~ None(p, Own(v)) => t.job[v].state # "COMPLETED"
  BY DEF AnswersOK
<1>1. /\ Once(q, Own(v))
      /\ v \in w.work => None(q, Own(v))
      /\ v \in w.work \/ ~ None(q, Own(v)) => r.job[v].state # "COMPLETED"
  BY DEF AnswersOK
<1>. QED  BY <1>1

LEMMA WatchedSame ==
  ASSUME NEW r, NEW s, NEW w, NEW spared, Watched(r, s, w, spared),
         NEW t, NEW k, NEW x, NEW gone, x.work \subseteq w.work,
         \A v \in x.work : \/ v \in gone
                           \/ v \notin spared /\ t.job[v].suspend = r.job[v].suspend
                              /\ t.job[v].priority = r.job[v].priority,
         Ticking(s) => Ticking(k),
         w.aborted /\ x.work # {} => x.aborted
  PROVE  Watched(t, k, x, gone)
<1>. SUFFICES ASSUME NEW v \in x.work, v \notin gone, t.job[v].suspend, ~ IsHighJob(t, v)
              PROVE  Ticking(k) \/ x.aborted
  BY DEF Watched
<1>1. v \in w.work /\ v \notin spared /\ r.job[v].suspend /\ ~ IsHighJob(r, v)
  BY DEF IsHighJob
<1>. QED  BY <1>1 DEF Watched

\* What is left of the queue when the command at its head is taken.
LEMMA Taken ==
  ASSUME TypeOK, cmds # <<>>
  PROVE  /\ Tail(cmds) \in Seq(Command) /\ Head(cmds) \in Command
         /\ \A A : /\ None(cmds, A) => None(Tail(cmds), A)
                   /\ Once(cmds, A) => Once(Tail(cmds), A)
                   /\ Once(cmds, A) /\ Head(cmds) \in A => None(Tail(cmds), A)
<1>1. cmds \in Seq(Command)
  BY TypeParts
<1>. QED  BY <1>1, TailQueue

Spared == late \cup overlapped \cup leaked

\* The scheduling commands.
LEMMA ScheduledStep ==
  ASSUME IInv, Clock, cmds # <<>>, starting = "none",
         NEW n, Scheduled(Now, n), Become(n),
         cameraOpen' \in BOOLEAN, client' \in ClientType, UNCHANGED history
  PROVE  IInv' /\ Chosen /\ Kept
<1>0. TypeOK /\ n \in Pipe
  BY DEF IInv, Scheduled
<1>1. TypeOK'
  <2>1. leaked' \subseteq Video /\ unheard' \subseteq Video /\ late' \subseteq Video
        /\ overlapped' \subseteq Video /\ trashed' \in BOOLEAN
    BY <1>0, TypeParts DEF history
  <2>. QED  BY <1>0, <2>1, BecomeIs
<1>2. /\ Now.repo = repo /\ Now.result = result /\ Now.hal = hal /\ Now.ive = ive
      /\ Now.recorder = recorder /\ Now.suspend = suspend
      /\ Now.starting = starting /\ Now.cmds = Tail(cmds)
  BY <1>0, NowIs
<1>3. /\ QueueOK(repo') /\ (Ordered(repo) => Ordered(repo'))
      /\ repo'.running = repo.running
      /\ \A v \in Video :
           /\ \/ repo'.job[v].state = repo.job[v].state
              \/ repo.job[v].state = "FAILED" /\ repo'.job[v].state = "PENDING"
           /\ repo'.job[v].priority = repo.job[v].priority
      /\ TimerNamed(suspend')
      /\ StartOK(repo', starting')
      /\ starting' # "none" /\ repo'.job[starting'].suspend => Ticking(suspend')
      /\ repo.running # {} => repo' = repo /\ suspend' = suspend /\ starting' = "none"
      /\ hal' = hal /\ cmds' = Tail(cmds)
      /\ GateOK(strategy')
      /\ ive'.work = ive.work /\ (ive.aborted => ive'.aborted)
  BY <1>2 DEF Scheduled, Become
<1>4. leaked' = leaked /\ late' = late /\ overlapped' = overlapped /\ trashed' = trashed
  BY DEF history
<1>5. /\ QueueOK(repo) /\ RunningOK(repo, leaked) /\ (trashed \/ Ordered(repo))
      /\ SessionOK(hal, ive, repo, cmds) /\ AnswersOK(repo, ive, cmds, late)
      /\ Watched(repo, suspend, ive, Spared)
  BY DEF IInv, Spared
<1>6. RunningOK(repo', leaked')
  <2>1. repo.running \subseteq Video /\ leaked \subseteq Video
    BY <1>0, TypeParts DEF Repository
  <2>2. \A v \in Video : repo'.job[v].state = "RUNNING" <=> repo.job[v].state = "RUNNING"
    BY <1>3
  <2>. QED  BY <1>3, <1>4, <1>5, <2>1, <2>2, RunningSame
<1>7. trashed' \/ Ordered(repo')
  BY <1>3, <1>4, <1>5
<1>8. SessionOK(hal', ive', repo', cmds')
  <2>1. /\ Once(Tail(cmds), Deaths)
        /\ hal.session # "dead" => None(Tail(cmds), Deaths)
    BY <1>0, <1>5, Taken DEF SessionOK
  <2>. QED  BY <1>3, <1>5, <2>1 DEF SessionOK
<1>9. StartWatched(repo', suspend', starting', overlapped')
  BY <1>3 DEF StartWatched
<1>10. Watched(repo', suspend', ive', late' \cup overlapped' \cup leaked')
  <2>1. CASE repo.running = {}
    BY <1>3, <1>5, <2>1 DEF SessionOK, Watched
  <2>2. CASE repo.running # {}
    BY <1>3, <1>4, <1>5, <2>2 DEF Watched, Spared
  <2>. QED  BY <2>1, <2>2
<1>11. AnswersOK(repo', ive', cmds', late')
  <2>1. \A v \in Video \ late :
           /\ Once(cmds, Own(v)) => Once(cmds', Own(v))
           /\ None(cmds, Own(v)) => None(cmds', Own(v))
           /\ repo'.job[v].state = "COMPLETED" => repo.job[v].state = "COMPLETED"
    BY <1>0, <1>3, Taken
  <2>. QED  BY <1>3, <1>4, <1>5, <2>1, AnswersSame
<1>12. IInv'
  BY <1>1, <1>3, <1>6, <1>7, <1>8, <1>9, <1>10, <1>11 DEF IInv
<1>13. Chosen
  <2>1. /\ n.starting # "none" => /\ Now.repo.heap # <<>> /\ n.starting = Now.repo.heap[1]
                                  /\ MayProcess(n.strategy, Now.repo.job[n.starting].priority)
    BY DEF Scheduled
  <2>2. n.starting = starting' /\ n.strategy = strategy'
    BY DEF Become
  <2>3. starting' # "none" => /\ repo.heap # <<>> /\ starting' = repo.heap[1]
                              /\ MayProcess(strategy', repo.job[starting'].priority)
    BY <1>2, <2>1, <2>2
  <2>. QED  BY <2>3, VideoAssumption DEF Chosen, Started
<1>14. Kept
  BY <1>3, KeptSame
<1>. QED  BY <1>12, <1>13, <1>14

\* Some videos are added; none that is there changes.
LEMMA AddsStep ==
  ASSUME IInv, Clock, cmds # <<>>, starting = "none",
         NEW n, Adds(Now, n), Become(n), UNCHANGED <<cameraOpen, client, history>>
  PROVE  IInv' /\ Chosen /\ Kept
<1>0. TypeOK /\ n \in Pipe
  BY DEF IInv, Adds
<1>1. TypeOK'
  <2>1. leaked' \subseteq Video /\ unheard' \subseteq Video /\ late' \subseteq Video
        /\ overlapped' \subseteq Video /\ trashed' \in BOOLEAN
        /\ cameraOpen' \in BOOLEAN /\ client' \in ClientType
    BY <1>0, TypeParts DEF history
  <2>. QED  BY <1>0, <2>1, BecomeIs
<1>2. /\ Now.repo = repo /\ Now.result = result /\ Now.hal = hal /\ Now.ive = ive
      /\ Now.recorder = recorder /\ Now.strategy = strategy /\ Now.suspend = suspend
      /\ Now.starting = starting /\ Now.cmds = Tail(cmds)
  BY <1>0, NowIs
<1>3. /\ QueueOK(repo') /\ (Ordered(repo) => Ordered(repo'))
      /\ repo'.running = repo.running
      /\ \A u \in Video : repo'.job[u] = repo.job[u] \/ (~ Present(repo, u) /\ repo'.job[u] = Created)
      /\ hal' = hal /\ ive' = ive /\ strategy' = strategy /\ suspend' = suspend
      /\ starting' = starting /\ cmds' = Tail(cmds)
  <2>1. /\ repo' = n.repo /\ hal' = n.hal /\ ive' = n.ive /\ strategy' = n.strategy
        /\ suspend' = n.suspend /\ starting' = n.starting /\ cmds' = n.cmds
    BY DEF Become
  <2>2. /\ n.hal = hal /\ n.ive = ive /\ n.strategy = strategy /\ n.suspend = suspend
        /\ n.starting = starting /\ n.cmds = Tail(cmds) /\ n.repo.running = repo.running
    BY <1>2 DEF Adds
  <2>3. QueueOK(n.repo)
    BY Zenon DEF Adds
  <2>4. Ordered(repo) => Ordered(n.repo)
    <3>1. Ordered(Now.repo) => Ordered(n.repo)
      BY Zenon DEF Adds
    <3>. QED  BY <1>2, <3>1
  <2>5. \A u \in Video : n.repo.job[u] = repo.job[u] \/ (~ Present(repo, u) /\ n.repo.job[u] = Created)
    BY <1>2 DEF Adds
  <2>. QED  BY <2>1, <2>2, <2>3, <2>4, <2>5
<1>4. leaked' = leaked /\ late' = late /\ overlapped' = overlapped /\ trashed' = trashed
  BY DEF history
<1>5. /\ QueueOK(repo) /\ RunningOK(repo, leaked) /\ (trashed \/ Ordered(repo)) /\ GateOK(strategy)
      /\ SessionOK(hal, ive, repo, cmds) /\ AnswersOK(repo, ive, cmds, late)
      /\ TimerNamed(suspend)
      /\ Watched(repo, suspend, ive, Spared)
  BY DEF IInv, Spared
<1>6. RunningOK(repo', leaked')
  <2>1. repo.running \subseteq Video /\ leaked \subseteq Video
    BY <1>0, TypeParts DEF Repository
  <2>2. \A v \in Video : repo'.job[v].state = "RUNNING" <=> repo.job[v].state = "RUNNING"
    BY <1>3, CreatedIs DEF Present
  <2>. QED  BY <1>3, <1>4, <1>5, <2>1, <2>2, RunningSame
<1>7. trashed' \/ Ordered(repo')
  BY <1>3, <1>4, <1>5
<1>8. SessionOK(hal', ive', repo', cmds')
  <2>1. /\ Once(Tail(cmds), Deaths)
        /\ hal.session # "dead" => None(Tail(cmds), Deaths)
    BY <1>0, <1>5, Taken DEF SessionOK
  <2>. QED  BY <1>3, <1>5, <2>1 DEF SessionOK
<1>9. StartOK(repo', starting') /\ StartWatched(repo', suspend', starting', overlapped')
  BY <1>3 DEF StartWatched, StartOK
<1>10. Watched(repo', suspend', ive', late' \cup overlapped' \cup leaked')
  <2>. SUFFICES ASSUME NEW v \in ive'.work, v \notin Spared, repo'.job[v].suspend, ~ IsHighJob(repo', v)
                PROVE  Ticking(suspend') \/ ive'.aborted
    BY <1>4 DEF Watched, Spared
  <2>1. v \in ive.work /\ v \in repo.running /\ v \notin leaked
    BY <1>3, <1>5 DEF SessionOK, Spared
  <2>2. v \in Video /\ repo.job[v].state = "RUNNING"
    BY <1>0, <1>5, <2>1, TypeParts DEF RunningOK, Repository
  <2>3. repo'.job[v] = repo.job[v]
    BY <1>3, <2>2 DEF Present
  <2>. QED  BY <1>3, <1>5, <2>1, <2>3 DEF Watched, IsHighJob
<1>11. AnswersOK(repo', ive', cmds', late')
  <2>1. \A v \in Video \ late :
           /\ Once(cmds, Own(v)) => Once(cmds', Own(v))
           /\ None(cmds, Own(v)) => None(cmds', Own(v))
           /\ repo'.job[v].state = "COMPLETED" => repo.job[v].state = "COMPLETED"
    BY <1>0, <1>3, Taken, CreatedIs
  <2>. QED  BY <1>3, <1>4, <1>5, <2>1, AnswersSame
<1>12. IInv'
  BY <1>1, <1>3, <1>5, <1>6, <1>7, <1>8, <1>9, <1>10, <1>11 DEF IInv
<1>13. Kept
  BY <1>3, KeptSame DEF Present
<1>. QED  BY <1>3, <1>12, <1>13, NotChosen

LEMMA NowAdds ==
  ASSUME IInv, cmds # <<>>
  PROVE  Adds(Now, Now)
<1>1. TypeOK /\ QueueOK(repo)
  BY DEF IInv
<1>. QED  BY <1>1, NowIs DEF Adds

LEMMA AddStep ==
  ASSUME IInv, Clock, HandleAdd
  PROVE  IInv' /\ Chosen /\ Kept
<1>. DEFINE v == Head(cmds).video
            n == AddVideo(Now, v)
<1>1. cmds # <<>> /\ Head(cmds).op = "Add" /\ starting = "none" /\ Become(n)
      /\ UNCHANGED <<cameraOpen, client, history>>
  BY DEF HandleAdd, Took
<1>2. TypeOK
  BY DEF IInv
<1>3. v \in Video
  BY <1>1, <1>2, Taken DEF Command
<1>4. Now \in Pipe /\ Adds(Now, Now)
  BY <1>1, <1>2, NowIs, NowAdds
<1>. HIDE DEF v
<1>5. Adds(Now, n)
  BY <1>3, <1>4, AddVideoIs
<1>. HIDE DEF n
<1>. QED  BY <1>1, <1>5, AddsStep

LEMMA SyncStep ==
  ASSUME IInv, Clock, HandleSync
  PROVE  IInv' /\ Chosen /\ Kept
<1>1. cmds # <<>> /\ Head(cmds).op = "Sync" /\ starting = "none"
      /\ UNCHANGED <<cameraOpen, client, history>>
  BY DEF HandleSync, Took
<1>2. TypeOK
  BY DEF IInv
<1>3. Head(cmds).videos \in SUBSET Video
  BY <1>1, <1>2, Taken DEF Command
<1>4. PICK pending \in SUBSET Head(cmds).videos :
        \E order \in SX!SetToSeqs(pending) :
            LET add[n \in 0 .. Len(order)] == IF n = 0 THEN Now ELSE AddVideo(add[n - 1], order[n])
            IN  Become(add[Len(order)])
  BY DEF HandleSync
<1>5. PICK order \in SX!SetToSeqs(pending) :
            LET add[n \in 0 .. Len(order)] == IF n = 0 THEN Now ELSE AddVideo(add[n - 1], order[n])
            IN  Become(add[Len(order)])
  BY <1>4
<1>6. order \in [1 .. Cardinality(pending) -> pending]
  <2>1. SX!Cardinality(pending) = Cardinality(pending)
    BY Zenon DEF SX!Cardinality, Cardinality
  <2>. QED  BY <1>5, <2>1 DEF SX!SetToSeqs
<1>. DEFINE l == Len(order)
            T == {n \in Pipe : Adds(Now, n)}
<1>7. Now \in T /\ \A t \in T, v \in Video : AddVideo(t, v) \in T
  <2>1. Now \in Pipe /\ Adds(Now, Now)
    BY <1>1, <1>2, NowIs, NowAdds
  <2>2. ASSUME NEW t \in T, NEW v \in Video
        PROVE  AddVideo(t, v) \in T
    <3>1. Adds(Now, t)
      OBVIOUS
    <3>2. Adds(Now, AddVideo(t, v))
      BY <2>1, <3>1, AddVideoIs
    <3>3. AddVideo(t, v) \in Pipe
      BY <3>2 DEF Adds
    <3>. QED  BY <3>2, <3>3
  <2>. QED  BY <2>1, <2>2
<1>8. l \in Nat /\ order \in [1 .. l -> Video]
  <2>1. pending \subseteq Video /\ IsFiniteSet(pending)
    BY <1>3, VideoAssumption, FS_Subset
  <2>2. Cardinality(pending) \in Nat
    BY <2>1, FS_CardinalityType
  <2>3. l = Cardinality(pending)
    BY <1>6, <2>2
  <2>. QED  BY <1>6, <2>1, <2>2, <2>3
<1>. HIDE DEF l, T
<1>9. LET add[n \in 0 .. l] == IF n = 0 THEN Now ELSE AddVideo(add[n - 1], order[n])
      IN  add[l] \in T
  BY <1>7, <1>8, AddAll
<1>10. \E n \in T : Become(n)
  BY <1>5, <1>9 DEF l
<1>11. PICK n \in T : Become(n)
  BY <1>10
<1>12. Adds(Now, n)
  BY <1>11 DEF T
<1>. QED  BY <1>1, <1>11, <1>12, AddsStep
-----------------------------------------------------------------------------
\* What the client may do to video v, which does not start and ends no run; gone is
\* what has left RUNNING unnoticed.
Touches(m, n, v, lost, gone) ==
  /\ n \in Pipe /\ QueueOK(n.repo) /\ n.repo.running = m.repo.running
  /\ \A u \in Video : u # v => n.repo.job[u] = m.repo.job[u]
  /\ n.repo.job[v].state = "RUNNING" => m.repo.job[v].state = "RUNNING"
  /\ n.repo.job[v].state = "COMPLETED" => m.repo.job[v].state = "COMPLETED"
  /\ m.repo.job[v].state = "COMPLETED" =>
       n.repo.job[v].state = "COMPLETED" \/ Head(cmds).op \in {"Remove", "Restore"}
  /\ lost \subseteq gone /\ gone \subseteq lost \cup {v}
  /\ v \in gone /\ v \notin lost => m.repo.job[v].state = "RUNNING" /\ n.repo.job[v].state # "RUNNING"
  /\ v \notin gone /\ m.repo.job[v].state = "RUNNING" =>
       /\ n.repo.job[v].state = "RUNNING"
       /\ n.repo.job[v].suspend = m.repo.job[v].suspend
       /\ \/ n.repo.job[v].priority \in {m.repo.job[v].priority, "HIGH"}
          \/ hal.session = "live" /\ n.ive.work # {} => n.ive.aborted
  /\ n.hal.session = m.hal.session /\ n.ive.work \subseteq m.ive.work
  /\ m.ive.aborted /\ n.ive.work # {} => n.ive.aborted
  /\ n.strategy = m.strategy /\ n.suspend = m.suspend /\ n.starting = m.starting
  /\ n.cmds = m.cmds \/ n.cmds = m.cmds \o <<JobChanged>>

\* The queue after a command that may ask for scheduling.
LEMMA AskedQueue ==
  ASSUME TypeOK, cmds # <<>>, NEW q, q = Tail(cmds) \/ q = Tail(cmds) \o <<JobChanged>>
  PROVE  /\ q \in Seq(Command)
         /\ \A A \in {Deaths} \cup {Own(v) : v \in Video} :
              /\ None(cmds, A) => None(q, A)
              /\ Once(cmds, A) => Once(q, A)
              /\ Once(cmds, A) /\ Head(cmds) \in A => None(q, A)
<1>1. Plain(JobChanged)
  BY PlainCommands
<1>2. Tail(cmds) \in Seq(Command)
  BY Taken
<1>3. \A A : /\ None(cmds, A) => None(Tail(cmds), A)
             /\ Once(cmds, A) => Once(Tail(cmds), A)
             /\ Once(cmds, A) /\ Head(cmds) \in A => None(Tail(cmds), A)
  BY Taken
<1>4. CASE q = Tail(cmds)
  BY <1>2, <1>3, <1>4
<1>5. CASE q = Tail(cmds) \o <<JobChanged>>
  <2>. DEFINE p == Tail(cmds)
  <2>. HIDE DEF p
  <2>1. q \in Seq(Command)
        /\ \A A \in {Deaths} \cup {Own(v) : v \in Video} :
             /\ None(q, A) <=> None(p, A)
             /\ Once(p, A) => Once(q, A)
    BY <1>1, <1>2, <1>5, MorePlain DEF p
  <2>. QED  BY <1>3, <2>1 DEF p
<1>. QED  BY <1>4, <1>5

LEMMA TouchedStep ==
  ASSUME IInv, Clock, cmds # <<>>, starting = "none",
         NEW n, NEW v \in Video, Touches(Now, n, v, leaked, leaked'), Become(n), v = Head(cmds).video,
         UNCHANGED <<cameraOpen, client, unheard, late, overlapped>>,
         trashed' \in BOOLEAN, trashed' \/ Ordered(n.repo)
  PROVE  IInv' /\ Chosen /\ Kept
<1>0. TypeOK /\ n \in Pipe
  BY DEF IInv, Touches
<1>1. TypeOK'
  <2>1. leaked' \subseteq Video /\ unheard' \subseteq Video /\ late' \subseteq Video
        /\ overlapped' \subseteq Video
        /\ cameraOpen' \in BOOLEAN /\ client' \in ClientType
    BY <1>0, TypeParts DEF Touches
  <2>. QED  BY <1>0, <2>1, BecomeIs
<1>2. /\ Now.repo = repo /\ Now.hal = hal /\ Now.ive = ive
      /\ Now.strategy = strategy /\ Now.suspend = suspend
      /\ Now.starting = starting /\ Now.cmds = Tail(cmds)
  BY <1>0, NowIs
<1>3. /\ n.repo = repo' /\ n.hal = hal' /\ n.ive = ive' /\ n.strategy = strategy'
      /\ n.suspend = suspend' /\ n.starting = starting' /\ n.cmds = cmds'
  BY DEF Become
<1>4. /\ QueueOK(repo') /\ repo'.running = repo.running
      /\ \A u \in Video : u # v => repo'.job[u] = repo.job[u]
      /\ repo'.job[v].state = "RUNNING" => repo.job[v].state = "RUNNING"
      /\ repo'.job[v].state = "COMPLETED" => repo.job[v].state = "COMPLETED"
      /\ repo.job[v].state = "COMPLETED" =>
           repo'.job[v].state = "COMPLETED" \/ Head(cmds).op \in {"Remove", "Restore"}
      /\ leaked \subseteq leaked' /\ leaked' \subseteq leaked \cup {v}
      /\ v \in leaked' /\ v \notin leaked => repo.job[v].state = "RUNNING" /\ repo'.job[v].state # "RUNNING"
      /\ v \notin leaked' /\ repo.job[v].state = "RUNNING" =>
           /\ repo'.job[v].state = "RUNNING"
           /\ repo'.job[v].suspend = repo.job[v].suspend
           /\ \/ repo'.job[v].priority \in {repo.job[v].priority, "HIGH"}
              \/ hal.session = "live" /\ ive'.work # {} => ive'.aborted
      /\ hal'.session = hal.session /\ ive'.work \subseteq ive.work
      /\ ive.aborted /\ ive'.work # {} => ive'.aborted
      /\ strategy' = strategy /\ suspend' = suspend /\ starting' = starting
      /\ cmds' = Tail(cmds) \/ cmds' = Tail(cmds) \o <<JobChanged>>
  BY <1>2, <1>3 DEF Touches
<1>5. /\ QueueOK(repo) /\ RunningOK(repo, leaked) /\ GateOK(strategy)
      /\ SessionOK(hal, ive, repo, cmds) /\ AnswersOK(repo, ive, cmds, late)
      /\ TimerNamed(suspend)
      /\ Watched(repo, suspend, ive, Spared)
  BY DEF IInv, Spared
<1>6. RunningOK(repo', leaked')
  <2>1. repo.running \subseteq Video /\ leaked \subseteq Video
    BY <1>0, TypeParts DEF Repository
  <2>. QED  BY <1>4, <1>5, <2>1, SMTT(20) DEF RunningOK
<1>7. trashed' \/ Ordered(repo')
  BY <1>3
<1>8. SessionOK(hal', ive', repo', cmds')
  <2>1. /\ Once(cmds', Deaths)
        /\ hal.session # "dead" => None(cmds', Deaths)
    BY <1>0, <1>4, <1>5, AskedQueue DEF SessionOK
  <2>. QED  BY <1>4, <1>5, <2>1 DEF SessionOK
<1>9. StartOK(repo', starting') /\ StartWatched(repo', suspend', starting', overlapped')
  BY <1>4 DEF StartWatched, StartOK
<1>10. Watched(repo', suspend', ive', late' \cup overlapped' \cup leaked')
  <2>. SUFFICES ASSUME NEW u \in ive'.work, u \notin late', u \notin overlapped', u \notin leaked',
                       repo'.job[u].suspend, ~ IsHighJob(repo', u)
                PROVE  Ticking(suspend') \/ ive'.aborted
    BY DEF Watched
  <2>1. u \in ive.work /\ u \in repo.running /\ u \notin Spared /\ hal.session = "live"
    BY <1>4, <1>5 DEF SessionOK, Spared
  <2>2. u \in Video /\ repo.job[u].state = "RUNNING"
    BY <1>0, <1>5, <2>1, TypeParts DEF RunningOK, Repository, Spared
  <2>3. repo'.job[u].suspend = repo.job[u].suspend
    BY <1>4, <2>2
  <2>4. CASE ive'.aborted
    BY <2>4
  <2>5. CASE ~ ive'.aborted
    <3>1. ~ IsHighJob(repo, u)
      BY <1>4, <2>1, <2>2, <2>5 DEF IsHighJob
    <3>2. Ticking(suspend) \/ ive.aborted
      BY <1>5, <2>1, <2>3, <3>1 DEF Watched
    <3>. QED  BY <1>4, <3>2
  <2>. QED  BY <2>4, <2>5
<1>11. AnswersOK(repo', ive', cmds', late')
  <2>1. \A u \in Video \ late :
           /\ Once(cmds, Own(u)) => Once(cmds', Own(u))
           /\ None(cmds, Own(u)) => None(cmds', Own(u))
           /\ repo'.job[u].state = "COMPLETED" => repo.job[u].state = "COMPLETED"
    BY <1>0, <1>4, AskedQueue
  <2>. QED  BY <1>4, <1>5, <2>1, AnswersSame
<1>12. IInv'
  BY <1>1, <1>4, <1>5, <1>6, <1>7, <1>8, <1>9, <1>10, <1>11 DEF IInv
<1>13. Kept
  BY <1>4 DEF Kept
<1>. QED  BY <1>4, <1>12, <1>13, NotChosen

LEMMA ProcessStep ==
  ASSUME IInv, Clock, HandleProcess
  PROVE  IInv' /\ Chosen /\ Kept
<1>. DEFINE v == Head(cmds).video
            t == RequestJob(repo, v)
            q == Tail(cmds) \o <<JobChanged>>
            n == [[Now EXCEPT !.repo = t] EXCEPT !.cmds = q]
<1>1. cmds # <<>> /\ Head(cmds).op = "Process" /\ starting = "none"
      /\ UNCHANGED <<cameraOpen, client, history>>
  BY DEF HandleProcess, Took
<1>2. TypeOK /\ QueueOK(repo) /\ (trashed \/ Ordered(repo))
  BY DEF IInv
<1>3. v \in Video /\ v = Head(cmds).video
  BY <1>1, <1>2, Taken DEF Command
<1>4. /\ Now \in Pipe /\ Now.repo = repo /\ Now.hal = hal /\ Now.ive = ive
      /\ Now.strategy = strategy /\ Now.suspend = suspend
      /\ Now.starting = starting /\ Now.cmds = Tail(cmds)
  BY <1>1, <1>2, NowIs
<1>5. leaked' = leaked /\ trashed' = trashed /\ trashed' \in BOOLEAN
      /\ UNCHANGED <<cameraOpen, client, unheard, late, overlapped>>
  BY <1>1, <1>2, TypeParts DEF history
<1>6. CASE Present(repo, v)
  <2>1. /\ Changed(repo, t, v) /\ t.job[v] = Requested(repo.job[v]) /\ t.running = repo.running
    BY <1>2, <1>3, <1>6, RequestJobIs
  <2>2. Become(Send([Now EXCEPT !.repo = RequestJob(@, v)], <<JobChanged>>))
    BY <1>6 DEF HandleProcess
  <2>3. n = Send([Now EXCEPT !.repo = RequestJob(@, v)], <<JobChanged>>)
    BY <1>4 DEF Send, Pipe
  <2>4. Become(n)
    BY <2>2, <2>3
  <2>5. repo.job[v] \in Job
    BY <1>2, <1>3, <1>6, RankType DEF QueueOK
  <2>6. /\ t.job[v].priority = "HIGH" /\ t.job[v].suspend = repo.job[v].suspend
        /\ t.job[v].state = "RUNNING" <=> repo.job[v].state = "RUNNING"
        /\ t.job[v].state = "COMPLETED" <=> repo.job[v].state = "COMPLETED"
    BY <2>1, <2>5, RequestedIs
  <2>7. t \in Repository /\ QueueOK(t) /\ (trashed \/ Ordered(t))
        /\ \A u \in Video : u # v => t.job[u] = repo.job[u]
    BY <1>2, <2>1 DEF Changed, QueueOK
  <2>8. q \in Seq(Command)
    BY <1>1, <1>2, AskedQueue
  <2>. HIDE DEF v, t, q
  <2>9. /\ n \in Pipe /\ n.repo = t /\ n.hal = hal /\ n.ive = ive /\ n.strategy = strategy
        /\ n.suspend = suspend /\ n.starting = starting /\ n.cmds = q
    BY <1>4, <2>7, <2>8 DEF Pipe
  <2>. HIDE DEF n
  <2>10. Touches(Now, n, v, leaked, leaked')
    BY <1>4, <1>5, <2>1, <2>6, <2>7, <2>9 DEF Touches, q
  <2>11. trashed' \/ Ordered(n.repo)
    BY <1>5, <2>7, <2>9
  <2>. QED  BY <1>1, <1>3, <1>5, <2>4, <2>10, <2>11, TouchedStep
<1>7. CASE ~ Present(repo, v)
  <2>1. Become(Now)
    BY <1>7 DEF HandleProcess
  <2>2. Touches(Now, Now, v, leaked, leaked')
    <3>. HIDE DEF v
    <3>. QED  BY <1>2, <1>4, <1>5 DEF Touches
  <2>3. trashed' \/ Ordered(Now.repo)
    BY <1>2, <1>4, <1>5
  <2>. HIDE DEF v
  <2>. QED  BY <1>1, <1>3, <1>5, <2>1, <2>2, <2>3, TouchedStep
<1>. QED  BY <1>6, <1>7

\* What a handler of the client's commands works on.
LEMMA TouchNow ==
  ASSUME IInv, cmds # <<>>, starting = "none"
  PROVE  /\ Now \in Pipe /\ Now.repo = repo /\ Now.result = result /\ Now.hal = hal /\ Now.ive = ive
         /\ Now.strategy = strategy /\ Now.suspend = suspend
         /\ Now.starting = starting /\ Now.cmds = Tail(cmds)
         /\ QueueOK(repo) /\ (trashed \/ Ordered(repo))
         /\ Tail(cmds) \in Seq(Command) /\ Head(cmds) \in Command
         /\ ive \in Ive /\ hal \in Hal /\ result \in Result
         /\ trashed \in BOOLEAN
<1>1. TypeOK
  BY DEF IInv
<1>. QED  BY <1>1, NowIs, Taken, TypeParts DEF IInv

LEMMA JobIs ==
  ASSUME NEW r, QueueOK(r), NEW v \in Video, Present(r, v)
  PROVE  r.job[v] \in Job
BY RankType DEF QueueOK

LEMMA CancelStep ==
  ASSUME IInv, Clock, HandleCancel
  PROVE  IInv' /\ Chosen /\ Kept
<1>. DEFINE v == Head(cmds).video
            c == CancelJob(repo, v)
<1>1. cmds # <<>> /\ Head(cmds).op = "Cancel" /\ starting = "none"
      /\ UNCHANGED <<cameraOpen, client, history>>
  BY DEF HandleCancel, Took
<1>2. /\ Now \in Pipe /\ Now.repo = repo /\ Now.result = result /\ Now.hal = hal /\ Now.ive = ive
      /\ Now.strategy = strategy /\ Now.suspend = suspend
      /\ Now.starting = starting /\ Now.cmds = Tail(cmds)
      /\ QueueOK(repo) /\ (trashed \/ Ordered(repo))
      /\ Head(cmds) \in Command /\ ive \in Ive /\ trashed \in BOOLEAN
  BY <1>1, TouchNow
<1>3. v \in Video /\ v = Head(cmds).video
  BY <1>1, <1>2 DEF Command
<1>4. leaked' = leaked /\ trashed' = trashed /\ trashed' \in BOOLEAN
      /\ UNCHANGED <<cameraOpen, client, unheard, late, overlapped>>
  BY <1>1, <1>2 DEF history
<1>5. PICK t : /\ t = IF Present(repo, v) THEN c ELSE repo
               /\ Become(IF v \in repo.running THEN [[Now EXCEPT !.repo = t] EXCEPT !.ive = Interrupt(@)]
                         ELSE [Now EXCEPT !.repo = t])
  <2>1. (IF Present(repo, v) THEN [Now EXCEPT !.repo = CancelJob(@, v)] ELSE Now)
          = [Now EXCEPT !.repo = IF Present(repo, v) THEN c ELSE repo]
    <3>1. CASE Present(repo, v)
      BY <1>2, <3>1 DEF Pipe
    <3>2. CASE ~ Present(repo, v)
      <4>. HIDE DEF c, v
      <4>. QED  BY <1>2, <3>2 DEF Pipe
    <3>. QED  BY <3>1, <3>2
  <2>. QED  BY <2>1 DEF HandleCancel
<1>6. /\ t \in Repository /\ QueueOK(t) /\ (trashed \/ Ordered(t)) /\ t.running = repo.running
      /\ \A u \in Video : u # v => t.job[u] = repo.job[u]
      /\ t.job[v].state = repo.job[v].state /\ t.job[v].suspend = repo.job[v].suspend
  <2>1. CASE Present(repo, v)
    <3>1. Changed(repo, c, v) /\ c.job[v] = [repo.job[v] EXCEPT !.priority = "NORMAL"]
          /\ c.running = repo.running
      BY <1>2, <1>3, <2>1, CancelJobIs
    <3>2. repo.job[v] \in Job
      BY <1>2, <1>3, <2>1, JobIs
    <3>. HIDE DEF c, v
    <3>3. t = c
      BY <1>5, <2>1
    <3>. QED  BY <1>2, <3>1, <3>2, <3>3 DEF Changed, QueueOK, Job
  <2>2. CASE ~ Present(repo, v)
    BY <1>2, <1>5, <2>2 DEF QueueOK
  <2>. QED  BY <2>1, <2>2
<1>. DEFINE w == IF v \in repo.running THEN Interrupt(ive) ELSE ive
            n == [[Now EXCEPT !.repo = t] EXCEPT !.ive = w]
<1>. HIDE DEF v, c
<1>7. w \in Ive /\ w.work = ive.work /\ (ive.aborted => w.aborted)
      /\ (v \in repo.running /\ hal.session = "live" /\ w.work # {} => w.aborted)
  BY <1>2, InterruptIs
<1>8. n = IF v \in repo.running THEN [[Now EXCEPT !.repo = t] EXCEPT !.ive = Interrupt(@)]
          ELSE [Now EXCEPT !.repo = t]
  <2>1. [[Now EXCEPT !.repo = t] EXCEPT !.ive = Interrupt(@)] = [[Now EXCEPT !.repo = t] EXCEPT !.ive = Interrupt(ive)]
    BY <1>2 DEF Pipe
  <2>2. [[Now EXCEPT !.repo = t] EXCEPT !.ive = ive] = [Now EXCEPT !.repo = t]
    BY <1>2 DEF Pipe
  <2>. QED  BY <2>1, <2>2
<1>9. Become(n)
  BY <1>5, <1>8
<1>. HIDE DEF w
<1>10. /\ n \in Pipe /\ n.repo = t /\ n.hal = hal /\ n.ive = w /\ n.strategy = strategy
       /\ n.suspend = suspend /\ n.starting = starting /\ n.cmds = Tail(cmds)
  BY <1>2, <1>6, <1>7 DEF Pipe
<1>. HIDE DEF n
<1>11. repo.job[v].state = "RUNNING" => v \in repo.running
  BY <1>3 DEF IInv, RunningOK
<1>12. Touches(Now, n, v, leaked, leaked')
  BY <1>2, <1>4, <1>6, <1>7, <1>10, <1>11 DEF Touches
<1>13. trashed' \/ Ordered(n.repo)
  BY <1>4, <1>6, <1>10
<1>. QED  BY <1>1, <1>3, <1>4, <1>9, <1>12, <1>13, TouchedStep

LEMMA RestoreStep ==
  ASSUME IInv, Clock, HandleRestore
  PROVE  IInv' /\ Chosen /\ Kept
<1>. DEFINE v == Head(cmds).video
            t == RestoreVideoJob(repo, v)
            n == [Now EXCEPT !.repo = t]
<1>1. cmds # <<>> /\ Head(cmds).op = "Restore" /\ starting = "none"
      /\ UNCHANGED <<cameraOpen, client, unheard, late, overlapped, trashed>>
  BY DEF HandleRestore, Took
<1>2. /\ Now \in Pipe /\ Now.repo = repo /\ Now.result = result /\ Now.hal = hal /\ Now.ive = ive
      /\ Now.strategy = strategy /\ Now.suspend = suspend
      /\ Now.starting = starting /\ Now.cmds = Tail(cmds)
      /\ QueueOK(repo) /\ (trashed \/ Ordered(repo))
      /\ Head(cmds) \in Command /\ trashed \in BOOLEAN
  BY <1>1, TouchNow
<1>3. v \in Video /\ v = Head(cmds).video
  BY <1>1, <1>2 DEF Command
<1>4. /\ repo.job[v].state = "RUNNING" => leaked' = leaked \cup {v}
      /\ repo.job[v].state # "RUNNING" => leaked' = leaked
  BY DEF HandleRestore
<1>5. CASE Present(repo, v)
  <2>1. Changed(repo, t, v) /\ t.job[v] = [repo.job[v] EXCEPT !.state = "PENDING"]
        /\ t.running = repo.running
    BY <1>2, <1>3, <1>5, RestoreVideoJobIs
  <2>2. Become(n)
    <3>1. n = [Now EXCEPT !.repo = RestoreVideoJob(@, v)]
      BY <1>2 DEF Pipe
    <3>. QED  BY <1>5, <3>1 DEF HandleRestore
  <2>. HIDE DEF v, t
  <2>3. repo.job[v] \in Job
    BY <1>2, <1>3, <1>5, JobIs
  <2>4. /\ t \in Repository /\ QueueOK(t) /\ (trashed \/ Ordered(t))
        /\ \A u \in Video : u # v => t.job[u] = repo.job[u]
        /\ t.job[v].state = "PENDING"
    BY <1>2, <2>1, <2>3 DEF Changed, QueueOK, Job
  <2>5. /\ n \in Pipe /\ n.repo = t /\ n.hal = hal /\ n.ive = ive /\ n.strategy = strategy
        /\ n.suspend = suspend /\ n.starting = starting /\ n.cmds = Tail(cmds)
    BY <1>2, <2>4 DEF Pipe
  <2>. HIDE DEF n
  <2>6. Touches(Now, n, v, leaked, leaked')
    BY <1>1, <1>2, <1>4, <2>1, <2>4, <2>5 DEF Touches
  <2>7. trashed' \/ Ordered(n.repo)
    BY <1>1, <2>4, <2>5
  <2>. QED  BY <1>1, <1>2, <1>3, <2>2, <2>6, <2>7, TouchedStep
<1>6. CASE ~ Present(repo, v)
  <2>1. Become(Now) /\ leaked' = leaked
    BY <1>4, <1>6 DEF HandleRestore, Present
  <2>. HIDE DEF v
  <2>2. Touches(Now, Now, v, leaked, leaked')
    BY <1>2, <2>1 DEF Touches
  <2>3. trashed' \/ Ordered(Now.repo)
    BY <1>1, <1>2
  <2>. QED  BY <1>1, <1>2, <1>3, <2>1, <2>2, <2>3, TouchedStep
<1>. QED  BY <1>5, <1>6

LEMMA RemoveStep ==
  ASSUME IInv, Clock, HandleRemove
  PROVE  IInv' /\ Chosen /\ Kept
<1>. DEFINE v == Head(cmds).video
            restorable == Head(cmds).restorable
            ran == repo.job[v].state = "RUNNING"
            stopped == IF ran THEN Interrupt(ive) ELSE ive
            t == IF Present(repo, v) THEN RemoveVideoJob(repo, v, restorable) ELSE repo
            crash == [result.crash EXCEPT ![v] = 0]
            s == [result EXCEPT !.crash = crash]
            h == IF restorable THEN hal ELSE [hal EXCEPT !.runningId = @ \ {v}]
            w == IF restorable \/ hal.session # "live" THEN stopped ELSE Drop(stopped, v)
            n == [[[[Now EXCEPT !.result = s] EXCEPT !.repo = t] EXCEPT !.hal = h] EXCEPT !.ive = w]
<1>1. cmds # <<>> /\ Head(cmds).op = "Remove" /\ starting = "none"
      /\ UNCHANGED <<cameraOpen, client, unheard, late, overlapped>>
  BY DEF HandleRemove, Took
<1>2. /\ Now \in Pipe /\ Now.repo = repo /\ Now.result = result /\ Now.hal = hal /\ Now.ive = ive
      /\ Now.strategy = strategy /\ Now.suspend = suspend
      /\ Now.starting = starting /\ Now.cmds = Tail(cmds)
      /\ QueueOK(repo) /\ (trashed \/ Ordered(repo))
      /\ Head(cmds) \in Command /\ ive \in Ive /\ hal \in Hal /\ result \in Result /\ trashed \in BOOLEAN
  BY <1>1, TouchNow
<1>3. v \in Video /\ v = Head(cmds).video /\ restorable \in BOOLEAN
  BY <1>1, <1>2 DEF Command
<1>4. /\ ran => leaked' = leaked \cup {v}
      /\ ~ ran => leaked' = leaked
      /\ trashed' <=> (trashed \/ (restorable /\ Present(repo, v)))
      /\ trashed' \in BOOLEAN
  BY <1>2, <1>3 DEF HandleRemove
<1>5. Become(n)
  <2>. DEFINE m == [Now EXCEPT !.result.crash[v] = 0, !.ive = stopped,
                               !.repo = IF Present(repo, v) THEN RemoveVideoJob(@, v, restorable) ELSE @]
  <2>1. Become(IF restorable THEN m
               ELSE [m EXCEPT !.hal.runningId = @ \ {v},
                              !.ive = IF hal.session = "live" THEN Drop(@, v) ELSE @])
    BY DEF HandleRemove
  <2>2. m = [[[Now EXCEPT !.result = s] EXCEPT !.repo = t] EXCEPT !.ive = stopped]
    <3>. HIDE DEF v, restorable, stopped
    <3>1. m = [Now EXCEPT !.result.crash[v] = 0, !.ive = stopped, !.repo = t]
      BY <1>2 DEF Pipe
    <3>. HIDE DEF t
    <3>. QED  BY <1>2, <3>1 DEF Pipe, Result
  <2>. HIDE DEF m, v, stopped, t, s
  <2>3. CASE restorable
    <3>1. m = n
      <4>. HIDE DEF restorable
      <4>. QED  BY <1>2, <2>2, <2>3 DEF Pipe
    <3>. QED  BY <2>1, <2>3, <3>1
  <2>4. CASE ~ restorable
    <3>1. [m EXCEPT !.hal.runningId = @ \ {v}, !.ive = IF hal.session = "live" THEN Drop(@, v) ELSE @] = n
      <4>. HIDE DEF restorable
      <4>1. m.hal = hal /\ m.ive = stopped
        BY <1>2, <2>2 DEF Pipe
      <4>. QED  BY <1>2, <2>2, <2>4, <4>1 DEF Pipe, Hal
    <3>. QED  BY <2>1, <2>4, <3>1
  <2>. QED  BY <2>3, <2>4
<1>. HIDE DEF v, restorable
<1>6. /\ t \in Repository /\ QueueOK(t) /\ t.running = repo.running
      /\ trashed' \/ Ordered(t)
      /\ \A u \in Video : u # v => t.job[u] = repo.job[u]
      /\ t.job[v].state = "RUNNING" => repo.job[v].state = "RUNNING"
      /\ t.job[v].state = "COMPLETED" => repo.job[v].state = "COMPLETED"
      /\ repo.job[v].state = "RUNNING" => t.job[v].state # "RUNNING"
  <2>1. CASE ~ Present(repo, v)
    <3>1. t = repo
      BY <2>1
    <3>. QED  BY <1>2, <1>4, <2>1, <3>1 DEF QueueOK, Present
  <2>2. CASE Present(repo, v) /\ restorable
    <3>1. t = RemoveVideoJob(repo, v, TRUE)
      BY <1>3, <2>2
    <3>. HIDE DEF t
    <3>2. /\ QueueOK(t)
          /\ \A u \in Video : u # v => t.job[u] = repo.job[u]
          /\ t.job[v] = [repo.job[v] EXCEPT !.state = "DELETED", !.priority = "NORMAL"]
          /\ t.running = repo.running
      <4>1. QueueOK(repo) /\ v \in Video /\ Present(repo, v)
        BY <1>2, <1>3, <2>2
      <4>2. LET x == RemoveVideoJob(repo, v, TRUE)
            IN  /\ QueueOK(x)
                /\ \A u \in Video : u # v => x.job[u] = repo.job[u]
                /\ x.job[v] = [repo.job[v] EXCEPT !.state = "DELETED", !.priority = "NORMAL"]
                /\ x.running = repo.running
        BY Zenon, <4>1, TrashVideoJobIs
      <4>. QED  BY Zenon, <3>1, <4>2
    <3>3. repo.job[v] \in Job
      BY <1>2, <1>3, <2>2, JobIs
    <3>4. t.job[v].state = "DELETED"
      BY <3>2, <3>3 DEF Job
    <3>. QED  BY <1>4, <2>2, <3>2, <3>4 DEF QueueOK
  <2>3. CASE Present(repo, v) /\ ~ restorable
    <3>1. t = RemoveVideoJob(repo, v, FALSE)
      BY <1>3, <2>3
    <3>2. Changed(repo, t, v) /\ t.job[v] = NoJob /\ t.running = repo.running
      <4>1. QueueOK(repo) /\ v \in Video /\ Present(repo, v)
        BY <1>2, <1>3, <2>3
      <4>2. LET x == RemoveVideoJob(repo, v, FALSE)
            IN  Changed(repo, x, v) /\ x.job[v] = NoJob /\ x.running = repo.running
        BY Zenon, <4>1, RemoveVideoJobIs
      <4>. QED  BY Zenon, <3>1, <4>2
    <3>. HIDE DEF t
    <3>3. t.job[v].state = "NONE"
      BY <3>2 DEF NoJob
    <3>. QED  BY <1>2, <1>4, <2>3, <3>2, <3>3 DEF QueueOK, Changed
  <2>. QED  BY <2>1, <2>2, <2>3
<1>7. s \in Result
  <2>1. crash \in [Video -> 0 .. 3]
    <3>1. result.crash \in [Video -> 0 .. 3] /\ 0 \in 0 .. 3
      BY <1>2 DEF Result
    <3>. QED  BY <3>1
  <2>. HIDE DEF crash
  <2>. QED  BY <1>2, <2>1 DEF Result
<1>8. h \in Hal /\ h.session = hal.session
  BY <1>2, <1>3 DEF Hal
<1>9. w \in Ive /\ w.work \subseteq ive.work /\ (ive.aborted /\ w.work # {} => w.aborted)
  <2>1. stopped \in Ive /\ stopped.work = ive.work /\ (ive.aborted => stopped.aborted)
    BY <1>2, InterruptIs
  <2>. HIDE DEF stopped
  <2>2. Drop(stopped, v) \in Ive /\ Drop(stopped, v).work = stopped.work \ {v}
        /\ (stopped.aborted /\ Drop(stopped, v).work # {} => Drop(stopped, v).aborted)
    BY <2>1, DropIs
  <2>. QED  BY <2>1, <2>2
<1>. HIDE DEF t, s, h, w
<1>10. /\ n \in Pipe /\ n.repo = t /\ n.hal = h /\ n.ive = w /\ n.strategy = strategy
       /\ n.suspend = suspend /\ n.starting = starting /\ n.cmds = Tail(cmds)
  BY <1>2, <1>6, <1>7, <1>8, <1>9 DEF Pipe
<1>. HIDE DEF n
<1>11. Touches(Now, n, v, leaked, leaked')
  BY <1>1, <1>2, <1>4, <1>6, <1>8, <1>9, <1>10 DEF Touches
<1>12. trashed' \/ Ordered(n.repo)
  BY <1>6, <1>10
<1>. QED  BY <1>1, <1>3, <1>4, <1>5, <1>11, <1>12, TouchedStep
-----------------------------------------------------------------------------
(***************************************************************************)
(* The answers.                                                            *)
(***************************************************************************)
LEMMA AnswersStep ==
  ASSUME IInv, Clock, cmds # <<>>, starting = "none",
         NEW n, NEW v \in Video, NEW S, Answers(Now, n, v, S, leaked), Become(n),
         S \subseteq Failures \/ Head(cmds) \in Own(v), v = Head(cmds).video,
         \/ Head(cmds) \in Own(v)
         \/ Head(cmds).op = "Failed" /\ Head(cmds).error \in {"TIMEOUT", "NOT_READY"},
         Heard(v), UNCHANGED <<cameraOpen, client>>
  PROVE  IInv' /\ Chosen /\ Kept
<1>0. TypeOK /\ n \in Pipe
  BY DEF IInv, Answers
<1>a. /\ repo.running \subseteq Video /\ leaked \subseteq Video /\ unheard \subseteq Video
      /\ late \subseteq Video /\ overlapped \subseteq Video
      /\ trashed \in BOOLEAN /\ cameraOpen \in BOOLEAN /\ client \in ClientType
  BY <1>0, TypeParts DEF Repository
<1>b. /\ leaked' = leaked /\ overlapped' = overlapped /\ trashed' = trashed
      /\ late \subseteq late' /\ late' \subseteq Video /\ unheard' \subseteq Video
      /\ Present(repo, v) => late' = late \cup (repo.running \ {v})
  BY <1>a DEF Heard
<1>1. TypeOK'
  <2>1. cameraOpen' \in BOOLEAN /\ client' \in ClientType /\ leaked' \subseteq Video
        /\ overlapped' \subseteq Video /\ trashed' \in BOOLEAN
    BY <1>a, <1>b
  <2>. QED  BY <1>0, <1>b, <2>1, BecomeIs
<1>2. /\ Now.repo = repo /\ Now.hal = hal /\ Now.ive = ive
      /\ Now.strategy = strategy /\ Now.suspend = suspend
      /\ Now.starting = starting /\ Now.cmds = Tail(cmds)
  BY <1>0, NowIs
<1>3. /\ n.repo = repo' /\ n.hal = hal' /\ n.ive = ive' /\ n.strategy = strategy'
      /\ n.suspend = suspend' /\ n.starting = starting' /\ n.cmds = cmds'
  BY DEF Become
<1>4. /\ Changed(repo, repo', v) /\ RunningOK(repo', leaked)
      /\ repo.running \ {v} \subseteq repo'.running
      /\ repo'.job[v].state = repo.job[v].state \/ repo'.job[v].state \in S
      /\ hal' = hal /\ starting' = starting
      /\ ive'.work \subseteq ive.work
      /\ hal.session = "live" => v \notin ive'.work
      /\ ive.aborted /\ ive'.work # {} => ive'.aborted
      /\ suspend' = suspend \/ (Present(repo, v) /\ TimerNamed(suspend'))
      /\ GateOK(strategy')
      /\ cmds' = Tail(cmds) \/ cmds' = Tail(cmds) \o <<JobChanged>>
  BY <1>2, <1>3 DEF Answers
<1>5. /\ QueueOK(repo) /\ (trashed \/ Ordered(repo))
      /\ SessionOK(hal, ive, repo, cmds) /\ AnswersOK(repo, ive, cmds, late)
      /\ TimerNamed(suspend)
      /\ Watched(repo, suspend, ive, Spared)
  BY DEF IInv, Spared
<1>6. QueueOK(repo') /\ (trashed' \/ Ordered(repo'))
      /\ \A u \in Video : u # v => repo'.job[u] = repo.job[u]
  BY <1>b, <1>4, <1>5 DEF Changed
<1>7. v \notin ive'.work /\ ive'.work \subseteq repo.running
  BY <1>4, <1>5 DEF SessionOK
<1>8. SessionOK(hal', ive', repo', cmds')
  <2>1. /\ Once(cmds', Deaths)
        /\ hal.session # "dead" => None(cmds', Deaths)
    BY <1>0, <1>4, <1>5, AskedQueue DEF SessionOK
  <2>2. ive'.work \subseteq repo'.running /\ (ive'.work # {} => hal'.session = "live")
    BY <1>4, <1>5, <1>7 DEF SessionOK
  <2>. QED  BY <1>4, <2>1, <2>2 DEF SessionOK
<1>9. /\ StartOK(repo', starting') /\ StartWatched(repo', suspend', starting', overlapped')
      /\ TimerNamed(suspend')
  BY <1>4, <1>5 DEF StartWatched, StartOK
<1>10. Watched(repo', suspend', ive', late' \cup overlapped' \cup leaked')
  <2>. SUFFICES ASSUME NEW u \in ive'.work, u \notin late', u \notin overlapped', u \notin leaked',
                       repo'.job[u].suspend, ~ IsHighJob(repo', u)
                PROVE  Ticking(suspend') \/ ive'.aborted
    BY DEF Watched
  <2>1. u \in repo.running \ {v} /\ u \in Video
    BY <1>a, <1>7
  <2>2. ~ Present(repo, v)
    BY <1>b, <2>1
  <2>3. suspend' = suspend
    BY <1>4, <2>2
  <2>4. repo'.job[u] = repo.job[u] /\ u \in ive.work /\ u \notin Spared
    BY <1>b, <1>4, <1>6, <2>1 DEF Spared
  <2>5. Ticking(suspend) \/ ive.aborted
    BY <1>5, <2>4 DEF Watched, IsHighJob
  <2>. QED  BY <1>4, <2>3, <2>5
<1>11. AnswersOK(repo', ive', cmds', late')
  <2>. SUFFICES ASSUME NEW u \in Video, u \notin late'
                PROVE  /\ Once(cmds', Own(u))
                       /\ u \in ive'.work => None(cmds', Own(u))
                       /\ u \in ive'.work \/ ~ None(cmds', Own(u)) => repo'.job[u].state # "COMPLETED"
    BY DEF AnswersOK
  <2>1. /\ Once(cmds, Own(u))
        /\ u \in ive.work => None(cmds, Own(u))
        /\ u \in ive.work \/ ~ None(cmds, Own(u)) => repo.job[u].state # "COMPLETED"
    BY <1>b, <1>5 DEF AnswersOK
  <2>2. /\ None(cmds, Own(u)) => None(cmds', Own(u))
        /\ Once(cmds, Own(u)) => Once(cmds', Own(u))
        /\ Once(cmds, Own(u)) /\ Head(cmds) \in Own(u) => None(cmds', Own(u))
    <3>1. Own(u) \in {Deaths} \cup {Own(x) : x \in Video}
      OBVIOUS
    <3>. QED  BY <1>0, <1>4, <3>1, AskedQueue
  <2>3. CASE u = v /\ ~ (S \subseteq Failures)
    BY <1>7, <2>1, <2>2, <2>3
  <2>4. CASE u # v \/ S \subseteq Failures
    <3>1. repo'.job[u].state = "COMPLETED" => repo.job[u].state = "COMPLETED"
      BY <1>4, <1>6, <2>4 DEF Failures
    <3>. QED  BY <1>4, <2>1, <2>2, <3>1
  <2>. QED  BY <2>3, <2>4
<1>12. IInv'
  BY <1>1, <1>b, <1>4, <1>6, <1>8, <1>9, <1>10, <1>11 DEF IInv
<1>13. Kept
  <2>1. ASSUME NEW u \in Video, repo.job[u].state = "COMPLETED", repo'.job[u].state # "COMPLETED", u \notin late
        PROVE  Head(cmds).op = "Failed" /\ Head(cmds).video = u /\ Head(cmds).error \in {"TIMEOUT", "NOT_READY"}
    <3>1. u = v
      BY <1>6, <2>1
    <3>2. None(cmds, Own(u))
      BY <1>5, <2>1 DEF AnswersOK
    <3>3. Head(cmds) \notin Own(u)
      <4>1. cmds \in Seq(Command)
        BY <1>0, TypeParts
      <4>2. Len(cmds) \in Nat /\ Len(cmds) >= 1 /\ Head(cmds) = cmds[1]
        BY <4>1
      <4>. QED  BY <3>2, <4>2 DEF None
    <3>. QED  BY <3>1, <3>3
  <2>. QED  BY <2>1 DEF Kept
<1>. QED  BY <1>4, <1>12, <1>13, NotChosen

LEMMA FailedStep ==
  ASSUME IInv, Clock, HandleFailed
  PROVE  IInv' /\ Chosen /\ Kept
<1>1. cmds # <<>> /\ Head(cmds).op = "Failed" /\ starting = "none"
      /\ UNCHANGED <<cameraOpen, client>>
  BY DEF HandleFailed, Took
<1>2. TypeOK /\ QueueOK(repo) /\ RunningOK(repo, leaked) /\ GateOK(strategy) /\ leaked \subseteq Video
  BY TypeParts DEF IInv
<1>. DEFINE v == Head(cmds).video
            e == Head(cmds).error
            m == ReleaseStreams(Now, v)
            u == IF e = "INTERRUPTED" THEN StopSuspendLock(m) ELSE m
<1>3. v \in Video /\ e \in Error
  BY <1>1, <1>2, Taken DEF Command
<1>4. PICK spent \in Spent :
        /\ Become(IF Present(repo, v) THEN HandleError(Answered(u, v, spent), v, e) ELSE m)
        /\ Heard(v)
  BY DEF HandleFailed
<1>5. spent \in BOOLEAN
  BY DEF Spent
<1>6. Now \in Pipe /\ Now.repo = repo /\ Now.strategy = strategy
  BY <1>1, <1>2, NowIs
<1>a. /\ v = Head(cmds).video
      /\ \/ Head(cmds) \in Own(v)
         \/ Head(cmds).op = "Failed" /\ Head(cmds).error \in {"TIMEOUT", "NOT_READY"}
  <2>1. Head(cmds) \in Command
    BY <1>1, <1>2, Taken
  <2>. QED  BY <1>1, <1>3, <2>1 DEF Own
<1>. HIDE DEF v, e
<1>7. CASE ~ Present(repo, v)
  <2>1. Answers(Now, m, v, Failures, leaked)
    BY <1>2, <1>3, <1>6, ReleasedAnswer
  <2>2. Become(m)
    BY <1>4, <1>7
  <2>. HIDE DEF m
  <2>. QED  BY <1>1, <1>3, <1>4, <1>a, <2>1, <2>2, AnswersStep
<1>8. CASE Present(repo, v)
  <2>. DEFINE a == Answered(u, v, spent)
              n == HandleError(a, v, e)
  <2>1. Become(n)
    BY <1>4, <1>8
  <2>2. m \in Pipe /\ m.repo = repo
    BY <1>6, ReleaseStreamsIs
  <2>3. u \in Pipe /\ u.repo = repo /\ (u = m \/ u = StopSuspendLock(m))
    <3>. HIDE DEF m
    <3>1. StopSuspendLock(m) \in Pipe /\ StopSuspendLock(m).repo = m.repo
      BY <2>2, StopSuspendLockIs
    <3>. QED  BY <2>2, <3>1
  <2>. HIDE DEF u
  <2>4. a \in Pipe /\ QueueOK(a.repo) /\ Present(a.repo, v)
    <3>1. Present(u.repo, v) /\ QueueOK(u.repo)
      BY <1>2, <1>8, <2>3
    <3>2. a \in Pipe /\ Changed(u.repo, a.repo, v)
          /\ a.repo.job[v] = [u.repo.job[v] EXCEPT !.timer = FALSE]
      BY <1>3, <1>5, <2>3, <3>1, AnsweredIs
    <3>3. u.repo.job[v] \in Job
      BY <1>3, <3>1, JobIs
    <3>. HIDE DEF a
    <3>. QED  BY <3>1, <3>2, <3>3 DEF Changed, Present, Job
  <2>5. Told(a, n, v, Failures)
    <3>. HIDE DEF a
    <3>. QED  BY <1>3, <2>4, HandleErrorIs
  <2>. HIDE DEF n
  <2>6. Failures \subseteq JobState \ {"RUNNING"}
    BY DEF Failures, JobState
  <2>7. /\ QueueOK(Now.repo) /\ Present(Now.repo, v) /\ GateOK(Now.strategy)
        /\ RunningOK(Now.repo, leaked)
    BY <1>2, <1>6, <1>8
  <2>8. Answers(Now, n, v, Failures, leaked)
    BY <1>2, <1>3, <1>5, <1>6, <2>3, <2>5, <2>6, <2>7, ToldAnswer
  <2>. QED  BY <1>1, <1>3, <1>4, <1>a, <2>1, <2>8, AnswersStep
<1>. QED  BY <1>7, <1>8

Outcomes == Failures \cup {"COMPLETED"}

LEMMA SuccessStep ==
  ASSUME IInv, Clock, HandleSuccess
  PROVE  IInv' /\ Chosen /\ Kept
<1>1. cmds # <<>> /\ Head(cmds).op = "Success" /\ starting = "none"
      /\ UNCHANGED <<cameraOpen, client>>
  BY DEF HandleSuccess, Took
<1>2. TypeOK /\ QueueOK(repo) /\ RunningOK(repo, leaked) /\ GateOK(strategy) /\ leaked \subseteq Video
  BY TypeParts DEF IInv
<1>. DEFINE v == Head(cmds).video
            m == ReleaseStreams(Now, v)
<1>3. v \in Video /\ Head(cmds) \in Own(v) /\ v = Head(cmds).video
  <2>1. Head(cmds) \in Command
    BY <1>1, <1>2, Taken
  <2>2. v \in Video
    BY <1>1, <2>1 DEF Command
  <2>. QED  BY <1>1, <2>1, <2>2 DEF Own
<1>4. PICK spent \in Spent, finished \in BOOLEAN :
        /\ Become(IF ~ Present(repo, v) THEN m
                  ELSE IF recorder = "none" \/ ~ finished THEN HandleError(Answered(m, v, spent), v, "FAILED")
                  ELSE HandleDone(Answered(m, v, spent), v))
        /\ Heard(v)
  BY DEF HandleSuccess
<1>5. spent \in BOOLEAN
  BY DEF Spent
<1>6. Now \in Pipe /\ Now.repo = repo /\ Now.strategy = strategy
  BY <1>1, <1>2, NowIs
<1>. HIDE DEF v
<1>7. CASE ~ Present(repo, v)
  <2>1. Answers(Now, m, v, Failures, leaked)
    BY <1>2, <1>3, <1>6, ReleasedAnswer
  <2>2. Become(m)
    BY <1>4, <1>7
  <2>. HIDE DEF m
  <2>. QED  BY <1>1, <1>3, <1>4, <2>1, <2>2, AnswersStep
<1>8. CASE Present(repo, v)
  <2>. DEFINE a == Answered(m, v, spent)
  <2>2. m \in Pipe /\ m.repo = repo
    BY <1>6, ReleaseStreamsIs
  <2>. HIDE DEF m
  <2>4. a \in Pipe /\ QueueOK(a.repo) /\ Present(a.repo, v)
    <3>1. Present(m.repo, v) /\ QueueOK(m.repo)
      BY <1>2, <1>8, <2>2
    <3>2. a \in Pipe /\ Changed(m.repo, a.repo, v)
          /\ a.repo.job[v] = [m.repo.job[v] EXCEPT !.timer = FALSE]
      BY <1>3, <1>5, <2>2, <3>1, AnsweredIs
    <3>3. m.repo.job[v] \in Job
      BY <1>3, <3>1, JobIs
    <3>. HIDE DEF a
    <3>. QED  BY <3>1, <3>2, <3>3 DEF Changed, Present, Job
  <2>5. Told(a, HandleError(a, v, "FAILED"), v, Failures) /\ Told(a, HandleDone(a, v), v, {"COMPLETED"})
    <3>. HIDE DEF a
    <3>1. "FAILED" \in Error
      BY DEF Error
    <3>. QED  BY <1>3, <2>4, <3>1, HandleErrorIs, HandleDoneIs
  <2>6. PICK n : Become(n) /\ Told(a, n, v, Outcomes)
    <3>. HIDE DEF a
    <3>1. CASE recorder = "none" \/ ~ finished
      <4>1. Become(HandleError(a, v, "FAILED"))
        BY <1>4, <1>8, <3>1 DEF a
      <4>. QED  BY <2>5, <4>1 DEF Told, Outcomes
    <3>2. CASE ~ (recorder = "none" \/ ~ finished)
      <4>1. Become(HandleDone(a, v))
        BY <1>4, <1>8, <3>2 DEF a
      <4>. QED  BY <2>5, <4>1 DEF Told, Outcomes
    <3>. QED  BY <3>1, <3>2
  <2>7. Outcomes \subseteq JobState \ {"RUNNING"}
    BY DEF Failures, Outcomes, JobState
  <2>8. /\ QueueOK(Now.repo) /\ Present(Now.repo, v) /\ GateOK(Now.strategy)
        /\ RunningOK(Now.repo, leaked) /\ m = ReleaseStreams(Now, v)
    BY <1>2, <1>6, <1>8 DEF m
  <2>9. Answers(Now, n, v, Outcomes, leaked)
    BY <1>2, <1>3, <1>5, <1>6, <2>2, <2>6, <2>7, <2>8, ToldAnswer
  <2>. QED  BY <1>1, <1>3, <1>4, <2>6, <2>9, AnswersStep
<1>. QED  BY <1>7, <1>8
-----------------------------------------------------------------------------
(***************************************************************************)
(* The other commands.                                                     *)
(***************************************************************************)
LEMMA NowReady ==
  ASSUME IInv, cmds # <<>>, starting = "none"
  PROVE  /\ Now \in Pipe /\ QueueOK(Now.repo) /\ Now.starting = "none"
         /\ TimerNamed(Now.suspend) /\ GateOK(Now.strategy)
         /\ Head(cmds) \in Command
         /\ cameraOpen \in BOOLEAN /\ client \in ClientType
<1>1. TypeOK /\ QueueOK(repo) /\ TimerNamed(suspend) /\ GateOK(strategy)
  BY DEF IInv
<1>. QED  BY <1>1, NowIs, Taken, TypeParts

LEMMA EventStep ==
  ASSUME IInv, Clock, cmds # <<>>, starting = "none", NEW type \in EventType, NEW value \in BOOLEAN,
         Become(EventChanged(Now, type, value)),
         cameraOpen' = cameraOpen, client' \in ClientType, UNCHANGED history
  PROVE  IInv' /\ Chosen /\ Kept
<1>1. /\ Now \in Pipe /\ QueueOK(Now.repo) /\ Now.starting = "none"
      /\ TimerNamed(Now.suspend) /\ GateOK(Now.strategy) /\ cameraOpen' \in BOOLEAN
  BY NowReady
<1>2. Scheduled(Now, EventChanged(Now, type, value))
  BY <1>1, EventChangedIs
<1>. DEFINE n == EventChanged(Now, type, value)
<1>3. Become(n)
  OBVIOUS
<1>. HIDE DEF n
<1>4. Scheduled(Now, n)
  BY <1>2 DEF n
<1>. QED  BY <1>1, <1>3, <1>4, ScheduledStep

LEMMA JobChangedStep ==
  ASSUME IInv, Clock, HandleJobChanged
  PROVE  IInv' /\ Chosen /\ Kept
<1>. DEFINE n == TryDoSchedule(Now)
<1>1. cmds # <<>> /\ starting = "none" /\ Become(n)
      /\ cameraOpen' = cameraOpen /\ client' = client /\ UNCHANGED history
  BY DEF HandleJobChanged, Took
<1>2. /\ Now \in Pipe /\ QueueOK(Now.repo) /\ Now.starting = "none"
      /\ TimerNamed(Now.suspend) /\ GateOK(Now.strategy)
      /\ cameraOpen' \in BOOLEAN /\ client' \in ClientType
  BY <1>1, NowReady
<1>3. Scheduled(Now, n)
  BY <1>2, TryDoScheduleIs
<1>. HIDE DEF n
<1>. QED  BY <1>1, <1>2, <1>3, ScheduledStep

LEMMA SessionsStep ==
  ASSUME IInv, Clock, HandleEvent \/ HandleAddSession \/ HandleDeleteSession
  PROVE  IInv' /\ Chosen /\ Kept
<1>1. cmds # <<>> /\ starting = "none" /\ cameraOpen' = cameraOpen /\ UNCHANGED history
  BY DEF HandleEvent, HandleAddSession, HandleDeleteSession, Took
<1>2. Head(cmds) \in Command /\ client \in ClientType
  BY <1>1, NowReady
<1>3. CASE HandleEvent
  <2>1. Head(cmds).op = "Event" /\ client' = client
        /\ Become(EventChanged(Now, Head(cmds).type, Head(cmds).value))
    BY <1>3 DEF HandleEvent, Took
  <2>2. Head(cmds).type \in EventType /\ Head(cmds).value \in BOOLEAN
    BY <1>2, <2>1 DEF Command
  <2>. DEFINE type == Head(cmds).type
              value == Head(cmds).value
  <2>3. type \in EventType /\ value \in BOOLEAN /\ Become(EventChanged(Now, type, value))
        /\ client' \in ClientType
    BY <1>2, <2>1, <2>2
  <2>. HIDE DEF type, value
  <2>. QED  BY <1>1, <2>3, EventStep
<1>4. CASE HandleAddSession
  <2>1. Head(cmds).op = "AddSession" /\ client' = [client EXCEPT !.mapped = Head(cmds).info]
        /\ Become(EventChanged(Now, "media", FALSE))
    BY <1>4 DEF HandleAddSession, Took
  <2>2. Head(cmds).info \in Info
    BY <1>2, <2>1 DEF Command
  <2>3. client' \in ClientType
    BY <1>2, <2>1, <2>2 DEF ClientType
  <2>4. "media" \in EventType
    BY DEF EventType, Stop
  <2>. QED  BY <1>1, <2>1, <2>3, <2>4, EventStep
<1>5. CASE HandleDeleteSession
  <2>1. client' = [client EXCEPT !.mapped = "none"]
        /\ Become(EventChanged(Now, "media", TRUE))
    BY <1>5 DEF HandleDeleteSession, Took
  <2>3. client' \in ClientType
    BY <1>2, <2>1 DEF ClientType
  <2>4. "media" \in EventType
    BY DEF EventType, Stop
  <2>. QED  BY <1>1, <2>1, <2>3, <2>4, EventStep
<1>. QED  BY <1>3, <1>4, <1>5

\* The failures that are queued when the session dies are of another kind than an answer.
LEMMA DiedStep ==
  ASSUME IInv, Clock, HandleVideoDied
  PROVE  IInv' /\ Chosen /\ Kept
<1>1. cmds # <<>> /\ Head(cmds).op = "VideoDied" /\ starting = "none"
      /\ cameraOpen' = cameraOpen /\ client' = client /\ UNCHANGED history
  BY DEF HandleVideoDied, Took
<1>2. /\ TypeOK /\ QueueOK(repo) /\ RunningOK(repo, leaked) /\ (trashed \/ Ordered(repo))
      /\ GateOK(strategy)
      /\ SessionOK(hal, ive, repo, cmds) /\ AnswersOK(repo, ive, cmds, late)
  BY DEF IInv
<1>3. /\ Now \in Pipe
      /\ Now.repo = repo /\ Now.result = result /\ Now.hal = hal /\ Now.ive = ive
      /\ Now.recorder = recorder /\ Now.strategy = strategy /\ Now.suspend = suspend
      /\ Now.starting = starting /\ Now.cmds = Tail(cmds)
  BY <1>1, <1>2, NowIs
<1>4. PICK ids \in SX!SetToSeqs(hal.runningId) :
       Become(Send(StopSuspendLock([Now EXCEPT !.hal.session = "null"]),
                   [n \in 1 .. Len(ids) |-> Failed(ids[n], "NOT_READY")] \o <<Event("hal", TRUE)>>))
  BY DEF HandleVideoDied
<1>. DEFINE h == [hal EXCEPT !.session = "null"]
            m == [Now EXCEPT !.hal = h]
            k == StopSuspendLock(m)
            failures == [n \in 1 .. Len(ids) |-> Failed(ids[n], "NOT_READY")]
            sent == failures \o <<Event("hal", TRUE)>>
<1>5. hal \in Hal /\ hal.runningId \in SUBSET Video
  BY <1>2, TypeParts DEF Hal
<1>6. ids \in Seq(Video)
  <2>1. Cardinality(hal.runningId) \in Nat
    BY <1>5, VideoAssumption, FS_Subset, FS_CardinalityType
  <2>2. SX!Cardinality(hal.runningId) = Cardinality(hal.runningId)
    BY Zenon DEF SX!Cardinality, Cardinality
  <2>3. ids \in [1 .. Cardinality(hal.runningId) -> hal.runningId]
    BY <1>4, <2>2 DEF SX!SetToSeqs
  <2>. QED  BY <1>5, <2>1, <2>3
<1>7. /\ failures \in Seq(Command)
      /\ None(failures, Deaths) /\ \A u \in Video : None(failures, Own(u))
  <2>1. "NOT_READY" \in Error
    BY DEF Error
  <2>2. \A n \in 1 .. Len(ids) : /\ failures[n] \in Command /\ failures[n] \notin Deaths
                                 /\ \A u \in Video : failures[n] \notin Own(u)
    BY <1>6, <2>1, FailedCommand
  <2>3. Len(failures) = Len(ids) /\ failures \in Seq(Command)
    BY <1>6, <2>2
  <2>. HIDE DEF failures
  <2>. QED  BY <2>2, <2>3 DEF None
<1>8. sent \in Seq(Command) /\ None(sent, Deaths) /\ \A u \in Video : None(sent, Own(u))
  <2>1. Plain(Event("hal", TRUE))
    <3>1. "hal" \in EventType
      BY DEF EventType, Stop
    <3>. QED  BY <3>1, PlainCommands
  <2>. HIDE DEF failures
  <2>2. /\ sent \in Seq(Command)
        /\ \A A \in {Deaths} \cup {Own(u) : u \in Video} : None(sent, A) <=> None(failures, A)
    BY <1>7, <2>1, MorePlain
  <2>. HIDE DEF sent
  <2>3. \A u \in Video : Own(u) \in {Deaths} \cup {Own(x) : x \in Video}
    OBVIOUS
  <2>. QED  BY <1>7, <2>2, <2>3
<1>. HIDE DEF failures, sent
<1>9. m \in Pipe /\ m.hal = h /\ m.repo = repo /\ m.result = result /\ m.ive = ive
      /\ m.recorder = recorder /\ m.strategy = strategy /\ m.suspend = suspend
      /\ m.starting = starting /\ m.cmds = Tail(cmds)
  <2>1. h \in Hal
    BY <1>5 DEF Hal
  <2>. HIDE DEF h
  <2>. QED  BY <1>3, <2>1 DEF Pipe
<1>10. m = [Now EXCEPT !.hal.session = "null"]
  BY <1>3, <1>5 DEF Pipe, Hal
<1>11. h.session = "null"
  BY <1>5 DEF Hal
<1>. HIDE DEF m, h
<1>12. /\ k \in Pipe
       /\ k.repo = repo /\ k.hal = h /\ k.ive = ive
       /\ k.strategy = strategy /\ k.starting = starting
       /\ k.cmds = Tail(cmds)
       /\ TimerNamed(k.suspend)
  BY <1>9, StopSuspendLockIs
<1>. DEFINE n == Send(k, sent)
<1>13. Become(n)
  BY <1>4, <1>10 DEF k, sent, failures
<1>. HIDE DEF k
<1>14. /\ n \in Pipe
       /\ n.repo = repo /\ n.hal = h /\ n.ive = ive /\ n.strategy = strategy
       /\ n.suspend = k.suspend /\ n.starting = starting
       /\ n.cmds = Tail(cmds) \o sent
  <2>1. k \in Pipe /\ sent \in Seq(Command)
    BY <1>8, <1>12
  <2>2. /\ n \in Pipe
        /\ n.repo = k.repo /\ n.hal = k.hal /\ n.ive = k.ive /\ n.strategy = k.strategy
        /\ n.suspend = k.suspend /\ n.starting = k.starting
        /\ n.cmds = k.cmds \o sent
    BY <2>1, SendIs
  <2>. HIDE DEF n
  <2>. QED  BY <1>12, <2>2
<1>. HIDE DEF n
<1>15. /\ repo' = repo /\ hal'.session = "null" /\ ive' = ive /\ strategy' = strategy
       /\ TimerNamed(suspend') /\ starting' = starting /\ cmds' = Tail(cmds) \o sent
  BY <1>11, <1>12, <1>13, <1>14 DEF Become
<1>16. TypeOK'
  <2>1. leaked' \subseteq Video /\ unheard' \subseteq Video /\ late' \subseteq Video
        /\ overlapped' \subseteq Video /\ trashed' \in BOOLEAN
        /\ cameraOpen' \in BOOLEAN /\ client' \in ClientType
    BY <1>1, <1>2, TypeParts DEF history
  <2>. QED  BY <1>2, <1>13, <1>14, <2>1, BecomeIs
<1>17. leaked' = leaked /\ late' = late /\ overlapped' = overlapped /\ trashed' = trashed
  BY <1>1 DEF history
<1>18. Head(cmds) \in Deaths
  <2>1. Head(cmds) \in Command
    BY <1>1, <1>2, Taken
  <2>. QED  BY <1>1, <2>1 DEF Deaths
<1>19. hal.session = "dead" /\ ive.work = {}
  <2>1. Len(cmds) \in Nat /\ Len(cmds) >= 1 /\ Head(cmds) = cmds[1]
    <3>1. cmds \in Seq(Command)
      BY <1>2, TypeParts
    <3>. QED  BY <1>1, <3>1
  <2>2. ~ None(cmds, Deaths)
    BY <1>18, <2>1 DEF None
  <2>. QED  BY <1>2, <2>2 DEF SessionOK
<1>20. Tail(cmds) \in Seq(Command) /\ None(Tail(cmds), Deaths)
  BY <1>1, <1>2, <1>18, Taken DEF SessionOK
<1>21. SessionOK(hal', ive', repo', cmds')
  <2>1. None(cmds', Deaths)
    BY <1>8, <1>15, <1>20, ConcatQueue
  <2>2. Once(cmds', Deaths)
    BY <2>1, NoneOnce
  <2>. QED  BY <1>15, <1>19, <2>1, <2>2 DEF SessionOK
<1>22. StartOK(repo', starting') /\ StartWatched(repo', suspend', starting', overlapped')
  BY <1>1, <1>15 DEF StartOK, StartWatched
<1>23. Watched(repo', suspend', ive', late' \cup overlapped' \cup leaked')
  BY <1>15, <1>19 DEF Watched
<1>24. AnswersOK(repo', ive', cmds', late')
  <2>1. \A v \in Video \ late :
           /\ Once(cmds, Own(v)) => Once(cmds', Own(v))
           /\ None(cmds, Own(v)) => None(cmds', Own(v))
           /\ repo'.job[v].state = "COMPLETED" => repo.job[v].state = "COMPLETED"
    <3>. SUFFICES ASSUME NEW v \in Video
                  PROVE  /\ Once(cmds, Own(v)) => Once(cmds', Own(v))
                         /\ None(cmds, Own(v)) => None(cmds', Own(v))
                         /\ repo'.job[v].state = "COMPLETED" => repo.job[v].state = "COMPLETED"
      OBVIOUS
    <3>1. /\ None(cmds, Own(v)) => None(Tail(cmds), Own(v))
          /\ Once(cmds, Own(v)) => Once(Tail(cmds), Own(v))
      BY <1>1, <1>2, Taken
    <3>2. None(sent, Own(v)) /\ sent \in Seq(Command)
      BY <1>8
    <3>. QED  BY <1>15, <1>20, <3>1, <3>2, ConcatQueue
  <2>. QED  BY <1>2, <1>15, <1>17, <2>1, AnswersSame
<1>25. IInv'
  BY <1>2, <1>15, <1>16, <1>17, <1>21, <1>22, <1>23, <1>24 DEF IInv
<1>. QED  BY <1>15, <1>25, NotChosen, KeptSame
-----------------------------------------------------------------------------
(***************************************************************************)
(* The second half of the handler that chose a job.                        *)
(***************************************************************************)
\* What it may do to the video v: q are the commands it sends.
Processed(n, v, q) ==
  /\ n \in Pipe /\ Changed(repo, n.repo, v) /\ RunningOK(n.repo, leaked)
  /\ n.repo.job[v].state # "COMPLETED" /\ n.repo.job[v].suspend = repo.job[v].suspend
  /\ n.hal.session = hal.session
  /\ n.ive.work # {} => /\ n.ive.work = {v} /\ v \in n.repo.running
                        /\ n.hal.session = "live" /\ q = <<>>
  /\ n.strategy = strategy /\ n.suspend = suspend /\ n.starting = "none"
  /\ q \in Seq(Command) /\ n.cmds = cmds \o q
  /\ None(q, Deaths) /\ Once(q, Own(v)) /\ \A u \in Video : u # v => None(q, Own(u))

LEMMA StartedIs ==
  ASSUME IInv, starting # "none"
  PROVE  /\ TypeOK /\ starting \in Video /\ QueueOK(repo) /\ Present(repo, starting)
         /\ Waits(repo, starting) /\ repo.job[starting] \in Job
         /\ repo.running = {} /\ ive.work = {} /\ leaked = {}
         /\ hal \in Hal /\ ive \in Ive /\ cmds \in Seq(Command)
<1>1. TypeOK /\ QueueOK(repo) /\ StartOK(repo, starting) /\ RunningOK(repo, leaked)
      /\ SessionOK(hal, ive, repo, cmds)
  BY DEF IInv
<1>2. starting \in Video /\ hal \in Hal /\ ive \in Ive /\ cmds \in Seq(Command) /\ leaked \subseteq Video
  BY <1>1, TypeParts
<1>3. repo.running = {} /\ Present(repo, starting) /\ Waits(repo, starting)
  BY <1>1 DEF StartOK
<1>4. repo.job[starting] \in Job
  BY <1>1, <1>2, <1>3, JobIs
<1>5. ive.work = {} /\ leaked = {}
  BY <1>1, <1>2, <1>3 DEF SessionOK, RunningOK
<1>. QED  BY <1>1, <1>2, <1>3, <1>4, <1>5

LEMMA ProcessedStep ==
  ASSUME IInv, Clock, starting # "none", NEW n, NEW q, Processed(n, starting, q), Become(n),
         unheard' \subseteq Video, late' = late \cup {v \in {starting} : ~ Unanswered(v)},
         UNCHANGED <<cameraOpen, client, leaked, overlapped, trashed>>
  PROVE  IInv' /\ Chosen /\ Kept
<1>. DEFINE v == starting
<1>1. /\ TypeOK /\ v \in Video /\ QueueOK(repo) /\ Present(repo, v)
      /\ repo.running = {} /\ ive.work = {} /\ leaked = {} /\ cmds \in Seq(Command)
  BY StartedIs
<1>2. TypeOK'
  <2>1. cameraOpen' \in BOOLEAN /\ client' \in ClientType /\ leaked' \subseteq Video
        /\ late' \subseteq Video
        /\ overlapped' \subseteq Video /\ trashed' \in BOOLEAN
    BY <1>1, TypeParts
  <2>2. n \in Pipe
    BY DEF Processed
  <2>. QED  BY <1>1, <2>1, <2>2, BecomeIs
<1>3. /\ repo' = n.repo /\ hal' = n.hal /\ ive' = n.ive /\ strategy' = n.strategy
      /\ suspend' = n.suspend /\ starting' = n.starting /\ cmds' = n.cmds
  BY DEF Become
<1>. HIDE DEF v
<1>4. Processed(n, v, q)
  BY DEF v
<1>5. /\ Changed(repo, repo', v) /\ RunningOK(repo', leaked)
      /\ repo'.job[v].state # "COMPLETED" /\ repo'.job[v].suspend = repo.job[v].suspend
      /\ hal'.session = hal.session
      /\ ive'.work # {} => /\ ive'.work = {v} /\ v \in repo'.running
                           /\ hal'.session = "live" /\ q = <<>>
      /\ strategy' = strategy /\ suspend' = suspend /\ starting' = "none"
      /\ q \in Seq(Command) /\ cmds' = cmds \o q
      /\ None(q, Deaths) /\ Once(q, Own(v)) /\ \A u \in Video : u # v => None(q, Own(u))
  BY <1>3, <1>4 DEF Processed
<1>6. /\ (trashed \/ Ordered(repo)) /\ GateOK(strategy)
      /\ SessionOK(hal, ive, repo, cmds) /\ AnswersOK(repo, ive, cmds, late)
      /\ TimerNamed(suspend) /\ StartWatched(repo, suspend, v, overlapped)
  BY DEF IInv, v
<1>7. QueueOK(repo') /\ (trashed' \/ Ordered(repo')) /\ RunningOK(repo', leaked')
      /\ \A u \in Video : u # v => repo'.job[u] = repo.job[u]
  BY <1>5, <1>6 DEF Changed
<1>8. StartOK(repo', starting') /\ StartWatched(repo', suspend', starting', overlapped')
  BY <1>5 DEF StartOK, StartWatched
<1>9. SessionOK(hal', ive', repo', cmds')
  <2>1. Once(cmds, Deaths) /\ (hal.session # "dead" => None(cmds, Deaths))
    BY <1>6 DEF SessionOK
  <2>2. Once(cmds', Deaths) /\ (hal'.session # "dead" => None(cmds', Deaths))
    BY <1>1, <1>5, <2>1, ConcatQueue
  <2>. QED  BY <1>5, <2>2 DEF SessionOK
<1>10. Watched(repo', suspend', ive', late' \cup overlapped' \cup leaked')
  <2>. SUFFICES ASSUME NEW u \in ive'.work, u \notin overlapped', repo'.job[u].suspend
                PROVE  Ticking(suspend')
    BY DEF Watched
  <2>1. u = v /\ v \notin overlapped /\ v # "none"
    BY <1>5 DEF v
  <2>. QED  BY <1>5, <1>6, <2>1 DEF StartWatched
<1>11. AnswersOK(repo', ive', cmds', late')
  <2>. SUFFICES ASSUME NEW u \in Video, u \notin late'
                PROVE  /\ Once(cmds', Own(u))
                       /\ u \in ive'.work => None(cmds', Own(u))
                       /\ u \in ive'.work \/ ~ None(cmds', Own(u)) => repo'.job[u].state # "COMPLETED"
    BY DEF AnswersOK
  <2>1. u \notin late
    OBVIOUS
  <2>2. /\ Once(cmds, Own(u))
        /\ ~ None(cmds, Own(u)) => repo.job[u].state # "COMPLETED"
    BY <1>6, <2>1 DEF AnswersOK
  <2>3. CASE u # v
    <3>1. None(q, Own(u)) /\ u \notin ive'.work /\ repo'.job[u] = repo.job[u]
      BY <1>5, <1>7, <2>3
    <3>2. Once(cmds', Own(u)) /\ (None(cmds', Own(u)) <=> None(cmds, Own(u)))
      BY <1>1, <1>5, <2>2, <3>1, ConcatQueue
    <3>. QED  BY <2>2, <3>1, <3>2
  <2>4. CASE u = v
    <3>1. Unanswered(v)
      BY <2>4 DEF v
    <3>2. None(cmds, Own(v))
      BY <3>1 DEF Unanswered, None, Own
    <3>3. Once(cmds', Own(v)) /\ (None(cmds', Own(v)) <=> None(q, Own(v)))
      BY <1>1, <1>5, <3>2, ConcatQueue
    <3>4. v \in ive'.work => None(q, Own(v))
      BY <1>5, EmptyQueue
    <3>. QED  BY <1>5, <2>4, <3>3, <3>4
  <2>. QED  BY <2>3, <2>4
<1>12. IInv'
  BY <1>2, <1>5, <1>6, <1>7, <1>8, <1>9, <1>10, <1>11 DEF IInv
<1>13. repo.job[v].state # "COMPLETED"
  <2>1. Waits(repo, v)
    BY StartedIs DEF v
  <2>. QED  BY <1>1, <2>1, RankType DEF QueueOK
<1>14. Kept
  BY <1>7, <1>13, KeptSame
<1>. QED  BY <1>5, <1>12, <1>14, NotChosen

\* The chosen video is RUNNING; nothing else has happened.
Begun == [Current EXCEPT !.starting = "none", !.repo = SetJob(@, starting, "RUNNING")]

\* Its timer is running too.
Timed(m, b) == [m EXCEPT !.repo.job[starting].timer = b]

LEMMA BegunIs ==
  ASSUME IInv, starting # "none"
  PROVE  /\ Begun \in Pipe /\ QueueOK(Begun.repo) /\ Changed(repo, Begun.repo, starting)
         /\ RunningOK(Begun.repo, leaked) /\ Begun.repo.running = {starting}
         /\ Present(Begun.repo, starting) /\ Begun.repo.job[starting] \in Job
         /\ Begun.repo.job[starting].state = "RUNNING"
         /\ Begun.repo.job[starting].suspend = repo.job[starting].suspend
         /\ Begun.hal = hal /\ Begun.ive = ive /\ Begun.strategy = strategy
         /\ Begun.suspend = suspend /\ Begun.starting = "none" /\ Begun.cmds = cmds
<1>. DEFINE v == starting
            t == SetJob(repo, v, "RUNNING")
<1>1. /\ TypeOK /\ v \in Video /\ QueueOK(repo) /\ Present(repo, v) /\ Waits(repo, v)
      /\ repo.running = {} /\ leaked = {} /\ repo.job[v] \in Job
  BY StartedIs
<1>2. /\ Current \in Pipe /\ Current.repo = repo /\ Current.hal = hal /\ Current.ive = ive
      /\ Current.strategy = strategy /\ Current.suspend = suspend /\ Current.cmds = cmds
  BY <1>1, CurrentIs
<1>. HIDE DEF v
<1>3. "RUNNING" \in JobState
  BY DEF JobState
<1>4. Changed(repo, t, v) /\ t.job[v] = [repo.job[v] EXCEPT !.state = "RUNNING"]
      /\ t.running = RunningAfter(repo, v, "RUNNING")
  BY <1>1, <1>3, SetJobIs
<1>5. RunningOK(t, leaked)
  <2>1. RunningOK(repo, leaked) /\ leaked \subseteq Video
    BY <1>1 DEF IInv
  <2>. QED  BY <1>1, <1>3, <2>1, SetJobRunning
<1>6. repo.job[v].state # "RUNNING"
  BY <1>1, RankType DEF QueueOK
<1>. DEFINE m == [Current EXCEPT !.starting = "none", !.repo = t]
<1>7. m = Begun
  BY <1>2 DEF Begun, Pipe, v
<1>. HIDE DEF t
<1>8. t.running = {v}
  BY <1>1, <1>4, <1>6 DEF RunningAfter
<1>9. t.job[v] \in Job /\ t.job[v].state = "RUNNING" /\ t.job[v].suspend = repo.job[v].suspend
  BY <1>1, <1>4 DEF Job, JobState
<1>10. t \in Repository /\ QueueOK(t)
  BY <1>4 DEF Changed, QueueOK
<1>11. /\ m \in Pipe /\ m.repo = t /\ m.hal = hal /\ m.ive = ive /\ m.strategy = strategy
       /\ m.suspend = suspend /\ m.starting = "none" /\ m.cmds = cmds
  BY <1>2, <1>10 DEF Pipe
<1>. HIDE DEF m
<1>12. Present(m.repo, v)
  BY <1>9, <1>11 DEF Present
<1>. QED  BY <1>4, <1>5, <1>7, <1>8, <1>9, <1>10, <1>11, <1>12 DEF v

LEMMA TimedIs ==
  ASSUME IInv, starting # "none", NEW b \in BOOLEAN
  PROVE  LET n == Timed(Begun, b)
         IN  /\ n \in Pipe /\ Changed(repo, n.repo, starting)
             /\ RunningOK(n.repo, leaked) /\ n.repo.running = {starting}
             /\ n.repo.job[starting].state = "RUNNING"
             /\ n.repo.job[starting].suspend = repo.job[starting].suspend
             /\ n.hal = hal /\ n.ive = ive /\ n.strategy = strategy
             /\ n.suspend = suspend /\ n.starting = "none" /\ n.cmds = cmds
<1>. DEFINE v == starting
            m == Begun
            t == [m.repo EXCEPT !.job[v].timer = b]
            n == Timed(m, b)
<1>1. /\ m \in Pipe /\ QueueOK(m.repo) /\ Changed(repo, m.repo, v)
      /\ RunningOK(m.repo, leaked) /\ m.repo.running = {v}
      /\ Present(m.repo, v) /\ m.repo.job[v] \in Job
      /\ m.repo.job[v].state = "RUNNING"
      /\ m.repo.job[v].suspend = repo.job[v].suspend
      /\ m.hal = hal /\ m.ive = ive /\ m.strategy = strategy
      /\ m.suspend = suspend /\ m.starting = "none" /\ m.cmds = cmds
  BY BegunIs
<1>2. v \in Video /\ leaked = {}
  BY StartedIs
<1>. HIDE DEF m, v
<1>3. Changed(m.repo, t, v) /\ t.job[v] = [m.repo.job[v] EXCEPT !.timer = b] /\ t.running = m.repo.running
  BY <1>1, <1>2, SetTimerIs
<1>4. n = [m EXCEPT !.repo = t]
  BY <1>1 DEF Timed, Pipe, v
<1>. HIDE DEF n, t
<1>5. t.job[v].state = "RUNNING" /\ t.job[v].suspend = repo.job[v].suspend
  BY <1>1, <1>3 DEF Job
<1>6. t \in Repository /\ QueueOK(t)
  BY <1>3 DEF Changed, QueueOK
<1>7. RunningOK(t, leaked)
  <2>1. \A u \in Video : t.job[u].state = "RUNNING" <=> m.repo.job[u].state = "RUNNING"
    BY <1>1, <1>3, <1>5 DEF Changed
  <2>2. m.repo.running \subseteq Video /\ leaked \subseteq Video
    BY <1>1, <1>2
  <2>3. RunningOK(m.repo, leaked) /\ t.running = m.repo.running
    BY <1>1, <1>3
  <2>. DEFINE r == m.repo
  <2>. HIDE DEF r
  <2>4. RunningOK(r, leaked) /\ t.running = r.running /\ r.running \subseteq Video /\ leaked \subseteq Video
        /\ \A u \in Video : t.job[u].state = "RUNNING" <=> r.job[u].state = "RUNNING"
    BY <2>1, <2>2, <2>3 DEF r
  <2>. QED  BY <2>4, RunningSame
<1>8. Changed(repo, t, v)
  BY <1>1, <1>3 DEF Changed
<1>9. /\ n \in Pipe /\ n.repo = t /\ n.hal = hal /\ n.ive = ive /\ n.strategy = strategy
      /\ n.suspend = suspend /\ n.starting = "none" /\ n.cmds = cmds
  BY <1>1, <1>4, <1>6 DEF Pipe
<1>10. /\ n \in Pipe /\ Changed(repo, n.repo, v)
       /\ RunningOK(n.repo, leaked) /\ n.repo.running = {v}
       /\ n.repo.job[v].state = "RUNNING"
       /\ n.repo.job[v].suspend = repo.job[v].suspend
       /\ n.hal = hal /\ n.ive = ive /\ n.strategy = strategy
       /\ n.suspend = suspend /\ n.starting = "none" /\ n.cmds = cmds
  BY <1>1, <1>3, <1>5, <1>7, <1>8, <1>9
<1>. QED  BY <1>10 DEF n, v, m

\* The timer runs and some answers of v are sent, at most one that is not NOT_READY.
LEMMA SentIs ==
  ASSUME IInv, starting # "none", NEW m \in Pipe, m.repo = Timed(Begun, TRUE).repo, m.hal = hal, m.ive = ive,
         m.strategy = strategy, m.suspend = suspend, m.starting = "none", m.cmds = cmds,
         NEW q \in Seq(Command), None(q, Deaths), Once(q, Own(starting)),
         \A u \in Video : u # starting => None(q, Own(u))
  PROVE  Processed(Send(m, q), starting, q)
<1>. DEFINE v == starting
            b == Timed(Begun, TRUE)
            n == Send(m, q)
<1>1. /\ Changed(repo, b.repo, v)
      /\ RunningOK(b.repo, leaked)
      /\ b.repo.job[v].state = "RUNNING"
      /\ b.repo.job[v].suspend = repo.job[v].suspend
  BY TimedIs
<1>2. ive.work = {}
  BY StartedIs
<1>3. /\ n \in Pipe /\ n.repo = m.repo /\ n.hal = m.hal /\ n.ive = m.ive
      /\ n.strategy = m.strategy /\ n.suspend = m.suspend
      /\ n.starting = m.starting /\ n.cmds = m.cmds \o q
  BY SendIs
<1>4. m.repo = b.repo
  OBVIOUS
<1>. HIDE DEF b, n
<1>5. Processed(n, v, q)
  <2>. HIDE DEF v
  <2>1. Once(q, Own(v)) /\ \A u \in Video : u # v => None(q, Own(u))
    BY DEF v
  <2>. QED  BY <1>1, <1>2, <1>3, <1>4, <2>1 DEF Processed
<1>. QED  BY <1>5 DEF n, v

LEMMA NotPreparedIs ==
  ASSUME IInv, starting # "none"
  PROVE  \E q : Processed(NotPrepared(Begun, starting), starting, q)
<1>. DEFINE v == starting
            b == Timed(Begun, TRUE)
            late1 == Failed(v, "NOT_READY")
            early == IF Begun.hal.session = "null" THEN <<late1>> ELSE <<>>
            last == IF Begun.recorder # "none" /\ Begun.hal.session = "null"
                    THEN late1 ELSE Failed(v, "FAILED")
            q == early \o <<last>>
<1>1. /\ b \in Pipe
      /\ b.hal = hal /\ b.ive = ive /\ b.strategy = strategy
      /\ b.suspend = suspend /\ b.starting = "none" /\ b.cmds = cmds
  BY TimedIs
<1>2. v \in Video
  BY StartedIs
<1>3. NotPrepared(Begun, v) = Send(b, q)
  BY DEF NotPrepared, Timed
<1>. HIDE DEF b
<1>4. "NOT_READY" \in Error /\ "FAILED" \in Error
  BY DEF Error
<1>. HIDE DEF v
<1>5. /\ late1 \in Command /\ late1 \notin Deaths /\ \A u \in Video : late1 \notin Own(u)
      /\ last \in Command /\ last \notin Deaths /\ \A u \in Video : u # v => last \notin Own(u)
  BY <1>2, <1>4, FailedCommand
<1>. HIDE DEF late1, last
<1>6. /\ early \in Seq(Command) /\ None(early, Deaths) /\ \A u \in Video : None(early, Own(u))
  <2>1. CASE early = <<>>
    BY <2>1, EmptyQueue
  <2>2. CASE early = <<late1>>
    BY <1>5, <2>2, SingleQueue
  <2>. QED  BY <2>1, <2>2
<1>7. /\ <<last>> \in Seq(Command) /\ None(<<last>>, Deaths) /\ Once(<<last>>, Own(v))
      /\ \A u \in Video : u # v => None(<<last>>, Own(u))
  BY <1>5, SingleQueue
<1>. HIDE DEF early
<1>. DEFINE end == <<last>>
<1>. HIDE DEF end
<1>8. /\ early \o end \in Seq(Command) /\ None(early \o end, Deaths) /\ Once(early \o end, Own(v))
      /\ \A u \in Video : u # v => None(early \o end, Own(u))
  <2>1. /\ end \in Seq(Command) /\ None(end, Deaths) /\ Once(end, Own(v))
        /\ \A u \in Video : u # v => None(end, Own(u))
    BY <1>7 DEF end
  <2>. QED  BY <1>2, <1>6, <2>1, ConcatQueue
<1>9. q = early \o end
  BY DEF end
<1>. HIDE DEF q
<1>10. Processed(Send(b, q), v, q)
  <2>1. b.repo = Timed(Begun, TRUE).repo
    BY DEF b
  <2>2. /\ q \in Seq(Command) /\ None(q, Deaths) /\ Once(q, Own(starting))
        /\ \A u \in Video : u # starting => None(q, Own(u))
    BY <1>8, <1>9 DEF v
  <2>. QED  BY <1>1, <2>1, <2>2, SentIs DEF v
<1>. QED  BY <1>3, <1>10 DEF v

LEMMA NotRecordedIs ==
  ASSUME IInv, starting # "none"
  PROVE  \E q : Processed(HandleError([Begun EXCEPT !.recorder = starting], starting, "FAILED"), starting, q)
<1>. DEFINE v == starting
            m == [Begun EXCEPT !.recorder = v]
            n == HandleError(m, v, "FAILED")
<1>1. /\ Begun \in Pipe /\ QueueOK(Begun.repo) /\ Changed(repo, Begun.repo, v)
      /\ RunningOK(Begun.repo, leaked)
      /\ Present(Begun.repo, v) /\ Begun.repo.job[v].state = "RUNNING"
      /\ Begun.repo.job[v] \in Job
      /\ Begun.repo.job[v].suspend = repo.job[v].suspend
      /\ Begun.hal = hal /\ Begun.ive = ive /\ Begun.strategy = strategy
      /\ Begun.suspend = suspend /\ Begun.starting = "none" /\ Begun.cmds = cmds
  BY BegunIs
<1>2. v \in Video /\ leaked = {} /\ ive.work = {} /\ cmds \in Seq(Command)
  BY StartedIs
<1>. HIDE DEF v
<1>3. /\ m \in Pipe /\ m.repo = Begun.repo /\ m.hal = hal /\ m.ive = ive /\ m.strategy = strategy
      /\ m.suspend = suspend /\ m.starting = "none" /\ m.cmds = cmds
  BY <1>1, <1>2 DEF Pipe
<1>. HIDE DEF m
<1>4. m \in Pipe /\ QueueOK(m.repo) /\ Present(m.repo, v) /\ RunningOK(m.repo, leaked) /\ leaked \subseteq Video
  BY <1>1, <1>2, <1>3
<1>5. Told(m, n, v, Failures)
  <2>1. "FAILED" \in Error
    BY DEF Error
  <2>. QED  BY <1>2, <1>4, <2>1, HandleErrorIs
<1>. HIDE DEF n
<1>6. Failures \subseteq JobState \ {"RUNNING"}
  BY DEF Failures, JobState
<1>7. /\ Changed(m.repo, n.repo, v)
      /\ RunningOK(n.repo, leaked)
      /\ n.repo.job[v].state = m.repo.job[v].state \/ n.repo.job[v].state \in Failures
  BY <1>2, <1>4, <1>5, <1>6, ToldIs
<1>8. /\ n \in Pipe /\ n.hal = hal /\ n.ive = ive /\ n.strategy = strategy
      /\ n.suspend = suspend /\ n.starting = "none"
      /\ n.cmds = cmds \/ n.cmds = cmds \o <<JobChanged>>
      /\ n.repo = m.repo \/ \E s \in Failures : n.repo = SetJob(m.repo, v, s)
  BY <1>3, <1>5 DEF Told
<1>9. Changed(repo, n.repo, v)
  BY <1>1, <1>3, <1>7 DEF Changed
<1>10. n.repo.job[v].suspend = repo.job[v].suspend
  <2>1. CASE n.repo = m.repo
    BY <1>1, <1>3, <2>1
  <2>2. CASE \E s \in Failures : n.repo = SetJob(m.repo, v, s)
    <3>1. PICK s \in Failures : n.repo = SetJob(m.repo, v, s)
      BY <2>2
    <3>2. s \in JobState
      BY <1>6
    <3>. DEFINE r == m.repo
                t == SetJob(r, v, s)
    <3>. HIDE DEF r
    <3>3. QueueOK(r) /\ Present(r, v)
      BY <1>4 DEF r
    <3>4. t.job[v] = [r.job[v] EXCEPT !.state = s]
      BY <1>2, <3>2, <3>3, SetJobIs
    <3>5. r.job[v] \in Job
      BY <1>1, <1>3 DEF r
    <3>. HIDE DEF t
    <3>6. t.job[v].suspend = r.job[v].suspend
      BY <3>4, <3>5 DEF Job
    <3>. QED  BY <1>1, <1>3, <3>1, <3>6 DEF t, r
  <2>. QED  BY <1>8, <2>1, <2>2
<1>11. n.repo.job[v].state # "COMPLETED"
  BY <1>1, <1>3, <1>7 DEF Failures
<1>12. PICK q \in {<<>>, <<JobChanged>>} : n.cmds = cmds \o q
  <2>1. cmds = cmds \o <<>>
    BY <1>2
  <2>. QED  BY <1>8, <2>1
<1>13. q \in Seq(Command) /\ None(q, Deaths) /\ Once(q, Own(v)) /\ \A u \in Video : None(q, Own(u))
  <2>1. /\ JobChanged \in Command /\ JobChanged \notin Deaths /\ \A u \in Video : JobChanged \notin Own(u)
    BY PlainCommands, PlainCommand
  <2>2. CASE q = <<>>
    BY <2>2, EmptyQueue
  <2>3. CASE q = <<JobChanged>>
    BY <2>1, <2>3, SingleQueue
  <2>. QED  BY <2>2, <2>3
<1>14. Processed(n, v, q)
  BY <1>2, <1>7, <1>8, <1>9, <1>10, <1>11, <1>12, <1>13 DEF Processed
<1>. QED  BY <1>14 DEF n, m, v

LEMMA RecordingIs ==
  ASSUME IInv, starting # "none"
  PROVE  LET n == Recording(Begun, starting)
         IN  /\ n \in Pipe /\ n.repo = Timed(Begun, TRUE).repo /\ n.hal = hal /\ n.ive = ive
             /\ n.strategy = strategy /\ n.suspend = suspend /\ n.starting = "none" /\ n.cmds = cmds
<1>. DEFINE b == Timed(Begun, TRUE)
            m == Begun
            n == Recording(m, starting)
<1>1. /\ b \in Pipe
      /\ b.hal = hal /\ b.ive = ive /\ b.strategy = strategy
      /\ b.suspend = suspend /\ b.starting = "none" /\ b.cmds = cmds
  BY TimedIs
<1>2. m \in Pipe
  BY BegunIs
<1>3. starting \in Video
  BY StartedIs
<1>4. n = [b EXCEPT !.recorder = starting]
  <2>. HIDE DEF m
  <2>1. b = [m EXCEPT !.repo.job[starting].timer = TRUE]
    BY DEF Timed, m
  <2>. HIDE DEF b
  <2>. QED  BY <1>2, <2>1 DEF Recording, Pipe
<1>. HIDE DEF n, b
<1>5. /\ n \in Pipe /\ n.repo = b.repo /\ n.hal = hal /\ n.ive = ive
      /\ n.strategy = strategy /\ n.suspend = suspend /\ n.starting = "none" /\ n.cmds = cmds
  BY <1>1, <1>3, <1>4 DEF Pipe
<1>. QED  BY <1>5 DEF n, b

LEMMA HandedIs ==
  ASSUME IInv, starting # "none", hal.session = "live"
  PROVE  Processed([Recording(Begun, starting) EXCEPT !.hal.runningId = @ \cup {starting},
                                                      !.ive.work = @ \cup {starting}], starting, <<>>)
<1>. DEFINE v == starting
            m == Recording(Begun, v)
            b == Timed(Begun, TRUE)
            h == [hal EXCEPT !.runningId = @ \cup {v}]
            w == [ive EXCEPT !.work = @ \cup {v}]
            n == [m EXCEPT !.hal.runningId = @ \cup {v}, !.ive.work = @ \cup {v}]
<1>1. /\ m \in Pipe /\ m.repo = b.repo /\ m.hal = hal /\ m.ive = ive
      /\ m.strategy = strategy /\ m.suspend = suspend /\ m.starting = "none" /\ m.cmds = cmds
  BY RecordingIs
<1>2. /\ Changed(repo, b.repo, v)
      /\ RunningOK(b.repo, leaked) /\ b.repo.running = {v}
      /\ b.repo.job[v].state = "RUNNING"
      /\ b.repo.job[v].suspend = repo.job[v].suspend
  BY TimedIs
<1>3. v \in Video /\ ive.work = {} /\ hal \in Hal /\ ive \in Ive /\ cmds \in Seq(Command)
  BY StartedIs
<1>. HIDE DEF m, b, v
<1>4. n = [[m EXCEPT !.hal = h] EXCEPT !.ive = w]
  BY <1>1, <1>3 DEF Pipe
<1>5. h \in Hal /\ h.session = hal.session /\ w \in Ive /\ w.work = {v}
  BY <1>3 DEF Hal, Ive
<1>. HIDE DEF n, h, w
<1>6. /\ n \in Pipe /\ n.repo = b.repo /\ n.hal = h /\ n.ive = w
      /\ n.strategy = strategy /\ n.suspend = suspend /\ n.starting = "none" /\ n.cmds = cmds
  BY <1>1, <1>4, <1>5 DEF Pipe
<1>7. <<>> \in Seq(Command) /\ cmds = cmds \o <<>>
      /\ None(<<>>, Deaths) /\ Once(<<>>, Own(v)) /\ \A u \in Video : None(<<>>, Own(u))
  BY <1>3, EmptyQueue
<1>8. Processed(n, v, <<>>)
  BY <1>2, <1>5, <1>6, <1>7 DEF Processed
<1>. QED  BY <1>8 DEF n, m, v

LEMMA ProcessedAll ==
  ASSUME IInv, Clock, DoProcess
  PROVE  IInv' /\ Chosen /\ Kept
<1>. DEFINE v == starting
<1>1. starting # "none" /\ late' = late \cup {x \in {starting} : ~ Unanswered(x)}
      /\ UNCHANGED <<cameraOpen, client, leaked, overlapped, trashed>>
  BY DEF DoProcess
<1>2. v \in Video /\ TypeOK
  BY <1>1, StartedIs
<1>3. Begun = [Current EXCEPT !.starting = "none", !.repo = SetJob(@, v, "RUNNING")]
  BY DEF Begun
<1>4. \/ Become(NotPrepared(Begun, v)) /\ unheard' = unheard
      \/ /\ Become(HandleError([Begun EXCEPT !.recorder = v], v, "FAILED"))
         /\ unheard' \in {unheard, unheard \cup {v}}
      \/ /\ hal.session = "live" /\ unheard' = unheard
         /\ \/ Become(Send(Recording(Begun, v), <<Failed(v, "INTERRUPTED")>>))
            \/ Become([Recording(Begun, v) EXCEPT !.hal.runningId = @ \cup {v}, !.ive.work = @ \cup {v}])
  BY <1>3 DEF DoProcess
<1>5. unheard' \subseteq Video
  <2>1. unheard \subseteq Video
    BY <1>2, TypeParts
  <2>. QED  BY <1>2, <1>4, <2>1
<1>6. \E n, q : Become(n) /\ Processed(n, starting, q)
  <2>1. CASE Become(NotPrepared(Begun, v))
    BY <1>1, <2>1, NotPreparedIs
  <2>2. CASE Become(HandleError([Begun EXCEPT !.recorder = v], v, "FAILED"))
    BY <1>1, <2>2, NotRecordedIs
  <2>3. CASE Become(Send(Recording(Begun, v), <<Failed(v, "INTERRUPTED")>>))
    <3>. DEFINE c == Failed(v, "INTERRUPTED")
                m == Recording(Begun, v)
    <3>1. c \in Command /\ c \notin Deaths /\ \A u \in Video : u # v => c \notin Own(u)
      <4>1. "INTERRUPTED" \in Error
        BY DEF Error
      <4>. QED  BY <1>2, <4>1, FailedCommand
    <3>. HIDE DEF c
    <3>2. <<c>> \in Seq(Command) /\ None(<<c>>, Deaths) /\ Once(<<c>>, Own(v))
          /\ \A u \in Video : u # v => None(<<c>>, Own(u))
      BY <3>1, SingleQueue
    <3>3. /\ m \in Pipe /\ m.repo = Timed(Begun, TRUE).repo /\ m.hal = hal /\ m.ive = ive
          /\ m.strategy = strategy /\ m.suspend = suspend /\ m.starting = "none" /\ m.cmds = cmds
      BY <1>1, RecordingIs
    <3>. HIDE DEF m
    <3>4. Processed(Send(m, <<c>>), v, <<c>>)
      BY <1>1, <3>2, <3>3, SentIs
    <3>. QED  BY <2>3, <3>4 DEF c, m
  <2>4. CASE hal.session = "live" /\ Become([Recording(Begun, v) EXCEPT !.hal.runningId = @ \cup {v}, !.ive.work = @ \cup {v}])
    BY <1>1, <2>4, HandedIs
  <2>. QED  BY <1>4, <2>1, <2>2, <2>3, <2>4
<1>7. PICK n, q : Become(n) /\ Processed(n, starting, q)
  BY <1>6
<1>. QED  BY <1>1, <1>5, <1>7, ProcessedStep
-----------------------------------------------------------------------------
(***************************************************************************)
(* The timer thread, the client, the HDI and the events.                   *)
(***************************************************************************)
LEMMA MoreQueue ==
  ASSUME NEW q \in Seq(Command), NEW c \in Command
  PROVE  /\ Append(q, c) \in Seq(Command) /\ <<c>> \o q \in Seq(Command)
         /\ \A A : c \notin A =>
              /\ None(Append(q, c), A) <=> None(q, A)
              /\ Once(q, A) => Once(Append(q, c), A)
              /\ None(<<c>> \o q, A) <=> None(q, A)
              /\ Once(q, A) => Once(<<c>> \o q, A)
         /\ \A A : None(q, A) => Once(Append(q, c), A)
<1>. DEFINE e == <<c>>
<1>1. e \in Seq(Command) /\ \A A : Once(e, A) /\ (None(e, A) <=> c \notin A)
  BY SingleQueue
<1>2. Append(q, c) = q \o e
  BY AppendOne
<1>. HIDE DEF e
<1>3. q \o e \in Seq(Command) /\ e \o q \in Seq(Command)
  BY <1>1, ConcatQueue
<1>4. \A A : /\ None(q \o e, A) <=> None(q, A) /\ None(e, A)
             /\ Once(q, A) /\ None(e, A) => Once(q \o e, A)
             /\ None(q, A) /\ Once(e, A) => Once(q \o e, A)
  BY <1>1, ConcatQueue
<1>5. \A A : /\ None(e \o q, A) <=> None(e, A) /\ None(q, A)
             /\ None(e, A) /\ Once(q, A) => Once(e \o q, A)
  BY <1>1, ConcatQueue
<1>6. \A A : c \notin A =>
              /\ None(Append(q, c), A) <=> None(q, A)
              /\ Once(q, A) => Once(Append(q, c), A)
              /\ None(e \o q, A) <=> None(q, A)
              /\ Once(q, A) => Once(e \o q, A)
  BY <1>1, <1>2, <1>4, <1>5
<1>7. \A A : None(q, A) => Once(Append(q, c), A)
  BY <1>1, <1>2, <1>4
<1>. QED  BY <1>2, <1>3, <1>6, <1>7 DEF e

\* The job of each video keeps all but its timer.
SameJobs(r, t) ==
  /\ QueueOK(t) /\ (Ordered(r) => Ordered(t)) /\ t.running = r.running
  /\ \A v \in Video : /\ t.job[v].state = r.job[v].state
                      /\ t.job[v].priority = r.job[v].priority
                      /\ t.job[v].suspend = r.job[v].suspend

\* A step that starts, ends and chooses nothing.
LEMMA StillStep ==
  ASSUME IInv, TypeOK', SameJobs(repo, repo'), starting' = starting,
         UNCHANGED <<leaked, late, trashed>>, overlapped \subseteq overlapped',
         GateOK(strategy'), SessionOK(hal', ive', repo', cmds'), AnswersOK(repo', ive', cmds', late'),
         TimerNamed(suspend'), ive'.work \subseteq ive.work,
         \/ (Ticking(suspend) => Ticking(suspend')) /\ (ive.aborted /\ ive'.work # {} => ive'.aborted)
         \/ /\ starting = "none" \/ starting \in overlapped'
            /\ \A v \in ive'.work \ Spared : ~ IsHighJob(repo, v) => ive'.aborted
  PROVE  IInv' /\ Chosen /\ Kept
<1>1. /\ TypeOK /\ QueueOK(repo) /\ RunningOK(repo, leaked) /\ StartOK(repo, starting)
      /\ (trashed \/ Ordered(repo)) /\ StartWatched(repo, suspend, starting, overlapped)
      /\ Watched(repo, suspend, ive, Spared)
  BY DEF IInv, Spared
<1>2. /\ repo.running \subseteq Video /\ leaked \subseteq Video /\ ive'.work \subseteq Video
      /\ starting \in Video \cup {"none"}
  BY <1>1, TypeParts DEF Repository, TypeOK
<1>3. /\ QueueOK(repo') /\ (Ordered(repo) => Ordered(repo')) /\ repo'.running = repo.running
      /\ \A v \in Video : /\ repo'.job[v].state = repo.job[v].state
                          /\ repo'.job[v].priority = repo.job[v].priority
                          /\ repo'.job[v].suspend = repo.job[v].suspend
  BY DEF SameJobs
<1>4. RunningOK(repo', leaked')
  BY <1>1, <1>2, <1>3, RunningSame
<1>5. StartOK(repo', starting')
  BY <1>1, <1>2, <1>3 DEF StartOK, Present, Waits
<1>6. trashed' \/ Ordered(repo')
  BY <1>1, <1>3
<1>7. StartWatched(repo', suspend', starting', overlapped')
  BY <1>1, <1>2, <1>3 DEF StartWatched
<1>8. Watched(repo', suspend', ive', late' \cup overlapped' \cup leaked')
  <2>. SUFFICES ASSUME NEW v \in ive'.work, v \notin Spared,
                       repo'.job[v].suspend, ~ IsHighJob(repo', v)
                PROVE  Ticking(suspend') \/ ive'.aborted
    BY DEF Watched, Spared
  <2>1. v \in Video /\ repo.job[v].suspend /\ ~ IsHighJob(repo, v)
    BY <1>2, <1>3 DEF IsHighJob
  <2>2. Ticking(suspend) \/ ive.aborted
    BY <1>1, <2>1 DEF Watched
  <2>. QED  BY <2>1, <2>2
<1>9. IInv'
  BY <1>3, <1>4, <1>5, <1>6, <1>7, <1>8 DEF IInv
<1>10. Kept
  BY <1>3, KeptSame
<1>. QED  BY <1>9, <1>10, NotChosen

\* A command that is neither an answer of the HDI nor its death.
Silent(c) == c \in Command /\ c \notin Deaths /\ \A v \in Video : c \notin Own(v)

LEMMA SilentCommands ==
  /\ \A c : Plain(c) => Silent(c)
  /\ \A v \in Video, e \in {"TIMEOUT", "NOT_READY"} : Silent(Failed(v, e))
<1>1. {"TIMEOUT", "NOT_READY"} \subseteq Error
  BY DEF Error
<1>. QED  BY <1>1, PlainCommand, FailedCommand DEF Silent

\* The session stays as it is, or is there again.
NewSession == hal'.session = hal.session \/ (hal.session = "null" /\ hal'.session = "live")

LEMMA SilentQueue ==
  ASSUME IInv, SameJobs(repo, repo'), NewSession,
         ive'.work \subseteq ive.work, late' = late,
         \/ cmds' = cmds
         \/ \E c : Silent(c) /\ (cmds' = Append(cmds, c) \/ cmds' = <<c>> \o cmds)
  PROVE  /\ SessionOK(hal', ive', repo', cmds') /\ AnswersOK(repo', ive', cmds', late')
         /\ cmds' \in Seq(Command)
<1>1. TypeOK /\ SessionOK(hal, ive, repo, cmds) /\ AnswersOK(repo, ive, cmds, late)
  BY DEF IInv
<1>2. cmds \in Seq(Command)
  BY <1>1, TypeParts
<1>3. /\ cmds' \in Seq(Command)
      /\ None(cmds, Deaths) => None(cmds', Deaths)
      /\ Once(cmds, Deaths) => Once(cmds', Deaths)
      /\ \A v \in Video : /\ None(cmds, Own(v)) => None(cmds', Own(v))
                          /\ Once(cmds, Own(v)) => Once(cmds', Own(v))
  <2>1. CASE cmds' = cmds
    BY <1>2, <2>1
  <2>2. CASE \E c : Silent(c) /\ (cmds' = Append(cmds, c) \/ cmds' = <<c>> \o cmds)
    <3>1. PICK c : Silent(c) /\ (cmds' = Append(cmds, c) \/ cmds' = <<c>> \o cmds)
      BY <2>2
    <3>2. c \in Command /\ c \notin Deaths /\ \A v \in Video : c \notin Own(v)
      BY <3>1 DEF Silent
    <3>3. /\ Append(cmds, c) \in Seq(Command) /\ <<c>> \o cmds \in Seq(Command)
          /\ \A A : c \notin A =>
               /\ None(Append(cmds, c), A) <=> None(cmds, A)
               /\ Once(cmds, A) => Once(Append(cmds, c), A)
               /\ None(<<c>> \o cmds, A) <=> None(cmds, A)
               /\ Once(cmds, A) => Once(<<c>> \o cmds, A)
      BY <1>2, <3>2, MoreQueue
    <3>4. CASE cmds' = Append(cmds, c)
      BY <3>2, <3>3, <3>4
    <3>5. CASE cmds' = <<c>> \o cmds
      <4>. DEFINE q == <<c>> \o cmds
      <4>1. /\ q \in Seq(Command)
            /\ \A A : c \notin A =>
                /\ None(q, A) <=> None(cmds, A)
                /\ Once(cmds, A) => Once(q, A)
        BY <3>3
      <4>2. cmds' = q
        BY <3>5
      <4>. HIDE DEF q
      <4>. QED  BY <3>2, <4>1, <4>2
    <3>. QED  BY <3>1, <3>4, <3>5
  <2>. QED  BY <2>1, <2>2
<1>4. repo'.running = repo.running /\ \A v \in Video : repo'.job[v].state = repo.job[v].state
  BY DEF SameJobs
<1>5. SessionOK(hal', ive', repo', cmds')
  BY <1>1, <1>3, <1>4 DEF SessionOK, NewSession
<1>6. AnswersOK(repo', ive', cmds', late')
  <2>1. \A v \in Video \ late : repo'.job[v].state = "COMPLETED" => repo.job[v].state = "COMPLETED"
    BY <1>4
  <2>. QED  BY <1>1, <1>3, <2>1, AnswersSame
<1>. QED  BY <1>3, <1>5, <1>6

LEMMA SameRepo ==
  ASSUME IInv, repo' = repo
  PROVE  SameJobs(repo, repo')
BY DEF IInv, SameJobs

\* The typing of a step that leaves most as it is.
LEMMA StillType ==
  ASSUME TypeOK, Clock, repo' \in Repository, hal' \in Hal, ive' \in Ive, strategy' \in Strategy,
         suspend' \in Suspend, cameraOpen' \in BOOLEAN, client' \in ClientType, cmds' \in Seq(Command),
         UNCHANGED <<result, recorder, starting, leaked, unheard, late, trashed>>,
         overlapped' \subseteq Video
  PROVE  TypeOK'
<1>1. /\ result \in Result /\ recorder \in Video \cup {"none"} /\ starting \in Video \cup {"none"}
      /\ leaked \subseteq Video /\ unheard \subseteq Video /\ late \subseteq Video /\ trashed \in BOOLEAN
      /\ workload \in Workload
  BY TypeParts
<1>2. workload' \in Workload /\ calls' \in 0 .. workload'.maxCalls
  BY <1>1 DEF Clock
<1>3. /\ result' \in Result /\ recorder' \in Video \cup {"none"} /\ starting' \in Video \cup {"none"}
      /\ leaked' \subseteq Video /\ unheard' \subseteq Video /\ late' \subseteq Video /\ trashed' \in BOOLEAN
  BY <1>1
<1>. QED  BY <1>2, <1>3 DEF TypeOK, Repository, Result, Hal, Ive, Strategy, Suspend, ClientType

\* What a step finds.
LEMMA StillParts ==
  ASSUME IInv
  PROVE  /\ TypeOK /\ repo \in Repository /\ hal \in Hal /\ ive \in Ive /\ strategy \in Strategy
         /\ suspend \in Suspend /\ cameraOpen \in BOOLEAN /\ client \in ClientType
         /\ cmds \in Seq(Command) /\ overlapped \subseteq Video /\ starting \in Video \cup {"none"}
         /\ QueueOK(repo) /\ GateOK(strategy) /\ TimerNamed(suspend)
         /\ SessionOK(hal, ive, repo, cmds) /\ AnswersOK(repo, ive, cmds, late)
<1>1. TypeOK
  BY DEF IInv
<1>. QED  BY <1>1, TypeParts DEF IInv

\* The client, the HDI's death and restart, the events: all they do inside is queue a command.
LEMMA SilentStep ==
  ASSUME IInv, Clock, SameJobs(repo, repo'), repo' \in Repository,
         hal' \in Hal, NewSession, ive' \in Ive, ive'.work \subseteq ive.work,
         ive.aborted /\ ive'.work # {} => ive'.aborted,
         cameraOpen' \in BOOLEAN, client' \in ClientType,
         \/ cmds' = cmds
         \/ \E c : Silent(c) /\ (cmds' = Append(cmds, c) \/ cmds' = <<c>> \o cmds),
         UNCHANGED <<result, recorder, strategy, suspend, starting, history>>
  PROVE  IInv' /\ Chosen /\ Kept
<1>1. UNCHANGED <<leaked, unheard, late, overlapped, trashed>>
  BY DEF history
<1>2. /\ SessionOK(hal', ive', repo', cmds') /\ AnswersOK(repo', ive', cmds', late')
      /\ cmds' \in Seq(Command)
  BY <1>1, SilentQueue
<1>3. /\ TypeOK /\ strategy' \in Strategy /\ suspend' \in Suspend /\ overlapped' \subseteq Video
      /\ GateOK(strategy') /\ TimerNamed(suspend') /\ starting' = starting
      /\ overlapped \subseteq overlapped'
      /\ Ticking(suspend) => Ticking(suspend')
  BY <1>1, StillParts
<1>4. TypeOK'
  BY <1>1, <1>2, <1>3, StillType
<1>. QED  BY <1>1, <1>2, <1>3, <1>4, StillStep

LEMMA ExpiresStep ==
  ASSUME IInv, Clock, NEW v \in Video, TimerExpires(v) \/ OrphanExpires(v)
  PROVE  IInv' /\ Chosen /\ Kept
<1>1. /\ TypeOK /\ repo \in Repository /\ hal \in Hal /\ ive \in Ive /\ QueueOK(repo)
      /\ cameraOpen \in BOOLEAN /\ client \in ClientType
  BY StillParts
<1>2. cmds' = Append(cmds, Failed(v, "TIMEOUT"))
      /\ hal' = hal /\ ive' = ive /\ cameraOpen' = cameraOpen /\ client' = client
      /\ UNCHANGED <<result, recorder, strategy, suspend, starting, history>>
  BY DEF TimerExpires, OrphanExpires, Queue
<1>3. SameJobs(repo, repo')
  <2>1. CASE TimerExpires(v)
    <3>. DEFINE t == [repo EXCEPT !.job[v].timer = FALSE]
    <3>1. repo.job[v].timer /\ repo' = t
      BY <2>1 DEF TimerExpires
    <3>2. Present(repo, v)
      <4>1. repo.job[v] \in Job \cup {NoJob}
        BY <1>1, RankType
      <4>. QED  BY <3>1, <4>1 DEF Present, NoJob, Job, JobState
    <3>3. Changed(repo, t, v) /\ t.job[v] = [repo.job[v] EXCEPT !.timer = FALSE] /\ t.running = repo.running
      BY <1>1, <3>2, SetTimerIs
    <3>4. repo.job[v] \in Job
      BY <1>1, <3>2, JobIs
    <3>. HIDE DEF t
    <3>5. SameJobs(repo, t)
      BY <3>3, <3>4 DEF SameJobs, Changed, Job
    <3>. QED  BY <3>1, <3>5
  <2>2. CASE OrphanExpires(v)
    <3>. DEFINE t == [repo EXCEPT !.orphans = @ \ {v}]
    <3>1. repo' = t
      BY <2>2 DEF OrphanExpires
    <3>2. t \in Repository /\ t.heap = repo.heap /\ t.before = repo.before /\ t.job = repo.job
          /\ t.running = repo.running
      BY <1>1 DEF Repository
    <3>. HIDE DEF t
    <3>3. Changed(repo, t, v)
      BY <1>1, <3>2, QueueSame
    <3>4. SameJobs(repo, t)
      BY <3>2, <3>3 DEF SameJobs, Changed
    <3>. QED  BY <3>1, <3>4
  <2>. QED  BY <2>1, <2>2
<1>4. repo' \in Repository
  BY <1>3 DEF SameJobs, QueueOK
<1>5. Silent(Failed(v, "TIMEOUT"))
  BY SilentCommands
<1>. DEFINE c == Failed(v, "TIMEOUT")
<1>6. Silent(c) /\ cmds' = Append(cmds, c)
  BY <1>2, <1>5
<1>. HIDE DEF c
<1>7. \E d : Silent(d) /\ (cmds' = Append(cmds, d) \/ cmds' = <<d>> \o cmds)
  BY <1>6
<1>8. NewSession
  BY <1>2 DEF NewSession
<1>. QED  BY <1>1, <1>2, <1>3, <1>4, <1>7, <1>8, SilentStep

LEMMA SuspendStep ==
  ASSUME IInv, Clock, SuspendFires \/ SuspendCleared \/ SuspendCounted \/ SuspendPauses
  PROVE  IInv' /\ Chosen /\ Kept
<1>1. /\ TypeOK /\ repo \in Repository /\ hal \in Hal /\ ive \in Ive /\ strategy \in Strategy
      /\ suspend \in Suspend /\ cameraOpen \in BOOLEAN /\ client \in ClientType
      /\ cmds \in Seq(Command) /\ overlapped \subseteq Video /\ starting \in Video \cup {"none"}
      /\ GateOK(strategy) /\ TimerNamed(suspend)
      /\ SessionOK(hal, ive, repo, cmds) /\ AnswersOK(repo, ive, cmds, late)
  BY StillParts
<1>2. /\ repo' = repo /\ result' = result /\ recorder' = recorder /\ starting' = starting
      /\ hal' = hal /\ cameraOpen' = cameraOpen /\ client' = client /\ cmds' = cmds
      /\ leaked' = leaked /\ unheard' = unheard /\ late' = late /\ trashed' = trashed
  BY DEF SuspendFires, SuspendCleared, SuspendCounted, SuspendPauses, commandState, history
<1>3. SameJobs(repo, repo')
  BY <1>2, SameRepo
<1>4. CASE SuspendFires \/ SuspendCleared \/ SuspendCounted
  <2>1. ive' = ive /\ overlapped' = overlapped
    BY <1>4 DEF SuspendFires, SuspendCleared, SuspendCounted, history
  <2>2. /\ suspend' \in Suspend /\ TimerNamed(suspend') /\ Ticking(suspend')
        /\ strategy' \in Strategy /\ GateOK(strategy')
    <3>1. CASE SuspendFires
      <4>1. PICK t \in suspend.timers : suspend' = [suspend EXCEPT !.timers = @ \ {t}, !.out = "fired"]
        BY <3>1 DEF SuspendFires
      <4>2. strategy' = strategy
        BY <3>1 DEF SuspendFires, commandState
      <4>. QED  BY <1>1, <4>1, <4>2 DEF Suspend, TimerNamed, Ticking
    <3>2. CASE SuspendCleared
      <4>1. suspend' = [suspend EXCEPT !.id = 0, !.out = "cleared"] /\ strategy' = strategy
        BY <3>2 DEF SuspendCleared, commandState
      <4>2. /\ suspend'.id = 0 /\ suspend'.out = "cleared" /\ suspend'.timers = suspend.timers
            /\ suspend' \in Suspend
        <5>1. suspend \in Suspend /\ 0 \in 0 .. 2 /\ suspend' = [suspend EXCEPT !.id = 0, !.out = "cleared"]
          BY <1>1, <4>1
        <5>. DEFINE s == suspend
        <5>2. suspend' = [s EXCEPT !.id = 0, !.out = "cleared"] /\ s \in Suspend
          BY <5>1
        <5>. HIDE DEF s
        <5>3. /\ suspend'.id = 0 /\ suspend'.out = "cleared" /\ suspend'.timers = s.timers
              /\ suspend' \in Suspend
          BY <5>1, <5>2 DEF Suspend
        <5>. QED  BY <5>3 DEF s
      <4>3. strategy' \in Strategy /\ GateOK(strategy')
        BY <1>1, <4>1
      <4>. QED  BY <4>2, <4>3 DEF TimerNamed, Ticking
    <3>3. CASE SuspendCounted
      <4>1. suspend' = [suspend EXCEPT !.out = "counted"] /\ suspend.out = "cleared"
            /\ strategy' = [strategy EXCEPT !.singleOver = TRUE]
        BY <3>3 DEF SuspendCounted
      <4>2. suspend' \in Suspend /\ TimerNamed(suspend') /\ Ticking(suspend')
        BY <1>1, <4>1 DEF Suspend, TimerNamed, Ticking
      <4>3. strategy' \in Strategy
        BY <1>1, <4>1 DEF Strategy
      <4>4. /\ strategy'.isNeedStop = strategy.isNeedStop /\ strategy'.stops = strategy.stops
            /\ strategy'.charging = strategy.charging /\ strategy'.levelLow = strategy.levelLow
            /\ strategy'.batteryLow = strategy.batteryLow
        BY <1>1, <4>1 DEF Strategy
      <4>5. GateOK(strategy')
        BY <1>1, <4>4 DEF GateOK
      <4>. QED  BY <4>2, <4>3, <4>5
    <3>. QED  BY <1>4, <3>1, <3>2, <3>3
  <2>3. SessionOK(hal', ive', repo', cmds') /\ AnswersOK(repo', ive', cmds', late')
    BY <1>1, <1>2, <2>1
  <2>4. TypeOK'
    BY <1>1, <1>2, <2>1, <2>2, StillType
  <2>5. /\ UNCHANGED <<leaked, late, trashed>> /\ overlapped \subseteq overlapped'
        /\ ive'.work \subseteq ive.work
        /\ ive.aborted /\ ive'.work # {} => ive'.aborted
    BY <1>2, <2>1
  <2>. QED  BY <1>2, <1>3, <2>2, <2>3, <2>4, <2>5, StillStep
<1>5. CASE SuspendPauses
  <2>1. /\ suspend.out = "counted" /\ suspend' = [suspend EXCEPT !.out = "idle"]
        /\ ive' = PauseRequests(ive, repo)
        /\ overlapped' = overlapped \cup ({starting} \ {"none"})
        /\ strategy' = strategy
    BY <1>5 DEF SuspendPauses, commandState
  <2>2. suspend' \in Suspend /\ TimerNamed(suspend')
    BY <1>1, <2>1 DEF Suspend, TimerNamed
  <2>3. /\ ive' \in Ive /\ ive'.work = ive.work
        /\ ive.aborted => ive'.aborted
        /\ (\E v \in repo.running : ~ IsHighJob(repo, v)) /\ hal.session = "live" /\ ive.work # {}
             => ive'.aborted
    BY <1>1, <2>1, PauseRequestsIs
  <2>4. \A v \in ive'.work \ Spared : ~ IsHighJob(repo, v) => ive'.aborted
    BY <1>1, <2>3 DEF SessionOK
  <2>5. overlapped' \subseteq Video /\ (starting = "none" \/ starting \in overlapped')
        /\ overlapped \subseteq overlapped'
    BY <1>1, <2>1
  <2>6. SessionOK(hal', ive', repo', cmds') /\ AnswersOK(repo', ive', cmds', late')
    <3>1. SessionOK(hal', ive', repo', cmds')
      BY <1>1, <1>2, <2>3 DEF SessionOK
    <3>2. AnswersOK(repo', ive', cmds', late')
      BY <1>1, <1>2, <2>3 DEF AnswersOK
    <3>. QED  BY <3>1, <3>2
  <2>7. strategy' \in Strategy /\ GateOK(strategy')
    BY <1>1, <2>1
  <2>8. TypeOK'
    BY <1>1, <1>2, <2>2, <2>3, <2>5, <2>7, StillType
  <2>9. UNCHANGED <<leaked, late, trashed>> /\ ive'.work \subseteq ive.work
    BY <1>2, <2>3
  <2>. QED  BY <1>2, <1>3, <2>2, <2>4, <2>5, <2>6, <2>7, <2>8, <2>9, StillStep
<1>. QED  BY <1>4, <1>5

LEMMA OutsideStep ==
  ASSUME IInv, Clock,
         \/ \E v \in Video :
              \/ ClientAdds(v) \/ ClientRemoves(v)
              \/ ClientCalls(v, "Restore", "restore") \/ ClientCalls(v, "Process", "request")
              \/ ClientCalls(v, "Cancel", "cancel")
         \/ ClientSynchronizes \/ ClientDies \/ ClientConnects \/ CameraChanges \/ OtherEvent
  PROVE  IInv' /\ Chosen /\ Kept
<1>1. /\ TypeOK /\ repo \in Repository /\ hal \in Hal /\ ive \in Ive
      /\ cameraOpen \in BOOLEAN /\ client \in ClientType
  BY StillParts
<1>2. /\ UNCHANGED <<repo, result, recorder, strategy, suspend, starting, history>>
      /\ hal' = hal /\ ive' = ive
      /\ cameraOpen' \in BOOLEAN /\ client' \in ClientType
      /\ \E c : Plain(c) /\ (cmds' = Append(cmds, c) \/ cmds' = <<c>> \o cmds)
  <2>1. ASSUME NEW v \in Video, ClientAdds(v)
        PROVE  <1>2!:
    <3>. DEFINE c == [op |-> "Add", video |-> v]
    <3>1. Plain(c)
      BY DEF Plain, Command
    <3>2. cmds' = Append(cmds, c)
      BY <2>1 DEF ClientAdds, Queue
    <3>. HIDE DEF c
    <3>. QED  BY <1>1, <2>1, <3>1, <3>2 DEF ClientAdds, quiet, commandState
  <2>2. ASSUME NEW v \in Video, ClientRemoves(v)
        PROVE  <1>2!:
    <3>1. PICK restorable \in BOOLEAN : Queue([op |-> "Remove", video |-> v, restorable |-> restorable])
      BY <2>2 DEF ClientRemoves
    <3>. DEFINE c == [op |-> "Remove", video |-> v, restorable |-> restorable]
    <3>2. Plain(c)
      BY DEF Plain, Command
    <3>3. cmds' = Append(cmds, c)
      BY <3>1 DEF Queue
    <3>. HIDE DEF c
    <3>. QED  BY <1>1, <2>2, <3>2, <3>3 DEF ClientRemoves, quiet, commandState
  <2>3. ASSUME NEW v \in Video, NEW op \in {"Restore", "Process", "Cancel"}, NEW feature, ClientCalls(v, op, feature)
        PROVE  <1>2!:
    <3>. DEFINE c == [op |-> op, video |-> v]
    <3>1. Plain(c)
      BY DEF Plain, Command
    <3>2. cmds' = Append(cmds, c)
      BY <2>3 DEF ClientCalls, Queue
    <3>. HIDE DEF c
    <3>. QED  BY <1>1, <2>3, <3>1, <3>2 DEF ClientCalls, quiet, commandState
  <2>4. CASE ClientSynchronizes
    <3>1. PICK videos \in SUBSET workload.videos : Queue([op |-> "Sync", videos |-> videos])
      BY <2>4 DEF ClientSynchronizes
    <3>2. videos \in SUBSET Video
      BY <1>1, <3>1, TypeParts, VideoAssumption
    <3>. DEFINE c == [op |-> "Sync", videos |-> videos]
    <3>3. Plain(c)
      BY <3>2 DEF Plain, Command
    <3>4. cmds' = Append(cmds, c)
      BY <3>1 DEF Queue
    <3>. HIDE DEF c
    <3>. QED  BY <1>1, <2>4, <3>3, <3>4 DEF ClientSynchronizes, quiet, commandState
  <2>5. CASE ClientDies
    <3>. DEFINE c == [op |-> "DeleteSession"]
    <3>1. Plain(c)
      BY DEF Plain, Command
    <3>2. cmds' = <<c>> \o cmds
      BY <2>5 DEF ClientDies, QueueUrgent
    <3>3. client' \in ClientType
      BY <1>1, <2>5 DEF ClientDies, ClientType
    <3>. HIDE DEF c
    <3>. QED  BY <1>1, <2>5, <3>1, <3>2, <3>3 DEF ClientDies, quiet, commandState
  <2>6. CASE ClientConnects
    <3>1. PICK n \in Info : /\ client' = [alive |-> TRUE, mapped |-> n, callback |-> {n}]
                            /\ QueueUrgent([op |-> "AddSession", info |-> n])
      BY <2>6 DEF ClientConnects
    <3>. DEFINE c == [op |-> "AddSession", info |-> n]
    <3>2. Plain(c)
      BY DEF Plain, Command
    <3>3. cmds' = <<c>> \o cmds
      BY <3>1 DEF QueueUrgent
    <3>4. client' \in ClientType
      BY <3>1 DEF ClientType
    <3>. HIDE DEF c
    <3>. QED  BY <1>1, <2>6, <3>2, <3>3, <3>4 DEF ClientConnects, quiet, commandState
  <2>7. CASE CameraChanges
    <3>. DEFINE c == Event("camera", ~ cameraOpen)
    <3>1. Plain(c)
      <4>1. "camera" \in EventType /\ (~ cameraOpen) \in BOOLEAN
        BY DEF EventType, Stop
      <4>. QED  BY <4>1, PlainCommands
    <3>2. cmds' = Append(cmds, c)
      BY <2>7 DEF CameraChanges, Queue
    <3>. HIDE DEF c
    <3>3. cameraOpen' \in BOOLEAN
      BY <2>7 DEF CameraChanges
    <3>. QED  BY <1>1, <2>7, <3>1, <3>2, <3>3 DEF CameraChanges, quiet, commandState
  <2>8. CASE OtherEvent
    <3>1. PICK type \in {"screen", "thermal", "photo", "charging", "battery", "level", "interrupt"}, value \in BOOLEAN :
            Queue(Event(type, value))
      BY <2>8 DEF OtherEvent
    <3>. DEFINE c == Event(type, value)
    <3>2. type \in EventType
      BY DEF EventType, Stop
    <3>3. Plain(c)
      BY <3>2, PlainCommands
    <3>4. cmds' = Append(cmds, c)
      BY <3>1 DEF Queue
    <3>. HIDE DEF c
    <3>. QED  BY <1>1, <2>8, <3>3, <3>4 DEF OtherEvent, quiet, commandState
  <2>. QED  BY <2>1, <2>2, <2>3, <2>4, <2>5, <2>6, <2>7, <2>8
<1>3. \E c : Silent(c) /\ (cmds' = Append(cmds, c) \/ cmds' = <<c>> \o cmds)
  BY <1>2, SilentCommands
<1>4. SameJobs(repo, repo') /\ NewSession /\ repo' \in Repository /\ hal' \in Hal /\ ive' \in Ive
      /\ ive'.work \subseteq ive.work /\ (ive.aborted /\ ive'.work # {} => ive'.aborted)
  BY <1>1, <1>2, SameRepo DEF NewSession
<1>. QED  BY <1>2, <1>3, <1>4, SilentStep

\* The answer of the HDI to the video it works on: there is none yet, and none after.
LEMMA OwnStep ==
  ASSUME IInv, Clock, NEW v \in ive.work, NEW c \in Command, c \notin Deaths,
         \A u \in Video : u # v => c \notin Own(u),
         ive' = Drop(ive, v), cmds' = Append(cmds, c), hal' = hal,
         cameraOpen' = cameraOpen, client' = client,
         UNCHANGED <<repo, result, recorder, strategy, suspend, starting, history>>
  PROVE  IInv' /\ Chosen /\ Kept
<1>1. /\ TypeOK /\ repo \in Repository /\ hal \in Hal /\ ive \in Ive /\ strategy \in Strategy
      /\ suspend \in Suspend /\ cameraOpen \in BOOLEAN /\ client \in ClientType
      /\ cmds \in Seq(Command) /\ overlapped \subseteq Video /\ starting \in Video \cup {"none"}
      /\ GateOK(strategy) /\ TimerNamed(suspend)
      /\ SessionOK(hal, ive, repo, cmds) /\ AnswersOK(repo, ive, cmds, late)
  BY StillParts
<1>2. /\ ive' \in Ive /\ ive'.work = ive.work \ {v}
      /\ ive.aborted /\ ive'.work # {} => ive'.aborted
  BY <1>1, DropIs
<1>3. v \in Video
  BY <1>1 DEF Ive
<1>4. /\ UNCHANGED <<leaked, late, trashed>> /\ overlapped' = overlapped /\ unheard' = unheard
  BY DEF history
<1>5. /\ cmds' \in Seq(Command)
      /\ \A A : c \notin A =>
           /\ None(cmds', A) <=> None(cmds, A)
           /\ Once(cmds, A) => Once(cmds', A)
      /\ \A A : None(cmds, A) => Once(cmds', A)
  BY <1>1, MoreQueue
<1>6. SessionOK(hal', ive', repo', cmds')
  BY <1>1, <1>2, <1>5 DEF SessionOK
<1>7. AnswersOK(repo', ive', cmds', late')
  <2>. SUFFICES ASSUME NEW u \in Video, u \notin late
                PROVE  /\ Once(cmds', Own(u))
                       /\ u \in ive'.work => None(cmds', Own(u))
                       /\ u \in ive'.work \/ ~ None(cmds', Own(u)) => repo'.job[u].state # "COMPLETED"
    BY <1>4 DEF AnswersOK
  <2>1. /\ Once(cmds, Own(u))
        /\ u \in ive.work => None(cmds, Own(u))
        /\ u \in ive.work \/ ~ None(cmds, Own(u)) => repo.job[u].state # "COMPLETED"
    BY <1>1 DEF AnswersOK
  <2>2. CASE u = v
    BY <1>2, <1>5, <2>1, <2>2
  <2>3. CASE u # v
    BY <1>2, <1>5, <2>1, <2>3
  <2>. QED  BY <2>2, <2>3
<1>8. TypeOK'
  <2>1. hal' \in Hal /\ repo' \in Repository /\ strategy' \in Strategy /\ suspend' \in Suspend
        /\ cameraOpen' \in BOOLEAN /\ client' \in ClientType /\ overlapped' \subseteq Video
    BY <1>1, <1>4
  <2>. QED  BY <1>1, <1>2, <1>4, <1>5, <2>1, StillType
<1>9. SameJobs(repo, repo') /\ overlapped \subseteq overlapped' /\ GateOK(strategy') /\ TimerNamed(suspend')
      /\ ive'.work \subseteq ive.work
      /\ (Ticking(suspend) => Ticking(suspend'))
  BY <1>1, <1>2, <1>4, SameRepo
<1>. QED  BY <1>2, <1>4, <1>6, <1>7, <1>8, <1>9, StillStep

LEMMA AnsweringStep ==
  ASSUME IInv, Clock, NEW v \in Video, IveDone(v) \/ IveFails(v)
  PROVE  IInv' /\ Chosen /\ Kept
<1>1. /\ v \in ive.work /\ ive' = Drop(ive, v) /\ hal' = hal
      /\ cameraOpen' = cameraOpen /\ client' = client
      /\ UNCHANGED <<repo, result, recorder, strategy, suspend, starting, history>>
  BY DEF IveDone, IveFails, quiet, commandState
<1>2. \E c \in Command : /\ cmds' = Append(cmds, c) /\ c \notin Deaths
                         /\ \A u \in Video : u # v => c \notin Own(u)
  <2>1. CASE IveDone(v)
    <3>. DEFINE c == [op |-> "Success", video |-> v]
    <3>1. c \in Command /\ c \notin Deaths /\ \A u \in Video : u # v => c \notin Own(u)
      BY SuccessCommand
    <3>2. cmds' = Append(cmds, c)
      BY <2>1 DEF IveDone, Queue
    <3>. HIDE DEF c
    <3>. QED  BY <3>1, <3>2
  <2>2. CASE IveFails(v)
    <3>1. PICK e \in workload.errors \cup (IF ive.aborted THEN {"INTERRUPTED"} ELSE {}) : Queue(Failed(v, e))
      BY <2>2 DEF IveFails
    <3>2. e \in Error
      <4>1. workload \in Workload
        BY TypeParts DEF IInv
      <4>2. workload.errors \subseteq {"FAILED", "OTHER"}
        BY <4>1, VideoAssumption
      <4>. QED  BY <3>1, <4>2 DEF Error
    <3>. DEFINE c == Failed(v, e)
    <3>3. c \in Command /\ c \notin Deaths /\ \A u \in Video : u # v => c \notin Own(u)
      BY <3>2, FailedCommand
    <3>4. cmds' = Append(cmds, c)
      BY <3>1 DEF Queue
    <3>. HIDE DEF c
    <3>. QED  BY <3>3, <3>4
  <2>. QED  BY <2>1, <2>2
<1>3. PICK c \in Command : /\ cmds' = Append(cmds, c) /\ c \notin Deaths
                           /\ \A u \in Video : u # v => c \notin Own(u)
  BY <1>2
<1>. QED  BY <1>1, <1>3, OwnStep

LEMMA ServiceStep ==
  ASSUME IInv, Clock, IveRestarts \/ ServiceStarted
  PROVE  IInv' /\ Chosen /\ Kept
<1>1. /\ TypeOK /\ repo \in Repository /\ hal \in Hal /\ ive \in Ive
      /\ cameraOpen \in BOOLEAN /\ client \in ClientType
  BY StillParts
<1>2. /\ UNCHANGED <<repo, result, recorder, strategy, suspend, starting, history>>
      /\ cameraOpen' = cameraOpen /\ client' = client
  BY DEF IveRestarts, ServiceStarted, quiet, commandState
<1>3. ive' \in Ive /\ ive'.work = ive.work /\ ive'.aborted = ive.aborted
  BY <1>1 DEF IveRestarts, ServiceStarted, Ive
<1>4. /\ NewSession /\ hal' \in Hal
      /\ \/ cmds' = cmds
         \/ cmds' = Append(cmds, Event("hal", FALSE))
  <2>1. CASE hal' = hal /\ cmds' = cmds
    BY <1>1, <2>1 DEF NewSession
  <2>2. CASE /\ ServiceStarted /\ hal.session = "null"
    <3>1. hal' = [hal EXCEPT !.session = "live"] /\ Queue(Event("hal", FALSE))
      BY <2>2 DEF ServiceStarted
    <3>. QED  BY <1>1, <2>2, <3>1 DEF Hal, NewSession, Queue
  <2>. QED  BY <2>1, <2>2 DEF IveRestarts, ServiceStarted
<1>5. Silent(Event("hal", FALSE))
  <2>1. "hal" \in EventType
    BY DEF EventType, Stop
  <2>. QED  BY <2>1, PlainCommands, SilentCommands
<1>6. \/ cmds' = cmds
      \/ \E c : Silent(c) /\ (cmds' = Append(cmds, c) \/ cmds' = <<c>> \o cmds)
  <2>. DEFINE d == Event("hal", FALSE)
  <2>1. Silent(d) /\ (cmds' = cmds \/ cmds' = Append(cmds, d))
    BY <1>4, <1>5
  <2>. HIDE DEF d
  <2>. QED  BY <2>1
<1>7. SameJobs(repo, repo') /\ repo' \in Repository /\ cameraOpen' \in BOOLEAN /\ client' \in ClientType
      /\ ive'.work \subseteq ive.work /\ (ive.aborted /\ ive'.work # {} => ive'.aborted)
  BY <1>1, <1>2, <1>3, SameRepo
<1>. QED  BY <1>2, <1>3, <1>4, <1>6, <1>7, SilentStep

\* The HDI's process dies: one command tells of it.
LEMMA IveDiesStep ==
  ASSUME IInv, Clock, IveDies
  PROVE  IInv' /\ Chosen /\ Kept
<1>1. /\ TypeOK /\ repo \in Repository /\ hal \in Hal /\ ive \in Ive /\ strategy \in Strategy
      /\ suspend \in Suspend /\ cameraOpen \in BOOLEAN /\ client \in ClientType
      /\ cmds \in Seq(Command) /\ overlapped \subseteq Video /\ starting \in Video \cup {"none"}
      /\ GateOK(strategy) /\ TimerNamed(suspend)
      /\ SessionOK(hal, ive, repo, cmds) /\ AnswersOK(repo, ive, cmds, late)
  BY StillParts
<1>2. /\ UNCHANGED <<repo, result, recorder, strategy, suspend, starting, history>>
      /\ cameraOpen' = cameraOpen /\ client' = client
      /\ ive' = [alive |-> FALSE, work |-> {}, aborted |-> FALSE, started |-> FALSE]
  BY DEF IveDies, quiet, commandState
<1>3. ive' \in Ive /\ ive'.work = {}
  BY <1>2 DEF Ive
<1>. DEFINE c == [op |-> "VideoDied"]
<1>4. c \in Command /\ \A v \in Video : c \notin Own(v)
  BY DEF Command, Own
<1>5. /\ Append(cmds, c) \in Seq(Command)
      /\ \A v \in Video : /\ None(Append(cmds, c), Own(v)) <=> None(cmds, Own(v))
                          /\ Once(cmds, Own(v)) => Once(Append(cmds, c), Own(v))
      /\ None(cmds, Deaths) => Once(Append(cmds, c), Deaths)
  BY <1>1, <1>4, MoreQueue
<1>6. /\ hal' \in Hal /\ cmds' \in Seq(Command)
      /\ \A v \in Video : /\ None(cmds', Own(v)) <=> None(cmds, Own(v))
                          /\ Once(cmds, Own(v)) => Once(cmds', Own(v))
      /\ Once(cmds', Deaths) /\ (hal'.session # "dead" => None(cmds', Deaths))
  <2>1. Once(cmds, Deaths) /\ (hal.session # "dead" => None(cmds, Deaths))
    BY <1>1 DEF SessionOK
  <2>2. CASE hal.session = "live"
    <3>1. hal' = [hal EXCEPT !.session = "dead"] /\ cmds' = Append(cmds, c)
      BY <1>1, <2>2 DEF IveDies, Queue, Hal
    <3>2. hal' \in Hal /\ hal'.session = "dead"
      BY <1>1, <3>1 DEF Hal
    <3>. HIDE DEF c
    <3>. QED  BY <1>5, <2>1, <2>2, <3>1, <3>2
  <2>3. CASE hal.session # "live"
    <3>1. hal' = hal /\ cmds' = cmds
      BY <1>1, <2>3 DEF IveDies, Hal
    <3>. QED  BY <1>1, <2>1, <3>1
  <2>. QED  BY <2>2, <2>3
<1>7. SessionOK(hal', ive', repo', cmds')
  BY <1>3, <1>6 DEF SessionOK
<1>8. UNCHANGED <<leaked, late, trashed>> /\ overlapped' = overlapped /\ unheard' = unheard
  BY <1>2 DEF history
<1>9. AnswersOK(repo', ive', cmds', late')
  <2>1. \A v \in Video \ late :
           /\ Once(cmds, Own(v)) => Once(cmds', Own(v))
           /\ None(cmds, Own(v)) => None(cmds', Own(v))
           /\ repo'.job[v].state = "COMPLETED" => repo.job[v].state = "COMPLETED"
    BY <1>2, <1>6
  <2>2. late \subseteq late' /\ ive'.work \subseteq ive.work
    BY <1>3, <1>8
  <2>. QED  BY <1>1, <2>1, <2>2, AnswersSame
<1>10. TypeOK'
  <2>1. repo' \in Repository /\ strategy' \in Strategy /\ suspend' \in Suspend
        /\ cameraOpen' \in BOOLEAN /\ client' \in ClientType /\ overlapped' \subseteq Video
    BY <1>1, <1>2, <1>8
  <2>. QED  BY <1>1, <1>2, <1>3, <1>6, <1>8, <2>1, StillType
<1>11. SameJobs(repo, repo') /\ overlapped \subseteq overlapped' /\ GateOK(strategy') /\ TimerNamed(suspend')
       /\ ive'.work \subseteq ive.work
       /\ (Ticking(suspend) => Ticking(suspend'))
       /\ (ive.aborted /\ ive'.work # {} => ive'.aborted)
  BY <1>1, <1>2, <1>3, <1>8, SameRepo
<1>. QED  BY <1>2, <1>7, <1>8, <1>9, <1>10, <1>11, StillStep
-----------------------------------------------------------------------------
(***************************************************************************)
(* The inductive invariant.                                                *)
(***************************************************************************)
LEMMA InitIInv == Init => IInv
<1>. SUFFICES ASSUME Init
              PROVE  IInv
  OBVIOUS
<1>. DEFINE i == CHOOSE n \in Info : TRUE
            r == [job |-> [v \in Video |-> NoJob], before |-> {}, heap |-> <<>>, running |-> {}, orphans |-> {}]
            st == [isNeedStop |-> FALSE, stops |-> {}, charging |-> workload.charging, batteryLow |-> FALSE,
                   levelLow |-> FALSE, singleOver |-> FALSE, totalOver |-> FALSE]
<1>1. i \in Info
  BY VideoAssumption
<1>2. workload \in Workload /\ workload.charging \in BOOLEAN /\ workload.maxCalls \in Nat /\ calls = 0
  BY VideoAssumption DEF Init
<1>3. /\ repo = r /\ strategy = st
      /\ result = [crash |-> [v \in Video |-> 0], cache |-> [v \in Video |-> "none"]]
      /\ hal = [session |-> "live", runningId |-> {}]
      /\ ive = [alive |-> TRUE, work |-> {}, aborted |-> FALSE, started |-> FALSE]
      /\ recorder = "none" /\ starting = "none" /\ cameraOpen = FALSE
      /\ suspend = [timers |-> {}, id |-> 0, out |-> "idle"]
      /\ client = [alive |-> TRUE, mapped |-> i, callback |-> {i}]
      /\ cmds = <<>>
      /\ leaked = {} /\ unheard = {} /\ late = {} /\ overlapped = {} /\ trashed = FALSE
  BY DEF Init
<1>. HIDE DEF i
<1>4. r \in Repository /\ \A v \in Video : r.job[v].state = "NONE"
  <2>1. [v \in Video |-> NoJob] \in [Video -> Job \cup {NoJob}]
    OBVIOUS
  <2>2. <<>> \in Seq(Video)
    OBVIOUS
  <2>3. r \in Repository
    BY <2>1, <2>2 DEF Repository
  <2>4. \A v \in Video : r.job[v].state = "NONE"
    BY DEF NoJob
  <2>. QED  BY <2>3, <2>4
<1>5. st \in Strategy /\ GateOK(st)
  BY <1>2 DEF Strategy, GateOK
<1>6. r.heap = <<>> /\ r.before = {} /\ r.running = {}
  OBVIOUS
<1>. HIDE DEF r, st
<1>7. result \in Result
  <2>1. [v \in Video |-> 0] \in [Video -> 0 .. 3]
    <3>1. 0 \in 0 .. 3
      OBVIOUS
    <3>. QED  BY <3>1
  <2>2. [v \in Video |-> "none"] \in [Video -> {"none", "done", "fatal", "other"}]
    OBVIOUS
  <2>. QED  BY <1>3, <2>1, <2>2 DEF Result
<1>8. hal \in Hal /\ ive \in Ive /\ suspend \in Suspend /\ client \in ClientType /\ ive.work = {}
  BY <1>1, <1>3 DEF Hal, Ive, Suspend, ClientType
<1>9. TypeOK
  <2>1. calls \in 0 .. workload.maxCalls
    BY <1>2
  <2>2. cmds \in Seq(Command)
    BY <1>3
  <2>. QED  BY <1>2, <1>3, <1>4, <1>5, <1>7, <1>8, <2>1, <2>2, TypeParts
<1>10. QueueOK(r) /\ Ordered(r)
  <2>1. Videos(r) = {}
    BY <1>4 DEF Videos, Present
  <2>2. Distinct(r.heap) /\ Elements(r.heap) = {} /\ HeapOrder(r.heap, Better(r))
    <3>. DEFINE h == r.heap
    <3>1. Len(h) = 0
      BY <1>6
    <3>. HIDE DEF h
    <3>2. Elements(h) = {}
      <4>1. h \in Seq(Video) /\ 1 .. Len(h) = {}
        BY <1>6, <3>1 DEF h
      <4>2. Elements(h) = {h[k] : k \in 1 .. Len(h)}
        BY <4>1 DEF Elements, SX!ToSet
      <4>. QED  BY <4>1, <4>2
    <3>3. Distinct(h)
      BY <3>1 DEF Distinct
    <3>4. HeapOrder(h, Better(r))
      BY <3>1 DEF HeapOrder
    <3>. QED  BY <3>2, <3>3, <3>4 DEF h
  <2>3. Chronological(r)
    BY <1>6, <2>1 DEF Chronological
  <2>. QED  BY <1>4, <2>1, <2>2, <2>3 DEF QueueOK, Ordered
<1>11. RunningOK(r, {})
  BY <1>4, <1>6 DEF RunningOK
<1>12. SessionOK(hal, ive, repo, cmds) /\ AnswersOK(repo, ive, cmds, late)
  <2>1. \A A : Once(cmds, A) /\ None(cmds, A)
    BY <1>3, EmptyQueue
  <2>. QED  BY <1>8, <2>1 DEF SessionOK, AnswersOK
<1>13. TimerNamed(suspend)
  BY <1>3 DEF TimerNamed
<1>14. StartOK(repo, starting) /\ StartWatched(repo, suspend, starting, overlapped)
  BY <1>3 DEF StartOK, StartWatched
<1>15. Watched(repo, suspend, ive, late \cup overlapped \cup leaked)
  BY <1>8 DEF Watched
<1>. QED  BY <1>3, <1>5, <1>9, <1>10, <1>11, <1>12, <1>13, <1>14, <1>15 DEF IInv

LEMMA StutterStep ==
  ASSUME IInv, UNCHANGED vars
  PROVE  IInv' /\ Chosen /\ Kept
<1>1. /\ workload' = workload /\ calls' = calls /\ repo' = repo /\ result' = result /\ hal' = hal /\ ive' = ive
      /\ recorder' = recorder /\ strategy' = strategy /\ suspend' = suspend /\ starting' = starting
      /\ cameraOpen' = cameraOpen /\ client' = client /\ cmds' = cmds
      /\ leaked' = leaked /\ unheard' = unheard /\ late' = late /\ overlapped' = overlapped /\ trashed' = trashed
  BY DEF vars, pipeline, history
<1>2. TypeOK'
  <2>1. TypeOK
    BY DEF IInv
  <2>. QED  BY <1>1, <2>1 DEF TypeOK
<1>3. /\ SessionOK(hal', ive', repo', cmds') /\ AnswersOK(repo', ive', cmds', late')
      /\ GateOK(strategy') /\ TimerNamed(suspend')
  BY <1>1 DEF IInv
<1>4. SameJobs(repo, repo')
  BY <1>1, SameRepo
<1>5. /\ starting' = starting /\ UNCHANGED <<leaked, late, trashed>> /\ overlapped \subseteq overlapped'
      /\ ive'.work \subseteq ive.work
      /\ (Ticking(suspend) => Ticking(suspend')) /\ (ive.aborted /\ ive'.work # {} => ive'.aborted)
  BY <1>1
<1>. QED  BY <1>2, <1>3, <1>4, <1>5, StillStep

LEMMA ClockTicks ==
  ASSUME TypeOK, Next
  PROVE  Clock
<1>1. workload \in Workload /\ calls \in 0 .. workload.maxCalls
  BY TypeParts
<1>2. workload.maxCalls \in Nat
  BY <1>1, VideoAssumption
<1>. QED  BY <1>1, <1>2 DEF Next, Clock

LEMMA NextIInv ==
  ASSUME IInv, [Next]_vars
  PROVE  IInv' /\ Chosen /\ Kept
<1>1. CASE UNCHANGED vars
  BY <1>1, StutterStep
<1>2. CASE Next
  <2>1. Clock
    BY <1>2, ClockTicks DEF IInv
  <2>2. CASE CommandThread
    <3>1. CASE HandleAdd \/ HandleSync \/ HandleRemove \/ HandleRestore \/ HandleProcess \/ HandleCancel
      BY <2>1, <3>1, AddStep, SyncStep, RemoveStep, RestoreStep, ProcessStep, CancelStep
    <3>2. CASE HandleFailed \/ HandleSuccess \/ HandleJobChanged \/ HandleVideoDied \/ DoProcess
      BY <2>1, <3>2, FailedStep, SuccessStep, JobChangedStep, DiedStep, ProcessedAll
    <3>3. CASE HandleEvent \/ HandleAddSession \/ HandleDeleteSession
      BY <2>1, <3>3, SessionsStep
    <3>. QED  BY <2>2, <3>1, <3>2, <3>3 DEF CommandThread
  <2>3. CASE TimerThread
    BY <2>1, <2>3, ExpiresStep, SuspendStep DEF TimerThread
  <2>4. CASE IveRestarts \/ ServiceStarted \/ \E v \in Video : IveDone(v) \/ IveFails(v)
    BY <2>1, <2>4, ServiceStep, AnsweringStep
  <2>5. CASE ClientConnects \/ Outside
    <3>1. CASE IveDies
      BY <2>1, <3>1, IveDiesStep
    <3>2. CASE ~ IveDies
      BY <2>1, <2>5, <3>2, OutsideStep DEF Outside
    <3>. QED  BY <3>1, <3>2
  <2>. QED  BY <1>2, <2>2, <2>3, <2>4, <2>5 DEF Next, Inside
<1>. QED  BY <1>1, <1>2
-----------------------------------------------------------------------------
(***************************************************************************)
(* Whatever the library, the HDI, the timers and the system do, the state  *)
(* of the video pipeline keeps its types.                                  *)
(***************************************************************************)
THEOREM TypeCorrect == Spec => []TypeOK
<1>1. Init => IInv
  BY InitIInv
<1>2. IInv /\ [Next]_vars => IInv'
  BY NextIInv
<1>3. IInv => TypeOK
  BY DEF IInv
<1>. QED  BY <1>1, <1>2, <1>3, PTL DEF Spec

(***************************************************************************)
(* For any videos: runningSet_, by which HasRunningJob forbids a second    *)
(* start, never has two and is exactly the RUNNING one, but for a video     *)
(* that was removed or restored while it ran, which it keeps for ever.     *)
(***************************************************************************)
THEOREM RunningSetCorrect == Spec => []RunningSetAgrees
<1>1. Init => IInv
  BY InitIInv
<1>2. IInv /\ [Next]_vars => IInv'
  BY NextIInv
<1>3. IInv => RunningSetAgrees
  <2>. SUFFICES ASSUME IInv
                PROVE  RunningSetAgrees
    OBVIOUS
  <2>1. RunningOK(repo, leaked)
    BY DEF IInv
  <2>2. \A v \in Video \ leaked : v \in repo.running <=> repo.job[v].state = "RUNNING"
    BY <2>1 DEF RunningOK
  <2>3. Cardinality(repo.running) <= 1
    <3>1. CASE repo.running = {}
      <4>1. Cardinality({}) = 0
        BY FS_EmptySet
      <4>. QED  BY <3>1, <4>1
    <3>2. CASE repo.running # {}
      <4>1. PICK v : v \in repo.running
        BY <3>2
      <4>2. repo.running = {v}
        BY <2>1, <4>1 DEF RunningOK
      <4>3. Cardinality({v}) = 1
        BY FS_Singleton
      <4>. QED  BY <4>2, <4>3
    <3>. QED  BY <3>1, <3>2
  <2>. QED  BY <2>2, <2>3 DEF RunningSetAgrees
<1>. QED  BY <1>1, <1>2, <1>3, PTL DEF Spec

(***************************************************************************)
(* For any videos: no ordinary video is worked on, on battery, unless a     *)
(* timer of the single time is registered, or its expiry is being handled,  *)
(* or the HDI was told to stop: although the timer thread clears             *)
(* normalTimeId_ whichever timer it names by then.                          *)
(***************************************************************************)
THEOREM BatteryWatched == Spec => []BatteryIsWatched
<1>1. Init => IInv
  BY InitIInv
<1>2. IInv /\ [Next]_vars => IInv'
  BY NextIInv
<1>3. IInv => BatteryIsWatched
  <2>. SUFFICES ASSUME IInv,
                       NEW v \in ive.work, v \notin late \cup overlapped \cup leaked,
                       repo.job[v].suspend, ~ IsHighJob(repo, v)
                PROVE  suspend.timers # {} \/ suspend.out # "idle" \/ ive.aborted
    BY DEF BatteryIsWatched
  <2>1. Watched(repo, suspend, ive, late \cup overlapped \cup leaked)
    BY DEF IInv
  <2>. QED  BY <2>1 DEF Watched, Ticking
<1>. QED  BY <1>1, <1>2, <1>3, PTL DEF Spec

(***************************************************************************)
(* For any videos: an ordinary video is chosen only when no state object    *)
(* stops it and, on battery, there is time left: isNeedStop_, computed when *)
(* an event comes, is not out of date when a job is chosen later, although  *)
(* the verdict for an event that changes nothing is never computed.         *)
(***************************************************************************)
THEOREM GatesRespected == Spec => GateRespected
<1>. DEFINE Allowed ==
       \A v \in Video :
         Started(v) /\ ~ IsHighJob(repo, v) =>
           /\ strategy'.stops = {}
           /\ IF strategy'.charging THEN ~ strategy'.levelLow
              ELSE ~ strategy'.batteryLow /\ ~ strategy'.singleOver /\ ~ strategy'.totalOver
<1>1. Init => IInv
  BY InitIInv
<1>2. IInv /\ [Next]_vars => IInv'
  BY NextIInv
<1>3. IInv /\ [Next]_vars => Allowed
  <2>. SUFFICES ASSUME IInv, [Next]_vars, NEW v \in Video, Started(v), ~ IsHighJob(repo, v)
                PROVE  /\ strategy'.stops = {}
                       /\ IF strategy'.charging THEN ~ strategy'.levelLow
                          ELSE ~ strategy'.batteryLow /\ ~ strategy'.singleOver /\ ~ strategy'.totalOver
    OBVIOUS
  <2>1. IInv' /\ Chosen
    BY NextIInv
  <2>2. GateOK(strategy')
    BY <2>1 DEF IInv
  <2>3. MayProcess(strategy', repo.job[v].priority)
    BY <2>1 DEF Chosen
  <2>4. ~ strategy'.isNeedStop /\ (strategy'.charging \/ ~ (strategy'.singleOver \/ strategy'.totalOver))
    BY <2>3 DEF MayProcess, IsHighJob
  <2>. QED  BY <2>2, <2>4 DEF GateOK
<1>4. Spec => [][Allowed]_vars
  <2>. HIDE DEF Allowed
  <2>. QED  BY <1>1, <1>2, <1>3, PTL DEF Spec
<1>. QED  BY <1>4 DEF GateRespected

(***************************************************************************)
(* For any videos, while none has been moved to the recycle bin: the video  *)
(* that is chosen is the best of those there are.  The heap order survives  *)
(* every call, answer, timeout and death, so no request is passed over.     *)
(***************************************************************************)
THEOREM BestIsFirst == Spec => BestFirst
<1>. DEFINE Best ==
       \A v \in Video : Started(v) /\ ~ trashed =>
         \A u \in Video \ {v} : ~ IsBetter(repo, u, v) \/ ~ Present(repo, u)
<1>1. Init => IInv
  BY InitIInv
<1>2. IInv /\ [Next]_vars => IInv'
  BY NextIInv
<1>3. IInv /\ [Next]_vars => Best
  <2>. SUFFICES ASSUME IInv, [Next]_vars, NEW v \in Video, Started(v), ~ trashed,
                       NEW u \in Video \ {v}, Present(repo, u)
                PROVE  ~ IsBetter(repo, u, v)
    OBVIOUS
  <2>. DEFINE h == repo.heap
              order == Better(repo)
              S == Videos(repo)
  <2>1. QueueOK(repo) /\ Ordered(repo) /\ v = repo.heap[1]
    BY NextIInv DEF IInv, Chosen
  <2>2. repo \in Repository /\ h \in Seq(S) /\ u \in Elements(h) /\ StrictWeak(order, S)
    BY <2>1, VideosType
  <2>3. HeapOrder(h, order)
    BY <2>1 DEF Ordered
  <2>. HIDE DEF h, order, S
  <2>4. \A i \in 1 .. Len(h) : <<h[i], h[1]>> \notin order
    BY <2>2, <2>3, RootIsBest
  <2>5. PositionOf(h, u) \in 1 .. Len(h) /\ h[PositionOf(h, u)] = u
    BY <2>2, PositionType
  <2>6. <<u, v>> \notin order
    BY <2>1, <2>4, <2>5 DEF h
  <2>. QED  BY <2>2, <2>6, BetterIs DEF order
<1>4. Spec => [][Best]_vars
  <2>. HIDE DEF Best
  <2>. QED  BY <1>1, <1>2, <1>3, PTL DEF Spec
<1>. QED  BY <1>4 DEF BestFirst

(***************************************************************************)
(* For any videos: a video that was delivered stays COMPLETED until it is   *)
(* removed or restored or a TIMEOUT or NOT_READY of it is handled; two      *)
(* answers of the HDI to one run never reach the handlers.                  *)
(***************************************************************************)
THEOREM DeliveredOnce == Spec => DeliveredStays
<1>1. Init => IInv
  BY InitIInv
<1>2. IInv /\ [Next]_vars => IInv'
  BY NextIInv
<1>3. IInv /\ [Next]_vars => Kept
  BY NextIInv
<1>4. Spec => [][Kept]_vars
  BY <1>1, <1>2, <1>3, PTL DEF Spec
<1>. QED  BY <1>4 DEF DeliveredStays, Kept
=====
