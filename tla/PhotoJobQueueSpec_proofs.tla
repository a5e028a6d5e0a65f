--------------------- MODULE PhotoJobQueueSpec_proofs ---------------------
(***************************************************************************)
(* For every set of jobs and every number of ranks: the first job of the   *)
(* photo job queue is the best, and no operation loses or duplicates a job.*)
(*                                                                         *)
(* The invariant behind both is that the vector holds every job once and   *)
(* is in heap order by the jobs' current ranks.  An owner changes a rank   *)
(* while its job is in the vector; until the Update that follows, the      *)
(* order holds only around that job, which is what UpdateAt needs.         *)
(***************************************************************************)
EXTENDS PhotoJobQueueSpec, PhotoJobQueue_proofs

Order(r) == {p \in Job \X Job : r[p[1]] > r[p[2]]}

IInv ==
  /\ heap \in Seq(Job)
  /\ rank \in [Job -> 0 .. MaxRank]
  /\ Distinct(heap)
  /\ HeapOrder(heap, Order(rank))

\* Ranks are numbers: comparing them is a strict weak order.
LEMMA OrderStrict ==
  ASSUME NEW r \in [Job -> 0 .. MaxRank]
  PROVE  StrictWeak(Order(r), Job) /\ Agrees(Order(r), Order(r), Job)
<1>1. \A a, b \in Job : <<a, b>> \in Order(r) <=> r[a] > r[b]
  BY DEF Order
<1>2. \A a \in Job : r[a] \in Int
  BY MaxRankAssumption
<1>. SUFFICES ASSUME NEW a \in Job, NEW b \in Job, NEW c \in Job
              PROVE  /\ r[a] > r[b] => ~ (r[b] > r[a])
                     /\ ~ (r[a] > r[b]) /\ ~ (r[b] > r[c]) => ~ (r[a] > r[c])
  BY <1>1 DEF StrictWeak, Agrees
<1>. QED  BY <1>2

\* How two jobs compare depends on their ranks only.
LEMMA SameRanks ==
  ASSUME NEW r, NEW s, NEW X, \A x \in X : r[x] = s[x]
  PROVE  \A a, b \in X : <<a, b>> \in Order(s) => <<a, b>> \in Order(r)
BY DEF Order

-----------------------------------------------------------------------------
\* What one step does to the membership, for the job it is about.
Touches(j) == (Members \ Members') \cup (Members' \ Members) \subseteq {j}

\* A new job is pushed with the rank it has by then.
LEMMA PushStep ==
  ASSUME IInv, NEW j \in Job, PushJob(j)
  PROVE  IInv' /\ Touches(j)
<1>1. PICK r \in 0 .. MaxRank :
        rank' = [rank EXCEPT ![j] = r] /\ heap' = Push(heap, j, Order(rank'))
  BY DEF PushJob, Order
<1>2. rank' \in [Job -> 0 .. MaxRank] /\ j \notin Elements(heap)
  BY <1>1 DEF IInv, PushJob, Members
<1>3. \A x \in Elements(heap) : rank[x] = rank'[x]
  <2>1. Elements(heap) \subseteq Job
    BY DEF IInv, Elements, SX!ToSet
  <2>. QED  BY <1>1, <1>2, <2>1 DEF IInv
<1>4. HeapOrder(heap, Order(rank'))
  BY <1>2, <1>3, SameRanks, OrderStays DEF IInv
<1>5. /\ Push(heap, j, Order(rank')) \in Seq(Job)
      /\ Elements(Push(heap, j, Order(rank'))) = Elements(heap) \cup {j}
      /\ Distinct(Push(heap, j, Order(rank')))
  BY <1>2, PushType DEF IInv
<1>6. HeapOrder(Push(heap, j, Order(rank')), Order(rank'))
  BY <1>2, <1>4, OrderStrict, PushOrder DEF IInv
<1>. QED  BY <1>1, <1>2, <1>5, <1>6 DEF IInv, Touches, Members

\* Whatever the new rank, Update puts the changed job where it belongs.
LEMMA ChangeStep ==
  ASSUME IInv, NEW j \in Job, ChangeJob(j)
  PROVE  IInv' /\ Touches(j)
<1>1. PICK r \in 0 .. MaxRank :
        rank' = [rank EXCEPT ![j] = r] /\ heap' = UpdateById(heap, j, Order(rank'))
  BY DEF ChangeJob, Order
<1>. DEFINE p == PositionOf(heap, j)
<1>2. rank' \in [Job -> 0 .. MaxRank] /\ j \in Elements(heap)
  BY <1>1 DEF IInv, ChangeJob, Members
<1>3. p \in 1 .. Len(heap) /\ heap[p] = j
  BY <1>2, PositionType DEF IInv
<1>4. \A x \in Job \ {j} : rank[x] = rank'[x]
  BY <1>1 DEF IInv
<1>5. Around(heap, Order(rank'), p)
  <2>. HIDE DEF p
  <2>. QED  BY <1>2, <1>3, <1>4, OrderStrict, SameRanks, OrderAroundChanged DEF IInv
<1>6. /\ UpdateById(heap, j, Order(rank')) \in Seq(Job)
      /\ Permutes(UpdateById(heap, j, Order(rank')), heap)
  BY UpdateByIdType DEF IInv
<1>7. HeapOrder(UpdateById(heap, j, Order(rank')), Order(rank'))
  BY <1>2, <1>5, OrderStrict, UpdateByIdOrder DEF IInv
<1>. QED  BY <1>1, <1>2, <1>6, <1>7 DEF IInv, Touches, Members, Permutes

\* The rank of a job that left does not matter to the order.
LEMMA LeaveStep ==
  ASSUME IInv, NEW j \in Job, rank' = [rank EXCEPT ![j] = 0],
         heap' \in Seq(Job), Distinct(heap'), Elements(heap') = Elements(heap) \ {j},
         HeapOrder(heap', Order(rank))
  PROVE  IInv' /\ Touches(j)
<1>1. rank' \in [Job -> 0 .. MaxRank]
  BY MaxRankAssumption DEF IInv
<1>2. Elements(heap) \subseteq Job
  BY DEF IInv, Elements, SX!ToSet
<1>3. \A x \in Elements(heap') : rank[x] = rank'[x]
  BY <1>2 DEF IInv
<1>4. HeapOrder(heap', Order(rank'))
  BY <1>1, <1>3, SameRanks, OrderStays DEF IInv
<1>5. Touches(j)
  BY DEF Touches, Members
<1>. QED  BY <1>1, <1>4, <1>5 DEF IInv

\* Remove takes out the job it names.
LEMMA RemoveStep ==
  ASSUME IInv, NEW j \in Job, RemoveJob(j)
  PROVE  IInv' /\ Touches(j)
<1>1. rank' = [rank EXCEPT ![j] = 0] /\ heap' = Remove(heap, j, Order(rank))
  BY DEF RemoveJob, Order
<1>2. StrictWeak(Order(rank), Job) /\ Agrees(Order(rank), Order(rank), Job)
  BY OrderStrict DEF IInv
<1>3. /\ heap' \in Seq(Job) /\ Distinct(heap') /\ Elements(heap') = Elements(heap) \ {j}
      /\ HeapOrder(heap', Order(rank))
  BY <1>1, <1>2, RemoveType DEF IInv
<1>. QED  BY <1>1, <1>3, LeaveStep

\* Pop takes out the first job.
LEMMA PopStep ==
  ASSUME IInv, PopJob
  PROVE  IInv' /\ \E j \in Job : Touches(j)
<1>1. /\ rank' = [rank EXCEPT ![heap[1]] = 0] /\ heap' = Pop(heap, Order(rank))
      /\ heap # <<>>
  BY DEF PopJob, Order, Peek
<1>2. /\ StrictWeak(Order(rank), Job) /\ Agrees(Order(rank), Order(rank), Job)
      /\ heap[1] \in Job
  BY <1>1, OrderStrict DEF IInv
<1>3. /\ heap' \in Seq(Job) /\ Distinct(heap') /\ Elements(heap') = Elements(heap) \ {heap[1]}
      /\ HeapOrder(heap', Order(rank))
  BY <1>1, <1>2, PopType DEF IInv
<1>. QED  BY <1>1, <1>2, <1>3, LeaveStep

-----------------------------------------------------------------------------
\* Every step preserves the invariant and is about one job at most.
LEMMA Step ==
  ASSUME IInv, Next
  PROVE  IInv' /\ \E j \in Job : Touches(j)
<1>1. CASE PopJob
  BY <1>1, PopStep
<1>2. ASSUME NEW j \in Job, PushJob(j)
      PROVE  IInv' /\ Touches(j)
  BY <1>2, PushStep
<1>3. ASSUME NEW j \in Job, ChangeJob(j)
      PROVE  IInv' /\ Touches(j)
  BY <1>3, ChangeStep
<1>4. ASSUME NEW j \in Job, RemoveJob(j)
      PROVE  IInv' /\ Touches(j)
  BY <1>4, RemoveStep
<1>. QED  BY <1>1, <1>2, <1>3, <1>4 DEF Next

\* The vector holds every job once and is in heap order, always.
THEOREM Invariance == Spec => []IInv
<1>1. Init => IInv
  <2>. SUFFICES ASSUME Init
                PROVE  IInv
    OBVIOUS
  <2>1. Distinct(<<>>) /\ HeapOrder(<<>>, Order(rank)) /\ <<>> \in Seq(Job)
    BY DEF Distinct, HeapOrder
  <2>2. rank \in [Job -> 0 .. MaxRank]
    BY MaxRankAssumption DEF Init
  <2>. QED  BY <2>1, <2>2 DEF Init, IInv
<1>2. IInv /\ [Next]_vars => IInv'
  <2>. SUFFICES ASSUME IInv, [Next]_vars
                PROVE  IInv'
    OBVIOUS
  <2>1. CASE Next
    BY <2>1, Step
  <2>2. CASE UNCHANGED vars
    BY <2>2 DEF IInv, vars
  <2>. QED  BY <2>1, <2>2
<1>. QED  BY <1>1, <1>2, PTL DEF Spec

\* Peek returns a job no member is better than, however many members.
THEOREM PeekHolds == Spec => []PeekIsBest
<1>1. IInv => PeekIsBest
  <2>. SUFFICES ASSUME IInv, heap # <<>>, NEW j \in Members
                PROVE  rank[j] <= rank[heap[1]]
    BY DEF PeekIsBest, Peek
  <2>1. PICK i \in 1 .. Len(heap) : heap[i] = j
    BY DEF Members, Elements, SX!ToSet
  <2>2. <<heap[i], heap[1]>> \notin Order(rank)
    BY OrderStrict, RootIsBest DEF IInv
  <2>3. j \in Job /\ heap[1] \in Job
    BY <2>1 DEF IInv
  <2>4. rank[j] \in Int /\ rank[heap[1]] \in Int /\ ~ (rank[j] > rank[heap[1]])
    BY <2>1, <2>2, <2>3, MaxRankAssumption DEF IInv, Order
  <2>. QED  BY <2>4
<1>. QED  BY <1>1, Invariance, PTL

\* A step changes the membership of one job at most and duplicates none.
THEOREM NoneLost == Spec => NoJobLost
<1>. DEFINE A == /\ Len(heap') = Cardinality(Members')
                 /\ Cardinality((Members \ Members') \cup (Members' \ Members)) <= 1
<1>1. IInv /\ [Next]_vars => [A]_vars
  <2>. SUFFICES ASSUME IInv, Next
                PROVE  A
    OBVIOUS
  <2>1. IInv' /\ \E j \in Job : Touches(j)
    BY Step
  <2>2. Len(heap') = Cardinality(Members')
    BY <2>1, LenIsCardinality DEF IInv, Members
  <2>3. PICK j \in Job : (Members \ Members') \cup (Members' \ Members) \in SUBSET {j}
    BY <2>1 DEF Touches
  <2>4. Cardinality((Members \ Members') \cup (Members' \ Members)) <= 1
    <3>. DEFINE D == (Members \ Members') \cup (Members' \ Members)
    <3>1. IsFiniteSet({j}) /\ Cardinality({j}) = 1
      BY FS_Singleton
    <3>2. D \in SUBSET {j}
      BY <2>3
    <3>. HIDE DEF D
    <3>3. Cardinality(D) <= 1
      BY <3>1, <3>2, FS_Subset
    <3>. QED  BY <3>3 DEF D
  <2>. QED  BY <2>2, <2>4
<1>. QED  BY <1>1, Invariance, PTL DEF Spec, NoJobLost
=============================================================================
