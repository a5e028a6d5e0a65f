------------------------- MODULE PhotoJobQueueSpec -------------------------
(***************************************************************************)
(* The photo job queue as a component of its own: its clients push jobs,   *)
(* change the fields the comparison reads and update the job afterwards,   *)
(* remove jobs and pop the best one.  A job's rank stands for the fields   *)
(* (state, priority, creation time); ranks may be equal.                   *)
(***************************************************************************)
EXTENDS Naturals, Sequences, FiniteSets, PhotoJobQueue

CONSTANTS Job, MaxRank

ASSUME MaxRankAssumption == MaxRank \in Nat

VARIABLES
  heap,  \* a sequence of jobs
  rank   \* of every job, 0 .. MaxRank

vars == <<heap, rank>>

Members == Elements(heap)

Peek == heap[1]

Init == /\ heap = <<>>
        /\ rank = [j \in Job |-> 0]

PushJob(j) ==
  /\ j \notin Members
  /\ \E r \in 0 .. MaxRank :
       LET better == {p \in Job \X Job : rank'[p[1]] > rank'[p[2]]}
       IN  /\ rank' = [rank EXCEPT ![j] = r]
           /\ heap' = Push(heap, j, better)

\* The owner changes the job in place and calls UpdateById.
ChangeJob(j) ==
  /\ j \in Members
  /\ \E r \in 0 .. MaxRank :
       LET better == {p \in Job \X Job : rank'[p[1]] > rank'[p[2]]}
       IN  /\ rank' = [rank EXCEPT ![j] = r]
           /\ heap' = UpdateById(heap, j, better)

RemoveJob(j) ==
  LET better == {p \in Job \X Job : rank[p[1]] > rank[p[2]]}
  IN  /\ j \in Members
      /\ heap' = Remove(heap, j, better)
      /\ rank' = [rank EXCEPT ![j] = 0]

PopJob ==
  LET better == {p \in Job \X Job : rank[p[1]] > rank[p[2]]}
  IN  /\ heap # <<>>
      /\ heap' = Pop(heap, better)
      /\ rank' = [rank EXCEPT ![Peek] = 0]

Next == \/ PopJob
        \/ \E j \in Job : PushJob(j) \/ ChangeJob(j) \/ RemoveJob(j)

Spec == Init /\ [][Next]_vars
-----------------------------------------------------------------------------
(***************************************************************************)
(* The queue's promise to the scheduler: no member is better than the one  *)
(* Peek returns, whatever sequence of pushes, changes of one job and       *)
(* removals from the middle came before.                                   *)
(***************************************************************************)
PeekIsBest == heap # <<>> => \A j \in Members : rank[j] <= rank[Peek]

(***************************************************************************)
(* Sifting loses and duplicates nothing: a step changes the membership of  *)
(* one job at most, and the vector holds every member once.                *)
(***************************************************************************)
NoJobLost ==
  [][ /\ Len(heap') = Cardinality(Members')
      /\ Cardinality((Members \ Members') \cup (Members' \ Members)) <= 1 ]_vars
=============================================================================
