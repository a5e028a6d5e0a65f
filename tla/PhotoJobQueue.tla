--------------------------- MODULE PhotoJobQueue ---------------------------
(***************************************************************************)
(* PhotoJobQueue of the deferred processing service: a binary heap of jobs *)
(* kept in a vector (heap_), with an index of every job's position         *)
(* (indexMap_) and of every job by image id (catchMap_).  The heap's       *)
(* comparison reads the fields of the job objects, which their owner       *)
(* changes in place; the owner must call Update afterwards.                *)
(*                                                                         *)
(* The operators below take the heap h as a sequence (position 1 is        *)
(* heap_.front()) and the comparison as a parameter: better, the set of    *)
(* pairs <<a, b>> with a > b.  indexMap_ and catchMap_ are derived: Swap   *)
(* keeps indexMap_ equal to the positions, so a lookup is PositionOf.      *)
(***************************************************************************)
EXTENDS Naturals, Sequences
SX == INSTANCE SequencesExt

Positions(h) == 1 .. Len(h)

Elements(h) == SX!ToSet(h)

PositionOf(h, x) == CHOOSE p \in Positions(h) : h[p] = x

Swap(h, p, q) == [h EXCEPT ![p] = h[q], ![q] = h[p]]

(***************************************************************************)
(* HeapInsert(index): while the element is better than its parent they     *)
(* change places.  Rise is one round of the loop on a heap and a position; *)
(* after p rounds at the latest it is the identity.                        *)
(***************************************************************************)
Rise(s, better) ==
  LET parent == s.at \div 2
  IN  IF s.at > 1 /\ <<s.heap[s.at], s.heap[parent]>> \in better
      THEN [heap |-> Swap(s.heap, s.at, parent), at |-> parent]
      ELSE s

HeapInsert(h, p, better) ==
  LET round[n \in 0 .. p] ==
        IF n = 0 THEN [heap |-> h, at |-> p] ELSE Rise(round[n - 1], better)
  IN  round[p].heap

(***************************************************************************)
(* Heapify(index): while the better child of the element is better than    *)
(* the element, they change places.                                        *)
(***************************************************************************)
BetterChild(h, q, better) ==
  IF 2 * q + 1 <= Len(h) /\ <<h[2 * q + 1], h[2 * q]>> \in better THEN 2 * q + 1 ELSE 2 * q

Sink(s, better) ==
  LET child == BetterChild(s.heap, s.at, better)
  IN  IF 2 * s.at <= Len(s.heap) /\ <<s.heap[child], s.heap[s.at]>> \in better
      THEN [heap |-> Swap(s.heap, s.at, child), at |-> child]
      ELSE s

Heapify(h, p, better) ==
  LET round[n \in 0 .. Len(h)] ==
        IF n = 0 THEN [heap |-> h, at |-> p] ELSE Sink(round[n - 1], better)
  IN  round[Len(h)].heap

(***************************************************************************)
(* Push appends and sifts up.  Update sifts the position up and then the   *)
(* element that is now at that position down.  Remove overwrites the       *)
(* removed element with the last one and updates that.  Pop, which only    *)
(* tests call, exchanges the root with the last element and sifts down.    *)
(***************************************************************************)
Push(h, x, better) == HeapInsert(Append(h, x), Len(h) + 1, better)

\* Mutant of UpdateAt: a job that has become worse does not sink.
UpdateAt_NoSink(h, p, better) == HeapInsert(h, p, better)

UpdateAt(h, p, better) == Heapify(HeapInsert(h, p, better), p, better)

UpdateById(h, x, better) ==
  IF x \in Elements(h) THEN UpdateAt(h, PositionOf(h, x), better) ELSE h

\* Mutant of Remove: the last element is copied but not popped.
Remove_NoPop(h, x, better) ==
  IF x \notin Elements(h) THEN h
  ELSE IF x = h[Len(h)] THEN SX!Front(h)
  ELSE LET p == PositionOf(h, x)
       IN  UpdateAt([h EXCEPT ![p] = h[Len(h)]], p, better)

Remove(h, x, better) ==
  IF x \notin Elements(h) THEN h
  ELSE IF x = h[Len(h)] THEN SX!Front(h)
  ELSE LET p == PositionOf(h, x)
       IN  UpdateAt([SX!Front(h) EXCEPT ![p] = h[Len(h)]], p, better)

Pop(h, better) ==
  IF Len(h) <= 1 THEN <<>>
  ELSE Heapify([SX!Front(h) EXCEPT ![1] = h[Len(h)]], 1, better)
=============================================================================
