----------------------- MODULE PhotoJobQueue_proofs -----------------------
(***************************************************************************)
(* What the operations of the photo job queue return, for every vector and *)
(* every comparison: a vector over the same elements, and, when the        *)
(* comparison is a strict weak order, one in heap order.                   *)
(*                                                                         *)
(* The loops of HeapInsert and Heapify are recursive functions, so these   *)
(* are inductions.  Induction is used here in the form of sets: a set of   *)
(* numbers that has 0 and the successors of its elements has them all.     *)
(***************************************************************************)
EXTENDS PhotoJobQueue, FiniteSets, SequenceTheorems, FunctionTheorems, FiniteSetTheorems,
        WellFoundedInduction, TLAPS

\* Every nonempty set of natural numbers has a least element.
LEMMA Least ==
  ASSUME NEW T, T \subseteq Nat, T # {}
  PROVE  \E n \in T : \A m \in T : n <= m
<1>1. \E x \in T : \A y \in T : ~ (<<y, x>> \in OpToRel(<, Nat))
  BY NatLessThanWellFounded, WFMin
<1>2. \A x \in T, y \in T : y < x => <<y, x>> \in OpToRel(<, Nat)
  BY DEF OpToRel
<1>3. \E x \in T : \A y \in T : ~ (y < x)
  BY <1>1, <1>2, Zenon
<1>4. \A x \in T, y \in T : y < x \/ x <= y
  OBVIOUS
<1>. QED  BY <1>3, <1>4

\* A set with 0 and the successors of its elements has every number.
LEMMA Induction ==
  ASSUME NEW T, 0 \in T, \A n \in Nat : n \in T => n + 1 \in T
  PROVE  \A n \in Nat : n \in T
<1>. DEFINE U == Nat \ T
<1>. SUFFICES ASSUME U # {}
              PROVE  FALSE
  OBVIOUS
<1>1. PICK n \in U : \A m \in U : n <= m
  <2>1. U \subseteq Nat
    OBVIOUS
  <2>. HIDE DEF U
  <2>. QED  BY <2>1, Least
<1>2. n \in Nat /\ n # 0
  OBVIOUS
<1>3. n - 1 \in Nat /\ n - 1 < n /\ (n - 1) + 1 = n
  BY <1>2
<1>4. n - 1 \in T
  BY <1>1, <1>3
<1>. QED  BY <1>3, <1>4

\* The states of a loop that makes m rounds of F, from state s on.
Iterates(f, F, s, m) == f[0] = s /\ \A n \in 1 .. m : f[n] = F[f[n - 1]]

\* The loop has such a sequence of states for every number of rounds.
LEMMA Iteration ==
  ASSUME NEW S, NEW F \in [S -> S], NEW s \in S, NEW m \in Nat
  PROVE  \E f \in [0 .. m -> S] : Iterates(f, F, s, m)
<1>. DEFINE T == {k \in Nat : \E f \in [0 .. k -> S] : Iterates(f, F, s, k)}
<1>1. 0 \in T
  <2>. DEFINE f == [n \in 0 .. 0 |-> s]
  <2>1. f \in [0 .. 0 -> S] /\ f[0] = s
    OBVIOUS
  <2>. HIDE DEF f
  <2>2. Iterates(f, F, s, 0)
    BY <2>1 DEF Iterates
  <2>. QED  BY <2>1, <2>2
<1>2. ASSUME NEW k \in Nat, k \in T
      PROVE  k + 1 \in T
  <2>1. PICK f \in [0 .. k -> S] : Iterates(f, F, s, k)
    BY <1>2
  <2>. DEFINE g == [n \in 0 .. k + 1 |-> IF n = k + 1 THEN F[f[k]] ELSE f[n]]
  <2>2. g \in [0 .. k + 1 -> S] /\ g[0] = s
    BY <2>1 DEF Iterates
  <2>3. ASSUME NEW n \in 1 .. k + 1
        PROVE  g[n] = F[g[n - 1]]
    <3>1. CASE n = k + 1
      BY <3>1
    <3>2. CASE n # k + 1
      <4>1. f[n] = F[f[n - 1]]
        BY <2>1, <3>2 DEF Iterates
      <4>2. g[n] = f[n] /\ g[n - 1] = f[n - 1]
        BY <3>2
      <4>. QED  BY <4>1, <4>2
    <3>. QED  BY <3>1, <3>2
  <2>. HIDE DEF g
  <2>4. Iterates(g, F, s, k + 1)
    BY <2>2, <2>3 DEF Iterates
  <2>. QED  BY <2>2, <2>4
<1>. HIDE DEF T
<1>3. \A k \in Nat : k \in T
  BY <1>1, <1>2, Induction
<1>. QED  BY <1>3 DEF T

-----------------------------------------------------------------------------
(***************************************************************************)
(* The loops: when the rounds do not leave a set T of states, the loop ends *)
(* in the last of a chain of states in T, each a round after the one before.*)
(***************************************************************************)
Rises(f, s, p, better) == f[0] = s /\ \A n \in 1 .. p : f[n] = Rise(f[n - 1], better)

\* HeapInsert's result is the last state of a chain of rounds of Rise.
LEMMA RiseLoop ==
  ASSUME NEW T, NEW h, NEW p \in Nat, NEW better,
         [heap |-> h, at |-> p] \in T,
         \A s \in T : Rise(s, better) \in T
  PROVE  \E f \in [0 .. p -> T] : /\ Rises(f, [heap |-> h, at |-> p], p, better)
                                  /\ HeapInsert(h, p, better) = f[p].heap
<1>. DEFINE s == [heap |-> h, at |-> p]
            F == [t \in T |-> Rise(t, better)]
            loop(f) == [n \in 0 .. p |-> IF n = 0 THEN s ELSE Rise(f[n - 1], better)]
            round == CHOOSE round : round = loop(round)
<1>1. F \in [T -> T] /\ s \in T
  OBVIOUS
<1>2. PICK f \in [0 .. p -> T] : Iterates(f, F, s, p)
  <2>. HIDE DEF F, s
  <2>. QED  BY <1>1, Iteration
<1>3. f = loop(f)
  <2>. HIDE DEF s
  <2>1. ASSUME NEW n \in 0 .. p
        PROVE  f[n] = IF n = 0 THEN s ELSE Rise(f[n - 1], better)
    <3>1. CASE n = 0
      BY <1>2, <3>1 DEF Iterates
    <3>2. CASE n # 0
      <4>1. n \in 1 .. p /\ f[n - 1] \in T
        BY <3>2
      <4>. QED  BY <1>2, <3>2, <4>1 DEF Iterates
    <3>. QED  BY <3>1, <3>2
  <2>. QED  BY <2>1
<1>4. round = loop(round)
  <2>. HIDE DEF loop
  <2>. QED  BY <1>3
<1>5. /\ round[0] = s /\ \A n \in 1 .. p : round[n] = Rise(round[n - 1], better)
      /\ DOMAIN round = 0 .. p
  <2>. HIDE DEF round, s
  <2>. QED  BY <1>4
<1>6. round \in [0 .. p -> T]
  <2>. HIDE DEF round, s, F
  <2>. DEFINE K == {n \in Nat : n <= p => round[n] \in T}
  <2>1. 0 \in K
    BY <1>1, <1>5
  <2>2. ASSUME NEW n \in Nat, n \in K
        PROVE  n + 1 \in K
    <3>1. CASE n + 1 <= p
      <4>1. round[n + 1] = Rise(round[n], better)
        BY <1>5, <3>1
      <4>. QED  BY <2>2, <3>1, <4>1
    <3>. QED  BY <3>1
  <2>. HIDE DEF K
  <2>3. \A n \in Nat : n \in K
    BY <2>1, <2>2, Induction
  <2>4. \A n \in 0 .. p : round[n] \in T
    BY <2>3 DEF K
  <2>. QED  BY <1>4, <1>5, <2>4
<1>7. HeapInsert(h, p, better) = round[p].heap
  BY DEF HeapInsert
<1>. HIDE DEF round
<1>. QED  BY <1>5, <1>6, <1>7 DEF Rises

Sinks(f, s, m, better) == f[0] = s /\ \A n \in 1 .. m : f[n] = Sink(f[n - 1], better)

Heapifies(f, h, p, m, better) ==
  Sinks(f, [heap |-> h, at |-> p], m, better) /\ Heapify(h, p, better) = f[m].heap

\* Heapify's result is the last state of a chain of rounds of Sink.
LEMMA SinkLoop ==
  ASSUME NEW T, NEW h, Len(h) \in Nat, NEW p, NEW better,
         [heap |-> h, at |-> p] \in T,
         \A s \in T : Sink(s, better) \in T
  PROVE  \E f \in [0 .. Len(h) -> T] : Heapifies(f, h, p, Len(h), better)
<1>. DEFINE m == Len(h)
            s == [heap |-> h, at |-> p]
            F == [t \in T |-> Sink(t, better)]
            loop(f) == [n \in 0 .. m |-> IF n = 0 THEN s ELSE Sink(f[n - 1], better)]
            round == CHOOSE round : round = loop(round)
<1>1. F \in [T -> T] /\ s \in T /\ m \in Nat
  OBVIOUS
<1>2. PICK f \in [0 .. m -> T] : Iterates(f, F, s, m)
  <2>. HIDE DEF F, s, m
  <2>. QED  BY <1>1, Iteration
<1>3. f = loop(f)
  <2>. HIDE DEF s, m
  <2>1. ASSUME NEW n \in 0 .. m
        PROVE  f[n] = IF n = 0 THEN s ELSE Sink(f[n - 1], better)
    <3>1. CASE n = 0
      BY <1>2, <3>1 DEF Iterates
    <3>2. CASE n # 0
      <4>1. n \in 1 .. m /\ f[n - 1] \in T
        BY <1>1, <3>2
      <4>. QED  BY <1>2, <3>2, <4>1 DEF Iterates
    <3>. QED  BY <3>1, <3>2
  <2>. QED  BY <2>1
<1>4. round = loop(round)
  <2>. HIDE DEF loop
  <2>. QED  BY <1>3
<1>5. /\ round[0] = s /\ \A n \in 1 .. m : round[n] = Sink(round[n - 1], better)
      /\ DOMAIN round = 0 .. m
  <2>. HIDE DEF round, s, m
  <2>. QED  BY <1>1, <1>4
<1>6. round \in [0 .. m -> T]
  <2>. HIDE DEF round, s, F, m
  <2>. DEFINE K == {n \in Nat : n <= m => round[n] \in T}
  <2>1. 0 \in K
    BY <1>1, <1>5
  <2>2. ASSUME NEW n \in Nat, n \in K
        PROVE  n + 1 \in K
    <3>1. CASE n + 1 <= m
      <4>1. round[n + 1] = Sink(round[n], better)
        BY <1>1, <1>5, <3>1
      <4>. QED  BY <1>1, <2>2, <3>1, <4>1
    <3>. QED  BY <3>1
  <2>. HIDE DEF K
  <2>3. \A n \in Nat : n \in K
    BY <2>1, <2>2, Induction
  <2>4. \A n \in 0 .. m : round[n] \in T
    BY <1>1, <2>3 DEF K
  <2>. QED  BY <1>4, <1>5, <2>4
<1>7. Heapify(h, p, better) = round[m].heap
  BY DEF Heapify
<1>. HIDE DEF round
<1>8. Heapifies(round, h, p, m, better)
  BY <1>5, <1>7 DEF Heapifies, Sinks
<1>. HIDE DEF m
<1>9. \E g \in [0 .. m -> T] : Heapifies(g, h, p, m, better)
  BY <1>6, <1>8
<1>. QED  BY <1>9 DEF m

-----------------------------------------------------------------------------
(***************************************************************************)
(* Sifting keeps the elements, and holds none twice that was there once.   *)
(***************************************************************************)
Distinct(h) == \A i, j \in 1 .. Len(h) : h[i] = h[j] => i = j

\* g has the elements of h, as often.
Permutes(g, h) ==
  /\ Len(g) = Len(h)
  /\ Elements(g) = Elements(h)
  /\ Distinct(h) => Distinct(g)

\* Permuting twice is permuting.
LEMMA PermutesTransitive ==
  ASSUME NEW f, NEW g, NEW h, Permutes(f, g), Permutes(g, h)
  PROVE  Permutes(f, h)
BY DEF Permutes

\* What the solver needs to know of a position's parent.
LEMMA Half ==
  ASSUME NEW c \in Nat
  PROVE  /\ c \div 2 \in Nat
         /\ c # 0 => c \div 2 < c
         /\ c > 1 => c \div 2 >= 1
         /\ \A q \in Nat : c \div 2 = q <=> c = 2 * q \/ c = 2 * q + 1
OBVIOUS

\* Swap exchanges two elements and touches no other.
LEMMA SwapPermutes ==
  ASSUME NEW S, NEW h \in Seq(S), NEW p \in 1 .. Len(h), NEW q \in 1 .. Len(h)
  PROVE  /\ Swap(h, p, q) \in Seq(S)
         /\ Permutes(Swap(h, p, q), h)
         /\ \A i \in 1 .. Len(h) : Swap(h, p, q)[i] = IF i = q THEN h[p] ELSE IF i = p THEN h[q] ELSE h[i]
<1>. DEFINE g == Swap(h, p, q)
<1>1. g \in Seq(S) /\ Len(g) = Len(h)
  BY DEF Swap
<1>2. \A i \in 1 .. Len(h) : g[i] = IF i = q THEN h[p] ELSE IF i = p THEN h[q] ELSE h[i]
  BY DEF Swap
<1>. HIDE DEF g
<1>3. /\ Elements(g) = {g[i] : i \in 1 .. Len(h)}
      /\ Elements(h) = {h[i] : i \in 1 .. Len(h)}
  BY <1>1 DEF Elements, SX!ToSet
<1>4. Elements(g) \subseteq Elements(h)
  BY <1>2, <1>3
<1>5. ASSUME NEW x \in Elements(h)
      PROVE  x \in Elements(g)
  <2>1. PICK i \in 1 .. Len(h) : x = h[i]
    BY <1>3
  <2>2. h[p] = g[q] /\ h[q] = g[p]
    BY <1>2
  <2>3. i # p /\ i # q => h[i] = g[i]
    BY <1>2
  <2>. QED  BY <1>3, <2>1, <2>2, <2>3
<1>6. Distinct(h) => Distinct(g)
  BY <1>1, <1>2 DEF Distinct
<1>. QED  BY <1>1, <1>2, <1>4, <1>5, <1>6 DEF Permutes, g

\* A vector over S with the elements of h, and a position in it.
Sifted(S, h) == {s \in [heap : Seq(S), at : 1 .. Len(h)] : Permutes(s.heap, h)}

\* A round of HeapInsert keeps the elements and stays in the vector.
LEMMA RiseSifted ==
  ASSUME NEW S, NEW h \in Seq(S), NEW better, NEW s \in Sifted(S, h)
  PROVE  Rise(s, better) \in Sifted(S, h)
<1>. DEFINE up == s.at \div 2
<1>1. s.heap \in Seq(S) /\ s.at \in 1 .. Len(s.heap) /\ Permutes(s.heap, h) /\ Len(s.heap) = Len(h)
  BY DEF Sifted, Permutes
<1>2. CASE s.at > 1
  <2>1. up \in 1 .. Len(s.heap)
    BY <1>1, <1>2, Half
  <2>. HIDE DEF up
  <2>2. /\ Swap(s.heap, s.at, up) \in Seq(S)
        /\ Permutes(Swap(s.heap, s.at, up), h)
    BY <1>1, <2>1, SwapPermutes, PermutesTransitive
  <2>3. [heap |-> Swap(s.heap, s.at, up), at |-> up] \in Sifted(S, h)
    BY <1>1, <2>1, <2>2 DEF Sifted
  <2>. QED  BY <2>3 DEF Rise, up
<1>. QED  BY <1>1, <1>2 DEF Rise

\* A round of Heapify keeps the elements and stays in the vector.
LEMMA SinkSifted ==
  ASSUME NEW S, NEW h \in Seq(S), NEW better, NEW s \in Sifted(S, h)
  PROVE  Sink(s, better) \in Sifted(S, h)
<1>. DEFINE c == BetterChild(s.heap, s.at, better)
<1>1. s.heap \in Seq(S) /\ s.at \in 1 .. Len(s.heap) /\ Permutes(s.heap, h) /\ Len(s.heap) = Len(h)
  BY DEF Sifted, Permutes
<1>2. CASE 2 * s.at <= Len(s.heap)
  <2>1. c \in 1 .. Len(s.heap)
    BY <1>1, <1>2 DEF BetterChild
  <2>. HIDE DEF c
  <2>2. /\ Swap(s.heap, s.at, c) \in Seq(S)
        /\ Permutes(Swap(s.heap, s.at, c), h)
    BY <1>1, <2>1, SwapPermutes, PermutesTransitive
  <2>3. [heap |-> Swap(s.heap, s.at, c), at |-> c] \in Sifted(S, h)
    BY <1>1, <2>1, <2>2 DEF Sifted
  <2>. QED  BY <2>3 DEF Sink, c
<1>. QED  BY <1>1, <1>2 DEF Sink

\* HeapInsert keeps the elements.
LEMMA HeapInsertPermutes ==
  ASSUME NEW S, NEW h \in Seq(S), NEW p \in 1 .. Len(h), NEW better
  PROVE  HeapInsert(h, p, better) \in Seq(S) /\ Permutes(HeapInsert(h, p, better), h)
<1>1. [heap |-> h, at |-> p] \in Sifted(S, h)
  BY DEF Sifted, Permutes
<1>2. \A s \in Sifted(S, h) : Rise(s, better) \in Sifted(S, h)
  BY RiseSifted
<1>3. PICK f \in [0 .. p -> Sifted(S, h)] : HeapInsert(h, p, better) = f[p].heap
  <2>1. p \in Nat
    OBVIOUS
  <2>. QED  BY <1>1, <1>2, <2>1, RiseLoop
<1>4. f[p] \in Sifted(S, h)
  OBVIOUS
<1>. QED  BY <1>3, <1>4 DEF Sifted

\* Heapify keeps the elements, from a position past the end too.
LEMMA HeapifyPermutes ==
  ASSUME NEW S, NEW h \in Seq(S), NEW p \in Nat \ {0}, NEW better
  PROVE  Heapify(h, p, better) \in Seq(S) /\ Permutes(Heapify(h, p, better), h)
<1>1. CASE p \in 1 .. Len(h)
  <2>1. [heap |-> h, at |-> p] \in Sifted(S, h)
    BY <1>1 DEF Sifted, Permutes
  <2>2. \A s \in Sifted(S, h) : Sink(s, better) \in Sifted(S, h)
    BY SinkSifted
  <2>3. Len(h) \in Nat
    OBVIOUS
  <2>4. PICK f \in [0 .. Len(h) -> Sifted(S, h)] : Heapifies(f, h, p, Len(h), better)
    BY <2>1, <2>2, <2>3, SinkLoop
  <2>5. f[Len(h)] \in Sifted(S, h)
    BY <2>3
  <2>. QED  BY <2>4, <2>5 DEF Sifted, Heapifies
<1>2. CASE p \notin 1 .. Len(h)
  <2>. DEFINE T == {[heap |-> h, at |-> p]}
  <2>1. [heap |-> h, at |-> p] \in T /\ \A t \in T : Sink(t, better) \in T
    BY <1>2 DEF Sink
  <2>2. Len(h) \in Nat
    OBVIOUS
  <2>3. PICK f \in [0 .. Len(h) -> T] : Heapifies(f, h, p, Len(h), better)
    <3>. HIDE DEF T
    <3>. QED  BY <2>1, <2>2, SinkLoop
  <2>4. f[Len(h)].heap = h
    BY <2>2
  <2>. QED  BY <2>3, <2>4 DEF Permutes, Heapifies
<1>. QED  BY <1>1, <1>2

-----------------------------------------------------------------------------
(***************************************************************************)
(* The order.  A vector is in heap order when no element is better than    *)
(* its parent.  While an element moves, the order holds Around it: between *)
(* all others, its children and its parent included.                       *)
(***************************************************************************)
StrictWeak(order, S) ==
  \A a, b, c \in S :
    /\ <<a, b>> \in order => <<b, a>> \notin order
    /\ <<a, b>> \notin order /\ <<b, c>> \notin order => <<a, c>> \notin order

\* The comparison decides as the order does, where the order decides at all.
Agrees(better, order, S) ==
  \A a, b \in S :
    /\ <<a, b>> \in order => <<a, b>> \in better
    /\ <<a, b>> \in better => <<b, a>> \notin order

HeapOrder(h, order) == \A c \in 2 .. Len(h) : <<h[c], h[c \div 2]>> \notin order

Around(h, order, q) ==
  \A c \in 2 .. Len(h) :
    /\ c # q /\ c \div 2 # q => <<h[c], h[c \div 2]>> \notin order
    /\ c \div 2 = q /\ q > 1 => <<h[c], h[q \div 2]>> \notin order

Below(h, order, q) == \A c \in 2 .. Len(h) : c \div 2 = q => <<h[c], h[q]>> \notin order

Above(h, order, q) == q > 1 => <<h[q], h[q \div 2]>> \notin order

\* When the moving element fits where it is, the vector is in order.
LEMMA OrderAround ==
  ASSUME NEW S, NEW h \in Seq(S), NEW order, NEW q \in 1 .. Len(h),
         Around(h, order, q), Below(h, order, q), Above(h, order, q)
  PROVE  HeapOrder(h, order)
<1>. SUFFICES ASSUME NEW c \in 2 .. Len(h)
              PROVE  <<h[c], h[c \div 2]>> \notin order
  BY DEF HeapOrder
<1>1. CASE c = q
  BY <1>1 DEF Above
<1>2. CASE c \div 2 = q
  BY <1>2 DEF Below
<1>. QED  BY <1>1, <1>2 DEF Around

\* An element that rises leaves order around its new place, and below it.
LEMMA RiseOrder ==
  ASSUME NEW S, NEW h \in Seq(S), NEW order, StrictWeak(order, S), NEW q \in 2 .. Len(h),
         <<h[q \div 2], h[q]>> \notin order, Around(h, order, q)
  PROVE  LET up == q \div 2
         IN  /\ Around(Swap(h, q, up), order, up)
             /\ Below(Swap(h, q, up), order, up)
<1>. DEFINE up == q \div 2
            g == Swap(h, q, up)
<1>1. up \in 1 .. Len(h) /\ up < q /\ up \in Nat
  BY Half
<1>2. /\ Len(g) = Len(h)
      /\ \A i \in 1 .. Len(h) : g[i] = IF i = up THEN h[q] ELSE IF i = q THEN h[up] ELSE h[i]
  <2>. HIDE DEF up
  <2>. QED  BY <1>1, SwapPermutes DEF Permutes
<1>. HIDE DEF g
<1>11. \A c \in 2 .. Len(h) : c \div 2 = q => <<h[c], h[up]>> \notin order
  <2>1. q > 1
    OBVIOUS
  <2>. QED  BY <2>1, Zenon DEF Around
<1>3. ASSUME NEW c \in 2 .. Len(h)
      PROVE  c \in 1 .. Len(h) /\ c \div 2 \in 1 .. Len(h) /\ c \div 2 < c /\ h[c] \in S /\ h[c \div 2] \in S
  <2>1. c \in 1 .. Len(h) /\ c \div 2 \in 1 .. Len(h) /\ c \div 2 < c
    BY Half
  <2>. QED  BY <2>1
<1>4. h[q] \in S /\ h[up] \in S
  BY <1>1
<1>. HIDE DEF up
<1>5. ASSUME NEW c \in 2 .. Len(h), c # up, c \div 2 # up
      PROVE  <<g[c], g[c \div 2]>> \notin order
  <2>1. c # q
    BY <1>5 DEF up
  <2>2. CASE c \div 2 = q
    <3>1. g[c] = h[c] /\ g[c \div 2] = h[up]
      BY <1>1, <1>2, <1>3, <1>5, <2>1, <2>2
    <3>. QED  BY <1>11, <2>2, <3>1
  <2>3. CASE c \div 2 # q
    <3>1. g[c] = h[c] /\ g[c \div 2] = h[c \div 2]
      BY <1>2, <1>3, <1>5, <2>1, <2>3
    <3>. QED  BY <2>1, <2>3, <3>1 DEF Around
  <2>. QED  BY <2>2, <2>3
<1>6. ASSUME NEW c \in 2 .. Len(h), c \div 2 = up
      PROVE  /\ c # up
             /\ c = q => g[c] = h[up]
             /\ c # q => g[c] = h[c] /\ <<h[c], h[up]>> \notin order
  <2>1. c # up
    BY <1>3, <1>6
  <2>2. CASE c = q
    BY <1>1, <1>2, <2>1, <2>2
  <2>3. CASE c # q
    <3>1. g[c] = h[c]
      BY <1>2, <1>3, <2>1, <2>3
    <3>2. c \div 2 # q
      BY <1>1, <1>6
    <3>. QED  BY <1>6, <2>3, <3>1, <3>2, <2>1 DEF Around
  <2>. QED  BY <2>1, <2>2, <2>3
<1>7. <<h[up], h[q]>> \notin order
  BY DEF up
<1>8. ASSUME NEW c \in 2 .. Len(h), c \div 2 = up
      PROVE  <<g[c], h[q]>> \notin order
  BY <1>3, <1>4, <1>6, <1>7, <1>8 DEF StrictWeak
<1>9. Below(g, order, up)
  BY <1>1, <1>2, <1>8 DEF Below
<1>10. ASSUME NEW c \in 2 .. Len(h), c \div 2 = up, up > 1
       PROVE  <<g[c], g[up \div 2]>> \notin order
  <2>1. up \in 2 .. Len(h)
    BY <1>1, <1>10
  <2>2. up \div 2 \in 1 .. Len(h) /\ up \div 2 < up
    BY <1>3, <2>1
  <2>3. g[up \div 2] = h[up \div 2]
    BY <1>1, <1>2, <2>2
  <2>4. <<h[up], h[up \div 2]>> \notin order
    <3>1. up # q /\ up \div 2 # q
      BY <1>1, <2>2
    <3>. QED  BY <2>1, <3>1 DEF Around
  <2>5. h[up \div 2] \in S
    BY <1>3, <2>1
  <2>6. CASE c = q
    BY <1>6, <1>10, <2>3, <2>4, <2>6
  <2>7. CASE c # q
    <3>1. g[c] = h[c] /\ <<h[c], h[up]>> \notin order /\ h[c] \in S
      BY <1>3, <1>6, <1>10, <2>7
    <3>2. <<h[c], h[up \div 2]>> \notin order
      BY <1>4, <2>4, <2>5, <3>1, Zenon DEF StrictWeak
    <3>. QED  BY <2>3, <3>1, <3>2
  <2>. QED  BY <2>6, <2>7
<1>. QED  BY <1>2, <1>5, <1>9, <1>10 DEF Around, g, up

\* No child is better than the one BetterChild chooses.
LEMMA BestChild ==
  ASSUME NEW S, NEW h \in Seq(S), NEW better, NEW order, StrictWeak(order, S),
         Agrees(better, order, S), NEW q \in 1 .. Len(h),
         2 * q <= Len(h)
  PROVE  LET c == BetterChild(h, q, better)
         IN  /\ c \in 2 .. Len(h) /\ c \div 2 = q
             /\ \A d \in 2 .. Len(h) : d \div 2 = q => <<h[d], h[c]>> \notin order
<1>. DEFINE c == BetterChild(h, q, better)
<1>1. c \in 2 .. Len(h) /\ c \div 2 = q
  BY DEF BetterChild
<1>2. ASSUME NEW d \in 2 .. Len(h), d \div 2 = q
      PROVE  <<h[d], h[c]>> \notin order
  <2>1. d = 2 * q \/ d = 2 * q + 1
    BY <1>2
  <2>2. h[d] \in S /\ h[2 * q] \in S /\ <<h[d], h[d]>> \notin order
    BY DEF StrictWeak
  <2>3. CASE 2 * q + 1 <= Len(h) /\ <<h[2 * q + 1], h[2 * q]>> \in better
    <3>1. c = 2 * q + 1 /\ h[2 * q + 1] \in S
      BY <2>3 DEF BetterChild
    <3>2. <<h[2 * q], h[2 * q + 1]>> \notin order
      BY <2>2, <2>3, <3>1 DEF Agrees
    <3>. QED  BY <2>1, <2>2, <3>1, <3>2
  <2>4. CASE ~ (2 * q + 1 <= Len(h) /\ <<h[2 * q + 1], h[2 * q]>> \in better)
    <3>1. c = 2 * q
      BY <2>4 DEF BetterChild
    <3>2. ASSUME d = 2 * q + 1
          PROVE  <<h[d], h[2 * q]>> \notin order
      <4>1. <<h[d], h[2 * q]>> \notin better
        BY <2>4, <3>2
      <4>. QED  BY <2>2, <4>1 DEF Agrees
    <3>. QED  BY <2>1, <2>2, <3>1, <3>2
  <2>. QED  BY <2>3, <2>4
<1>. QED  BY <1>1, <1>2

\* An element that sinks leaves order around its new place, and above it.
LEMMA SinkOrder ==
  ASSUME NEW S, NEW h \in Seq(S), NEW better, NEW order, StrictWeak(order, S),
         Agrees(better, order, S), NEW q \in 1 .. Len(h),
         2 * q <= Len(h), Around(h, order, q), Above(h, order, q),
         <<h[q], h[BetterChild(h, q, better)]>> \notin order
  PROVE  LET c == BetterChild(h, q, better)
         IN  Around(Swap(h, q, c), order, c) /\ Above(Swap(h, q, c), order, c)
<1>. DEFINE c == BetterChild(h, q, better)
            g == Swap(h, q, c)
<1>1. /\ c \in 2 .. Len(h) /\ c \div 2 = q
      /\ \A d \in 2 .. Len(h) : d \div 2 = q => <<h[d], h[c]>> \notin order
  BY BestChild
<1>2. <<h[q], h[c]>> \notin order
  OBVIOUS
<1>. HIDE DEF c
<1>3. c \in 1 .. Len(h) /\ q < c /\ c > 1 /\ h[c] \in S /\ h[q] \in S
  BY <1>1
<1>4. /\ Len(g) = Len(h)
      /\ \A i \in 1 .. Len(h) : g[i] = IF i = c THEN h[q] ELSE IF i = q THEN h[c] ELSE h[i]
  BY <1>3, SwapPermutes DEF Permutes
<1>. HIDE DEF g
<1>5. ASSUME NEW d \in 2 .. Len(h)
      PROVE  d \in 1 .. Len(h) /\ d \div 2 \in 1 .. Len(h) /\ d \div 2 < d
  BY Half
<1>6. Above(g, order, c)
  <2>1. g[c] = h[q] /\ g[q] = h[c]
    BY <1>3, <1>4
  <2>2. <<h[q], h[c]>> \notin order
    BY <1>2
  <2>. QED  BY <1>1, <2>1, <2>2 DEF Above
<1>7. ASSUME NEW d \in 2 .. Len(h), d # c, d \div 2 # c
      PROVE  <<g[d], g[d \div 2]>> \notin order
  <2>1. CASE d = q
    <3>1. g[d] = h[c] /\ g[d \div 2] = h[q \div 2]
      BY <1>3, <1>4, <1>5, <1>7, <2>1
    <3>2. q > 1
      BY <2>1
    <3>3. <<h[c], h[q \div 2]>> \notin order
      BY <1>1, <3>2, Zenon DEF Around
    <3>. QED  BY <3>1, <3>3
  <2>2. CASE d # q /\ d \div 2 = q
    <3>1. g[d] = h[d] /\ g[d \div 2] = h[c]
      BY <1>3, <1>4, <1>5, <1>7, <2>2
    <3>. QED  BY <1>1, <2>2, <3>1
  <2>3. CASE d # q /\ d \div 2 # q
    <3>1. g[d] = h[d] /\ g[d \div 2] = h[d \div 2]
      BY <1>4, <1>5, <1>7, <2>3
    <3>. QED  BY <2>3, <3>1 DEF Around
  <2>. QED  BY <2>1, <2>2, <2>3
<1>8. ASSUME NEW d \in 2 .. Len(h), d \div 2 = c
      PROVE  <<g[d], g[q]>> \notin order
  <2>1. d # q /\ d # c /\ d \div 2 # q
    BY <1>3, <1>5, <1>8
  <2>2. g[d] = h[d] /\ g[q] = h[c]
    BY <1>3, <1>4, <1>5, <2>1
  <2>3. <<h[d], h[d \div 2]>> \notin order
    BY <2>1 DEF Around
  <2>. QED  BY <1>8, <2>2, <2>3
<1>9. Around(g, order, c)
  <2>1. \A d \in 2 .. Len(g) : d \div 2 = c /\ c > 1 => <<g[d], g[c \div 2]>> \notin order
    BY <1>1, <1>4, <1>8
  <2>. QED  BY <1>4, <1>7, <2>1 DEF Around
<1>. QED  BY <1>6, <1>9 DEF c, g

\* In heap order, every element fits where it is.
LEMMA OrderHolds ==
  ASSUME NEW S, NEW h \in Seq(S), NEW order, StrictWeak(order, S), NEW q \in 1 .. Len(h),
         HeapOrder(h, order)
  PROVE  Around(h, order, q) /\ Above(h, order, q) /\ Below(h, order, q)
<1>1. ASSUME NEW c \in 2 .. Len(h)
      PROVE  c \in 1 .. Len(h) /\ c \div 2 \in 1 .. Len(h) /\ h[c] \in S /\ h[c \div 2] \in S
             /\ <<h[c], h[c \div 2]>> \notin order
  <2>1. c \in 1 .. Len(h) /\ c \div 2 \in 1 .. Len(h)
    BY Half
  <2>. QED  BY <2>1 DEF HeapOrder
<1>2. ASSUME NEW c \in 2 .. Len(h), c \div 2 = q, q > 1
      PROVE  <<h[c], h[q \div 2]>> \notin order
  <2>1. q \in 2 .. Len(h)
    BY <1>2
  <2>2. /\ h[q] \in S /\ h[q \div 2] \in S /\ <<h[q], h[q \div 2]>> \notin order
        /\ h[c] \in S /\ <<h[c], h[q]>> \notin order
    BY <1>1, <1>2, <2>1
  <2>. QED  BY <2>2 DEF StrictWeak
<1>3. Around(h, order, q)
  BY <1>1, <1>2 DEF Around
<1>4. Above(h, order, q)
  BY <1>1 DEF Above
<1>. QED  BY <1>1, <1>3, <1>4 DEF Below

-----------------------------------------------------------------------------
(***************************************************************************)
(* HeapInsert: either the element stays, no better than its parent, or it  *)
(* rises and the vector is in heap order.                                  *)
(***************************************************************************)
\* HeapInsert ends in heap order, or has nothing to do.
LEMMA HeapInsertOrder ==
  ASSUME NEW S, NEW h \in Seq(S), NEW better, NEW order, StrictWeak(order, S),
         Agrees(better, order, S), NEW p \in 1 .. Len(h), Around(h, order, p)
  PROVE  LET g == HeapInsert(h, p, better)
         IN  HeapOrder(g, order) \/ (g = h /\ Above(h, order, p))
<1>. DEFINE s0 == [heap |-> h, at |-> p]
            T == {s \in Sifted(S, h) : /\ Around(s.heap, order, s.at)
                                       /\ s = s0 \/ Below(s.heap, order, s.at)}
<1>1. s0 \in T
  BY DEF Sifted, Permutes
<1>2. ASSUME NEW s \in T
      PROVE  /\ Rise(s, better) \in T
             /\ Rise(s, better) = s \/ Rise(s, better).at < s.at
             /\ Rise(s, better) = s => Above(s.heap, order, s.at)
  <2>. DEFINE g == s.heap
              q == s.at
  <2>1. g \in Seq(S) /\ q \in 1 .. Len(g) /\ Around(g, order, q)
    BY DEF Sifted, Permutes
  <2>2. CASE ~ (q > 1 /\ <<g[q], g[q \div 2]>> \in better)
    <3>1. Rise(s, better) = s
      BY <2>2 DEF Rise
    <3>2. ASSUME q > 1
          PROVE  <<g[q], g[q \div 2]>> \notin order
      <4>1. q \div 2 \in 1 .. Len(g)
        BY <2>1, <3>2, Half
      <4>2. g[q] \in S /\ g[q \div 2] \in S
        BY <2>1, <4>1
      <4>. QED  BY <2>2, <3>2, <4>2 DEF Agrees
    <3>3. Above(g, order, q)
      BY <3>2 DEF Above
    <3>. QED  BY <3>1, <3>3
  <2>3. CASE q > 1 /\ <<g[q], g[q \div 2]>> \in better
    <3>1. q \in 2 .. Len(g) /\ q \div 2 \in 1 .. Len(g) /\ q \div 2 < q
      BY <2>1, <2>3, Half
    <3>2. <<g[q \div 2], g[q]>> \notin order
      <4>1. g[q] \in S /\ g[q \div 2] \in S
        BY <2>1, <3>1
      <4>. QED  BY <2>3, <4>1 DEF Agrees
    <3>. DEFINE up == q \div 2
                t == [heap |-> Swap(g, q, up), at |-> up]
    <3>3. Rise(s, better) = t
      BY <2>3 DEF Rise
    <3>4. Around(t.heap, order, t.at) /\ Below(t.heap, order, t.at)
      <4>. HIDE DEF g, q
      <4>1. Around(Swap(g, q, up), order, up) /\ Below(Swap(g, q, up), order, up)
        BY <2>1, <3>1, <3>2, RiseOrder
      <4>. QED  BY <4>1
    <3>5. t \in Sifted(S, h)
      BY <3>3, RiseSifted
    <3>. HIDE DEF t
    <3>6. t \in T
      BY <3>4, <3>5
    <3>7. t.at < s.at /\ t # s
      <4>1. t.at = q \div 2 /\ s.at = q
        BY DEF t
      <4>. QED  BY <2>1, <3>1, <4>1
    <3>. QED  BY <3>3, <3>6, <3>7
  <2>. QED  BY <2>2, <2>3
<1>. HIDE DEF T, s0
<1>3. PICK f \in [0 .. p -> T] : Rises(f, s0, p, better) /\ HeapInsert(h, p, better) = f[p].heap
  <2>1. p \in Nat
    OBVIOUS
  <2>. QED  BY <1>1, <1>2, <2>1, RiseLoop DEF s0
<1>4. Rise(f[p], better) = f[p]
  <2>. DEFINE K == {n \in Nat : n <= p => Rise(f[n], better) = f[n] \/ f[n].at <= p - n}
  <2>1. 0 \in K
    BY <1>3 DEF Rises, s0
  <2>2. ASSUME NEW n \in Nat, n \in K
        PROVE  n + 1 \in K
    <3>. SUFFICES ASSUME n + 1 <= p
                  PROVE  \/ Rise(f[n + 1], better) = f[n + 1]
                         \/ f[n + 1].at <= p - (n + 1)
      OBVIOUS
    <3>1. f[n] \in T /\ f[n + 1] \in T /\ f[n + 1] = Rise(f[n], better)
      BY <1>3 DEF Rises
    <3>2. f[n].at \in Nat /\ f[n + 1].at \in Nat
      BY <3>1 DEF T, Sifted
    <3>3. CASE Rise(f[n], better) = f[n]
      BY <3>1, <3>3
    <3>4. CASE Rise(f[n], better) # f[n]
      <4>1. f[n + 1].at < f[n].at /\ f[n].at <= p - n
        BY <1>2, <2>2, <3>1, <3>4
      <4>. QED  BY <3>2, <4>1
    <3>. QED  BY <3>3, <3>4
  <2>. HIDE DEF K
  <2>3. p \in K
    BY <2>1, <2>2, Induction
  <2>4. f[p].at >= 1
    BY DEF T, Sifted
  <2>5. f[p].at \in Nat /\ p - p = 0
    BY DEF T, Sifted
  <2>. QED  BY <2>3, <2>4, <2>5 DEF K
<1>5. f[p] \in T /\ Above(f[p].heap, order, f[p].at)
  BY <1>2, <1>4
<1>6. CASE f[p] = s0
  BY <1>3, <1>5, <1>6 DEF s0
<1>7. CASE f[p] # s0
  <2>1. /\ f[p].heap \in Seq(S) /\ f[p].at \in 1 .. Len(f[p].heap)
        /\ Around(f[p].heap, order, f[p].at) /\ Below(f[p].heap, order, f[p].at)
    BY <1>5, <1>7 DEF T, Sifted, Permutes
  <2>. QED  BY <1>3, <1>5, <2>1, OrderAround
<1>. QED  BY <1>6, <1>7

\* Heapify: the element sinks until it is no worse than its children.
LEMMA HeapifyOrder ==
  ASSUME NEW S, NEW h \in Seq(S), NEW better, NEW order, StrictWeak(order, S),
         Agrees(better, order, S), NEW p \in 1 .. Len(h),
         Around(h, order, p), Above(h, order, p)
  PROVE  HeapOrder(Heapify(h, p, better), order)
<1>. DEFINE s0 == [heap |-> h, at |-> p]
            T == {s \in Sifted(S, h) : Around(s.heap, order, s.at) /\ Above(s.heap, order, s.at)}
<1>1. s0 \in T
  BY DEF Sifted, Permutes
<1>2. ASSUME NEW s \in T
      PROVE  /\ Sink(s, better) \in T
             /\ Sink(s, better) = s \/ Sink(s, better).at > s.at
             /\ Sink(s, better) = s => Below(s.heap, order, s.at)
  <2>. DEFINE g == s.heap
              q == s.at
              c == BetterChild(g, q, better)
  <2>1. /\ g \in Seq(S) /\ q \in 1 .. Len(g)
        /\ Around(g, order, q) /\ Above(g, order, q)
    BY DEF Sifted, Permutes
  <2>2. CASE 2 * q > Len(g)
    <3>1. Sink(s, better) = s
      BY <2>1, <2>2 DEF Sink
    <3>2. Below(g, order, q)
      BY <2>1, <2>2, Half DEF Below
    <3>. QED  BY <3>1, <3>2
  <2>3. CASE 2 * q <= Len(g)
    <3>. HIDE DEF g, q
    <3>1. /\ c \in 2 .. Len(g) /\ c \div 2 = q
          /\ \A d \in 2 .. Len(g) : d \div 2 = q => <<g[d], g[c]>> \notin order
      BY <2>1, <2>3, BestChild
    <3>2. CASE <<g[c], g[q]>> \in better
      <4>. DEFINE t == [heap |-> Swap(g, q, c), at |-> c]
      <4>1. Sink(s, better) = t
        BY <2>3, <3>2 DEF Sink, g, q
      <4>2. Around(Swap(g, q, c), order, c) /\ Above(Swap(g, q, c), order, c)
        <5>1. <<g[q], g[c]>> \notin order
          <6>1. g[c] \in S /\ g[q] \in S
            BY <2>1, <3>1
          <6>. QED  BY <3>2, <6>1 DEF Agrees
        <5>. QED  BY <2>1, <2>3, <5>1, SinkOrder
      <4>3. t \in Sifted(S, h)
        BY <4>1, SinkSifted
      <4>. HIDE DEF c
      <4>4. Around(t.heap, order, t.at) /\ Above(t.heap, order, t.at)
        BY <4>2
      <4>5. t.at > q /\ t # s
        <5>1. t.at = c /\ s.at = q
          BY DEF q
        <5>2. c > q
          BY <2>1, <3>1, Half
        <5>. QED  BY <2>1, <3>1, <5>1, <5>2
      <4>. HIDE DEF t
      <4>6. t \in T
        BY <4>3, <4>4
      <4>. QED  BY <4>1, <4>5, <4>6 DEF g, q
    <3>3. CASE <<g[c], g[q]>> \notin better
      <4>1. Sink(s, better) = s
        BY <3>3 DEF Sink, g, q
      <4>2. Below(g, order, q)
        <5>1. ASSUME NEW d \in 2 .. Len(g), d \div 2 = q
              PROVE  <<g[d], g[q]>> \notin order
          <6>1. g[d] \in S /\ g[c] \in S /\ g[q] \in S
            BY <2>1, <3>1
          <6>2. <<g[d], g[c]>> \notin order
            BY <3>1, <5>1
          <6>3. <<g[c], g[q]>> \notin order
            BY <3>3, <6>1 DEF Agrees
          <6>. QED  BY <6>1, <6>2, <6>3 DEF StrictWeak
        <5>. QED  BY <5>1 DEF Below
      <4>. QED  BY <4>1, <4>2 DEF g, q
    <3>. QED  BY <3>2, <3>3
  <2>. QED  BY <2>1, <2>2, <2>3
<1>. HIDE DEF T, s0
<1>. DEFINE m == Len(h)
<1>0. m \in Nat /\ m = Len(h) /\ p \in Nat /\ p >= 1
  OBVIOUS
<1>3. PICK f \in [0 .. m -> T] : Sinks(f, s0, m, better) /\ Heapify(h, p, better) = f[m].heap
  <2>1. /\ [heap |-> h, at |-> p] \in T
        /\ \A s \in T : Sink(s, better) \in T
    BY <1>1, <1>2 DEF s0
  <2>2. \E f \in [0 .. Len(h) -> T] : Heapifies(f, h, p, Len(h), better)
    BY <1>0, <2>1, SinkLoop
  <2>. QED  BY <2>2 DEF s0, Heapifies
<1>. HIDE DEF m
<1>4. \A n \in 0 .. m : f[n] \in T /\ f[n].at \in 1 .. m
  BY DEF T, Sifted, Permutes, m
<1>5. Sink(f[m], better) = f[m]
  <2>. DEFINE K == {n \in Nat : n <= m => Sink(f[n], better) = f[n] \/ f[n].at >= p + n}
  <2>1. 0 \in K
    BY <1>0, <1>3 DEF Sinks, s0
  <2>2. ASSUME NEW n \in Nat, n \in K
        PROVE  n + 1 \in K
    <3>. SUFFICES ASSUME n + 1 <= m
                  PROVE  \/ Sink(f[n + 1], better) = f[n + 1]
                         \/ f[n + 1].at >= p + (n + 1)
      OBVIOUS
    <3>1. f[n] \in T /\ f[n + 1] \in T /\ f[n + 1] = Sink(f[n], better)
      BY <1>0, <1>3, <1>4 DEF Sinks
    <3>2. f[n].at \in Nat /\ f[n + 1].at \in Nat
      BY <1>0, <1>4
    <3>3. CASE Sink(f[n], better) = f[n]
      BY <3>1, <3>3
    <3>4. CASE Sink(f[n], better) # f[n]
      <4>1. f[n + 1].at > f[n].at /\ f[n].at >= p + n
        BY <1>0, <1>2, <2>2, <3>1, <3>4
      <4>. QED  BY <1>0, <3>2, <4>1
    <3>. QED  BY <3>3, <3>4
  <2>. HIDE DEF K
  <2>3. m \in K
    BY <1>0, <2>1, <2>2, Induction
  <2>4. f[m].at \in 1 .. m
    BY <1>0, <1>4
  <2>. QED  BY <1>0, <2>3, <2>4 DEF K
<1>6. /\ f[m].heap \in Seq(S) /\ f[m].at \in 1 .. Len(f[m].heap)
      /\ Around(f[m].heap, order, f[m].at) /\ Above(f[m].heap, order, f[m].at)
  BY <1>0, <1>4 DEF T, Sifted, Permutes
<1>7. Below(f[m].heap, order, f[m].at)
  BY <1>0, <1>2, <1>4, <1>5
<1>. QED  BY <1>3, <1>6, <1>7, OrderAround

-----------------------------------------------------------------------------
(***************************************************************************)
(* The operations.                                                         *)
(***************************************************************************)
\* A member's position is one where the vector holds it.
LEMMA PositionType ==
  ASSUME NEW S, NEW h \in Seq(S), NEW x \in Elements(h)
  PROVE  PositionOf(h, x) \in 1 .. Len(h) /\ h[PositionOf(h, x)] = x
<1>1. PICK p \in 1 .. Len(h) : h[p] = x
  BY DEF Elements, SX!ToSet
<1>. QED  BY <1>1 DEF PositionOf, Positions

\* Heapify returns a vector over the same set.
LEMMA HeapifyType ==
  ASSUME NEW S, NEW h \in Seq(S), NEW p \in Nat \ {0}, NEW better
  PROVE  Heapify(h, p, better) \in Seq(S)
BY HeapifyPermutes

\* UpdateAt keeps the elements.
LEMMA UpdateAtPermutes ==
  ASSUME NEW S, NEW h \in Seq(S), NEW p \in 1 .. Len(h), NEW better
  PROVE  UpdateAt(h, p, better) \in Seq(S) /\ Permutes(UpdateAt(h, p, better), h)
<1>. DEFINE g == HeapInsert(h, p, better)
<1>1. g \in Seq(S) /\ Permutes(g, h) /\ p \in Nat \ {0}
  BY HeapInsertPermutes
<1>. HIDE DEF g
<1>2. Heapify(g, p, better) \in Seq(S) /\ Permutes(Heapify(g, p, better), g)
  BY <1>1, HeapifyPermutes
<1>. QED  BY <1>1, <1>2, PermutesTransitive DEF UpdateAt, g

\* UpdateAt restores the order when one element alone is out of place.
LEMMA UpdateAtOrder ==
  ASSUME NEW S, NEW h \in Seq(S), NEW better, NEW order, StrictWeak(order, S),
         Agrees(better, order, S), NEW p \in 1 .. Len(h),
         Around(h, order, p)
  PROVE  HeapOrder(UpdateAt(h, p, better), order)
<1>. DEFINE g == HeapInsert(h, p, better)
<1>1. g \in Seq(S) /\ p \in 1 .. Len(g)
  BY HeapInsertPermutes DEF Permutes
<1>2. HeapOrder(g, order) \/ (g = h /\ Above(h, order, p))
  BY HeapInsertOrder
<1>. HIDE DEF g
<1>3. Around(g, order, p) /\ Above(g, order, p)
  BY <1>1, <1>2, OrderHolds
<1>4. HeapOrder(Heapify(g, p, better), order)
  BY <1>1, <1>3, HeapifyOrder
<1>. QED  BY <1>4 DEF UpdateAt, g

\* UpdateById keeps the elements.
LEMMA UpdateByIdType ==
  ASSUME NEW S, NEW h \in Seq(S), NEW x, NEW better
  PROVE  UpdateById(h, x, better) \in Seq(S) /\ Permutes(UpdateById(h, x, better), h)
<1>1. CASE x \in Elements(h)
  BY <1>1, PositionType, UpdateAtPermutes DEF UpdateById
<1>2. CASE x \notin Elements(h)
  BY <1>2 DEF UpdateById, Permutes
<1>. QED  BY <1>1, <1>2

\* The order held before x changed: so it holds around x.
LEMMA UpdateByIdOrder ==
  ASSUME NEW S, NEW h \in Seq(S), NEW better, NEW order, StrictWeak(order, S),
         Agrees(better, order, S), NEW x \in Elements(h),
         Around(h, order, PositionOf(h, x))
  PROVE  HeapOrder(UpdateById(h, x, better), order)
BY PositionType, UpdateAtOrder DEF UpdateById

\* A vector that gains x at its end.
LEMMA Lengthened ==
  ASSUME NEW S, NEW h \in Seq(S), NEW x \in S, NEW g \in Seq(S), Len(g) = Len(h) + 1,
         g[Len(h) + 1] = x, \A i \in 1 .. Len(h) : g[i] = h[i]
  PROVE  /\ Elements(g) = Elements(h) \cup {x}
         /\ x \notin Elements(h) /\ Distinct(h) => Distinct(g)
<1>1. /\ g \in Seq(S) /\ Len(g) = Len(h) + 1 /\ g[Len(h) + 1] = x
      /\ \A i \in 1 .. Len(h) : g[i] = h[i]
  OBVIOUS
<1>2. /\ Elements(g) = {g[i] : i \in 1 .. Len(h) + 1}
      /\ Elements(h) = {h[i] : i \in 1 .. Len(h)}
  BY <1>1 DEF Elements, SX!ToSet
<1>3. Elements(g) = Elements(h) \cup {x}
  <2>1. Elements(g) \subseteq Elements(h) \cup {x}
    <3>1. ASSUME NEW i \in 1 .. Len(h) + 1
          PROVE  g[i] \in Elements(h) \cup {x}
      <4>1. CASE i = Len(h) + 1
        BY <1>1, <4>1
      <4>2. CASE i # Len(h) + 1
        <5>1. i \in 1 .. Len(h)
          BY <4>2
        <5>. QED  BY <1>1, <1>2, <5>1
      <4>. QED  BY <4>1, <4>2
    <3>. QED  BY <1>2, <3>1
  <2>2. x \in Elements(g)
    <3>1. Len(h) + 1 \in 1 .. Len(h) + 1
      OBVIOUS
    <3>. QED  BY <1>1, <1>2, <3>1
  <2>3. Elements(h) \subseteq Elements(g)
    <3>1. ASSUME NEW i \in 1 .. Len(h)
          PROVE  h[i] \in Elements(g)
      <4>1. i \in 1 .. Len(h) + 1
        OBVIOUS
      <4>. QED  BY <1>1, <1>2, <4>1
    <3>. QED  BY <1>2, <3>1
  <2>. QED  BY <2>1, <2>2, <2>3
<1>4. x \notin Elements(h) /\ Distinct(h) => Distinct(g)
  <2>. SUFFICES ASSUME x \notin Elements(h), Distinct(h),
                       NEW i \in 1 .. Len(h) + 1, NEW j \in 1 .. Len(h) + 1, g[i] = g[j]
                PROVE  i = j
    BY <1>1 DEF Distinct
  <2>1. \A k \in 1 .. Len(h) : g[k] = h[k] /\ g[k] # x
    BY <1>1, <1>2
  <2>2. i = Len(h) + 1 <=> j = Len(h) + 1
    BY <1>1, <2>1
  <2>3. CASE i # Len(h) + 1
    <3>1. i \in 1 .. Len(h) /\ j \in 1 .. Len(h)
      BY <2>2, <2>3
    <3>. QED  BY <2>1, <3>1 DEF Distinct
  <2>. QED  BY <2>2, <2>3
<1>. QED  BY <1>3, <1>4

\* Push adds its element, once, and loses none.
LEMMA PushType ==
  ASSUME NEW S, NEW h \in Seq(S), NEW x \in S, NEW better
  PROVE  /\ Push(h, x, better) \in Seq(S)
         /\ Elements(Push(h, x, better)) = Elements(h) \cup {x}
         /\ x \notin Elements(h) /\ Distinct(h) => Distinct(Push(h, x, better))
<1>. DEFINE g == Append(h, x)
<1>1. /\ g \in Seq(S) /\ Len(g) = Len(h) + 1 /\ g[Len(h) + 1] = x
      /\ \A i \in 1 .. Len(h) : g[i] = h[i]
      /\ Len(h) + 1 \in 1 .. Len(g)
  OBVIOUS
<1>2. Push(h, x, better) = HeapInsert(g, Len(h) + 1, better)
  BY DEF Push
<1>. HIDE DEF g
<1>3. /\ Elements(g) = Elements(h) \cup {x}
      /\ x \notin Elements(h) /\ Distinct(h) => Distinct(g)
  BY <1>1, Lengthened
<1>4. Push(h, x, better) \in Seq(S) /\ Permutes(Push(h, x, better), g)
  BY <1>1, <1>2, HeapInsertPermutes
<1>. QED  BY <1>3, <1>4 DEF Permutes

\* Push keeps the heap order.
LEMMA PushOrder ==
  ASSUME NEW S, NEW h \in Seq(S), NEW x \in S, NEW better, NEW order,
         StrictWeak(order, S), Agrees(better, order, S), HeapOrder(h, order)
  PROVE  HeapOrder(Push(h, x, better), order)
<1>. DEFINE g == Append(h, x)
            p == Len(h) + 1
<1>1. /\ g \in Seq(S) /\ Len(g) = Len(h) + 1 /\ p \in 1 .. Len(g)
      /\ \A i \in 1 .. Len(h) : g[i] = h[i]
  OBVIOUS
<1>. HIDE DEF g
<1>2. \A c \in 2 .. Len(g) : c \div 2 # p
  BY <1>1, Half
<1>3. ASSUME NEW c \in 2 .. Len(g), c # p
      PROVE  <<g[c], g[c \div 2]>> \notin order
  <2>1. c \in 2 .. Len(h) /\ c \in 1 .. Len(h) /\ c \div 2 \in 1 .. Len(h)
    BY <1>1, <1>3, Half
  <2>. QED  BY <1>1, <2>1 DEF HeapOrder
<1>. HIDE DEF p
<1>4. Around(g, order, p) /\ Below(g, order, p)
  BY <1>2, <1>3 DEF Around, Below
<1>5. HeapOrder(HeapInsert(g, p, better), order)
  <2>1. \/ HeapInsert(g, p, better) = g /\ Above(g, order, p)
        \/ HeapOrder(HeapInsert(g, p, better), order)
    BY <1>1, <1>4, HeapInsertOrder
  <2>. QED  BY <1>1, <1>4, <2>1, OrderAround
<1>. QED  BY <1>5 DEF Push, g, p

\* SequencesExt!Front drops the last element.
LEMMA FrontType ==
  ASSUME NEW S, NEW h \in Seq(S), h # <<>>
  PROVE  /\ SX!Front(h) \in Seq(S)
         /\ Len(SX!Front(h)) = Len(h) - 1
         /\ \A i \in 1 .. Len(h) - 1 : SX!Front(h)[i] = h[i]
<1>. DEFINE n == Len(h)
            front == SubSeq(h, 1, n - 1)
<1>1. n \in Nat /\ n # 0 /\ \A i \in 1 .. n - 1 : h[i] \in S
  OBVIOUS
<1>. HIDE DEF n
<1>2. /\ front \in Seq(S) /\ Len(front) = IF 1 <= n - 1 THEN (n - 1) - 1 + 1 ELSE 0
      /\ \A i \in 1 .. (n - 1) - 1 + 1 : front[i] = h[1 + i - 1]
  BY <1>1, SubSeqProperties
<1>3. (IF 1 <= n - 1 THEN (n - 1) - 1 + 1 ELSE 0) = n - 1
  BY <1>1
<1>4. SX!Front(h) = front
  BY DEF SX!Front, n
<1>. HIDE DEF front
<1>5. \A i \in 1 .. n - 1 : front[i] = h[i]
  BY <1>1, <1>2
<1>. QED  BY <1>2, <1>3, <1>4, <1>5 DEF n

\* A vector that loses its last element.
LEMMA Shortened ==
  ASSUME NEW S, NEW h \in Seq(S), NEW g \in Seq(S), Len(h) # 0, Len(g) = Len(h) - 1,
         \A i \in 1 .. Len(h) - 1 : g[i] = h[i]
  PROVE  /\ Distinct(h) => Distinct(g) /\ Elements(g) = Elements(h) \ {h[Len(h)]}
         /\ \A order : HeapOrder(h, order) => HeapOrder(g, order)
<1>1. /\ Elements(g) = {g[i] : i \in 1 .. Len(h) - 1}
      /\ Elements(h) = {h[i] : i \in 1 .. Len(h)}
  BY DEF Elements, SX!ToSet
<1>2. \A i \in 1 .. Len(h) - 1 : i \in 1 .. Len(h) /\ i # Len(h)
  OBVIOUS
<1>3. \A i \in 1 .. Len(h) : i \in 1 .. Len(h) - 1 \/ i = Len(h)
  OBVIOUS
<1>4. Len(h) \in 1 .. Len(h)
  OBVIOUS
<1>5. ASSUME Distinct(h)
      PROVE  Distinct(g) /\ Elements(g) = Elements(h) \ {h[Len(h)]}
  <2>1. Distinct(g)
    BY <1>2, <1>5 DEF Distinct
  <2>2. \A i \in 1 .. Len(h) - 1 : g[i] = h[i] /\ h[i] # h[Len(h)]
    BY <1>2, <1>4, <1>5 DEF Distinct
  <2>3. Elements(g) \subseteq Elements(h) \ {h[Len(h)]}
    BY <1>1, <1>2, <2>2, Zenon
  <2>4. Elements(h) \ {h[Len(h)]} \subseteq Elements(g)
    BY <1>1, <1>3, <2>2, Zenon
  <2>. QED  BY <2>1, <2>3, <2>4
<1>6. ASSUME NEW order, HeapOrder(h, order)
      PROVE  HeapOrder(g, order)
  <2>1. ASSUME NEW c \in 2 .. Len(g)
        PROVE  <<g[c], g[c \div 2]>> \notin order
    <3>1. /\ c \in 1 .. Len(h) - 1 /\ c \in 2 .. Len(h) /\ c \div 2 \in 1 .. Len(h) - 1
      BY Half
    <3>. QED  BY <1>6, <3>1 DEF HeapOrder
  <2>. QED  BY <2>1 DEF HeapOrder
<1>. QED  BY <1>5, <1>6

\* A vector whose last element takes the place of the one at p.
LEMMA Moved ==
  ASSUME NEW S, NEW h \in Seq(S), NEW g \in Seq(S), NEW p \in 1 .. Len(h), p # Len(h),
         Len(g) = Len(h) - 1,
         \A i \in 1 .. Len(h) - 1 : g[i] = IF i = p THEN h[Len(h)] ELSE h[i]
  PROVE  /\ Distinct(h) => Distinct(g) /\ Elements(g) = Elements(h) \ {h[p]}
         /\ \A order : StrictWeak(order, S) /\ HeapOrder(h, order) => Around(g, order, p)
<1>1. /\ Elements(g) = {g[i] : i \in 1 .. Len(h) - 1}
      /\ Elements(h) = {h[i] : i \in 1 .. Len(h)}
  BY DEF Elements, SX!ToSet
<1>2. \A i \in 1 .. Len(h) - 1 : i \in 1 .. Len(h) /\ i # Len(h)
  OBVIOUS
<1>3. \A i \in 1 .. Len(h) : i \in 1 .. Len(h) - 1 \/ i = Len(h)
  OBVIOUS
<1>4. Len(h) \in 1 .. Len(h) /\ p \in 1 .. Len(h) - 1
  OBVIOUS
<1>5. ASSUME Distinct(h)
      PROVE  Distinct(g) /\ Elements(g) = Elements(h) \ {h[p]}
  <2>1. Distinct(g)
    <3>. SUFFICES ASSUME NEW i \in 1 .. Len(h) - 1, NEW j \in 1 .. Len(h) - 1, g[i] = g[j]
                  PROVE  i = j
      BY DEF Distinct
    <3>. QED  BY <1>2, <1>4, <1>5 DEF Distinct
  <2>2. \A i \in 1 .. Len(h) - 1 : g[i] = (IF i = p THEN h[Len(h)] ELSE h[i]) /\ g[i] # h[p]
    BY <1>2, <1>4, <1>5 DEF Distinct
  <2>3. \A i \in 1 .. Len(h) - 1 : g[i] \in Elements(h) \ {h[p]}
    BY <1>1, <1>2, <1>4, <2>2, Zenon
  <2>4. \A i \in 1 .. Len(h) : h[i] # h[p] => h[i] \in Elements(g)
    <3>1. h[Len(h)] \in Elements(g)
      BY <1>1, <1>4, <2>2, Zenon
    <3>2. \A i \in 1 .. Len(h) - 1 : i # p => h[i] \in Elements(g)
      BY <1>1, <2>2, Zenon
    <3>. QED  BY <1>3, <3>1, <3>2, Zenon
  <2>5. Elements(g) \subseteq Elements(h) \ {h[p]}
    BY <1>1, <2>3
  <2>6. Elements(h) \ {h[p]} \subseteq Elements(g)
    BY <1>1, <2>4
  <2>. QED  BY <2>1, <2>5, <2>6
<1>6. ASSUME NEW order, StrictWeak(order, S), HeapOrder(h, order)
      PROVE  Around(g, order, p)
  <2>1. Around(h, order, p)
    BY <1>6, OrderHolds
  <2>2. ASSUME NEW c \in 2 .. Len(g)
        PROVE  /\ c \in 2 .. Len(h) /\ c \in 1 .. Len(h) - 1
               /\ c \div 2 \in 1 .. Len(h) - 1 /\ c \div 2 < c
    BY Half
  <2>3. ASSUME NEW c \in 2 .. Len(g), c # p, c \div 2 # p
        PROVE  <<g[c], g[c \div 2]>> \notin order
    <3>1. g[c] = h[c] /\ g[c \div 2] = h[c \div 2]
      BY <2>2, <2>3
    <3>. QED  BY <2>1, <2>2, <2>3, <3>1 DEF Around
  <2>4. ASSUME NEW c \in 2 .. Len(g), c \div 2 = p, p > 1
        PROVE  <<g[c], g[p \div 2]>> \notin order
    <3>1. p \div 2 \in 1 .. Len(h) - 1 /\ p \div 2 # p /\ c # p
      BY <1>4, <2>2, <2>4, Half
    <3>2. g[c] = h[c] /\ g[p \div 2] = h[p \div 2]
      BY <2>2, <3>1
    <3>. QED  BY <2>1, <2>2, <2>4, <3>2 DEF Around
  <2>. QED  BY <2>3, <2>4 DEF Around
<1>. QED  BY <1>5, <1>6

\* Remove and Pop take their element out, and no other.
LEMMA RemoveType ==
  ASSUME NEW S, NEW h \in Seq(S), NEW x, NEW better
  PROVE  /\ Remove(h, x, better) \in Seq(S)
         /\ Distinct(h) => /\ Distinct(Remove(h, x, better))
                           /\ Elements(Remove(h, x, better)) = Elements(h) \ {x}
         /\ \A order : StrictWeak(order, S) /\ Agrees(better, order, S) /\ HeapOrder(h, order)
                         => HeapOrder(Remove(h, x, better), order)
<1>1. CASE x \notin Elements(h)
  BY <1>1 DEF Remove
<1>2. CASE x \in Elements(h) /\ x = h[Len(h)]
  <2>. DEFINE g == SX!Front(h)
  <2>1. h # <<>> /\ Len(h) # 0
    BY <1>2 DEF Elements, SX!ToSet
  <2>2. g \in Seq(S) /\ Len(g) = Len(h) - 1 /\ \A i \in 1 .. Len(h) - 1 : g[i] = h[i]
    BY <2>1, FrontType
  <2>3. Remove(h, x, better) = g
    BY <1>2 DEF Remove
  <2>. HIDE DEF g
  <2>4. /\ Distinct(h) => Distinct(g) /\ Elements(g) = Elements(h) \ {h[Len(h)]}
        /\ \A order : HeapOrder(h, order) => HeapOrder(g, order)
    BY <2>1, <2>2, Shortened
  <2>. QED  BY <1>2, <2>2, <2>3, <2>4
<1>3. CASE x \in Elements(h) /\ x # h[Len(h)]
  <2>. DEFINE p == PositionOf(h, x)
              front == SX!Front(h)
              g == [front EXCEPT ![p] = h[Len(h)]]
  <2>1. p \in 1 .. Len(h) /\ h[p] = x
    BY <1>3, PositionType
  <2>2. h # <<>> /\ p # Len(h) /\ h[Len(h)] \in S
    BY <1>3, <2>1
  <2>3. Remove(h, x, better) = UpdateAt(g, p, better)
    BY <1>3 DEF Remove
  <2>4. front \in Seq(S) /\ Len(front) = Len(h) - 1 /\ \A i \in 1 .. Len(h) - 1 : front[i] = h[i]
    BY <2>2, FrontType
  <2>. HIDE DEF front, p
  <2>5. /\ g \in Seq(S) /\ Len(g) = Len(h) - 1 /\ p \in 1 .. Len(g)
        /\ \A i \in 1 .. Len(h) - 1 : g[i] = IF i = p THEN h[Len(h)] ELSE h[i]
    BY <2>1, <2>2, <2>4
  <2>. HIDE DEF g
  <2>6. /\ Distinct(h) => Distinct(g) /\ Elements(g) = Elements(h) \ {h[p]}
        /\ \A order : StrictWeak(order, S) /\ HeapOrder(h, order) => Around(g, order, p)
    BY <2>1, <2>2, <2>5, Moved
  <2>7. UpdateAt(g, p, better) \in Seq(S) /\ Permutes(UpdateAt(g, p, better), g)
    BY <2>5, UpdateAtPermutes
  <2>8. ASSUME NEW order, StrictWeak(order, S), Agrees(better, order, S), HeapOrder(h, order)
        PROVE  HeapOrder(UpdateAt(g, p, better), order)
    BY <2>5, <2>6, <2>8, UpdateAtOrder
  <2>. QED  BY <2>1, <2>3, <2>6, <2>7, <2>8 DEF Permutes
<1>. QED  BY <1>1, <1>2, <1>3

\* Pop takes the first element out.
LEMMA PopType ==
  ASSUME NEW S, NEW h \in Seq(S), h # <<>>, NEW better
  PROVE  /\ Pop(h, better) \in Seq(S)
         /\ Distinct(h) => /\ Distinct(Pop(h, better))
                           /\ Elements(Pop(h, better)) = Elements(h) \ {h[1]}
         /\ \A order : StrictWeak(order, S) /\ Agrees(better, order, S) /\ HeapOrder(h, order)
                         => HeapOrder(Pop(h, better), order)
<1>0. Len(h) \in Nat /\ Len(h) # 0
  OBVIOUS
<1>1. CASE Len(h) = 1
  <2>1. Pop(h, better) = <<>>
    BY <1>1 DEF Pop
  <2>2. Elements(h) = {h[1]} /\ Elements(<<>>) = {}
    BY <1>1 DEF Elements, SX!ToSet
  <2>3. Distinct(<<>>) /\ (\A order : HeapOrder(<<>>, order)) /\ <<>> \in Seq(S)
    BY DEF Distinct, HeapOrder
  <2>. QED  BY <2>1, <2>2, <2>3
<1>2. CASE Len(h) > 1
  <2>. DEFINE front == SX!Front(h)
              g == [front EXCEPT ![1] = h[Len(h)]]
  <2>1. h[Len(h)] \in S
    <3>1. Len(h) \in 1 .. Len(h)
      BY <1>0
    <3>. QED  BY <3>1
  <2>2. Pop(h, better) = Heapify(g, 1, better)
    BY <1>2 DEF Pop
  <2>3. front \in Seq(S) /\ Len(front) = Len(h) - 1 /\ \A i \in 1 .. Len(h) - 1 : front[i] = h[i]
    BY FrontType
  <2>. HIDE DEF front
  <2>4. /\ g \in Seq(S) /\ Len(g) = Len(h) - 1 /\ 1 \in 1 .. Len(g) /\ 1 \in 1 .. Len(h) /\ 1 # Len(h)
        /\ \A i \in 1 .. Len(h) - 1 : g[i] = IF i = 1 THEN h[Len(h)] ELSE h[i]
    BY <1>2, <2>1, <2>3
  <2>. HIDE DEF g
  <2>5. /\ Distinct(h) => Distinct(g) /\ Elements(g) = Elements(h) \ {h[1]}
        /\ \A order : StrictWeak(order, S) /\ HeapOrder(h, order) => Around(g, order, 1)
    BY <2>4, Moved
  <2>6. Heapify(g, 1, better) \in Seq(S) /\ Permutes(Heapify(g, 1, better), g)
    <3>1. 1 \in Nat \ {0}
      OBVIOUS
    <3>. QED  BY <2>4, <3>1, HeapifyPermutes
  <2>7. ASSUME NEW order, StrictWeak(order, S), Agrees(better, order, S), HeapOrder(h, order)
        PROVE  HeapOrder(Heapify(g, 1, better), order)
    <3>1. Above(g, order, 1)
      BY DEF Above
    <3>. QED  BY <2>4, <2>5, <2>7, <3>1, HeapifyOrder
  <2>. QED  BY <2>2, <2>5, <2>6, <2>7 DEF Permutes
<1>3. Len(h) = 1 \/ Len(h) > 1
  BY <1>0
<1>. QED  BY <1>1, <1>2, <1>3

\* In heap order, no element is better than the first.
LEMMA RootIsBest ==
  ASSUME NEW S, NEW h \in Seq(S), NEW order, StrictWeak(order, S), HeapOrder(h, order)
  PROVE  \A i \in 1 .. Len(h) : <<h[i], h[1]>> \notin order
<1>. DEFINE T == {i \in 1 .. Len(h) : <<h[i], h[1]>> \in order}
<1>. SUFFICES ASSUME T # {}
              PROVE  FALSE
  OBVIOUS
<1>1. PICK i \in T : \A j \in T : i <= j
  <2>1. T \subseteq Nat
    OBVIOUS
  <2>. HIDE DEF T
  <2>. QED  BY <2>1, Least
<1>2. i \in 1 .. Len(h) /\ <<h[i], h[1]>> \in order /\ h[i] \in S /\ 1 \in 1 .. Len(h) /\ h[1] \in S
  OBVIOUS
<1>3. i # 1
  BY <1>2 DEF StrictWeak
<1>4. i \div 2 \in 1 .. Len(h) /\ i \div 2 < i
  BY <1>2, <1>3, Half
<1>5. <<h[i \div 2], h[1]>> \notin order
  <2>1. i \div 2 \notin T
    BY <1>1, <1>2, <1>4
  <2>. QED  BY <1>4, <2>1
<1>6. <<h[i], h[i \div 2]>> \notin order /\ h[i \div 2] \in S
  BY <1>2, <1>3, <1>4 DEF HeapOrder
<1>. HIDE DEF T
<1>. QED  BY <1>2, <1>5, <1>6 DEF StrictWeak

\* The order of a vector depends on how its own elements compare only.
LEMMA OrderStays ==
  ASSUME NEW S, NEW h \in Seq(S), NEW old, NEW new,
         \A a, b \in Elements(h) : <<a, b>> \in new => <<a, b>> \in old,
         HeapOrder(h, old)
  PROVE  HeapOrder(h, new)
<1>. SUFFICES ASSUME NEW c \in 2 .. Len(h)
              PROVE  <<h[c], h[c \div 2]>> \notin new
  BY DEF HeapOrder
<1>1. c \in 1 .. Len(h) /\ c \div 2 \in 1 .. Len(h)
  BY Half
<1>2. h[c] \in Elements(h) /\ h[c \div 2] \in Elements(h)
  BY <1>1 DEF Elements, SX!ToSet
<1>3. <<h[c], h[c \div 2]>> \notin old
  BY DEF HeapOrder
<1>. QED  BY <1>2, <1>3

\* When one element alone compares differently, the order holds around it.
LEMMA OrderAroundChanged ==
  ASSUME NEW S, NEW h \in Seq(S), NEW old, NEW new, StrictWeak(old, S), NEW p \in 1 .. Len(h),
         Distinct(h), \A a, b \in S \ {h[p]} : <<a, b>> \in new => <<a, b>> \in old,
         HeapOrder(h, old)
  PROVE  Around(h, new, p)
<1>1. Around(h, old, p)
  BY OrderHolds
<1>2. ASSUME NEW a \in 1 .. Len(h), NEW b \in 1 .. Len(h), a # p, b # p,
             <<h[a], h[b]>> \notin old
      PROVE  <<h[a], h[b]>> \notin new
  <2>1. h[a] # h[p] /\ h[b] # h[p] /\ h[a] \in S /\ h[b] \in S
    <3>1. \A i, k \in 1 .. Len(h) : h[i] = h[k] => i = k
      BY DEF Distinct
    <3>. QED  BY <1>2, <3>1
  <2>. QED  BY <1>2, <2>1
<1>3. ASSUME NEW c \in 2 .. Len(h)
      PROVE  c \in 1 .. Len(h) /\ c \div 2 \in 1 .. Len(h) /\ c \div 2 < c
  BY Half
<1>4. ASSUME NEW c \in 2 .. Len(h), c # p, c \div 2 # p
      PROVE  <<h[c], h[c \div 2]>> \notin new
  <2>1. <<h[c], h[c \div 2]>> \notin old
    BY <1>1, <1>4 DEF Around
  <2>. QED  BY <1>2, <1>3, <1>4, <2>1
<1>5. ASSUME NEW c \in 2 .. Len(h), c \div 2 = p, p > 1
      PROVE  <<h[c], h[p \div 2]>> \notin new
  <2>1. p \div 2 \in 1 .. Len(h) /\ p \div 2 # p /\ c # p
    BY <1>3, <1>5
  <2>2. <<h[c], h[p \div 2]>> \notin old
    BY <1>1, <1>5 DEF Around
  <2>. QED  BY <1>2, <1>3, <2>1, <2>2
<1>. QED  BY <1>4, <1>5 DEF Around

\* A vector that holds every element once is as long as its set.
LEMMA LenIsCardinality ==
  ASSUME NEW S, NEW h \in Seq(S), Distinct(h)
  PROVE  Len(h) = Cardinality(Elements(h))
<1>1. Elements(h) = {h[i] : i \in 1 .. Len(h)}
  BY DEF Elements, SX!ToSet
<1>2. h \in [1 .. Len(h) -> Elements(h)]
  BY <1>1
<1>3. h \in Bijection(1 .. Len(h), Elements(h))
  BY <1>1, <1>2 DEF Bijection, Injection, IsInjective, Surjection, Distinct
<1>4. ExistsBijection(1 .. Len(h), Elements(h)) /\ Len(h) \in Nat
  BY <1>3 DEF ExistsBijection
<1>. QED  BY <1>4, FS_CountingElements
=============================================================================
