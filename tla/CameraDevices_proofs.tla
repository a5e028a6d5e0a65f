------------------------ MODULE CameraDevices_proofs ------------------------
(***************************************************************************)
(* For every number of processes, cameras and devices, every table of      *)
(* costs, conflicts and groups, and every order of opens, evictions,       *)
(* closes, callbacks and failures of the HDI.                              *)
(***************************************************************************)
EXTENDS CameraDevices, TLAPS, FiniteSetTheorems, SequenceTheorems, NaturalsInduction,
        WellFoundedInduction

-----------------------------------------------------------------------------
(***************************************************************************)
(* Folds.  The loops over the holders are folds, which choose a recursive  *)
(* function on the sets of indices: one exists (FoldExists), and what the  *)
(* chosen one gives for the first k elements follows round by round        *)
(* (FoldRounds).  Induction is used in the form of sets.                   *)
(***************************************************************************)

\* Every nonempty set of natural numbers has a least element.
LEMMA Least ==
  ASSUME NEW T, T \subseteq Nat, T # {}
  PROVE  \E n \in T : \A m \in T : n <= m
<1>1. \E x \in T : \A y \in T : ~ (<<y, x>> \in OpToRel(<, Nat))
  BY NatLessThanWellFounded, WFMin
<1>2. \A x \in T, y \in T : y < x => <<y, x>> \in OpToRel(<, Nat)
  BY DEF OpToRel
<1>3. \E x \in T : \A y \in T : ~ (y < x)
  BY <1>1, <1>2, Zenon
<1>4. \A x \in T, y \in T : y < x \/ x <= y
  OBVIOUS
<1>. QED  BY <1>3, <1>4

\* A set with 0 and the successors of its elements has every number.
LEMMA Induction ==
  ASSUME NEW T, 0 \in T, \A n \in Nat : n \in T => n + 1 \in T
  PROVE  \A n \in Nat : n \in T
<1>. DEFINE U == Nat \ T
<1>. SUFFICES ASSUME U # {}
              PROVE  FALSE
  OBVIOUS
<1>1. U \subseteq Nat
  OBVIOUS
<1>. HIDE DEF U
<1>2. PICK n \in U : \A m \in U : n <= m
  BY <1>1, Least
<1>. USE DEF U
<1>3. n \in Nat /\ n # 0
  BY <1>2
<1>4. n - 1 \in Nat /\ n - 1 < n /\ (n - 1) + 1 = n
  BY <1>3
<1>5. n - 1 \in T
  BY <1>2, <1>4
<1>. QED  BY <1>2, <1>4, <1>5

\* Min of a set of indices is its least one, Max its greatest.
LEMMA MinIsLeast ==
  ASSUME NEW T, T \subseteq Nat, T # {}
  PROVE  Min(T) \in T /\ \A m \in T : Min(T) <= m
<1>1. \E n \in T : \A m \in T : n <= m
  BY Least
<1>. QED  BY <1>1 DEF Min

LEMMA MaxIsGreatest ==
  ASSUME NEW k \in Nat, NEW T, T \subseteq 1 .. k, T # {}
  PROVE  Max(T) \in T /\ \A m \in T : Max(T) >= m
<1>. DEFINE U == {k - m : m \in T}
<1>1. \A m \in T : m \in 1 .. k /\ k - m \in Nat
  OBVIOUS
<1>2. U \subseteq Nat /\ U # {}
  BY <1>1
<1>. HIDE DEF U
<1>3. PICK u \in U : \A v \in U : u <= v
  BY <1>2, Least
<1>4. PICK n \in T : u = k - n
  BY <1>3 DEF U
<1>5. ASSUME NEW m \in T
      PROVE  n >= m
  <2>1. k - m \in U
    BY DEF U
  <2>2. k - n <= k - m
    BY <1>3, <1>4, <2>1
  <2>. QED  BY <1>1, <1>4, <2>2
<1>6. \E x \in T : \A m \in T : x >= m
  BY <1>4, <1>5
<1>. QED  BY <1>6 DEF Max

\* The function it is the fold of the first m rounds G, each of which takes the result before.
Folds(it, m, base, G) ==
  \A s \in SUBSET (1 .. m) : it[s] = IF s = {} THEN base ELSE G[Max(s)][it[s \ {Max(s)}]]

\* The recursive function of a fold that takes the last element first exists.
LEMMA FoldExists ==
  ASSUME NEW m \in Nat, NEW T, NEW base \in T, NEW G \in [1 .. m -> [T -> T]]
  PROVE  \E it \in [SUBSET (1 .. m) -> T] : Folds(it, m, base, G)
<1>. DEFINE Holds(it, k) == \A s \in SUBSET (1 .. k) :
              it[s] = IF s = {} THEN base ELSE G[Max(s)][it[s \ {Max(s)}]]
            U == {k \in Nat : k <= m => \E it \in [SUBSET (1 .. k) -> T] : Holds(it, k)}
<1>1. 0 \in U
  <2>. DEFINE it == [s \in SUBSET (1 .. 0) |-> base]
  <2>1. 1 .. 0 = {}
    OBVIOUS
  <2>2. \A s \in SUBSET (1 .. 0) : s = {}
    BY <2>1, Zenon
  <2>3. it \in [SUBSET (1 .. 0) -> T] /\ \A s \in SUBSET (1 .. 0) : it[s] = base
    BY Zenon
  <2>. HIDE DEF it
  <2>4. Holds(it, 0)
    BY <2>2, <2>3, Zenon
  <2>. QED  BY <2>3, <2>4, Zenon
<1>2. ASSUME NEW k \in Nat, k \in U
      PROVE  k + 1 \in U
  <2>0. k + 1 \in Nat /\ (k + 1 <= m => k <= m)
    OBVIOUS
  <2>. SUFFICES ASSUME k + 1 <= m
                PROVE  \E it \in [SUBSET (1 .. k + 1) -> T] : Holds(it, k + 1)
    BY <2>0, Zenon
  <2>1. PICK f \in [SUBSET (1 .. k) -> T] : Holds(f, k)
    BY <1>2, <2>0, Zenon
  <2>. DEFINE g == [s \in SUBSET (1 .. k + 1) |->
                      IF k + 1 \in s THEN G[k + 1][f[s \ {k + 1}]] ELSE f[s]]
  <2>2. \A s \in SUBSET (1 .. k + 1) : s \ {k + 1} \in SUBSET (1 .. k)
    OBVIOUS
  <2>3. \A s \in SUBSET (1 .. k + 1) : k + 1 \notin s => s \in SUBSET (1 .. k)
    OBVIOUS
  <2>4. G[k + 1] \in [T -> T]
    OBVIOUS
  <2>5. g \in [SUBSET (1 .. k + 1) -> T]
    <3>1. ASSUME NEW s \in SUBSET (1 .. k + 1)
          PROVE  (IF k + 1 \in s THEN G[k + 1][f[s \ {k + 1}]] ELSE f[s]) \in T
      <4>1. CASE k + 1 \in s
        <5>1. f[s \ {k + 1}] \in T
          BY <2>2
        <5>. QED  BY <2>4, <4>1, <5>1
      <4>2. CASE k + 1 \notin s
        BY <2>3, <4>2
      <4>. QED  BY <4>1, <4>2
    <3>. QED  BY <3>1
  <2>6. ASSUME NEW s \in SUBSET (1 .. k + 1)
        PROVE  g[s] = IF s = {} THEN base ELSE G[Max(s)][g[s \ {Max(s)}]]
    <3>1. CASE k + 1 \in s
      <4>1. Max(s) = k + 1
        <5>1. k + 1 \in Nat /\ s \subseteq 1 .. k + 1 /\ s # {}
          BY <3>1
        <5>2. Max(s) \in s /\ \A n \in s : Max(s) >= n
          BY <5>1, MaxIsGreatest, Zenon
        <5>3. Max(s) \in 1 .. k + 1 /\ Max(s) >= k + 1
          BY <3>1, <5>1, <5>2
        <5>. QED  BY <5>3
      <4>2. g[s \ {k + 1}] = f[s \ {k + 1}]
        <5>1. s \ {k + 1} \in SUBSET (1 .. k + 1) /\ k + 1 \notin s \ {k + 1}
          OBVIOUS
        <5>. QED  BY <5>1, Zenon
      <4>3. g[s] = G[k + 1][f[s \ {k + 1}]]
        BY <3>1, Zenon
      <4>4. s # {}
        BY <3>1
      <4>. HIDE DEF g
      <4>. QED  BY <4>1, <4>2, <4>3, <4>4, Zenon
    <3>2. CASE k + 1 \notin s
      <4>1. s \in SUBSET (1 .. k) /\ g[s] = f[s]
        BY <2>3, <3>2, Zenon
      <4>2. f[s] = IF s = {} THEN base ELSE G[Max(s)][f[s \ {Max(s)}]]
        BY <2>1, <4>1
      <4>3. g[s \ {Max(s)}] = f[s \ {Max(s)}]
        <5>1. s \ {Max(s)} \in SUBSET (1 .. k + 1) /\ k + 1 \notin s \ {Max(s)}
          BY <3>2
        <5>. QED  BY <5>1, Zenon
      <4>. HIDE DEF g
      <4>. QED  BY <4>1, <4>2, <4>3, Zenon
    <3>. QED  BY <3>1, <3>2
  <2>. HIDE DEF g
  <2>7. Holds(g, k + 1)
    BY <2>6, Zenon
  <2>. QED  BY <2>5, <2>7, Zenon
<1>. HIDE DEF U
<1>3. m \in U
  BY <1>1, <1>2, Induction
<1>4. m <= m
  OBVIOUS
<1>. QED  BY <1>3, <1>4, Zenon DEF U, Folds

\* What each round keeps holds in the end.
LEMMA FoldRounds ==
  ASSUME NEW m \in Nat, NEW R, NEW it, it[{}] \in R[0],
         \A k \in 1 .. m : it[1 .. k - 1] \in R[k - 1] => it[1 .. k] \in R[k]
  PROVE  it[1 .. m] \in R[m]
<1>. DEFINE U == {k \in Nat : k <= m => it[1 .. k] \in R[k]}
<1>1. 0 \in U
  <2>1. 1 .. 0 = {}
    OBVIOUS
  <2>. QED  BY <2>1
<1>2. ASSUME NEW k \in Nat, k \in U
      PROVE  k + 1 \in U
  <2>. SUFFICES ASSUME k + 1 <= m
                PROVE  it[1 .. k + 1] \in R[k + 1]
    OBVIOUS
  <2>1. k + 1 \in 1 .. m /\ (k + 1) - 1 = k /\ it[1 .. k] \in R[k]
    BY <1>2
  <2>. QED  BY <2>1
<1>. HIDE DEF U
<1>3. m \in U
  BY <1>1, <1>2, Induction
<1>. QED  BY <1>3 DEF U

\* The last of the first k elements, and those before it.
LEMMA FirstOnes ==
  ASSUME NEW k \in Nat, k # 0
  PROVE  1 .. k # {} /\ Max(1 .. k) = k /\ (1 .. k) \ {k} = 1 .. k - 1
<1>1. k \in 1 .. k
  OBVIOUS
<1>2. Max(1 .. k) \in 1 .. k /\ Max(1 .. k) >= k
  BY <1>1, MaxIsGreatest
<1>. QED  BY <1>1, <1>2
\* The elements of the sequences that a step makes.
LEMMA SetOfAppend ==
  ASSUME NEW S, NEW s \in Seq(S), NEW e \in S
  PROVE  \A x : x \in ToSet(Append(s, e)) <=> x \in ToSet(s) \/ x = e
<1>1. /\ Append(s, e) \in Seq(S) /\ Len(Append(s, e)) = Len(s) + 1
      /\ \A i \in 1 .. Len(s) : Append(s, e)[i] = s[i]
      /\ Append(s, e)[Len(s) + 1] = e
  BY AppendProperties
<1>2. DOMAIN Append(s, e) = 1 .. Len(s) + 1 /\ DOMAIN s = 1 .. Len(s) /\ Len(s) \in Nat
  BY <1>1
<1>3. \A x : x \in ToSet(Append(s, e)) <=> \E i \in 1 .. Len(s) + 1 : x = Append(s, e)[i]
  BY <1>2 DEF ToSet
<1>4. \A x : x \in ToSet(s) <=> \E i \in 1 .. Len(s) : x = s[i]
  BY <1>2 DEF ToSet
<1>5. \A i \in 1 .. Len(s) + 1 : i \in 1 .. Len(s) \/ i = Len(s) + 1
  BY <1>2
<1>6. \A i \in 1 .. Len(s) : i \in 1 .. Len(s) + 1
  BY <1>2
<1>7. Len(s) + 1 \in 1 .. Len(s) + 1
  BY <1>2
<1>8. ASSUME NEW x, x \in ToSet(Append(s, e))
      PROVE  x \in ToSet(s) \/ x = e
  <2>1. PICK i \in 1 .. Len(s) + 1 : x = Append(s, e)[i]
    BY <1>3, <1>8
  <2>2. CASE i \in 1 .. Len(s)
    BY <1>1, <1>4, <2>1, <2>2
  <2>3. CASE i = Len(s) + 1
    BY <1>1, <2>1, <2>3
  <2>. QED  BY <1>5, <2>2, <2>3
<1>9. ASSUME NEW x, x \in ToSet(s)
      PROVE  x \in ToSet(Append(s, e))
  <2>1. PICK i \in 1 .. Len(s) : x = s[i]
    BY <1>4, <1>9
  <2>. QED  BY <1>1, <1>3, <1>6, <2>1
<1>10. e \in ToSet(Append(s, e))
  BY <1>1, <1>3, <1>7
<1>. QED  BY <1>8, <1>9, <1>10

LEMMA SetOfTail ==
  ASSUME NEW S, NEW s \in Seq(S), s # <<>>
  PROVE  /\ Head(s) \in ToSet(s)
         /\ \A x : x \in ToSet(s) <=> x = Head(s) \/ x \in ToSet(Tail(s))
<1>1. Len(s) \in Nat /\ Len(s) # 0 /\ DOMAIN s = 1 .. Len(s) /\ Head(s) = s[1]
  BY EmptySeq
<1>2. /\ Tail(s) \in Seq(S) /\ Len(Tail(s)) = Len(s) - 1
      /\ \A i \in 1 .. Len(Tail(s)) : Tail(s)[i] = s[i + 1]
  BY HeadTailProperties
<1>3. DOMAIN Tail(s) = 1 .. Len(s) - 1
  BY <1>2
<1>4. \A x : x \in ToSet(s) <=> \E i \in 1 .. Len(s) : x = s[i]
  BY <1>1 DEF ToSet
<1>5. \A x : x \in ToSet(Tail(s)) <=> \E i \in 1 .. Len(s) - 1 : x = Tail(s)[i]
  BY <1>3 DEF ToSet
<1>6. ASSUME NEW i \in 1 .. Len(s)
      PROVE  s[i] = Head(s) \/ s[i] \in ToSet(Tail(s))
  <2>1. CASE i = 1
    BY <1>1, <2>1
  <2>2. CASE i # 1
    <3>1. i - 1 \in 1 .. Len(s) - 1 /\ (i - 1) + 1 = i
      BY <1>1, <2>2
    <3>. QED  BY <1>2, <1>5, <3>1
  <2>. QED  BY <2>1, <2>2
<1>7. ASSUME NEW i \in 1 .. Len(s) - 1
      PROVE  Tail(s)[i] \in ToSet(s)
  <2>1. i + 1 \in 1 .. Len(s)
    BY <1>1
  <2>. QED  BY <1>2, <1>4, <2>1
<1>8. 1 \in 1 .. Len(s)
  BY <1>1
<1>. QED  BY <1>1, <1>4, <1>5, <1>6, <1>7, <1>8, Zenon

-----------------------------------------------------------------------------
(***************************************************************************)
(* Who is evicted.                                                         *)
(***************************************************************************)
Verdict == [ok : BOOLEAN, evict : Seq(Device), via : {"none", "cost", "conflict", "table"}]

LEMMA CostType ==
  ASSUME TypeOK, NEW d \in Device
  PROVE  Cost(d) \in Nat /\ CostHeld(d) \in Nat
BY DevicesAssumption DEF TypeOK, Cost, CostHeld

\* What the first devices of a list cost, those to be skipped left out.
Sums(sum, ds, skip) ==
  /\ sum \in [0 .. Len(ds) -> Int] /\ sum[0] = 0
  /\ \A k \in 1 .. Len(ds) : sum[k] = sum[k - 1] + (IF ds[k] \in skip THEN 0 ELSE CostHeld(ds[k]))

\* What devices cost together is the sum of what each costs.
LEMMA CostOfSums ==
  ASSUME TypeOK, NEW ds \in Seq(Device)
  PROVE  CostOf(ds) \in Nat /\ \E sum : Sums(sum, ds, {}) /\ sum[Len(ds)] = CostOf(ds)
<1>. DEFINE Add(n, d) == n + CostHeld(d)
            F(f) == [s \in SUBSET DOMAIN ds |->
                       IF s = {} THEN 0 ELSE Add(f[s \ {Max(s)}], ds[Max(s)])]
            iter == CHOOSE f : f = F(f)
<1>1. CostOf(ds) = iter[DOMAIN ds]
  BY Zenon DEF CostOf, FoldLeft, MapThenFoldSet
<1>2. PICK m \in Nat : Len(ds) = m /\ DOMAIN ds = 1 .. m /\ \A k \in 1 .. m : ds[k] \in Device
  OBVIOUS
<1>3. \A r \in Nat, k \in 1 .. m : Add(r, ds[k]) \in Nat
  BY <1>2, CostType
<1>. HIDE DEF Add
<1>5. PICK G \in [1 .. m -> [Nat -> Nat]] : \A k \in 1 .. m : \A r \in Nat : G[k][r] = Add(r, ds[k])
  <2>. DEFINE H == [k \in 1 .. m |-> [r \in Nat |-> Add(r, ds[k])]]
  <2>1. H \in [1 .. m -> [Nat -> Nat]] /\ \A k \in 1 .. m : \A r \in Nat : H[k][r] = Add(r, ds[k])
    BY <1>3
  <2>. HIDE DEF H
  <2>. QED  BY <2>1, Zenon
<1>6. PICK it \in [SUBSET (1 .. m) -> Nat] : Folds(it, m, 0, G)
  <2>1. 0 \in Nat
    OBVIOUS
  <2>. QED  BY <2>1, FoldExists, Zenon
<1>7. it = F(it)
  <2>1. ASSUME NEW s \in SUBSET (1 .. m), s # {}
        PROVE  G[Max(s)][it[s \ {Max(s)}]] = Add(it[s \ {Max(s)}], ds[Max(s)])
    <3>1. Max(s) \in 1 .. m
      BY <1>2, <2>1, MaxIsGreatest
    <3>2. it[s \ {Max(s)}] \in Nat
      BY <1>6
    <3>. QED  BY <1>5, <3>1, <3>2
  <2>2. \A s \in SUBSET (1 .. m) :
          it[s] = IF s = {} THEN 0 ELSE Add(it[s \ {Max(s)}], ds[Max(s)])
    BY <1>6, <2>1 DEF Folds
  <2>. QED  BY <1>2, <2>2
<1>8. iter = F(iter)
  <2>. HIDE DEF F
  <2>. QED  BY <1>7
<1>. HIDE DEF iter
<1>9. iter[{}] = 0
  BY <1>8
<1>10. ASSUME NEW k \in 1 .. m
       PROVE  iter[1 .. k] = Add(iter[1 .. k - 1], ds[k])
  <2>1. k \in Nat /\ k # 0 /\ k - 1 \in Nat /\ 1 .. k \in SUBSET DOMAIN ds
    BY <1>2
  <2>2. iter[1 .. k] = IF 1 .. k = {} THEN 0 ELSE Add(iter[(1 .. k) \ {Max(1 .. k)}], ds[Max(1 .. k)])
    BY <1>8, <2>1, Zenon
  <2>. HIDE DEF F
  <2>. QED  BY <2>1, <2>2, FirstOnes
<1>11. \A k \in 0 .. m : iter[1 .. k] \in Nat
  <2>. DEFINE R == [k \in Nat |-> Nat]
  <2>1. iter[{}] \in R[0] /\ \A k \in 1 .. m : iter[1 .. k - 1] \in R[k - 1] => iter[1 .. k] \in R[k]
    <3>1. ASSUME NEW k \in 1 .. m, iter[1 .. k - 1] \in R[k - 1]
          PROVE  iter[1 .. k] \in R[k]
      <4>1. k \in Nat /\ k - 1 \in Nat
        OBVIOUS
      <4>2. iter[1 .. k - 1] \in Nat
        BY <3>1, <4>1
      <4>3. Add(iter[1 .. k - 1], ds[k]) \in Nat
        BY <1>3, <4>2
      <4>. QED  BY <1>10, <4>1, <4>3
    <3>2. iter[{}] \in R[0]
      BY <1>9
    <3>. HIDE DEF R
    <3>. QED  BY <3>1, <3>2
  <2>. SUFFICES ASSUME NEW n \in 0 .. m
                PROVE  iter[1 .. n] \in Nat
    OBVIOUS
  <2>2. n \in Nat /\ \A k \in 1 .. n : k \in 1 .. m
    OBVIOUS
  <2>3. iter[1 .. n] \in R[n]
    <3>. HIDE DEF R
    <3>. QED  BY <2>1, <2>2, FoldRounds
  <2>. QED  BY <2>2, <2>3
<1>. DEFINE sum == [k \in 0 .. m |-> iter[1 .. k]]
<1>12. sum \in [0 .. m -> Nat] /\ sum[0] = 0
  <2>1. 1 .. 0 = {} /\ 0 \in 0 .. m
    OBVIOUS
  <2>. QED  BY <1>9, <1>11, <2>1
<1>13. \A k \in 1 .. m : sum[k] = sum[k - 1] + CostHeld(ds[k])
  <2>1. \A k \in 1 .. m : k \in 0 .. m /\ k - 1 \in 0 .. m
    OBVIOUS
  <2>. QED  BY <1>10, <2>1 DEF Add
<1>14. sum[m] = CostOf(ds)
  BY <1>1, <1>2
<1>15. sum[m] \in Nat
  BY <1>12
<1>. HIDE DEF sum
<1>16. Sums(sum, ds, {})
  BY <1>2, <1>12, <1>13 DEF Sums
<1>. QED  BY <1>2, <1>14, <1>15, <1>16

\* There is one such sum.
LEMMA SumsAgree ==
  ASSUME NEW ds, Len(ds) \in Nat, NEW skip, NEW other, NEW sum, NEW sum2, Sums(sum, ds, skip), Sums(sum2, ds, other),
         \A k \in 1 .. Len(ds) : ds[k] \in skip <=> ds[k] \in other
  PROVE  \A k \in 0 .. Len(ds) : sum[k] = sum2[k]
<1>. DEFINE T == {k \in Nat : k <= Len(ds) => sum[k] = sum2[k]}
<1>1. 0 \in T
  BY DEF Sums
<1>2. ASSUME NEW k \in Nat, k \in T
      PROVE  k + 1 \in T
  <2>. SUFFICES ASSUME k + 1 <= Len(ds)
                PROVE  sum[k + 1] = sum2[k + 1]
    OBVIOUS
  <2>1. k + 1 \in 1 .. Len(ds) /\ (k + 1) - 1 = k /\ sum[k] = sum2[k]
    BY <1>2
  <2>. QED  BY <2>1 DEF Sums
<1>. HIDE DEF T
<1>3. \A n \in Nat : n \in T
  BY <1>1, <1>2, Induction
<1>. QED  BY <1>3 DEF T

\* No device holds twice.
Distinct == \A i, j \in DOMAIN holders : holders[i] = holders[j] => i = j

\* A device that is evicted no longer counts.
LEMMA EvictedRound ==
  ASSUME TypeOK, Distinct, NEW evict \in Seq(Device), NEW k \in 1 .. Len(holders),
         NEW sum, Sums(sum, holders, ToSet(evict)), \A e \in ToSet(evict) : \E i \in 1 .. k - 1 : e = holders[i]
  PROVE  \E s : /\ Sums(s, holders, ToSet(Append(evict, holders[k])))
                /\ s[Len(holders)] = sum[Len(holders)] - CostHeld(holders[k])
<1>. DEFINE m == Len(holders)
            s == [j \in 0 .. m |-> IF j < k THEN sum[j] ELSE sum[j] - CostHeld(holders[k])]
            skip == ToSet(evict)
            wider == ToSet(Append(evict, holders[k]))
<1>1. /\ m \in Nat /\ DOMAIN holders = 1 .. m /\ \A j \in 1 .. m : holders[j] \in Device /\ CostHeld(holders[j]) \in Nat
  <2>1. holders \in Seq(Device)
    BY DEF TypeOK
  <2>2. m \in Nat /\ DOMAIN holders = 1 .. m /\ \A j \in 1 .. m : holders[j] \in Device
    BY <2>1
  <2>. HIDE DEF m
  <2>. QED  BY <2>2, CostType
<1>2. \A x : x \in wider <=> x \in skip \/ x = holders[k]
  BY <1>1, SetOfAppend
<1>3. holders[k] \notin skip
  BY <1>1 DEF Distinct
<1>4. \A j \in 1 .. m : j # k => (holders[j] \in wider <=> holders[j] \in skip)
  BY <1>1, <1>2 DEF Distinct
<1>5. /\ sum \in [0 .. m -> Int] /\ sum[0] = 0
      /\ \A j \in 1 .. m : sum[j] = sum[j - 1] + (IF holders[j] \in skip THEN 0 ELSE CostHeld(holders[j]))
  BY DEF Sums
<1>6. s \in [0 .. m -> Int] /\ s[0] = 0 /\ s[m] = sum[m] - CostHeld(holders[k])
  BY <1>1, <1>5
<1>. HIDE DEF skip, wider
<1>7. ASSUME NEW j \in 1 .. m
      PROVE  s[j] = s[j - 1] + (IF holders[j] \in wider THEN 0 ELSE CostHeld(holders[j]))
  <2>1. j \in 0 .. m /\ j - 1 \in 0 .. m /\ (j - 1 < k <=> j < k \/ j = k)
    BY <1>1
  <2>2. sum[j] \in Int /\ sum[j - 1] \in Int /\ CostHeld(holders[j]) \in Nat /\ CostHeld(holders[k]) \in Nat
    BY <1>1, <1>5, <2>1
  <2>3. /\ s[j] = IF j < k THEN sum[j] ELSE sum[j] - CostHeld(holders[k])
        /\ s[j - 1] = IF j < k \/ j = k THEN sum[j - 1] ELSE sum[j - 1] - CostHeld(holders[k])
    BY <2>1
  <2>4. sum[j] = sum[j - 1] + (IF holders[j] \in skip THEN 0 ELSE CostHeld(holders[j]))
    BY <1>5
  <2>. HIDE DEF s
  <2>5. CASE j = k
    BY <1>2, <1>3, <2>2, <2>3, <2>4, <2>5
  <2>6. CASE j # k
    BY <1>4, <2>2, <2>3, <2>4, <2>6
  <2>. QED  BY <2>5, <2>6
<1>. HIDE DEF s
<1>8. Sums(s, holders, wider)
  BY <1>6, <1>7 DEF Sums
<1>. QED  BY <1>6, <1>8 DEF wider

\* The verdict by costs: those that stay and the one that comes are within the limit.
LEMMA ByCostType ==
  ASSUME TypeOK, NEW d \in Device, NEW higher
  PROVE  /\ ByCost(d, higher) \in Verdict
         /\ Distinct /\ ByCost(d, higher).ok =>
              \E sum : /\ Sums(sum, holders, ToSet(ByCost(d, higher).evict))
                       /\ sum[Len(holders)] + Cost(d) <= MaxCost
<1>. DEFINE T == [total : Int, evict : Seq(Device)]
            mine == \A e \in ToSet(holders) : OwnerOf[e] \notin higher
            Consider(r, e) ==
              IF /\ r.total > MaxCost /\ CostHeld(e) > 0 /\ OwnerOf[e] \notin higher
                 /\ ~(mine /\ OwnerOf[e] = OwnerOf[d])
                THEN [total |-> r.total - CostHeld(e), evict |-> Append(r.evict, e)]
                ELSE r
            base == [total |-> TotalCost + Cost(d), evict |-> <<>>]
            done == FoldLeft(Consider, base, holders)
            F(f) == [s \in SUBSET DOMAIN holders |->
                       IF s = {} THEN base ELSE Consider(f[s \ {Max(s)}], holders[Max(s)])]
            iter == CHOOSE f : f = F(f)
            Left(r, k) == \E sum : /\ Sums(sum, holders, ToSet(r.evict)) /\ r.total = sum[Len(holders)] + Cost(d)
                                   /\ \A e \in ToSet(r.evict) : \E i \in 1 .. k : e = holders[i]
<1>1. done = iter[DOMAIN holders]
  BY Zenon DEF FoldLeft, MapThenFoldSet
<1>2. PICK m \in Nat : DOMAIN holders = 1 .. m /\ Len(holders) = m /\ \A k \in 1 .. m : holders[k] \in Device
  BY DEF TypeOK
<1>0. TotalCost \in Nat /\ Left(base, 0)
  <2>1. CostOf(holders) \in Nat /\ \E sum : Sums(sum, holders, {}) /\ sum[Len(holders)] = CostOf(holders)
    BY CostOfSums DEF TypeOK
  <2>2. ToSet(<<>>) = {}
    BY DEF ToSet
  <2>. QED  BY <2>1, <2>2 DEF TotalCost
<1>. HIDE DEF mine
<1>3. ASSUME NEW r \in T, NEW k \in 1 .. m
      PROVE  Consider(r, holders[k]) \in T
  <2>1. CostHeld(holders[k]) \in Nat /\ r.total \in Int /\ r.evict \in Seq(Device)
    BY <1>2, CostType
  <2>2. [total |-> r.total - CostHeld(holders[k]), evict |-> Append(r.evict, holders[k])] \in T
    BY <1>2, <2>1
  <2>. QED  BY <2>2
<1>4. base \in T
  BY <1>0, CostType, EmptySeq
<1>13. ASSUME Distinct, NEW r \in T, NEW k \in 1 .. m, Left(r, k - 1)
       PROVE  Left(Consider(r, holders[k]), k)
  <2>1. CostHeld(holders[k]) \in Nat /\ Cost(d) \in Nat /\ r.total \in Int /\ r.evict \in Seq(Device)
    BY <1>2, CostType
  <2>2. PICK sum : /\ Sums(sum, holders, ToSet(r.evict)) /\ r.total = sum[Len(holders)] + Cost(d)
                   /\ \A e \in ToSet(r.evict) : \E i \in 1 .. k - 1 : e = holders[i]
    BY <1>13
  <2>3. \A i \in 1 .. k - 1 : i \in 1 .. k
    BY <1>2
  <2>4. Left(r, k)
    BY <2>2, <2>3
  <2>. DEFINE r2 == [total |-> r.total - CostHeld(holders[k]), evict |-> Append(r.evict, holders[k])]
  <2>5. Left(r2, k)
    <3>1. PICK s : /\ Sums(s, holders, ToSet(Append(r.evict, holders[k])))
                   /\ s[Len(holders)] = sum[Len(holders)] - CostHeld(holders[k])
      BY <1>2, <1>13, <2>1, <2>2, EvictedRound
    <3>2. \A x : x \in ToSet(Append(r.evict, holders[k])) <=> x \in ToSet(r.evict) \/ x = holders[k]
      BY <1>2, <2>1, SetOfAppend
    <3>3. \A e \in ToSet(Append(r.evict, holders[k])) : \E i \in 1 .. k : e = holders[i]
      <4>1. k \in 1 .. k
        BY <1>2
      <4>. QED  BY <2>2, <2>3, <3>2, <4>1
    <3>4. sum[Len(holders)] \in Int
      BY <1>2, <2>2 DEF Sums
    <3>. QED  BY <2>1, <2>2, <3>1, <3>3, <3>4
  <2>6. Consider(r, holders[k]) = r \/ Consider(r, holders[k]) = r2
    OBVIOUS
  <2>. HIDE DEF Left, Consider, r2
  <2>. QED  BY <2>4, <2>5, <2>6
<1>14. Left(base, 0)
  BY <1>0
<1>. HIDE DEF T, Consider, base, Left
<1>5. PICK G \in [1 .. m -> [T -> T]] : \A k \in 1 .. m : \A r \in T : G[k][r] = Consider(r, holders[k])
  <2>. DEFINE H == [k \in 1 .. m |-> [r \in T |-> Consider(r, holders[k])]]
  <2>1. H \in [1 .. m -> [T -> T]] /\ \A k \in 1 .. m : \A r \in T : H[k][r] = Consider(r, holders[k])
    BY <1>3
  <2>. HIDE DEF H
  <2>. QED  BY <2>1, Zenon
<1>6. PICK it \in [SUBSET (1 .. m) -> T] : Folds(it, m, base, G)
  BY <1>4, FoldExists, Zenon
<1>7. it = F(it)
  <2>1. ASSUME NEW s \in SUBSET (1 .. m), s # {}
        PROVE  G[Max(s)][it[s \ {Max(s)}]] = Consider(it[s \ {Max(s)}], holders[Max(s)])
    <3>1. Max(s) \in 1 .. m
      BY <1>2, <2>1, MaxIsGreatest
    <3>2. it[s \ {Max(s)}] \in T
      BY <1>6
    <3>. QED  BY <1>5, <3>1, <3>2
  <2>2. \A s \in SUBSET (1 .. m) :
          it[s] = IF s = {} THEN base ELSE Consider(it[s \ {Max(s)}], holders[Max(s)])
    BY <1>6, <2>1 DEF Folds
  <2>. QED  BY <1>2, <2>2
<1>8. iter = F(iter)
  <2>. HIDE DEF F
  <2>. QED  BY <1>7
<1>. HIDE DEF iter
<1>9. iter[1 .. m] \in T /\ (Distinct => Left(iter[1 .. m], m))
  <2>. DEFINE R == [k \in Nat |-> {r \in T : Distinct => Left(r, k)}]
  <2>1. iter[{}] \in R[0]
    BY <1>4, <1>8, <1>14
  <2>2. ASSUME NEW k \in 1 .. m, iter[1 .. k - 1] \in R[k - 1]
        PROVE  iter[1 .. k] \in R[k]
    <3>1. k \in Nat /\ k # 0 /\ k - 1 \in Nat /\ 1 .. k \in SUBSET DOMAIN holders
      BY <1>2
    <3>2. iter[1 .. k] = Consider(iter[1 .. k - 1], holders[k])
      <4>1. iter[1 .. k] = IF 1 .. k = {} THEN base ELSE Consider(iter[(1 .. k) \ {Max(1 .. k)}], holders[Max(1 .. k)])
        BY <1>8, <3>1, Zenon
      <4>. HIDE DEF F
      <4>. QED  BY <3>1, <4>1, FirstOnes
    <3>3. iter[1 .. k - 1] \in T /\ (Distinct => Left(iter[1 .. k - 1], k - 1))
      BY <2>2, <3>1
    <3>. QED  BY <1>3, <1>13, <3>1, <3>2, <3>3
  <2>3. iter[1 .. m] \in R[m]
    <3>. HIDE DEF R
    <3>. QED  BY <1>2, <2>1, <2>2, FoldRounds
  <2>. QED  BY <1>2, <2>3
<1>10. done \in T /\ (Distinct => Left(done, m))
  BY <1>1, <1>2, <1>9
<1>11. Refuse \in Verdict /\ [ok |-> TRUE, evict |-> done.evict, via |-> "cost"] \in Verdict
  <2>. HIDE DEF done
  <2>. QED  BY <1>10, EmptySeq DEF T, Refuse, Verdict
<1>12. ByCost(d, higher) = IF done.total > MaxCost THEN Refuse ELSE [ok |-> TRUE, evict |-> done.evict, via |-> "cost"]
  BY Zenon DEF ByCost, base, Consider, mine
<1>15. Distinct /\ ~ (done.total > MaxCost) =>
         \E sum : Sums(sum, holders, ToSet(done.evict)) /\ sum[Len(holders)] + Cost(d) <= MaxCost
  <2>. SUFFICES ASSUME Distinct, ~ (done.total > MaxCost)
                PROVE  \E sum : Sums(sum, holders, ToSet(done.evict)) /\ sum[Len(holders)] + Cost(d) <= MaxCost
    OBVIOUS
  <2>. HIDE DEF done
  <2>1. PICK sum : Sums(sum, holders, ToSet(done.evict)) /\ done.total = sum[Len(holders)] + Cost(d)
    BY <1>10 DEF Left
  <2>2. done.total \in Int
    BY <1>10 DEF T
  <2>. QED  BY <2>1, <2>2 DEF MaxCost
<1>. HIDE DEF done
<1>. QED  BY <1>11, <1>12, <1>15 DEF Refuse

\* The verdict by the table of concurrent cameras, whatever the order of the holders.
LEMMA ConflictDevicesType ==
  ASSUME TypeOK, NEW d \in Device, NEW higher, NEW order \in Seq(Device)
  PROVE  GetConflictDevices(d, higher, order) \in Verdict /\ GetConflictDevices(d, higher, order).via = "table"
<1>. DEFINE T == [kept : SUBSET Device, evict : Seq(Device)]
            Confirm(r, e) == IF IsKept(e, r.kept, d, higher)
                               THEN [r EXCEPT !.kept = @ \cup {e}]
                               ELSE [r EXCEPT !.evict = Append(@, e)]
            base == [kept |-> {}, evict |-> <<>>]
            done == FoldLeft(Confirm, base, order)
            F(f) == [s \in SUBSET DOMAIN order |->
                       IF s = {} THEN base ELSE Confirm(f[s \ {Max(s)}], order[Max(s)])]
            iter == CHOOSE f : f = F(f)
<1>1. done = iter[DOMAIN order]
  BY Zenon DEF FoldLeft, MapThenFoldSet
<1>2. PICK m \in Nat : DOMAIN order = 1 .. m /\ \A k \in 1 .. m : order[k] \in Device
  OBVIOUS
<1>3. ASSUME NEW r \in T, NEW k \in 1 .. m
      PROVE  Confirm(r, order[k]) \in T
  <2>1. order[k] \in Device
    BY <1>2
  <2>2. [r EXCEPT !.kept = @ \cup {order[k]}] \in T
    BY <2>1
  <2>3. [r EXCEPT !.evict = Append(@, order[k])] \in T
    <3>1. Append(r.evict, order[k]) \in Seq(Device)
      BY <2>1
    <3>. QED  BY <3>1
  <2>. QED  BY <2>2, <2>3
<1>4. base \in T
  BY EmptySeq
<1>. HIDE DEF T, Confirm, base
<1>5. PICK G \in [1 .. m -> [T -> T]] : \A k \in 1 .. m : \A r \in T : G[k][r] = Confirm(r, order[k])
  <2>. DEFINE H == [k \in 1 .. m |-> [r \in T |-> Confirm(r, order[k])]]
  <2>1. H \in [1 .. m -> [T -> T]] /\ \A k \in 1 .. m : \A r \in T : H[k][r] = Confirm(r, order[k])
    BY <1>3
  <2>. HIDE DEF H
  <2>. QED  BY <2>1, Zenon
<1>6. PICK it \in [SUBSET (1 .. m) -> T] : Folds(it, m, base, G)
  BY <1>4, FoldExists, Zenon
<1>7. it = F(it)
  <2>1. ASSUME NEW s \in SUBSET (1 .. m), s # {}
        PROVE  G[Max(s)][it[s \ {Max(s)}]] = Confirm(it[s \ {Max(s)}], order[Max(s)])
    <3>1. Max(s) \in 1 .. m
      BY <1>2, <2>1, MaxIsGreatest
    <3>2. it[s \ {Max(s)}] \in T
      BY <1>6
    <3>. QED  BY <1>5, <3>1, <3>2
  <2>2. \A s \in SUBSET (1 .. m) :
          it[s] = IF s = {} THEN base ELSE Confirm(it[s \ {Max(s)}], order[Max(s)])
    BY <1>6, <2>1 DEF Folds
  <2>. QED  BY <1>2, <2>2
<1>8. iter = F(iter)
  <2>. HIDE DEF F
  <2>. QED  BY <1>7
<1>. HIDE DEF iter
<1>9. iter[1 .. m] \in T
  <2>. DEFINE R == [k \in Nat |-> T]
  <2>1. iter[{}] \in R[0]
    BY <1>4, <1>8
  <2>2. ASSUME NEW k \in 1 .. m, iter[1 .. k - 1] \in R[k - 1]
        PROVE  iter[1 .. k] \in R[k]
    <3>1. k \in Nat /\ k # 0 /\ k - 1 \in Nat /\ 1 .. k \in SUBSET DOMAIN order
      BY <1>2
    <3>2. iter[1 .. k] = Confirm(iter[1 .. k - 1], order[k])
      <4>1. iter[1 .. k] = IF 1 .. k = {} THEN base ELSE Confirm(iter[(1 .. k) \ {Max(1 .. k)}], order[Max(1 .. k)])
        BY <1>8, <3>1, Zenon
      <4>. HIDE DEF F
      <4>. QED  BY <3>1, <4>1, FirstOnes
    <3>. QED  BY <1>3, <2>2, <3>1, <3>2
  <2>3. iter[1 .. m] \in R[m]
    <3>. HIDE DEF R
    <3>. QED  BY <2>1, <2>2, FoldRounds
  <2>. QED  BY <2>3
<1>10. done \in T
  BY <1>1, <1>2, <1>9
<1>11. (done.kept = {} \/ Concurrent(done.kept)) \in BOOLEAN
  BY Zenon DEF Concurrent
<1>12. [ok |-> done.kept = {} \/ Concurrent(done.kept), evict |-> done.evict, via |-> "table"] \in Verdict
  <2>. HIDE DEF done
  <2>. QED  BY <1>10, <1>11 DEF T, Verdict
<1>13. GetConflictDevices(d, higher, order)
         = [ok |-> done.kept = {} \/ Concurrent(done.kept), evict |-> done.evict, via |-> "table"]
  BY Zenon DEF GetConflictDevices, base, Confirm
<1>. QED  BY <1>12, <1>13

\* What a callback closes are holders.
LEMMA CamerasByPidType ==
  ASSUME TypeOK, NEW p
  PROVE  GetCamerasByPid(p) \in Seq(ToSet(holders))
<1>. DEFINE T == Seq(ToSet(holders))
            Add(q, d) == IF OwnerOf[d] = p THEN Append(q, d) ELSE q
            F(f) == [s \in SUBSET DOMAIN holders |->
                       IF s = {} THEN <<>> ELSE Add(f[s \ {Max(s)}], holders[Max(s)])]
            iter == CHOOSE f : f = F(f)
<1>1. GetCamerasByPid(p) = iter[DOMAIN holders]
  BY Zenon DEF GetCamerasByPid, FoldLeft, MapThenFoldSet
<1>2. PICK m \in Nat : DOMAIN holders = 1 .. m /\ \A k \in 1 .. m : holders[k] \in ToSet(holders)
  <2>1. Len(holders) \in Nat /\ DOMAIN holders = 1 .. Len(holders)
    BY DEF TypeOK
  <2>2. \A k \in DOMAIN holders : holders[k] \in ToSet(holders)
    BY Zenon DEF ToSet
  <2>. QED  BY <2>1, <2>2
<1>3. \A r \in T, k \in 1 .. m : Add(r, holders[k]) \in T
  BY <1>2, AppendProperties
<1>4. <<>> \in T
  BY EmptySeq
<1>. HIDE DEF T, Add
<1>5. PICK G \in [1 .. m -> [T -> T]] : \A k \in 1 .. m : \A r \in T : G[k][r] = Add(r, holders[k])
  <2>. DEFINE H == [k \in 1 .. m |-> [r \in T |-> Add(r, holders[k])]]
  <2>1. H \in [1 .. m -> [T -> T]] /\ \A k \in 1 .. m : \A r \in T : H[k][r] = Add(r, holders[k])
    BY <1>3
  <2>. HIDE DEF H
  <2>. QED  BY <2>1, Zenon
<1>6. PICK it \in [SUBSET (1 .. m) -> T] : Folds(it, m, <<>>, G)
  BY <1>4, FoldExists, Zenon
<1>7. it = F(it)
  <2>1. ASSUME NEW s \in SUBSET (1 .. m), s # {}
        PROVE  G[Max(s)][it[s \ {Max(s)}]] = Add(it[s \ {Max(s)}], holders[Max(s)])
    <3>1. Max(s) \in 1 .. m
      BY <1>2, <2>1, MaxIsGreatest
    <3>2. it[s \ {Max(s)}] \in T
      BY <1>6
    <3>. QED  BY <1>5, <3>1, <3>2
  <2>2. \A s \in SUBSET (1 .. m) :
          it[s] = IF s = {} THEN <<>> ELSE Add(it[s \ {Max(s)}], holders[Max(s)])
    BY <1>6, <2>1 DEF Folds
  <2>. QED  BY <1>2, <2>2
<1>8. iter = F(iter)
  <2>. HIDE DEF F
  <2>. QED  BY <1>7
<1>. HIDE DEF iter
<1>9. iter[1 .. m] \in T
  <2>. DEFINE R == [k \in Nat |-> T]
  <2>1. iter[{}] \in R[0]
    BY <1>4, <1>8
  <2>2. ASSUME NEW k \in 1 .. m, iter[1 .. k - 1] \in R[k - 1]
        PROVE  iter[1 .. k] \in R[k]
    <3>1. k \in Nat /\ k # 0 /\ k - 1 \in Nat /\ 1 .. k \in SUBSET DOMAIN holders
      BY <1>2
    <3>2. iter[1 .. k] = Add(iter[1 .. k - 1], holders[k])
      <4>1. iter[1 .. k] = IF 1 .. k = {} THEN <<>> ELSE Add(iter[(1 .. k) \ {Max(1 .. k)}], holders[Max(1 .. k)])
        BY <1>8, <3>1, Zenon
      <4>. HIDE DEF F
      <4>. QED  BY <3>1, <4>1, FirstOnes
    <3>. QED  BY <1>3, <2>2, <3>1, <3>2
  <2>3. iter[1 .. m] \in R[m]
    <3>. HIDE DEF R
    <3>. QED  BY <2>1, <2>2, FoldRounds
  <2>. QED  BY <2>3
<1>. QED  BY <1>1, <1>2, <1>9 DEF T

\* The verdict by costs and conflicts: by costs, there is no conflict.
LEMMA WouldEvictType ==
  ASSUME TypeOK, NEW d \in Device, NEW higher
  PROVE  /\ WouldEvict(d, higher) \in Verdict
         /\ WouldEvict(d, higher).ok /\ WouldEvict(d, higher).via = "cost" =>
              /\ \A i \in DOMAIN holders : ~ IsConflicting(holders[i], d)
              /\ WouldEvict(d, higher) = ByCost(d, higher)
<1>. DEFINE conflicts == {i \in DOMAIN holders : IsConflicting(holders[i], d)}
            first == holders[Min(conflicts)]
<1>1. CASE conflicts = {}
  <2>1. WouldEvict(d, higher) = ByCost(d, higher)
    BY <1>1, Zenon DEF WouldEvict
  <2>2. ByCost(d, higher) \in Verdict
    BY ByCostType
  <2>. QED  BY <1>1, <2>1, <2>2
<1>2. CASE conflicts # {}
  <2>1. DOMAIN holders \subseteq Nat /\ \A i \in DOMAIN holders : holders[i] \in Device
    BY DEF TypeOK
  <2>2. Min(conflicts) \in DOMAIN holders
    BY <1>2, <2>1, MinIsLeast
  <2>3. <<first>> \in Seq(Device)
    BY <2>1, <2>2
  <2>4. [ok |-> TRUE, evict |-> <<first>>, via |-> "conflict"] \in Verdict /\ Refuse \in Verdict
    <3>. HIDE DEF first
    <3>. QED  BY <2>3, EmptySeq DEF Verdict, Refuse
  <2>5. WouldEvict(d, higher) = IF OwnerOf[first] \notin higher
                                  THEN [ok |-> TRUE, evict |-> <<first>>, via |-> "conflict"]
                                  ELSE Refuse
    BY <1>2, Zenon DEF WouldEvict
  <2>. HIDE DEF first
  <2>. QED  BY <2>4, <2>5 DEF Refuse
<1>. QED  BY <1>1, <1>2
-----------------------------------------------------------------------------
(***************************************************************************)
(* What a step does to the thread that takes it.                           *)
(***************************************************************************)
Doing == [pc : Places, dev : Device \cup {NoDevice}, todo : Seq(Device),
          next : {"idle", "privacy", "hostDied"}]

\* Only thread t moves.
OnlyOf(t) == \A x \in Thread : x # t => op'[x] = op[x]

LEMMA OpType ==
  ASSUME TypeOK
  PROVE  op \in [Thread -> Doing]
BY DEF TypeOK, Doing

LEMMA IdleType == Idle \in Doing
BY EmptySeq DEF Idle, Doing, Places

LEMMA Goes ==
  ASSUME TypeOK, NEW t \in Thread, NEW pc \in Places, GoTo(t, pc)
  PROVE  /\ op' \in [Thread -> Doing] /\ OnlyOf(t)
         /\ op'[t].pc = pc /\ op'[t].dev = op[t].dev
         /\ op'[t].todo = op[t].todo /\ op'[t].next = op[t].next
<1>1. op' = [op EXCEPT ![t].pc = pc] /\ op[t] \in Doing
  BY OpType DEF GoTo
<1>2. [op[t] EXCEPT !.pc = pc] \in Doing
  BY <1>1 DEF Doing
<1>3. op' = [op EXCEPT ![t] = [op[t] EXCEPT !.pc = pc]]
  BY <1>1
<1>4. op'[t] = [op[t] EXCEPT !.pc = pc] /\ op' \in [Thread -> Doing] /\ OnlyOf(t)
  BY OpType, <1>2, <1>3 DEF OnlyOf
<1>. QED  BY <1>1, <1>4 DEF Doing

LEMMA Replaced ==
  ASSUME TypeOK, NEW t \in Thread, NEW r \in Doing, op' = [op EXCEPT ![t] = r]
  PROVE  op' \in [Thread -> Doing] /\ OnlyOf(t) /\ op'[t] = r
BY OpType DEF OnlyOf

\* The record of a thread at the start of an open, or of the closing of what is on a list.
LEMMA IdleIs ==
  Idle \in Doing /\ Idle.pc = "idle" /\ Idle.dev = NoDevice /\ Idle.todo = <<>> /\ Idle.next = "idle"
BY IdleType DEF Idle

LEMMA OpenStart ==
  ASSUME NEW d \in Device, NEW r, r = [Idle EXCEPT !.pc = "admit", !.dev = d]
  PROVE  r \in Doing /\ r.pc = "admit" /\ r.dev = d /\ r.todo = <<>> /\ r.next = "idle"
BY IdleIs DEF Doing, Places

LEMMA CloseStart ==
  ASSUME NEW ds \in Seq(Device), NEW r, r = [Idle EXCEPT !.pc = "close", !.todo = ds]
  PROVE  r \in Doing /\ r.pc = "close" /\ r.dev = NoDevice /\ r.todo = ds /\ r.next = "idle"
BY IdleIs DEF Doing, Places

\* At the end of a list a thread goes on with its open or what its operation continues with.
LEMMA ClosedEffect ==
  ASSUME TypeOK, NEW t \in Thread, op[t].todo # <<>>, Closed(t)
  PROVE  /\ op' \in [Thread -> Doing] /\ OnlyOf(t)
         /\ Tail(op[t].todo) \in Seq(Device) /\ Head(op[t].todo) \in Device
         /\ \/ /\ Tail(op[t].todo) # <<>> /\ lock' = lock
               /\ op'[t].pc = "close" /\ op'[t].todo = Tail(op[t].todo)
               /\ op'[t].dev = op[t].dev /\ op'[t].next = op[t].next
            \/ /\ Tail(op[t].todo) = <<>> /\ op[t].next = "privacy" /\ lock' = lock
               /\ op'[t].pc = "privacy" /\ op'[t].todo = <<>>
               /\ op'[t].dev = op[t].dev /\ op'[t].next = op[t].next
            \/ /\ Tail(op[t].todo) = <<>> /\ op[t].next # "privacy"
               /\ lock' = IF lock = t THEN "free" ELSE lock
               /\ op'[t].pc = op[t].next /\ op'[t].todo = <<>>
               /\ op'[t].dev = NoDevice /\ op'[t].next = "idle"
               /\ op[t].next = "idle" => op'[t] = Idle
<1>1. op[t] \in Doing /\ op[t].todo \in Seq(Device)
  BY OpType DEF Doing
<1>2. Tail(op[t].todo) \in Seq(Device) /\ Head(op[t].todo) \in Device
  BY <1>1, HeadTailProperties
<1>. DEFINE rest == Tail(op[t].todo)
<1>3. ASSUME rest # <<>>
      PROVE  /\ op' \in [Thread -> Doing] /\ OnlyOf(t) /\ lock' = lock
             /\ op'[t].pc = "close" /\ op'[t].todo = rest
             /\ op'[t].dev = op[t].dev /\ op'[t].next = op[t].next
  <2>. DEFINE r == [op[t] EXCEPT !.todo = rest, !.pc = "close"]
  <2>1. r \in Doing /\ r.pc = "close" /\ r.todo = rest /\ r.dev = op[t].dev /\ r.next = op[t].next
    BY <1>1, <1>2 DEF Doing, Places
  <2>2. op' = [op EXCEPT ![t] = r] /\ lock' = lock
    BY <1>3 DEF Closed
  <2>. HIDE DEF r
  <2>. QED  BY <2>1, <2>2, Replaced
<1>4. ASSUME rest = <<>>, op[t].next = "privacy"
      PROVE  /\ op' \in [Thread -> Doing] /\ OnlyOf(t) /\ lock' = lock
             /\ op'[t].pc = "privacy" /\ op'[t].todo = <<>>
             /\ op'[t].dev = op[t].dev /\ op'[t].next = op[t].next
  <2>. DEFINE r == [op[t] EXCEPT !.todo = rest, !.pc = "privacy"]
  <2>1. r \in Doing /\ r.pc = "privacy" /\ r.todo = <<>> /\ r.dev = op[t].dev /\ r.next = op[t].next
    BY <1>1, <1>2, <1>4 DEF Doing, Places
  <2>2. op' = [op EXCEPT ![t] = r] /\ lock' = lock
    BY <1>4 DEF Closed
  <2>. HIDE DEF r
  <2>. QED  BY <2>1, <2>2, Replaced
<1>5. ASSUME rest = <<>>, op[t].next # "privacy"
      PROVE  /\ op' \in [Thread -> Doing] /\ OnlyOf(t) /\ lock' = IF lock = t THEN "free" ELSE lock
             /\ op'[t].pc = op[t].next /\ op'[t].todo = <<>>
             /\ op'[t].dev = NoDevice /\ op'[t].next = "idle"
             /\ op[t].next = "idle" => op'[t] = Idle
  <2>. DEFINE r == [Idle EXCEPT !.pc = op[t].next]
  <2>1. r \in Doing /\ r.pc = op[t].next /\ r.todo = <<>> /\ r.dev = NoDevice /\ r.next = "idle"
    BY <1>1, EmptySeq DEF Doing, Places, Idle
  <2>3. op[t].next = "idle" => r = Idle
    BY DEF Idle
  <2>2. op' = [op EXCEPT ![t] = r] /\ lock' = IF lock = t THEN "free" ELSE lock
    BY <1>5 DEF Closed
  <2>. HIDE DEF r
  <2>. QED  BY <2>1, <2>2, <2>3, Replaced
<1>. QED  BY <1>2, <1>3, <1>4, <1>5

\* A verdict sends a thread to the first device to be evicted, on with its open, or back.
LEMMA DecideEffect ==
  ASSUME TypeOK, NEW t \in Thread, NEW d \in Device, NEW verdict \in Verdict, Decide(t, d, verdict)
  PROVE  /\ op' \in [Thread -> Doing] /\ OnlyOf(t)
         /\ \/ op'[t] = Idle /\ lock' = "free" /\ verdict.evict = <<>> /\ ~ verdict.ok
            \/ /\ lock' = lock
               /\ op'[t].pc = (IF verdict.evict = <<>> THEN "privacy" ELSE "close")
               /\ op'[t].todo = verdict.evict /\ op'[t].dev = op[t].dev
               /\ op'[t].next = (IF verdict.ok THEN "privacy" ELSE "idle")
               /\ verdict.evict # <<>> \/ verdict.ok
<1>1. op[t] \in Doing /\ verdict.evict \in Seq(Device)
  BY OpType DEF Doing, Verdict
<1>2. CASE verdict.evict = <<>> /\ ~ verdict.ok
  <2>1. op' = [op EXCEPT ![t] = Idle] /\ lock' = "free"
    BY <1>2 DEF Decide, Return
  <2>. QED  BY <1>2, <2>1, IdleType, Replaced
<1>3. CASE ~ (verdict.evict = <<>> /\ ~ verdict.ok)
  <2>. DEFINE next == IF verdict.ok THEN "privacy" ELSE "idle"
              pc == IF verdict.evict = <<>> THEN "privacy" ELSE "close"
              r == [op[t] EXCEPT !.todo = verdict.evict, !.next = next, !.pc = pc]
  <2>1. next \in {"idle", "privacy", "hostDied"} /\ pc \in Places
    BY DEF Places
  <2>2. op' = [op EXCEPT ![t] = r] /\ lock' = lock
    BY <1>3 DEF Decide
  <2>3. r \in Doing /\ r.pc = pc /\ r.todo = verdict.evict /\ r.dev = op[t].dev /\ r.next = next
    <3>. HIDE DEF next, pc
    <3>. QED  BY <1>1, <2>1 DEF Doing
  <2>. HIDE DEF r
  <2>4. op' \in [Thread -> Doing] /\ OnlyOf(t) /\ op'[t] = r
    BY <2>2, <2>3, Replaced
  <2>. QED  BY <1>3, <2>2, <2>3, <2>4
<1>. QED  BY <1>2, <1>3

\* The cameras that are left when the host stops.
LEMMA CamerasType ==
  ASSUME TypeOK
  PROVE  SetToSeq(HostCameras) \in Seq(Camera)
<1>. DEFINE H == HostCameras
<1>0. H \subseteq Camera /\ IsFiniteSet(H)
  <2>1. H \subseteq Camera
    BY DevicesAssumption DEF HostCameras, TypeOK
  <2>. QED  BY <2>1, DevicesAssumption, FS_Subset
<1>1. Cardinality(H) \in Nat /\ ExistsBijection(1 .. Cardinality(H), H)
  BY <1>0, FS_CardinalityType
<1>2. \E f \in [1 .. Cardinality(H) -> H] : \A a, b \in DOMAIN f : f[a] = f[b] => a = b
  BY <1>1 DEF ExistsBijection, Bijection, Injection, IsInjective
<1>3. \E f \in [1 .. Cardinality(H) -> H] : IsInjective(f)
  BY <1>2 DEF IsInjective
<1>4. SetToSeq(H) \in [1 .. Cardinality(H) -> H]
  BY <1>3 DEF SetToSeq
<1>. HIDE DEF H
<1>5. SetToSeq(H) \in Seq(H)
  BY <1>1, <1>4
<1>. QED  BY <1>0, <1>5 DEF H

LEMMA RemoveAtIs ==
  ASSUME NEW S, NEW s \in Seq(S), NEW i \in 1 .. Len(s)
  PROVE  /\ RemoveAt(s, i) \in Seq(S)
         /\ Len(RemoveAt(s, i)) = Len(s) - 1
         /\ \A k \in 1 .. Len(s) - 1 : RemoveAt(s, i)[k] = IF k < i THEN s[k] ELSE s[k + 1]
<1>. DEFINE a == SubSeq(s, 1, i - 1)  b == SubSeq(s, i + 1, Len(s))
<1>1. Len(s) \in Nat /\ i \in Nat /\ i >= 1 /\ i <= Len(s) /\ \A k \in 1 .. Len(s) : s[k] \in S
  OBVIOUS
<1>2. a \in Seq(S) /\ Len(a) = i - 1 /\ \A k \in 1 .. i - 1 : a[k] = s[k]
  <2>1. 1 \in Int /\ i - 1 \in Int /\ \A k \in 1 .. i - 1 : s[k] \in S
    BY <1>1
  <2>2. /\ a \in Seq(S)
        /\ Len(a) = IF 1 <= i - 1 THEN (i - 1) - 1 + 1 ELSE 0
        /\ \A k \in 1 .. (i - 1) - 1 + 1 : a[k] = s[1 + k - 1]
    BY <2>1, SubSeqProperties
  <2>. HIDE DEF a
  <2>. QED  BY <1>1, <2>2
<1>3. b \in Seq(S) /\ Len(b) = Len(s) - i /\ \A k \in 1 .. Len(s) - i : b[k] = s[i + k]
  <2>1. i + 1 \in Int /\ Len(s) \in Int /\ \A k \in i + 1 .. Len(s) : s[k] \in S
    BY <1>1
  <2>2. /\ b \in Seq(S)
        /\ Len(b) = IF i + 1 <= Len(s) THEN Len(s) - (i + 1) + 1 ELSE 0
        /\ \A k \in 1 .. Len(s) - (i + 1) + 1 : b[k] = s[(i + 1) + k - 1]
    BY <2>1, SubSeqProperties
  <2>. HIDE DEF b
  <2>3. \A k \in 1 .. Len(s) - i : k \in 1 .. Len(s) - (i + 1) + 1 /\ (i + 1) + k - 1 = i + k
    BY <1>1
  <2>. QED  BY <1>1, <2>2, <2>3
<1>4. RemoveAt(s, i) = a \o b
  BY DEF RemoveAt
<1>. HIDE DEF a, b
<1>5. /\ a \o b \in Seq(S)
      /\ Len(a \o b) = Len(a) + Len(b)
      /\ \A k \in 1 .. Len(a) + Len(b) : (a \o b)[k] = IF k <= Len(a) THEN a[k] ELSE b[k - Len(a)]
  BY <1>2, <1>3, ConcatProperties
<1>6. ASSUME NEW k \in 1 .. Len(s) - 1
      PROVE  (a \o b)[k] = IF k < i THEN s[k] ELSE s[k + 1]
  <2>1. (a \o b)[k] = IF k <= Len(a) THEN a[k] ELSE b[k - Len(a)]
    BY <1>1, <1>2, <1>3, <1>5
  <2>2. CASE k < i
    BY <1>1, <1>2, <2>1, <2>2
  <2>3. CASE ~ (k < i)
    <3>1. k - (i - 1) \in 1 .. Len(s) - i /\ i + (k - (i - 1)) = k + 1
      BY <1>1, <2>3
    <3>. QED  BY <1>1, <1>2, <1>3, <2>1, <2>3, <3>1
  <2>. QED  BY <2>2, <2>3
<1>. QED  BY <1>1, <1>2, <1>3, <1>4, <1>5, <1>6
-----------------------------------------------------------------------------
(***************************************************************************)
(* What each thread may be doing.  A process has the lock from the start   *)
(* of its call to its end, the thread of the permission callbacks never,   *)
(* the host's thread while it closes a device.                             *)
(***************************************************************************)
Opening == {"admit", "privacy", "hdi", "addLock", "add", "register"}
Closing == {"close", "closePrivacy", "closeHost"}

ProcessOK(t) ==
  /\ op[t].pc \in {"idle"} \cup Opening \cup Closing
  /\ op[t].pc # "idle" <=> lock = t
  /\ op[t].pc = "idle" => op[t] = Idle
  /\ op[t].pc \in Closing <=> op[t].todo # <<>>
  /\ op[t].next \in {"idle", "privacy"}
  /\ op[t].pc \in Opening \/ op[t].next = "privacy" => op[t].dev \in Device /\ OwnerOf[op[t].dev] = t

WatcherOK ==
  LET w == op[Watcher]
  IN  /\ w.pc \in {"idle"} \cup Closing /\ w.next = "idle" /\ w.dev = NoDevice
      /\ w.pc \in Closing <=> w.todo # <<>>
      /\ lock # Watcher

HostOK ==
  LET h == op[HostThread]
  IN  /\ h.pc \in {"idle", "closeLock", "hostNext", "hostDied"} \cup Closing
      /\ h.next \in {"idle", "hostDied"} /\ h.dev = NoDevice
      /\ h.pc \in Closing <=> lock = HostThread
      /\ h.pc \in {"closeLock"} \cup Closing <=> h.todo # <<>>
      /\ h.todo # <<>> => Tail(h.todo) = <<>>
      /\ h.next = "hostDied" => h.todo # <<>>
      /\ host.locked <=> h.pc \in {"hostNext", "hostDied"} \/ h.next = "hostDied"
      /\ h.pc = "hostDied" \/ h.next = "hostDied" => host.cams # <<>>
      /\ h.next = "hostDied" => CameraOf[Head(h.todo)] = Head(host.cams)

ThreadsOK == (\A t \in Process : ProcessOK(t)) /\ WatcherOK /\ HostOK

\* The host manager keeps a device under its camera.
MapTyped == \A c \in Camera : hostMap[c] # NoDevice => CameraOf[hostMap[c]] = c

LockMoves(t) ==
  \/ lock' = lock
  \/ lock = "free" /\ lock' = t /\ t # Watcher
  \/ lock = t /\ lock' = "free"

LEMMA ThreadKinds ==
  /\ Watcher \in Thread /\ HostThread \in Thread /\ Process \subseteq Thread
  /\ Watcher \notin Process /\ HostThread \notin Process /\ Watcher # HostThread
  /\ "free" \notin Thread
  /\ \A t \in Thread : t \in Process \/ t = Watcher \/ t = HostThread
BY DevicesAssumption DEF Thread

\* The other threads are where they were.
LEMMA OthersKept ==
  ASSUME TypeOK, ThreadsOK, NEW t \in Thread, OnlyOf(t), LockMoves(t), t = HostThread \/ host' = host,
         t \in Process => ProcessOK(t)', t = Watcher => WatcherOK', t = HostThread => HostOK'
  PROVE  ThreadsOK'
<1>1. ASSUME NEW x \in Process, x # t
      PROVE  ProcessOK(x)'
  <2>1. op'[x] = op[x] /\ ProcessOK(x) /\ x # "free"
    BY <1>1, ThreadKinds DEF OnlyOf, ThreadsOK
  <2>2. lock' = x <=> lock = x
    BY <1>1, <2>1 DEF LockMoves
  <2>. QED  BY <2>1, <2>2 DEF ProcessOK
<1>2. ASSUME t # Watcher
      PROVE  WatcherOK'
  <2>1. op'[Watcher] = op[Watcher] /\ WatcherOK
    BY <1>2, ThreadKinds DEF OnlyOf, ThreadsOK
  <2>2. lock' # Watcher
    BY <1>2, <2>1, ThreadKinds DEF LockMoves, WatcherOK
  <2>. QED  BY <2>1, <2>2 DEF WatcherOK
<1>3. ASSUME t # HostThread
      PROVE  HostOK'
  <2>1. op'[HostThread] = op[HostThread] /\ HostOK /\ host' = host
    BY <1>3, ThreadKinds DEF OnlyOf, ThreadsOK
  <2>2. lock' = HostThread <=> lock = HostThread
    BY <1>3, ThreadKinds DEF LockMoves
  <2>. QED  BY <2>1, <2>2 DEF HostOK
<1>. QED  BY <1>1, <1>2, <1>3 DEF ThreadsOK

LEMMA PrivacyType ==
  ASSUME NEW d, NEW granted, NEW ds,
         NEW p \in [using : SUBSET Process, useCb : SUBSET Device, permCb : SUBSET Device, refused : SUBSET Process]
  PROVE  /\ StopUsing(p, d, ds) \in [using : SUBSET Process, useCb : SUBSET Device, permCb : SUBSET Device,
                                 refused : SUBSET Process]
         /\ IsMultiCameraActive(OwnerOf[d], ds) =>
              StopUsing(p, d, ds).using = p.using /\ StopUsing(p, d, ds).refused = p.refused
         /\ ~ IsMultiCameraActive(OwnerOf[d], ds) =>
              /\ StopUsing(p, d, ds).using = p.using \ {OwnerOf[d]}
              /\ StopUsing(p, d, ds).refused = p.refused \ {OwnerOf[d]}
<1>. DEFINE watched == [p EXCEPT !.permCb = @ \ {d}]
            T == [using : SUBSET Process, useCb : SUBSET Device, permCb : SUBSET Device, refused : SUBSET Process]
            stopped == [watched EXCEPT !.useCb = @ \ {d}, !.using = @ \ {OwnerOf[d]}, !.refused = @ \ {OwnerOf[d]}]
<1>1. watched \in T /\ watched.using = p.using /\ watched.refused = p.refused
  OBVIOUS
<1>2. StopUsing(p, d, ds) = IF IsMultiCameraActive(OwnerOf[d], ds) THEN watched ELSE stopped
  BY DEF StopUsing
<1>. HIDE DEF watched
<1>3. stopped \in T /\ stopped.using = p.using \ {OwnerOf[d]} /\ stopped.refused = p.refused \ {OwnerOf[d]}
  BY <1>1
<1>. HIDE DEF stopped
<1>. QED  BY <1>1, <1>2, <1>3

LEMMA LockType ==
  ASSUME TypeOK, NEW t \in Thread, LockMoves(t)
  PROVE  lock' \in Thread \cup {"free"}
BY DEF TypeOK, LockMoves

LEMMA TypeKept ==
  ASSUME TypeOK, op' \in [Thread -> Doing], lock' \in Thread \cup {"free"},
         UNCHANGED <<workload, host, open, lost, holders, unpriced, hostMap, privacy, history>>
  PROVE  TypeOK'
BY DEF TypeOK, Doing, history

\* What is needed of a thread's record, by itself.
LEMMA AtProcess ==
  ASSUME TypeOK, ThreadsOK, NEW t \in Process
  PROVE  /\ t \in Thread /\ t # Watcher /\ t # HostThread /\ t # "free" /\ ProcessOK(t) /\ op[t] \in Doing
         /\ op[t].pc \in Opening => op[t].dev \in Device /\ OwnerOf[op[t].dev] = t
BY ThreadKinds, OpType DEF ThreadsOK, ProcessOK

\* Back to the start, with the lock let go.
LEMMA ReturnThreads ==
  ASSUME TypeOK, ThreadsOK, NEW t \in Process, Return(t), lock = t, host' = host
  PROVE  /\ op' \in [Thread -> Doing] /\ OnlyOf(t) /\ op'[t] = Idle /\ lock' = "free"
         /\ lock' \in Thread \cup {"free"} /\ ThreadsOK'
<1>1. t \in Thread /\ t # "free"
  BY AtProcess
<1>2. op' = [op EXCEPT ![t] = Idle] /\ lock' = "free" /\ LockMoves(t)
  BY DEF Return, LockMoves
<1>3. op' \in [Thread -> Doing] /\ OnlyOf(t) /\ op'[t] = Idle
  BY <1>1, <1>2, IdleType, Replaced
<1>4. ProcessOK(t)'
  BY <1>1, <1>2, <1>3 DEF ProcessOK, Idle, Opening, Closing
<1>5. ThreadsOK'
  BY <1>1, <1>2, <1>3, <1>4, AtProcess, OthersKept
<1>. QED  BY <1>1, <1>2, <1>3, <1>5

\* On with the open.
LEMMA OpeningThreads ==
  ASSUME TypeOK, ThreadsOK, NEW t \in Process, NEW pc \in Opening, op[t].pc \in Opening, GoTo(t, pc),
         lock' = lock, host' = host
  PROVE  /\ op' \in [Thread -> Doing] /\ OnlyOf(t) /\ lock' \in Thread \cup {"free"} /\ ThreadsOK'
         /\ op'[t].pc = pc /\ op'[t].dev = op[t].dev
         /\ op'[t].todo = op[t].todo /\ op'[t].next = op[t].next
<1>1. t \in Thread /\ pc \in Places /\ LockMoves(t) /\ pc # "idle" /\ pc \notin Closing /\ ProcessOK(t)
  BY AtProcess DEF Opening, Places, LockMoves, Closing
<1>2. /\ op' \in [Thread -> Doing] /\ OnlyOf(t)
      /\ op'[t].pc = pc /\ op'[t].dev = op[t].dev
      /\ op'[t].todo = op[t].todo /\ op'[t].next = op[t].next
  BY <1>1, Goes
<1>3. op[t].pc # "idle" /\ op[t].pc \notin Closing
  BY DEF Opening, Closing
<1>4. ProcessOK(t)'
  BY <1>1, <1>2, <1>3 DEF ProcessOK
<1>5. ThreadsOK'
  BY <1>1, <1>2, <1>4, AtProcess, OthersKept
<1>. QED  BY <1>1, <1>2, <1>5, LockType

LEMMA OpenType ==
  ASSUME TypeOK, ThreadsOK, NEW t \in Process, NEW d \in Device, Open(t, d)
  PROVE  /\ TypeOK' /\ ThreadsOK' /\ OnlyOf(t)
         /\ op'[t].pc = "admit" /\ op'[t].dev = d /\ op'[t].todo = <<>> /\ op'[t].next = "idle"
<1>. DEFINE r == [Idle EXCEPT !.pc = "admit", !.dev = d]
<1>1. t \in Thread
  BY AtProcess
<1>2. r \in Doing /\ r.pc = "admit" /\ r.dev = d /\ r.todo = <<>> /\ r.next = "idle"
  BY OpenStart
<1>3. op' = [op EXCEPT ![t] = r] /\ LockMoves(t) /\ lock' = t /\ OwnerOf[d] = t
      /\ UNCHANGED <<workload, host, open, lost, holders, unpriced, hostMap, privacy, history>>
  BY AtProcess DEF Open, LockMoves
<1>. HIDE DEF r
<1>4. op' \in [Thread -> Doing] /\ OnlyOf(t) /\ op'[t] = r
  BY <1>1, <1>2, <1>3, Replaced
<1>5. ProcessOK(t)'
  BY <1>2, <1>3, <1>4 DEF ProcessOK, Opening, Closing
<1>6. ThreadsOK'
  BY <1>1, <1>3, <1>4, <1>5, AtProcess, OthersKept
<1>. QED  BY <1>1, <1>2, <1>3, <1>4, <1>6, LockType, TypeKept

\* The verdict that is decided on is one.
LEMMA Judged ==
  ASSUME TypeOK, ThreadsOK, NEW t \in Process, CanOpenCamera(t)
  PROVE  \E verdict \in Verdict :
           /\ Decide(t, op[t].dev, verdict)
           /\ verdict.ok /\ verdict.via = "cost" =>
                /\ \A i \in DOMAIN holders : ~ IsConflicting(holders[i], op[t].dev)
                /\ \E higher \in SUBSET Process : verdict = ByCost(op[t].dev, higher)
<1>. DEFINE d == op[t].dev
<1>1. d \in Device
  BY AtProcess DEF CanOpenCamera, At, Opening
<1>2. PICK higher \in SUBSET (Process \ {t}) :
        IF TellsCost
          THEN Decide(t, d, WouldEvict(d, higher))
          ELSE \E order \in SetToSeqs(DOMAIN holders) :
                 Decide(t, d, GetConflictDevices(d, higher, [i \in DOMAIN order |-> holders[order[i]]]))
  BY DEF CanOpenCamera
<1>. HIDE DEF d
<1>3. CASE TellsCost
  <2>1. Decide(t, d, WouldEvict(d, higher))
    BY <1>2, <1>3
  <2>2. higher \in SUBSET Process
    OBVIOUS
  <2>3. /\ WouldEvict(d, higher) \in Verdict
        /\ WouldEvict(d, higher).ok /\ WouldEvict(d, higher).via = "cost" =>
             /\ \A i \in DOMAIN holders : ~ IsConflicting(holders[i], d)
             /\ \E h \in SUBSET Process : WouldEvict(d, higher) = ByCost(d, h)
    BY <1>1, <2>2, WouldEvictType, Zenon
  <2>. QED  BY <2>1, <2>3, Zenon DEF d
<1>4. CASE ~ (TellsCost)
  <2>1. PICK order \in SetToSeqs(DOMAIN holders) :
          Decide(t, d, GetConflictDevices(d, higher, [i \in DOMAIN order |-> holders[order[i]]]))
    BY <1>2, <1>4
  <2>. DEFINE q == [i \in DOMAIN order |-> holders[order[i]]]
  <2>2. q \in Seq(Device)
    <3>1. order \in [1 .. Cardinality(DOMAIN holders) -> DOMAIN holders]
      BY DEF SetToSeqs
    <3>2. DOMAIN holders = 1 .. Len(holders) /\ Len(holders) \in Nat
          /\ \A i \in DOMAIN holders : holders[i] \in Device
      BY DEF TypeOK
    <3>3. Cardinality(DOMAIN holders) \in Nat
      BY <3>2, FS_Interval, FS_CardinalityType
    <3>. QED  BY <3>1, <3>2, <3>3
  <2>. HIDE DEF q
  <2>3. GetConflictDevices(d, higher, q) \in Verdict /\ GetConflictDevices(d, higher, q).via = "table"
    BY <1>1, <2>2, ConflictDevicesType
  <2>4. Decide(t, d, GetConflictDevices(d, higher, q))
    BY <2>1 DEF q
  <2>5. GetConflictDevices(d, higher, q).via # "cost"
    BY <2>3
  <2>. QED  BY <2>3, <2>4, <2>5, Zenon DEF d
<1>. QED  BY <1>3, <1>4

LEMMA CanOpenCameraType ==
  ASSUME TypeOK, ThreadsOK, NEW t \in Process, CanOpenCamera(t)
  PROVE  /\ TypeOK' /\ ThreadsOK' /\ OnlyOf(t)
         /\ op'[t].pc \in {"idle", "privacy"} \cup Closing
         /\ op'[t].pc # "privacy" => op'[t].dev = NoDevice \/ op'[t].pc = "close"
<1>1. PICK verdict \in Verdict : Decide(t, op[t].dev, verdict)
  BY Judged
<1>2. /\ op[t].pc = "admit" /\ op[t].dev \in Device /\ t \in Thread /\ lock = t
      /\ op[t].todo = <<>> /\ op[t].next \in {"idle", "privacy"}
      /\ OwnerOf[op[t].dev] = t /\ t # "free"
      /\ UNCHANGED <<workload, host, open, lost, holders, unpriced, hostMap, privacy, stranded, overlap>>
  BY AtProcess DEF CanOpenCamera, At, Opening, ProcessOK, Closing
<1>3. verdict.ok \in BOOLEAN /\ verdict.evict \in Seq(Device) /\ verdict.via \in {"none", "cost", "conflict", "table"}
  BY DEF Verdict
<1>4. /\ op' \in [Thread -> Doing] /\ OnlyOf(t)
      /\ \/ op'[t] = Idle /\ lock' = "free" /\ verdict.evict = <<>> /\ ~ verdict.ok
         \/ /\ lock' = lock
            /\ op'[t].pc = (IF verdict.evict = <<>> THEN "privacy" ELSE "close")
            /\ op'[t].todo = verdict.evict /\ op'[t].dev = op[t].dev
            /\ op'[t].next = (IF verdict.ok THEN "privacy" ELSE "idle")
            /\ verdict.evict # <<>> \/ verdict.ok
  BY <1>1, <1>2, DecideEffect
<1>5. ProcessOK(t)'
  <2>1. CASE op'[t] = Idle /\ lock' = "free"
    BY <1>2, <2>1 DEF ProcessOK, Idle, Opening, Closing
  <2>2. CASE op'[t].pc = "privacy" /\ lock' = lock /\ op'[t].todo = <<>> /\ op'[t].dev = op[t].dev
             /\ op'[t].next \in {"idle", "privacy"}
    BY <1>2, <2>2 DEF ProcessOK, Opening, Closing
  <2>3. CASE op'[t].pc = "close" /\ lock' = lock /\ op'[t].todo # <<>> /\ op'[t].dev = op[t].dev
             /\ op'[t].next \in {"idle", "privacy"}
    BY <1>2, <2>3 DEF ProcessOK, Opening, Closing
  <2>. QED  BY <1>4, <2>1, <2>2, <2>3
<1>6. LockMoves(t)
  BY <1>2, <1>4 DEF LockMoves
<1>7. ThreadsOK'
  BY <1>2, <1>4, <1>5, <1>6, AtProcess, OthersKept
<1>8. via' \in [Device -> {"none", "cost", "conflict", "table"}] /\ spared' \subseteq Device \X Device
  <2>1. Spared(op[t].dev, verdict) \subseteq Device \X Device
    <3>1. ToSet(holders) \subseteq Device
      BY DEF TypeOK, ToSet
    <3>. QED  BY <1>2, <3>1 DEF Spared
  <2>. QED  BY <1>1, <1>2, <1>3, <2>1 DEF Decide, TypeOK
<1>9. TypeOK'
  BY <1>2, <1>4, <1>6, <1>8, LockType DEF TypeOK, Doing
<1>10. Idle.pc = "idle" /\ Idle.dev = NoDevice
  BY DEF Idle
<1>. QED  BY <1>4, <1>7, <1>9, <1>10 DEF Closing

LEMMA PrivacyStepType ==
  ASSUME TypeOK, ThreadsOK, NEW t \in Process, HandlePrivacyBeforeOpenDevice(t)
  PROVE  /\ TypeOK' /\ ThreadsOK' /\ OnlyOf(t)
         /\ \/ op'[t] = Idle
            \/ op'[t].pc = "hdi" /\ op'[t].dev = op[t].dev /\ op'[t].todo = op[t].todo /\ op'[t].next = op[t].next
<1>. DEFINE d == op[t].dev
            T == [using : SUBSET Process, useCb : SUBSET Device, permCb : SUBSET Device, refused : SUBSET Process]
<1>1. /\ op[t].pc = "privacy" /\ op[t].pc \in Opening /\ "hdi" \in Opening /\ lock = t
      /\ d \in Device /\ OwnerOf[d] \in Process
      /\ UNCHANGED <<workload, host, open, lost, holders, unpriced, hostMap, history>>
  BY AtProcess DEF HandlePrivacyBeforeOpenDevice, At, Opening, ProcessOK
<1>2. \/ GoTo(t, "hdi") /\ lock' = lock /\ privacy' \in T
      \/ Return(t) /\ privacy' \in T
  <2>1. privacy \in T
    BY DEF TypeOK
  <2>2. CASE HoldersOf(OwnerOf[d]) # {}
    BY <2>1, <2>2 DEF HandlePrivacyBeforeOpenDevice
  <2>3. CASE HoldersOf(OwnerOf[d]) = {}
    <3>1. PICK granted \in BOOLEAN :
            LET started == StartUsing(privacy, d, granted)
                registered == [started EXCEPT !.permCb = @ \cup {d}]
            IN  \/ privacy' = started /\ Return(t)
                \/ privacy' = [registered EXCEPT !.refused = @ \cup {OwnerOf[d]}] /\ Return(t)
                \/ privacy' = registered /\ GoTo(t, "hdi") /\ UNCHANGED lock
      <4>1. \A S : (\E granted \in IF "refusal" \in workload.actors THEN BOOLEAN ELSE {TRUE} : granted \in S)
                    => \E granted \in BOOLEAN : granted \in S
        BY Zenon
      <4>2. \A granted \in IF "refusal" \in workload.actors THEN BOOLEAN ELSE {TRUE} : granted \in BOOLEAN
        BY Zenon
      <4>. HIDE DEF T
      <4>. QED  BY <2>3, <4>2, Zenon DEF HandlePrivacyBeforeOpenDevice, d
    <3>. DEFINE started == StartUsing(privacy, d, granted)
                registered == [started EXCEPT !.permCb = @ \cup {d}]
    <3>2. started \in T
      <4>. DEFINE use == IF d \notin privacy.useCb /\ granted THEN privacy.using \cup {OwnerOf[d]} ELSE privacy.using
      <4>1. use \in SUBSET Process /\ privacy.useCb \cup {d} \in SUBSET Device
        BY <1>1, <2>1
      <4>2. started = [privacy EXCEPT !.useCb = privacy.useCb \cup {d}, !.using = use]
        BY <2>1 DEF StartUsing
      <4>. HIDE DEF use, started
      <4>. QED  BY <2>1, <4>1, <4>2
    <3>. HIDE DEF started
    <3>3. registered \in T
      BY <1>1, <3>2
    <3>. HIDE DEF registered
    <3>4. [registered EXCEPT !.refused = @ \cup {OwnerOf[d]}] \in T
      BY <1>1, <3>3
    <3>5. \/ privacy' = started /\ Return(t)
          \/ privacy' = [registered EXCEPT !.refused = @ \cup {OwnerOf[d]}] /\ Return(t)
          \/ privacy' = registered /\ GoTo(t, "hdi") /\ UNCHANGED lock
      BY <3>1 DEF started, registered
    <3>. QED  BY <3>2, <3>3, <3>4, <3>5
  <2>. QED  BY <2>2, <2>3
<1>3. CASE GoTo(t, "hdi") /\ lock' = lock /\ privacy' \in T
  <2>1. /\ op' \in [Thread -> Doing] /\ OnlyOf(t) /\ lock' \in Thread \cup {"free"} /\ ThreadsOK'
        /\ op'[t].pc = "hdi" /\ op'[t].dev = op[t].dev
        /\ op'[t].todo = op[t].todo /\ op'[t].next = op[t].next
    BY <1>1, <1>3, OpeningThreads
  <2>2. TypeOK'
    BY <1>1, <1>3, <2>1 DEF TypeOK, Doing, history
  <2>. QED  BY <2>1, <2>2
<1>4. CASE Return(t) /\ privacy' \in T
  <2>1. /\ op' \in [Thread -> Doing] /\ OnlyOf(t) /\ op'[t] = Idle /\ lock' = "free"
        /\ lock' \in Thread \cup {"free"} /\ ThreadsOK'
    BY <1>1, <1>4, ReturnThreads
  <2>2. TypeOK'
    BY <1>1, <1>4, <2>1 DEF TypeOK, Doing, history
  <2>. QED  BY <2>1, <2>2
<1>. QED  BY <1>2, <1>3, <1>4

LEMMA OpenFailsType ==
  ASSUME TypeOK, ThreadsOK, NEW t \in Process, OpenFails(t)
  PROVE  TypeOK' /\ ThreadsOK' /\ OnlyOf(t) /\ op'[t] = Idle
<1>1. /\ op[t].pc = "hdi" /\ lock = t /\ Return(t)
      /\ UNCHANGED <<workload, host, open, lost, holders, unpriced, hostMap, history>>
  BY AtProcess DEF OpenFails, At, ProcessOK
<1>2. privacy' \in [using : SUBSET Process, useCb : SUBSET Device, permCb : SUBSET Device, refused : SUBSET Process]
  <2>1. privacy' = StopUsing(privacy, op[t].dev, holders)
    BY DEF OpenFails
  <2>2. privacy \in [using : SUBSET Process, useCb : SUBSET Device, permCb : SUBSET Device, refused : SUBSET Process]
    BY DEF TypeOK
  <2>. QED  BY <2>1, <2>2, PrivacyType
<1>3. /\ op' \in [Thread -> Doing] /\ OnlyOf(t) /\ op'[t] = Idle
      /\ lock' \in Thread \cup {"free"} /\ ThreadsOK'
  BY <1>1, ReturnThreads
<1>. QED  BY <1>1, <1>2, <1>3 DEF TypeOK, Doing, history

LEMMA OpenSucceedsType ==
  ASSUME TypeOK, ThreadsOK, NEW t \in Process, OpenSucceeds(t)
  PROVE  /\ TypeOK' /\ ThreadsOK' /\ OnlyOf(t)
         /\ op'[t].pc = "addLock" /\ op'[t].dev = op[t].dev
         /\ op'[t].todo = op[t].todo /\ op'[t].next = op[t].next
<1>1. /\ op[t].pc \in Opening /\ "addLock" \in Opening /\ GoTo(t, "addLock") /\ lock' = lock /\ op[t].dev \in Device
      /\ UNCHANGED <<workload, host, holders, unpriced, hostMap, privacy, via, spared>>
      /\ open' = open \cup {op[t].dev} /\ lost' = lost \ {op[t].dev} /\ stranded' = stranded \ {op[t].dev}
  BY AtProcess DEF OpenSucceeds, At, Opening
<1>2. overlap' \in BOOLEAN
  BY Zenon DEF OpenSucceeds
<1>3. /\ op' \in [Thread -> Doing] /\ OnlyOf(t) /\ lock' \in Thread \cup {"free"} /\ ThreadsOK'
      /\ op'[t].pc = "addLock" /\ op'[t].dev = op[t].dev
      /\ op'[t].todo = op[t].todo /\ op'[t].next = op[t].next
  BY <1>1, OpeningThreads
<1>4. TypeOK'
  BY <1>1, <1>2, <1>3 DEF TypeOK, Doing
<1>. QED  BY <1>3, <1>4

LEMMA AddDeviceWaitsType ==
  ASSUME TypeOK, ThreadsOK, NEW t \in Process, AddDeviceWaits(t)
  PROVE  /\ TypeOK' /\ ThreadsOK' /\ OnlyOf(t)
         /\ op'[t].pc = "add" /\ op'[t].dev = op[t].dev
         /\ op'[t].todo = op[t].todo /\ op'[t].next = op[t].next
<1>1. /\ op[t].pc \in Opening /\ "add" \in Opening /\ GoTo(t, "add") /\ lock' = lock
      /\ UNCHANGED <<workload, host, open, lost, holders, unpriced, hostMap, privacy, history>>
  BY DEF AddDeviceWaits, At, Opening
<1>2. /\ op' \in [Thread -> Doing] /\ OnlyOf(t) /\ lock' \in Thread \cup {"free"} /\ ThreadsOK'
      /\ op'[t].pc = "add" /\ op'[t].dev = op[t].dev
      /\ op'[t].todo = op[t].todo /\ op'[t].next = op[t].next
  BY <1>1, OpeningThreads
<1>. QED  BY <1>1, <1>2, TypeKept

LEMMA AddDeviceType ==
  ASSUME TypeOK, ThreadsOK, NEW t \in Process, AddDevice(t)
  PROVE  /\ TypeOK' /\ ThreadsOK' /\ OnlyOf(t)
         /\ op'[t].pc = "register" /\ op'[t].dev = op[t].dev
         /\ op'[t].todo = op[t].todo /\ op'[t].next = op[t].next
<1>1. /\ op[t].pc \in Opening /\ "register" \in Opening /\ GoTo(t, "register") /\ lock' = lock /\ op[t].dev \in Device
      /\ UNCHANGED <<workload, host, open, lost, hostMap, privacy, history>>
      /\ holders' = Append(holders, op[t].dev)
      /\ unpriced' = IF TellsCost THEN unpriced \ {op[t].dev} ELSE unpriced \cup {op[t].dev}
  BY AtProcess DEF AddDevice, At, Opening
<1>2. /\ op' \in [Thread -> Doing] /\ OnlyOf(t) /\ lock' \in Thread \cup {"free"} /\ ThreadsOK'
      /\ op'[t].pc = "register" /\ op'[t].dev = op[t].dev
      /\ op'[t].todo = op[t].todo /\ op'[t].next = op[t].next
  BY <1>1, OpeningThreads
<1>3. holders' \in Seq(Device) /\ unpriced' \subseteq Device
  BY <1>1, AppendProperties DEF TypeOK
<1>4. TypeOK'
  BY <1>1, <1>2, <1>3 DEF TypeOK, Doing, history
<1>. QED  BY <1>2, <1>4

LEMMA RegisterType ==
  ASSUME TypeOK, ThreadsOK, NEW t \in Process, Register(t)
  PROVE  TypeOK' /\ ThreadsOK' /\ OnlyOf(t) /\ op'[t] = Idle
<1>1. /\ op[t].pc = "register" /\ lock = t /\ Return(t) /\ op[t].dev \in Device
      /\ UNCHANGED <<workload, host, open, lost, holders, unpriced, privacy, history>>
      /\ hostMap' = IF op[t].dev \in open THEN [hostMap EXCEPT ![CameraOf[op[t].dev]] = op[t].dev] ELSE hostMap
  BY AtProcess DEF Register, At, ProcessOK, Opening
<1>2. hostMap' \in [Camera -> Device \cup {NoDevice}]
  BY <1>1 DEF TypeOK
<1>3. /\ op' \in [Thread -> Doing] /\ OnlyOf(t) /\ op'[t] = Idle
      /\ lock' \in Thread \cup {"free"} /\ ThreadsOK'
  BY <1>1, ReturnThreads
<1>. QED  BY <1>1, <1>2, <1>3 DEF TypeOK, Doing, history

\* Who is about to close a device has one.
LEMMA ClosingHas ==
  ASSUME TypeOK, ThreadsOK, NEW t \in Thread, op[t].pc \in Closing
  PROVE  /\ op[t].todo # <<>> /\ op[t] \in Doing /\ op[t].todo \in Seq(Device) /\ Head(op[t].todo) \in Device
         /\ t \in Process \cup {HostThread} => lock = t
         /\ t = Watcher => lock # t /\ op[t].next = "idle" /\ op[t].dev = NoDevice
         /\ t \in Process => op[t].next \in {"idle", "privacy"} /\ (op[t].next = "privacy" => op[t].dev \in Device)
<1>1. op[t] \in Doing /\ op[t].todo \in Seq(Device)
  BY OpType DEF Doing
<1>2. /\ op[t].todo # <<>>
      /\ t \in Process \cup {HostThread} => lock = t
      /\ t = Watcher => lock # t /\ op[t].next = "idle" /\ op[t].dev = NoDevice
      /\ t \in Process => op[t].next \in {"idle", "privacy"} /\ (op[t].next = "privacy" => op[t].dev \in Device)
  <2>1. CASE t \in Process
    <3>1. ProcessOK(t) /\ t # Watcher /\ t # HostThread
      BY <2>1, AtProcess
    <3>2. op[t].pc # "idle"
      BY DEF Closing
    <3>. QED  BY <2>1, <3>1, <3>2 DEF ProcessOK
  <2>2. CASE t = Watcher
    BY <2>2, ThreadKinds DEF ThreadsOK, WatcherOK
  <2>3. CASE t = HostThread
    BY <2>3, ThreadKinds DEF ThreadsOK, HostOK
  <2>. QED  BY <2>1, <2>2, <2>3, ThreadKinds
<1>. QED  BY <1>1, <1>2, HeadTailProperties

\* From step to step of closing one device.
LEMMA ClosingThreads ==
  ASSUME TypeOK, ThreadsOK, NEW t \in Thread, op[t].pc \in Closing, NEW pc \in Closing, GoTo(t, pc),
         lock' = lock, host' = host
  PROVE  /\ op' \in [Thread -> Doing] /\ OnlyOf(t) /\ lock' \in Thread \cup {"free"} /\ ThreadsOK'
         /\ op'[t].pc = pc /\ op'[t].dev = op[t].dev
         /\ op'[t].todo = op[t].todo /\ op'[t].next = op[t].next
<1>1. pc \in Places /\ pc # "idle" /\ pc \notin Opening /\ LockMoves(t) /\ op[t].pc # "idle" /\ op[t].pc \notin Opening
      /\ pc \notin {"closeLock", "hostNext", "hostDied"} /\ op[t].pc \notin {"closeLock", "hostNext", "hostDied"}
  BY DEF Closing, Places, Opening, LockMoves
<1>2. /\ op' \in [Thread -> Doing] /\ OnlyOf(t)
      /\ op'[t].pc = pc /\ op'[t].dev = op[t].dev
      /\ op'[t].todo = op[t].todo /\ op'[t].next = op[t].next
  BY <1>1, Goes
<1>3. t \in Process => ProcessOK(t)'
  BY <1>1, <1>2 DEF ProcessOK, ThreadsOK
<1>4. t = Watcher => WatcherOK'
  BY <1>1, <1>2 DEF WatcherOK, ThreadsOK
<1>5. t = HostThread => HostOK'
  BY <1>1, <1>2 DEF HostOK, ThreadsOK
<1>6. ThreadsOK'
  BY <1>1, <1>2, <1>3, <1>4, <1>5, OthersKept
<1>. QED  BY <1>1, <1>2, <1>6, LockType

\* On to the next device, or past the last.
LEMMA ClosedThreads ==
  ASSUME TypeOK, ThreadsOK, NEW t \in Thread, op[t].pc \in Closing, Closed(t), host' = host
  PROVE  /\ op' \in [Thread -> Doing] /\ OnlyOf(t) /\ lock' \in Thread \cup {"free"} /\ ThreadsOK'
         /\ \/ /\ op'[t].pc = "close" /\ op'[t].todo = Tail(op[t].todo) /\ op'[t].todo # <<>>
               /\ op'[t].dev = op[t].dev /\ op'[t].next = op[t].next
            \/ /\ t \in Process /\ op[t].next = "privacy" /\ op'[t].pc = "privacy" /\ op'[t].todo = <<>>
               /\ op'[t].dev = op[t].dev /\ op'[t].next = op[t].next
            \/ /\ op'[t].pc = op[t].next /\ op[t].next \in {"idle", "hostDied"} /\ op'[t].todo = <<>>
               /\ op'[t].dev = NoDevice /\ op'[t].next = "idle"
         /\ op'[t].pc = "hostDied" => t = HostThread /\ op[t].next = "hostDied"
<1>1. /\ op[t].todo # <<>> /\ op[t] \in Doing /\ op[t].todo \in Seq(Device) /\ Head(op[t].todo) \in Device
      /\ t \in Process \cup {HostThread} => lock = t
      /\ t = Watcher => lock # t /\ op[t].next = "idle" /\ op[t].dev = NoDevice
      /\ t \in Process => op[t].next \in {"idle", "privacy"} /\ (op[t].next = "privacy" => op[t].dev \in Device)
      /\ t # "free" /\ op[t].pc # "idle" /\ op[t].pc \notin Opening /\ op[t].pc \notin {"closeLock", "hostNext", "hostDied"}
  BY ClosingHas, ThreadKinds DEF Closing, Opening
<1>2. /\ op' \in [Thread -> Doing] /\ OnlyOf(t)
      /\ \/ /\ Tail(op[t].todo) # <<>> /\ lock' = lock
            /\ op'[t].pc = "close" /\ op'[t].todo = Tail(op[t].todo)
            /\ op'[t].dev = op[t].dev /\ op'[t].next = op[t].next
         \/ /\ Tail(op[t].todo) = <<>> /\ op[t].next = "privacy" /\ lock' = lock
            /\ op'[t].pc = "privacy" /\ op'[t].todo = <<>>
            /\ op'[t].dev = op[t].dev /\ op'[t].next = op[t].next
         \/ /\ Tail(op[t].todo) = <<>> /\ op[t].next # "privacy"
            /\ lock' = IF lock = t THEN "free" ELSE lock
            /\ op'[t].pc = op[t].next /\ op'[t].todo = <<>>
            /\ op'[t].dev = NoDevice /\ op'[t].next = "idle"
            /\ op[t].next = "idle" => op'[t] = Idle
  BY <1>1, ClosedEffect
<1>3. LockMoves(t)
  BY <1>2 DEF LockMoves
<1>4. ASSUME t \in Process
      PROVE  ProcessOK(t)' /\ op[t].next \in {"idle", "privacy"}
  <2>1. ProcessOK(t) /\ lock = t /\ op[t].next \in {"idle", "privacy"}
    BY <1>1, <1>4, AtProcess
  <2>2. CASE op'[t].pc = "close"
    BY <1>1, <1>2, <1>4, <2>1, <2>2 DEF ProcessOK, Opening, Closing
  <2>3. CASE op'[t].pc = "privacy"
    BY <1>1, <1>2, <1>4, <2>1, <2>3 DEF ProcessOK, Opening, Closing
  <2>4. CASE op'[t].pc = "idle"
    BY <1>1, <1>2, <1>4, <2>1, <2>4 DEF ProcessOK, Opening, Closing
  <2>. QED  BY <1>2, <2>1, <2>2, <2>3, <2>4
<1>5. ASSUME t = Watcher
      PROVE  WatcherOK' /\ op[t].next = "idle"
  <2>1. WatcherOK /\ op[t].next = "idle" /\ op[t].dev = NoDevice /\ lock # t
    BY <1>1, <1>5 DEF ThreadsOK
  <2>2. lock' # t
    BY <1>1, <1>2, <2>1
  <2>. QED  BY <1>2, <1>5, <2>1, <2>2 DEF WatcherOK, Closing
<1>6. ASSUME t = HostThread
      PROVE  HostOK' /\ op[t].next \in {"idle", "hostDied"}
  <2>1. HostOK /\ lock = t
    BY <1>1, <1>6 DEF ThreadsOK
  <2>2. op[t].next \in {"idle", "hostDied"} /\ op[t].dev = NoDevice /\ Tail(op[t].todo) = <<>>
        /\ (host.locked <=> op[t].next = "hostDied") /\ (op[t].next = "hostDied" => host.cams # <<>>)
    BY <1>1, <1>6, <2>1 DEF HostOK
  <2>3. /\ lock' = "free" /\ op'[t].pc = op[t].next /\ op'[t].todo = <<>>
        /\ op'[t].dev = NoDevice /\ op'[t].next = "idle"
    BY <1>2, <2>1, <2>2
  <2>. QED  BY <1>1, <1>6, <2>2, <2>3 DEF HostOK, Closing
<1>7. ThreadsOK'
  BY <1>2, <1>3, <1>4, <1>5, <1>6, OthersKept
<1>8. t \in Process \/ t = Watcher \/ t = HostThread
  BY ThreadKinds
<1>. QED  BY <1>2, <1>3, <1>4, <1>5, <1>6, <1>7, <1>8, LockType

\* The first holder of the camera goes, if there is one.
LEMMA RemoveDeviceEffect ==
  ASSUME TypeOK, NEW c, RemoveDevice(c)
  PROVE  /\ holders' \in Seq(Device) /\ via' \in [Device -> {"none", "cost", "conflict", "table"}]
         /\ spared' \subseteq spared /\ unpriced' \subseteq Device
         /\ \/ /\ \A i \in DOMAIN holders : CameraOf[holders[i]] # c
               /\ UNCHANGED <<holders, unpriced, via, spared>>
            \/ \E i \in 1 .. Len(holders) :
                 /\ CameraOf[holders[i]] = c
                 /\ holders' = RemoveAt(holders, i) /\ unpriced' = unpriced \ {holders[i]}
                 /\ via' = IF IsBeingOpened(holders[i]) THEN via ELSE [via EXCEPT ![holders[i]] = "none"]
                 /\ spared' = {s \in spared : s[2] # holders[i] /\ (s[1] = holders[i] => IsBeingOpened(holders[i]))}
<1>. DEFINE here == {i \in DOMAIN holders : CameraOf[holders[i]] = c}
            i == Min(here)
            d == holders[i]
<1>1. holders \in Seq(Device) /\ DOMAIN holders = 1 .. Len(holders) /\ Len(holders) \in Nat
      /\ via \in [Device -> {"none", "cost", "conflict", "table"}] /\ unpriced \subseteq Device
  BY DEF TypeOK
<1>2. CASE here = {}
  <2>1. UNCHANGED <<holders, unpriced, via, spared>>
    BY <1>2, Zenon DEF RemoveDevice
  <2>. QED  BY <1>1, <1>2, <2>1
<1>3. CASE here # {}
  <2>1. i \in here
    <3>1. here \subseteq Nat
      BY <1>1
    <3>. HIDE DEF here
    <3>. QED  BY <1>3, <3>1, MinIsLeast
  <2>2. /\ holders' = RemoveAt(holders, i) /\ unpriced' = unpriced \ {d}
        /\ via' = IF IsBeingOpened(d) THEN via ELSE [via EXCEPT ![d] = "none"]
        /\ spared' = {s \in spared : s[2] # d /\ (s[1] = d => IsBeingOpened(d))}
    BY <1>3, Zenon DEF RemoveDevice
  <2>3. i \in 1 .. Len(holders) /\ CameraOf[d] = c
    BY <1>1, <2>1
  <2>. HIDE DEF i, here
  <2>4. RemoveAt(holders, i) \in Seq(Device)
    BY <1>1, <2>3, RemoveAtIs
  <2>5. via' \in [Device -> {"none", "cost", "conflict", "table"}]
    BY <1>1, <2>2
  <2>6. spared' \subseteq spared /\ unpriced' \subseteq Device
    BY <1>1, <2>2
  <2>. QED  BY <2>2, <2>3, <2>4, <2>5, <2>6
<1>. QED  BY <1>2, <1>3

LEMMA CloseDeviceType ==
  ASSUME TypeOK, ThreadsOK, NEW t \in Thread, CloseDevice(t)
  PROVE  TypeOK' /\ ThreadsOK' /\ OnlyOf(t)
<1>1. /\ op[t].pc = "close" /\ op[t].pc \in Closing /\ "closePrivacy" \in Closing
      /\ UNCHANGED <<workload, host, hostMap, privacy, overlap>>
  BY DEF CloseDevice, At, Closing
<1>2. CASE Head(op[t].todo) \in open
  <2>1. /\ GoTo(t, "closePrivacy") /\ lock' = lock /\ open' = open \ {Head(op[t].todo)}
        /\ lost' = lost \ {Head(op[t].todo)} /\ stranded' = stranded \ {Head(op[t].todo)}
        /\ RemoveDevice(CameraOf[Head(op[t].todo)])
    BY <1>2 DEF CloseDevice
  <2>2. /\ op' \in [Thread -> Doing] /\ OnlyOf(t) /\ lock' \in Thread \cup {"free"} /\ ThreadsOK'
    BY <1>1, <2>1, ClosingThreads
  <2>3. /\ holders' \in Seq(Device) /\ via' \in [Device -> {"none", "cost", "conflict", "table"}]
        /\ spared' \subseteq spared /\ unpriced' \subseteq Device
    BY <2>1, RemoveDeviceEffect
  <2>. QED  BY <1>1, <2>1, <2>2, <2>3 DEF TypeOK, Doing
<1>3. CASE Head(op[t].todo) \notin open
  <2>1. Closed(t) /\ UNCHANGED <<open, lost, holders, unpriced, via, spared, stranded>>
    BY <1>3 DEF CloseDevice
  <2>2. op' \in [Thread -> Doing] /\ OnlyOf(t) /\ lock' \in Thread \cup {"free"} /\ ThreadsOK'
    BY <1>1, <2>1, ClosedThreads
  <2>. QED  BY <1>1, <2>1, <2>2 DEF TypeOK, Doing
<1>. QED  BY <1>2, <1>3

LEMMA ClosePrivacyType ==
  ASSUME TypeOK, ThreadsOK, NEW t \in Thread, ClosePrivacy(t)
  PROVE  /\ TypeOK' /\ ThreadsOK' /\ OnlyOf(t)
         /\ op'[t].pc = "closeHost" /\ op'[t].dev = op[t].dev
         /\ op'[t].todo = op[t].todo /\ op'[t].next = op[t].next
<1>1. /\ op[t].pc \in Closing /\ "closeHost" \in Closing /\ GoTo(t, "closeHost")
      /\ UNCHANGED <<workload, lock, host, open, lost, holders, unpriced, hostMap, history>>
      /\ privacy' = StopUsing(privacy, Head(op[t].todo), holders)
  BY DEF ClosePrivacy, At, Closing
<1>2. privacy' \in [using : SUBSET Process, useCb : SUBSET Device, permCb : SUBSET Device, refused : SUBSET Process]
  <2>1. privacy \in [using : SUBSET Process, useCb : SUBSET Device, permCb : SUBSET Device, refused : SUBSET Process]
    BY DEF TypeOK
  <2>. QED  BY <1>1, <2>1, PrivacyType
<1>3. /\ op' \in [Thread -> Doing] /\ OnlyOf(t) /\ lock' \in Thread \cup {"free"} /\ ThreadsOK'
      /\ op'[t].pc = "closeHost" /\ op'[t].dev = op[t].dev
      /\ op'[t].todo = op[t].todo /\ op'[t].next = op[t].next
  BY <1>1, ClosingThreads
<1>. QED  BY <1>1, <1>2, <1>3 DEF TypeOK, Doing, history

LEMMA CloseHostType ==
  ASSUME TypeOK, ThreadsOK, NEW t \in Thread, CloseHost(t)
  PROVE  TypeOK' /\ ThreadsOK' /\ OnlyOf(t)
<1>1. /\ op[t].pc \in Closing /\ Closed(t)
      /\ UNCHANGED <<workload, host, open, lost, holders, unpriced, privacy, history>>
      /\ hostMap' = [hostMap EXCEPT ![CameraOf[Head(op[t].todo)]] = NoDevice]
  BY DEF CloseHost, At, Closing
<1>2. hostMap' \in [Camera -> Device \cup {NoDevice}]
  BY <1>1 DEF TypeOK
<1>3. op' \in [Thread -> Doing] /\ OnlyOf(t) /\ lock' \in Thread \cup {"free"} /\ ThreadsOK'
  BY <1>1, ClosedThreads
<1>. QED  BY <1>1, <1>2, <1>3 DEF TypeOK, Doing, history

LEMMA CloseType ==
  ASSUME TypeOK, ThreadsOK, NEW t \in Process, NEW d \in Device, Close(t, d)
  PROVE  /\ TypeOK' /\ ThreadsOK' /\ OnlyOf(t)
         /\ op'[t].pc = "close" /\ op'[t].dev = NoDevice /\ op'[t].todo = <<d>> /\ op'[t].next = "idle"
<1>. DEFINE r == [Idle EXCEPT !.pc = "close", !.todo = <<d>>]
<1>1. t \in Thread
  BY AtProcess
<1>2. r \in Doing /\ r.pc = "close" /\ r.dev = NoDevice /\ r.todo = <<d>> /\ r.next = "idle"
  <2>1. <<d>> \in Seq(Device)
    OBVIOUS
  <2>. QED  BY <2>1, CloseStart
<1>3. op' = [op EXCEPT ![t] = r] /\ LockMoves(t) /\ lock' = t
      /\ UNCHANGED <<workload, host, open, lost, holders, unpriced, hostMap, privacy, history>>
  BY AtProcess DEF Close, LockMoves
<1>. HIDE DEF r
<1>4. op' \in [Thread -> Doing] /\ OnlyOf(t) /\ op'[t] = r
  BY <1>1, <1>2, <1>3, Replaced
<1>5. ProcessOK(t)'
  <2>1. <<d>> # <<>>
    OBVIOUS
  <2>2. op'[t].pc = "close" /\ op'[t].todo = <<d>> /\ op'[t].next = "idle" /\ lock' = t
    BY <1>2, <1>3, <1>4
  <2>. QED  BY <2>1, <2>2 DEF ProcessOK, Opening, Closing
<1>6. ThreadsOK'
  BY <1>1, <1>3, <1>4, <1>5, AtProcess, OthersKept
<1>. QED  BY <1>1, <1>2, <1>3, <1>4, <1>6, LockType, TypeKept

\* Only the host's thread waits for the lock.
LEMMA CloseLockType ==
  ASSUME TypeOK, ThreadsOK, NEW t \in Thread, CloseLock(t)
  PROVE  /\ TypeOK' /\ ThreadsOK' /\ OnlyOf(t) /\ t = HostThread /\ op[t].pc = "closeLock"
         /\ op'[t].pc = "close" /\ op'[t].dev = op[t].dev
         /\ op'[t].todo = op[t].todo /\ op'[t].next = op[t].next
<1>1. /\ op[t].pc = "closeLock" /\ lock = "free" /\ lock' = t /\ GoTo(t, "close")
      /\ UNCHANGED <<workload, host, open, lost, holders, unpriced, hostMap, privacy, history>>
  BY DEF CloseLock, At
<1>2. t = HostThread
  <2>1. t \notin Process
    BY <1>1 DEF ThreadsOK, ProcessOK, Opening, Closing
  <2>2. t # Watcher
    BY <1>1 DEF ThreadsOK, WatcherOK, Closing
  <2>. QED  BY <2>1, <2>2, ThreadKinds
<1>3. /\ op' \in [Thread -> Doing] /\ OnlyOf(t)
      /\ op'[t].pc = "close" /\ op'[t].dev = op[t].dev
      /\ op'[t].todo = op[t].todo /\ op'[t].next = op[t].next
  <2>1. "close" \in Places
    BY DEF Places
  <2>. QED  BY <1>1, <2>1, Goes
<1>4. LockMoves(t) /\ host' = host
  BY <1>1, <1>2, ThreadKinds DEF LockMoves
<1>5. HostOK'
  BY <1>1, <1>2, <1>3 DEF ThreadsOK, HostOK, Closing
<1>6. ThreadsOK'
  BY <1>2, <1>3, <1>4, <1>5, ThreadKinds, OthersKept
<1>. QED  BY <1>1, <1>2, <1>3, <1>4, <1>6, LockType, TypeKept

LEMMA CallbackType ==
  ASSUME TypeOK, ThreadsOK, NEW devices \in Seq(Device), CallbackCloses(devices)
  PROVE  /\ TypeOK' /\ ThreadsOK' /\ OnlyOf(Watcher)
         /\ op'[Watcher].pc = "close" /\ op'[Watcher].todo = devices
<1>. DEFINE r == [Idle EXCEPT !.pc = "close", !.todo = devices]
<1>1. r \in Doing /\ r.pc = "close" /\ r.dev = NoDevice /\ r.todo = devices /\ r.next = "idle"
  BY CloseStart
<1>2. op' = [op EXCEPT ![Watcher] = r] /\ devices # <<>> /\ lock' = lock
      /\ UNCHANGED <<workload, lock, host, open, lost, holders, unpriced, hostMap, privacy, history>>
  BY DEF CallbackCloses
<1>. HIDE DEF r
<1>3. op' \in [Thread -> Doing] /\ OnlyOf(Watcher) /\ op'[Watcher] = r
  BY <1>1, <1>2, ThreadKinds, Replaced
<1>4. WatcherOK'
  BY <1>1, <1>2, <1>3 DEF ThreadsOK, WatcherOK, Closing
<1>5. LockMoves(Watcher) /\ host' = host
  BY <1>2 DEF LockMoves
<1>6. ThreadsOK'
  BY <1>3, <1>4, <1>5, ThreadKinds, OthersKept
<1>. QED  BY <1>1, <1>2, <1>3, <1>5, <1>6, LockType, TypeKept, ThreadKinds

\* The host's thread is to close the device of a camera.
LEMMA HostClosesType ==
  ASSUME TypeOK, ThreadsOK, MapTyped, NEW c \in Camera, hostMap[c] # NoDevice,
         NEW next \in {"idle", "hostDied"}, HostCloses(c, next),
         op[HostThread].pc \in {"idle", "hostNext"}, op[HostThread].pc = "hostNext" <=> next = "hostDied",
         next = "hostDied" => host.cams # <<>> /\ c = Head(host.cams),
         UNCHANGED <<workload, lock, host, open, lost, holders, unpriced, hostMap, privacy, history>>
  PROVE  /\ TypeOK' /\ ThreadsOK' /\ OnlyOf(HostThread)
         /\ op'[HostThread].pc = "closeLock" /\ op'[HostThread].todo = <<hostMap[c]>> /\ op'[HostThread].next = next
<1>. DEFINE ds == <<hostMap[c]>>
            r == [Idle EXCEPT !.pc = "closeLock", !.todo = ds, !.next = next]
            t == HostThread
<1>1. hostMap[c] \in Device /\ CameraOf[hostMap[c]] = c
  BY DEF TypeOK, MapTyped
<1>2. <<hostMap[c]>> \in Seq(Device) /\ Tail(<<hostMap[c]>>) = <<>> /\ Head(<<hostMap[c]>>) = hostMap[c]
      /\ <<hostMap[c]>> # <<>>
  BY <1>1
<1>3. r \in Doing /\ r.pc = "closeLock" /\ r.dev = NoDevice /\ r.todo = <<hostMap[c]>> /\ r.next = next
  <2>1. next \in {"idle", "privacy", "hostDied"} /\ ds \in Seq(Device)
    BY <1>2
  <2>2. r \in Doing /\ r.pc = "closeLock" /\ r.dev = NoDevice /\ r.todo = ds /\ r.next = next
    <3>. HIDE DEF ds
    <3>. QED  BY <2>1, IdleIs DEF Doing, Places
  <2>. QED  BY <2>2
<1>4. op' = [op EXCEPT ![t] = r]
  BY DEF HostCloses
<1>. HIDE DEF r
<1>5. op' \in [Thread -> Doing] /\ OnlyOf(t) /\ op'[t] = r
  BY <1>3, <1>4, ThreadKinds, Replaced
<1>6. HostOK'
  <2>1. HostOK
    BY DEF ThreadsOK
  <2>2. lock # HostThread /\ (host.locked <=> op[t].pc = "hostNext")
    BY <2>1 DEF HostOK, Closing
  <2>. QED  BY <1>1, <1>2, <1>3, <1>5, <2>2 DEF HostOK, Closing
<1>7. LockMoves(t)
  BY DEF LockMoves
<1>8. ThreadsOK'
  BY <1>5, <1>6, <1>7, ThreadKinds, OthersKept
<1>. QED  BY <1>3, <1>5, <1>7, <1>8, LockType, TypeKept, ThreadKinds

LEMMA CameraFailsType ==
  ASSUME TypeOK, ThreadsOK, MapTyped, NEW c \in Camera, CameraFails(c)
  PROVE  /\ TypeOK' /\ ThreadsOK' /\ OnlyOf(HostThread)
         /\ op'[HostThread].pc = "closeLock" /\ op'[HostThread].todo = <<hostMap[c]>> /\ op'[HostThread].next = "idle"
<1>1. /\ HostCloses(c, "idle") /\ hostMap[c] # NoDevice /\ op[HostThread].pc = "idle"
      /\ UNCHANGED <<workload, lock, host, open, lost, holders, unpriced, hostMap, privacy, history>>
  BY DEF CameraFails, At
<1>2. "idle" \in {"idle", "hostDied"} /\ op[HostThread].pc \in {"idle", "hostNext"}
      /\ (op[HostThread].pc = "hostNext" <=> "idle" = "hostDied")
  BY <1>1
<1>. QED  BY <1>1, <1>2, HostClosesType

LEMMA HostDiesType ==
  ASSUME TypeOK, ThreadsOK, HostDies
  PROVE  TypeOK' /\ ThreadsOK' /\ op' = op
<1>1. /\ host' = [host EXCEPT !.up = FALSE] /\ lost' = open
      /\ host \in [up : BOOLEAN, known : BOOLEAN, locked : BOOLEAN, cams : Seq(Camera)]
      /\ UNCHANGED <<workload, op, lock, open, holders, unpriced, hostMap, privacy, history>>
  BY DEF HostDies, TypeOK
<1>2. host' \in [up : BOOLEAN, known : BOOLEAN, locked : BOOLEAN, cams : Seq(Camera)]
      /\ host'.locked = host.locked /\ host'.cams = host.cams
  BY <1>1
<1>3. HostOK'
  BY <1>1, <1>2 DEF ThreadsOK, HostOK, Closing
<1>4. LockMoves(HostThread) /\ OnlyOf(HostThread)
  BY <1>1 DEF LockMoves, OnlyOf
<1>5. ThreadsOK'
  BY <1>3, <1>4, ThreadKinds, OthersKept
<1>6. TypeOK'
  BY <1>1, <1>2 DEF TypeOK, history
<1>. QED  BY <1>1, <1>5, <1>6

LEMMA HostStopsType ==
  ASSUME TypeOK, ThreadsOK, HostStops
  PROVE  /\ TypeOK' /\ ThreadsOK' /\ OnlyOf(HostThread)
         /\ op'[HostThread].pc = "hostNext" /\ op'[HostThread].dev = op[HostThread].dev
         /\ op'[HostThread].todo = op[HostThread].todo /\ op'[HostThread].next = op[HostThread].next
<1>. DEFINE t == HostThread
<1>1. /\ GoTo(t, "hostNext") /\ op[t].pc = "idle" /\ lock' = lock
      /\ host' = [host EXCEPT !.locked = TRUE, !.cams = SetToSeq(HostCameras)]
      /\ UNCHANGED <<workload, lock, open, lost, holders, unpriced, hostMap, privacy, history>>
  BY DEF HostStops, At
<1>2. host' \in [up : BOOLEAN, known : BOOLEAN, locked : BOOLEAN, cams : Seq(Camera)] /\ host'.locked = TRUE
  BY <1>1, CamerasType DEF TypeOK
<1>3. /\ op' \in [Thread -> Doing] /\ OnlyOf(t)
      /\ op'[t].pc = "hostNext" /\ op'[t].dev = op[t].dev
      /\ op'[t].todo = op[t].todo /\ op'[t].next = op[t].next
  <2>1. "hostNext" \in Places
    BY DEF Places
  <2>. QED  BY <1>1, <2>1, ThreadKinds, Goes
<1>4. HostOK'
  BY <1>1, <1>2, <1>3 DEF ThreadsOK, HostOK, Closing
<1>5. LockMoves(t)
  BY <1>1 DEF LockMoves
<1>6. ThreadsOK'
  BY <1>3, <1>4, <1>5, ThreadKinds, OthersKept
<1>7. TypeOK'
  BY <1>1, <1>2, <1>3 DEF TypeOK, Doing, history
<1>. QED  BY <1>3, <1>6, <1>7

LEMMA RemoveNextType ==
  ASSUME TypeOK, ThreadsOK, MapTyped, RemoveNext
  PROVE  /\ TypeOK' /\ ThreadsOK' /\ OnlyOf(HostThread)
         /\ \/ op'[HostThread].pc = "idle" /\ op'[HostThread].todo = <<>> /\ op'[HostThread].next = "idle"
            \/ /\ hostMap[Head(host.cams)] = NoDevice /\ host.cams # <<>> /\ host' = host
               /\ op'[HostThread].pc = "hostDied" /\ op'[HostThread].todo = <<>> /\ op'[HostThread].next = "idle"
            \/ /\ hostMap[Head(host.cams)] # NoDevice /\ host.cams # <<>> /\ host' = host
               /\ op'[HostThread].pc = "closeLock" /\ op'[HostThread].todo = <<hostMap[Head(host.cams)]>>
               /\ op'[HostThread].next = "hostDied"
<1>. DEFINE t == HostThread
            c == Head(host.cams)
<1>1. /\ op[t].pc = "hostNext" /\ lock' = lock
      /\ UNCHANGED <<workload, lock, open, lost, holders, unpriced, hostMap, privacy, history>>
  BY DEF RemoveNext, At
<1>2. HostOK /\ op[t].todo = <<>> /\ op[t].next = "idle" /\ op[t].dev = NoDevice /\ lock # t /\ host.locked
      /\ host.cams \in Seq(Camera)
  BY <1>1 DEF ThreadsOK, HostOK, Closing, TypeOK
<1>3. CASE host.cams = <<>>
  <2>1. host' = HostRemoved /\ GoTo(t, "idle")
    BY <1>3 DEF RemoveNext
  <2>8. host \in [up : BOOLEAN, known : BOOLEAN, locked : BOOLEAN, cams : Seq(Camera)]
    BY DEF TypeOK
  <2>6. host' \in [up : BOOLEAN, known : BOOLEAN, locked : BOOLEAN, cams : Seq(Camera)]
        /\ ~ host'.locked
    BY <2>1, <2>8 DEF HostRemoved
  <2>2. /\ op' \in [Thread -> Doing] /\ OnlyOf(t)
        /\ op'[t].pc = "idle" /\ op'[t].dev = op[t].dev
        /\ op'[t].todo = op[t].todo /\ op'[t].next = op[t].next
    <3>1. "idle" \in Places
      BY DEF Places
    <3>. QED  BY <2>1, <3>1, ThreadKinds, Goes
  <2>3. HostOK'
    BY <1>1, <1>2, <2>2, <2>6 DEF HostOK, Closing
  <2>4. LockMoves(t)
    BY <1>1 DEF LockMoves
  <2>5. ThreadsOK'
    BY <2>2, <2>3, <2>4, ThreadKinds, OthersKept
  <2>7. TypeOK'
    BY <1>1, <2>2, <2>6 DEF TypeOK, Doing, history
  <2>. QED  BY <1>2, <2>2, <2>5, <2>7
<1>4. CASE host.cams # <<>> /\ hostMap[c] = NoDevice
  <2>1. host' = host /\ GoTo(t, "hostDied")
    BY <1>4 DEF RemoveNext
  <2>2. /\ op' \in [Thread -> Doing] /\ OnlyOf(t)
        /\ op'[t].pc = "hostDied" /\ op'[t].dev = op[t].dev
        /\ op'[t].todo = op[t].todo /\ op'[t].next = op[t].next
    <3>1. "hostDied" \in Places
      BY DEF Places
    <3>. QED  BY <2>1, <3>1, ThreadKinds, Goes
  <2>3. HostOK'
    BY <1>1, <1>2, <1>4, <2>1, <2>2 DEF HostOK, Closing
  <2>4. LockMoves(t)
    BY <1>1 DEF LockMoves
  <2>5. ThreadsOK'
    BY <2>2, <2>3, <2>4, ThreadKinds, OthersKept
  <2>6. TypeOK'
    BY <1>1, <2>1, <2>2 DEF TypeOK, Doing, history
  <2>. QED  BY <1>2, <1>4, <2>1, <2>2, <2>5, <2>6
<1>5. CASE host.cams # <<>> /\ hostMap[c] # NoDevice
  <2>1. HostCloses(c, "hostDied") /\ host' = host
    BY <1>5 DEF RemoveNext
  <2>2. c \in Camera
    BY <1>2, <1>5, HeadTailProperties
  <2>3. "hostDied" \in {"idle", "hostDied"} /\ op[t].pc \in {"idle", "hostNext"}
        /\ (op[t].pc = "hostNext" <=> "hostDied" = "hostDied")
    BY <1>1
  <2>. HIDE DEF c
  <2>4. /\ TypeOK' /\ ThreadsOK' /\ OnlyOf(t)
        /\ op'[t].pc = "closeLock" /\ op'[t].todo = <<hostMap[c]>> /\ op'[t].next = "hostDied"
    BY <1>1, <1>5, <2>1, <2>2, <2>3, HostClosesType DEF c
  <2>. QED  BY <1>5, <2>1, <2>4 DEF c
<1>. QED  BY <1>3, <1>4, <1>5

LEMMA HostDiedType ==
  ASSUME TypeOK, ThreadsOK, RemoveResourceWhenHostDied
  PROVE  /\ TypeOK' /\ ThreadsOK' /\ OnlyOf(HostThread)
         /\ op'[HostThread].pc = "hostNext" /\ op'[HostThread].dev = op[HostThread].dev
         /\ op'[HostThread].todo = op[HostThread].todo /\ op'[HostThread].next = op[HostThread].next
<1>. DEFINE t == HostThread
            c == Head(host.cams)
<1>1. /\ op[t].pc = "hostDied" /\ lock' = lock /\ GoTo(t, "hostNext")
      /\ host' = [host EXCEPT !.cams = Tail(@)]
      /\ UNCHANGED <<workload, lock, open, lost, overlap>>
  BY DEF RemoveResourceWhenHostDied, At
<1>2. HostOK /\ op[t].todo = <<>> /\ op[t].next = "idle" /\ op[t].dev = NoDevice /\ lock # t /\ host.locked
      /\ host.cams \in Seq(Camera) /\ host.cams # <<>>
  BY <1>1 DEF ThreadsOK, HostOK, Closing, TypeOK
<1>3. /\ op' \in [Thread -> Doing] /\ OnlyOf(t)
      /\ op'[t].pc = "hostNext" /\ op'[t].dev = op[t].dev
      /\ op'[t].todo = op[t].todo /\ op'[t].next = op[t].next
  <2>1. "hostNext" \in Places
    BY DEF Places
  <2>. QED  BY <1>1, <2>1, ThreadKinds, Goes
<1>4. host' \in [up : BOOLEAN, known : BOOLEAN, locked : BOOLEAN, cams : Seq(Camera)] /\ host'.locked = host.locked
  <2>1. Tail(host.cams) \in Seq(Camera)
    BY <1>2, HeadTailProperties
  <2>. QED  BY <1>1, <2>1 DEF TypeOK
<1>5. HostOK'
  BY <1>1, <1>2, <1>3, <1>4 DEF HostOK, Closing
<1>6. LockMoves(t)
  BY <1>1 DEF LockMoves
<1>7. ThreadsOK'
  BY <1>3, <1>5, <1>6, ThreadKinds, OthersKept
<1>8. /\ holders' \in Seq(Device) /\ via' \in [Device -> {"none", "cost", "conflict", "table"}]
      /\ spared' \subseteq spared /\ unpriced' \subseteq Device /\ stranded' \subseteq Device
      /\ hostMap' \in [Camera -> Device \cup {NoDevice}]
      /\ privacy' \in [using : SUBSET Process, useCb : SUBSET Device, permCb : SUBSET Device, refused : SUBSET Process]
  <2>1. privacy \in [using : SUBSET Process, useCb : SUBSET Device, permCb : SUBSET Device, refused : SUBSET Process]
    BY DEF TypeOK
  <2>2. CASE hostMap[c] = NoDevice
    BY <2>2 DEF RemoveResourceWhenHostDied, TypeOK
  <2>3. CASE hostMap[c] # NoDevice
    <3>1. /\ RemoveDevice(c) /\ hostMap' = [hostMap EXCEPT ![c] = NoDevice]
          /\ privacy' = StopUsing(privacy, hostMap[c], holders')
          /\ stranded' = stranded \cup ({hostMap[c]} \cap open)
      BY <2>3 DEF RemoveResourceWhenHostDied
    <3>2. hostMap' \in [Camera -> Device \cup {NoDevice}] /\ stranded' \subseteq Device
      BY <3>1 DEF TypeOK
    <3>. QED  BY <2>1, <3>1, <3>2, RemoveDeviceEffect, PrivacyType
  <2>. QED  BY <2>2, <2>3
<1>9. TypeOK'
  BY <1>1, <1>3, <1>4, <1>8 DEF TypeOK, Doing
<1>. QED  BY <1>3, <1>7, <1>9

LEMMA HostStartsType ==
  ASSUME TypeOK, ThreadsOK, HostStarts
  PROVE  TypeOK' /\ ThreadsOK' /\ op' = op
<1>1. /\ host' = [host EXCEPT !.up = TRUE, !.known = TRUE] /\ host \in [up : BOOLEAN, known : BOOLEAN, locked : BOOLEAN, cams : Seq(Camera)]
      /\ UNCHANGED <<workload, op, lock, open, lost, holders, unpriced, hostMap, privacy, history>>
  BY DEF HostStarts, TypeOK
<1>2. host' \in [up : BOOLEAN, known : BOOLEAN, locked : BOOLEAN, cams : Seq(Camera)]
      /\ host'.locked = host.locked /\ host'.cams = host.cams
  BY <1>1
<1>3. HostOK'
  BY <1>1, <1>2 DEF ThreadsOK, HostOK, Closing
<1>4. LockMoves(HostThread) /\ OnlyOf(HostThread)
  BY <1>1 DEF LockMoves, OnlyOf
<1>5. ThreadsOK'
  BY <1>3, <1>4, ThreadKinds, OthersKept
<1>6. TypeOK'
  BY <1>1, <1>2 DEF TypeOK, history
<1>. QED  BY <1>1, <1>5, <1>6
-----------------------------------------------------------------------------
\* The one step that fills the map keeps a device under its camera.
LEMMA MapTypedStep ==
  ASSUME TypeOK, ThreadsOK, MapTyped, [Next]_vars
  PROVE  MapTyped'
<1>1. CASE UNCHANGED hostMap
  BY <1>1 DEF MapTyped
<1>2. ASSUME NEW t \in Process, Register(t)
      PROVE  MapTyped'
  <2>1. /\ op[t].dev \in Device /\ CameraOf[op[t].dev] \in Camera /\ hostMap \in [Camera -> Device \cup {NoDevice}]
        /\ hostMap' = IF op[t].dev \in open THEN [hostMap EXCEPT ![CameraOf[op[t].dev]] = op[t].dev] ELSE hostMap
    BY <1>2, AtProcess, DevicesAssumption DEF Register, At, Opening, TypeOK
  <2>. QED  BY <2>1 DEF MapTyped
<1>3. ASSUME NEW c, hostMap' = [hostMap EXCEPT ![c] = NoDevice]
      PROVE  MapTyped'
  BY <1>3 DEF MapTyped, TypeOK
<1>4. ASSUME NEW t \in Process, OpenStep(t)
      PROVE  MapTyped'
  BY <1>1, <1>2, <1>4 DEF OpenStep, CanOpenCamera, HandlePrivacyBeforeOpenDevice, OpenFails, OpenSucceeds,
     AddDeviceWaits, AddDevice
<1>5. ASSUME NEW t \in Thread, CloseLock(t) \/ CloseStep(t)
      PROVE  MapTyped'
  BY <1>1, <1>3, <1>5 DEF CloseLock, CloseStep, CloseDevice, ClosePrivacy, CloseHost
<1>6. ASSUME HostStep
      PROVE  MapTyped'
  BY <1>1, <1>3, <1>6 DEF HostStep, RemoveNext, RemoveResourceWhenHostDied
<1>7. ASSUME NEW t \in Process, NEW d \in Device, Open(t, d) \/ Close(t, d)
      PROVE  MapTyped'
  BY <1>1, <1>7 DEF Open, Close
<1>8. ASSUME \/ \E p \in Process : PermStateChange(p)
             \/ PermDisablePolicy
             \/ \E c \in Camera : CameraFails(c)
             \/ HostDies \/ HostStops \/ HostStarts
      PROVE  MapTyped'
  BY <1>1, <1>8 DEF PermStateChange, PermDisablePolicy, CallbackCloses, CameraFails, HostDies, HostStops, HostStarts
<1>9. CASE UNCHANGED vars
  BY <1>1, <1>9 DEF vars, state
<1>. QED  BY <1>4, <1>5, <1>6, <1>7, <1>8, <1>9 DEF Next, Step

TypedInv == TypeOK /\ ThreadsOK /\ MapTyped

LEMMA TypedInit == Init => TypedInv
<1>. SUFFICES ASSUME Init
              PROVE  TypedInv
  OBVIOUS
<1>1. op \in [Thread -> Doing] /\ \A t \in Thread : op[t] = Idle
  BY IdleType DEF Init
<1>2. TypeOK
  BY <1>1, EmptySeq DEF Init, TypeOK, Doing
<1>3. ThreadsOK
  <2>1. \A t \in Process : ProcessOK(t)
    BY <1>1, IdleIs, ThreadKinds DEF Init, ProcessOK, Opening, Closing
  <2>2. WatcherOK
    BY <1>1, IdleIs, ThreadKinds DEF Init, WatcherOK, Closing
  <2>3. HostOK
    BY <1>1, IdleIs, ThreadKinds DEF Init, HostOK, Closing
  <2>. QED  BY <2>1, <2>2, <2>3 DEF ThreadsOK
<1>4. MapTyped
  BY DEF Init, MapTyped
<1>. QED  BY <1>2, <1>3, <1>4 DEF TypedInv

LEMMA HoldersType ==
  ASSUME TypeOK, NEW p
  PROVE  GetCamerasByPid(p) \in Seq(Device)
<1>1. GetCamerasByPid(p) \in Seq(ToSet(holders))
  BY CamerasByPidType
<1>2. ToSet(holders) \subseteq Device
  BY DEF TypeOK, ToSet
<1>. QED  BY <1>1, <1>2, SeqMonotonic

LEMMA TypedStep == TypedInv /\ [Next]_vars => TypedInv'
<1>. SUFFICES ASSUME TypedInv, [Next]_vars
              PROVE  TypeOK' /\ ThreadsOK'
  BY MapTypedStep DEF TypedInv
<1>. USE DEF TypedInv
<1>1. ASSUME NEW t \in Process, OpenStep(t)
      PROVE  TypeOK' /\ ThreadsOK'
  BY <1>1, CanOpenCameraType, PrivacyStepType, OpenFailsType, OpenSucceedsType, AddDeviceWaitsType,
     AddDeviceType, RegisterType DEF OpenStep
<1>2. ASSUME NEW t \in Thread, CloseLock(t) \/ CloseStep(t)
      PROVE  TypeOK' /\ ThreadsOK'
  BY <1>2, CloseLockType, CloseDeviceType, ClosePrivacyType, CloseHostType DEF CloseStep
<1>3. ASSUME HostStep
      PROVE  TypeOK' /\ ThreadsOK'
  BY <1>3, RemoveNextType, HostDiedType DEF HostStep
<1>4. ASSUME NEW t \in Process, NEW d \in Device, Open(t, d) \/ Close(t, d)
      PROVE  TypeOK' /\ ThreadsOK'
  BY <1>4, OpenType, CloseType
<1>5. ASSUME NEW p \in Process, PermStateChange(p)
      PROVE  TypeOK' /\ ThreadsOK'
  BY <1>5, HoldersType, CallbackType DEF PermStateChange
<1>6. ASSUME PermDisablePolicy
      PROVE  TypeOK' /\ ThreadsOK'
  <2>1. holders \in Seq(Device)
    BY DEF TypeOK
  <2>. QED  BY <1>6, <2>1, CallbackType DEF PermDisablePolicy
<1>7. ASSUME (\E c \in Camera : CameraFails(c)) \/ HostDies \/ HostStops \/ HostStarts
      PROVE  TypeOK' /\ ThreadsOK'
  BY <1>7, CameraFailsType, HostDiesType, HostStopsType, HostStartsType
<1>8. CASE UNCHANGED vars
  <2>1. UNCHANGED <<workload, op, lock, host, open, lost, holders, unpriced, hostMap, privacy, via, spared, stranded, overlap>>
    BY <1>8 DEF vars, state, history
  <2>2. LockMoves(HostThread) /\ OnlyOf(HostThread) /\ HostOK'
    BY <2>1 DEF LockMoves, OnlyOf, ThreadsOK, HostOK
  <2>3. TypeOK'
    BY <2>1 DEF TypeOK
  <2>. QED  BY <2>1, <2>2, <2>3, ThreadKinds, OthersKept
<1>. QED  BY <1>1, <1>2, <1>3, <1>4, <1>5, <1>6, <1>7, <1>8 DEF Next, Step

\* The variables have their types, and each thread is where its kind of thread can be: a
\* process has the lock of opening and closing from the start of a call to its end.
THEOREM TypeCorrect == Spec => []TypeOK
<1>1. Spec => []TypedInv
  BY TypedInit, TypedStep, PTL DEF Spec
<1>2. TypedInv => TypeOK
  BY DEF TypedInv
<1>. QED  BY <1>1, <1>2, PTL
-----------------------------------------------------------------------------
(***************************************************************************)
(* What the device, the device manager and the host manager know.  Unless  *)
(* a callback met an opening, or a device its HDI service's end: a device   *)
(* is open from the moment the HDI has opened it to its closing; it is a    *)
(* holder from the end of AddDevice on; the host's map has it from the end  *)
(* of the open to the end of the close; and what the removal of the host    *)
(* takes out of the lists is in neither until it is opened again.           *)
(***************************************************************************)
Adding == {"addLock", "add"}
Leaving == {"closePrivacy", "closeHost"}

\* The open devices the lists have or will have.
Listed == open \ stranded

\* The HDI opens a camera once.
OneOfCamera == \A d, e \in open : CameraOf[d] = CameraOf[e] => d = e

\* The holders are open, once each; what is open is a holder or about to become one.
HoldersOK ==
  /\ \A i, j \in DOMAIN holders : holders[i] = holders[j] => i = j
  /\ \A d \in ToSet(holders) : d \in Listed
  /\ \A d \in Listed : d \in ToSet(holders) \/ \E t \in Process : op[t].pc \in Adding /\ op[t].dev = d
  /\ \A t \in Process : op[t].pc \in Adding => op[t].dev \in Listed /\ op[t].dev \notin ToSet(holders)

\* The callbacks close no camera that is being added.
WatchedOK ==
  \A t \in Process : op[t].pc \in Adding =>
    \A e \in ToSet(op[Watcher].todo) : CameraOf[e] # CameraOf[op[t].dev]

\* A camera that is being closed is not open.
LeavingOK ==
  \A x \in Thread : op[x].pc \in Leaving =>
    \A d \in open : CameraOf[d] # CameraOf[Head(op[x].todo)]

MapOK ==
  /\ \A c \in Camera : hostMap[c] # NoDevice =>
       \/ hostMap[c] \in Listed
       \/ \E x \in Thread : op[x].pc \in Leaving /\ Head(op[x].todo) = hostMap[c]
  /\ \A d \in Listed : \/ hostMap[CameraOf[d]] = d
                       \/ \E t \in Process : op[t].pc \in Adding \cup {"register"} /\ op[t].dev = d
  /\ \A t \in Process : op[t].pc \in Adding \cup {"register"} =>
       hostMap[CameraOf[op[t].dev]] = NoDevice /\ op[t].dev \notin stranded

DevicesOK == OneOfCamera /\ HoldersOK /\ WatchedOK /\ LeavingOK /\ MapOK

\* What is left of a list without repetitions.
LEMMA SetOfRemoved ==
  ASSUME NEW S, NEW s \in Seq(S), NEW n \in 1 .. Len(s), \A i, j \in DOMAIN s : s[i] = s[j] => i = j
  PROVE  LET r == RemoveAt(s, n)
         IN  /\ \A x : x \in ToSet(r) <=> x \in ToSet(s) /\ x # s[n]
             /\ \A i, j \in DOMAIN r : r[i] = r[j] => i = j
             /\ \A i, j \in DOMAIN r : i < j => \E k, l \in DOMAIN s : k < l /\ r[i] = s[k] /\ r[j] = s[l]
<1>. DEFINE r == RemoveAt(s, n)
            old(k) == IF k < n THEN k ELSE k + 1
<1>1. /\ r \in Seq(S) /\ Len(r) = Len(s) - 1
      /\ \A k \in 1 .. Len(s) - 1 : r[k] = IF k < n THEN s[k] ELSE s[k + 1]
  BY RemoveAtIs
<1>2. Len(s) \in Nat /\ DOMAIN s = 1 .. Len(s) /\ DOMAIN r = 1 .. Len(s) - 1 /\ n \in Nat
  BY <1>1
<1>. HIDE DEF r
<1>3. \A k \in DOMAIN r : old(k) \in DOMAIN s /\ old(k) # n /\ r[k] = s[old(k)]
  BY <1>1, <1>2
<1>4. \A k, l \in DOMAIN r : (k < l => old(k) < old(l)) /\ (old(k) = old(l) => k = l)
  BY <1>2
<1>5. ASSUME NEW k \in DOMAIN s, k # n
      PROVE  \E l \in DOMAIN r : old(l) = k
  <2>1. CASE k < n
    BY <1>2, <2>1
  <2>2. CASE ~ (k < n)
    <3>1. k - 1 \in 1 .. Len(s) - 1 /\ ~ (k - 1 < n) /\ (k - 1) + 1 = k
      BY <1>2, <1>5, <2>2
    <3>. QED  BY <1>2, <3>1
  <2>. QED  BY <2>1, <2>2
<1>. HIDE DEF old
<1>6. ASSUME NEW x
      PROVE  x \in ToSet(r) <=> x \in ToSet(s) /\ x # s[n]
  <2>1. x \in ToSet(r) <=> \E k \in DOMAIN r : x = r[k]
    BY Zenon DEF ToSet
  <2>2. x \in ToSet(s) <=> \E k \in DOMAIN s : x = s[k]
    BY Zenon DEF ToSet
  <2>3. n \in DOMAIN s
    BY <1>2
  <2>. QED  BY <1>3, <1>5, <2>1, <2>2, <2>3, Zenon
<1>7. \A i, j \in DOMAIN r : r[i] = r[j] => i = j
  BY <1>3, <1>4, Zenon
<1>8. \A i, j \in DOMAIN r : i < j => \E k, l \in DOMAIN s : k < l /\ r[i] = s[k] /\ r[j] = s[l]
  BY <1>3, <1>4, Zenon
<1>. QED  BY <1>6, <1>7, <1>8, Zenon DEF r

\* A thread whose place, as the devices see it, does not change disturbs nothing.
LEMMA DevicesFrame ==
  ASSUME TypedInv, DevicesOK, NEW t \in Thread, OnlyOf(t), UNCHANGED <<open, holders, hostMap, stranded>>,
         op'[t].pc \in Adding <=> op[t].pc \in Adding,
         op'[t].pc = "register" <=> op[t].pc = "register",
         op'[t].pc \in Adding \cup {"register"} => op'[t].dev = op[t].dev,
         op'[t].pc \in Leaving <=> op[t].pc \in Leaving,
         op'[t].pc \in Leaving => Head(op'[t].todo) = Head(op[t].todo),
         t = Watcher => \A e \in ToSet(op'[t].todo) : e \in ToSet(op[t].todo)
  PROVE  DevicesOK'
<1>1. \A x \in Process : /\ x \in Thread /\ (op'[x].pc \in Adding <=> op[x].pc \in Adding)
                         /\ (op'[x].pc \in Adding \cup {"register"} <=> op[x].pc \in Adding \cup {"register"})
                         /\ (op'[x].pc \in Adding \cup {"register"} => op'[x].dev = op[x].dev)
  BY ThreadKinds DEF OnlyOf
<1>2. \A x \in Thread : /\ op'[x].pc \in Leaving <=> op[x].pc \in Leaving
                        /\ op'[x].pc \in Leaving => Head(op'[x].todo) = Head(op[x].todo)
  BY DEF OnlyOf
<1>3. \A e \in ToSet(op'[Watcher].todo) : e \in ToSet(op[Watcher].todo)
  BY ThreadKinds DEF OnlyOf
<1>4. Listed' = Listed
  BY DEF Listed
<1>5. HoldersOK'
  BY <1>1, <1>4 DEF DevicesOK, HoldersOK
<1>6. WatchedOK'
  BY <1>1, <1>3 DEF DevicesOK, WatchedOK
<1>7. LeavingOK'
  BY <1>2 DEF DevicesOK, LeavingOK
<1>8. MapOK'
  <2>1. (\A c \in Camera : hostMap[c] # NoDevice =>
           \/ hostMap[c] \in Listed
           \/ \E x \in Thread : op[x].pc \in Leaving /\ Head(op[x].todo) = hostMap[c])'
    BY <1>2, <1>4 DEF DevicesOK, MapOK
  <2>. QED  BY <1>1, <1>4, <2>1 DEF DevicesOK, MapOK
<1>9. OneOfCamera'
  BY DEF DevicesOK, OneOfCamera
<1>. QED  BY <1>5, <1>6, <1>7, <1>8, <1>9 DEF DevicesOK

\* Steps of a call that change neither what is open nor who holds what.
LEMMA DevicesOfCall ==
  ASSUME TypedInv, DevicesOK, NEW t \in Process,
         \/ \E d \in Device : Open(t, d) \/ Close(t, d)
         \/ CanOpenCamera(t) \/ HandlePrivacyBeforeOpenDevice(t) \/ OpenFails(t) \/ AddDeviceWaits(t)
  PROVE  DevicesOK'
<1>. USE DEF TypedInv
<1>1. t \in Thread /\ t # Watcher /\ t # HostThread
  BY ThreadKinds
<1>2. CASE \E d \in Device : Open(t, d) \/ Close(t, d)
  <2>1. PICK d \in Device : Open(t, d) \/ Close(t, d)
    BY <1>2
  <2>2. OnlyOf(t) /\ op'[t].pc \in {"admit", "close"}
    BY <2>1, OpenType, CloseType
  <2>3. op[t].pc = "idle" /\ UNCHANGED <<open, holders, hostMap, stranded>>
    BY <2>1 DEF Open, Close, At, history
  <2>. QED  BY <1>1, <2>2, <2>3, DevicesFrame DEF Adding, Leaving
<1>3. CASE CanOpenCamera(t)
  <2>1. OnlyOf(t) /\ op'[t].pc \in {"idle", "privacy", "close"}
    <3>1. PICK verdict \in Verdict : Decide(t, op[t].dev, verdict)
      BY <1>3, Judged
    <3>2. op[t].dev \in Device
      BY <1>3, AtProcess DEF CanOpenCamera, At, Opening
    <3>. QED  BY <1>1, <3>1, <3>2, DecideEffect, IdleIs
  <2>2. op[t].pc = "admit" /\ UNCHANGED <<open, holders, hostMap, stranded>>
    BY <1>3 DEF CanOpenCamera, At
  <2>. QED  BY <1>1, <2>1, <2>2, DevicesFrame DEF Adding, Leaving
<1>4. CASE HandlePrivacyBeforeOpenDevice(t)
  <2>1. OnlyOf(t) /\ op'[t].pc \in {"idle", "hdi"}
    BY <1>4, PrivacyStepType, IdleIs
  <2>2. op[t].pc = "privacy" /\ UNCHANGED <<open, holders, hostMap, stranded>>
    BY <1>4 DEF HandlePrivacyBeforeOpenDevice, At, history
  <2>. QED  BY <1>1, <2>1, <2>2, DevicesFrame DEF Adding, Leaving
<1>5. CASE OpenFails(t)
  <2>1. OnlyOf(t) /\ op'[t].pc = "idle"
    BY <1>5, OpenFailsType, IdleIs
  <2>2. op[t].pc = "hdi" /\ UNCHANGED <<open, holders, hostMap, stranded>>
    BY <1>5 DEF OpenFails, At, history
  <2>. QED  BY <1>1, <2>1, <2>2, DevicesFrame DEF Adding, Leaving
<1>6. CASE AddDeviceWaits(t)
  <2>1. OnlyOf(t) /\ op'[t].pc = "add" /\ op'[t].dev = op[t].dev
    BY <1>6, AddDeviceWaitsType
  <2>2. op[t].pc = "addLock" /\ UNCHANGED <<open, holders, hostMap, stranded>>
    BY <1>6 DEF AddDeviceWaits, At, history
  <2>. QED  BY <1>1, <2>1, <2>2, DevicesFrame DEF Adding, Leaving
<1>. QED  BY <1>2, <1>3, <1>4, <1>5, <1>6

\* While one process has the lock, no other is in a call, and the host's thread closes nothing.
LEMMA Alone ==
  ASSUME TypedInv, NEW t \in Process, lock = t
  PROVE  /\ \A x \in Process : x # t => op[x] = Idle
         /\ \A x \in Process : op[x].pc # "idle" => x = t
         /\ op[HostThread].pc \notin Closing
         /\ \A x \in Thread : op[x].pc \in Closing => x = t \/ x = Watcher
<1>1. \A x \in Process : x # t => op[x].pc = "idle" /\ op[x] = Idle
  BY DEF TypedInv, ThreadsOK, ProcessOK
<1>2. op[HostThread].pc \notin Closing
  BY ThreadKinds DEF TypedInv, ThreadsOK, HostOK
<1>3. "idle" \notin Closing
  BY DEF Closing
<1>. QED  BY <1>1, <1>2, <1>3, ThreadKinds

LEMMA DevicesOfSuccess ==
  ASSUME TypedInv, DevicesOK, NEW t \in Process, OpenSucceeds(t), ~ overlap'
  PROVE  DevicesOK'
<1>. USE DEF TypedInv
<1>. DEFINE d == op[t].dev
<1>1. /\ OnlyOf(t) /\ op'[t].pc = "addLock" /\ op'[t].dev = op[t].dev
      /\ op'[t].todo = op[t].todo /\ op'[t].next = op[t].next
  BY OpenSucceedsType
<1>2. /\ op[t].pc = "hdi" /\ lock = t /\ d \in Device /\ t \in Thread /\ t # Watcher /\ t # HostThread
      /\ open \subseteq Device /\ open' = open \cup {d} /\ stranded' = stranded \ {d}
      /\ UNCHANGED <<holders, hostMap>>
  BY AtProcess DEF OpenSucceeds, At, Opening, ProcessOK, TypeOK
<1>3. /\ \A e \in open : CameraOf[e] = CameraOf[d] => e = d /\ d \in stranded
      /\ \A e \in ToSet(op[Watcher].todo) : e \in Device => CameraOf[e] # CameraOf[d]
  BY <1>2 DEF OpenSucceeds
<1>4. \A e \in ToSet(op[Watcher].todo) : CameraOf[e] # CameraOf[d]
  <2>1. op[Watcher].todo \in Seq(Device)
    BY ThreadKinds, OpType DEF Doing
  <2>2. \A e \in ToSet(op[Watcher].todo) : e \in Device
    BY <2>1 DEF ToSet
  <2>. QED  BY <1>3, <2>2
<1>5. op'[Watcher] = op[Watcher] /\ \A x \in Process : x # t => op'[x] = op[x]
  BY <1>1, <1>2, ThreadKinds DEF OnlyOf
<1>6. \A x \in Process : op[x].pc \in Adding \cup {"register"} => x = t
  BY <1>2, Alone DEF Adding
<1>7. /\ Listed' = Listed \cup {d}
      /\ \A e \in Listed : CameraOf[e] # CameraOf[d]
  BY <1>2, <1>3 DEF Listed
<1>8. d \notin ToSet(holders)
  BY <1>2, <1>7 DEF DevicesOK, HoldersOK
<1>9. OneOfCamera'
  BY <1>2, <1>3 DEF DevicesOK, OneOfCamera
<1>10. HoldersOK'
  <2>1. \A x \in Listed' : x \in ToSet(holders) \/ \E p \in Process : op'[p].pc \in Adding /\ op'[p].dev = x
    <3>1. \A x \in Listed : x \in ToSet(holders)
      BY <1>2, <1>6 DEF DevicesOK, HoldersOK, Adding
    <3>. QED  BY <1>1, <1>7, <3>1 DEF Adding
  <2>2. \A p \in Process : op'[p].pc \in Adding => op'[p].dev \in Listed' /\ op'[p].dev \notin ToSet(holders)
    BY <1>1, <1>5, <1>6, <1>7, <1>8
  <2>. QED  BY <1>2, <1>7, <2>1, <2>2 DEF DevicesOK, HoldersOK
<1>11. WatchedOK'
  BY <1>1, <1>4, <1>5, <1>6 DEF WatchedOK
<1>12. \A x \in Thread : op'[x].pc \in Leaving =>
         op[x].pc \in Leaving /\ x = Watcher /\ Head(op[x].todo) \in ToSet(op[x].todo)
  <2>1. ASSUME NEW x \in Thread, op'[x].pc \in Leaving
        PROVE  op[x].pc \in Leaving /\ x = Watcher /\ Head(op[x].todo) \in ToSet(op[x].todo)
    <3>1. x # t /\ op'[x] = op[x] /\ op[x].pc \in Closing
      BY <1>1, <2>1 DEF OnlyOf, Leaving, Closing
    <3>2. x = Watcher
      BY <1>2, <3>1, Alone
    <3>3. op[x].todo # <<>> /\ op[x].todo \in Seq(Device)
      BY <3>1, ClosingHas
    <3>. QED  BY <2>1, <3>1, <3>2, <3>3, SetOfTail
  <2>. QED  BY <2>1
<1>13. LeavingOK'
  <2>. SUFFICES ASSUME NEW x \in Thread, op'[x].pc \in Leaving, NEW e \in open'
                PROVE  CameraOf[e] # CameraOf[Head(op'[x].todo)]
    BY DEF LeavingOK
  <2>1. op[x].pc \in Leaving /\ op'[x] = op[x] /\ Head(op[x].todo) \in ToSet(op[Watcher].todo)
    BY <1>5, <1>12
  <2>. QED  BY <1>2, <1>4, <2>1 DEF DevicesOK, LeavingOK
<1>14. MapOK'
  <2>1. \A c \in Camera : hostMap[c] # NoDevice =>
          \/ hostMap[c] \in Listed
          \/ op[Watcher].pc \in Leaving /\ Head(op[Watcher].todo) = hostMap[c] /\ hostMap[c] \in ToSet(op[Watcher].todo)
    <3>. SUFFICES ASSUME NEW c \in Camera, hostMap[c] # NoDevice, hostMap[c] \notin Listed
                  PROVE  op[Watcher].pc \in Leaving /\ Head(op[Watcher].todo) = hostMap[c]
                         /\ hostMap[c] \in ToSet(op[Watcher].todo)
      OBVIOUS
    <3>1. PICK x \in Thread : op[x].pc \in Leaving /\ Head(op[x].todo) = hostMap[c]
      BY DEF DevicesOK, MapOK
    <3>2. x # t /\ op'[x] = op[x]
      BY <1>1, <1>2, <3>1 DEF OnlyOf, Leaving
    <3>. QED  BY <1>12, <3>1, <3>2
  <2>2. hostMap[CameraOf[d]] = NoDevice
    <3>1. CameraOf[d] \in Camera /\ (hostMap[CameraOf[d]] # NoDevice => CameraOf[hostMap[CameraOf[d]]] = CameraOf[d])
      BY <1>2, DevicesAssumption DEF MapTyped
    <3>. QED  BY <1>4, <1>7, <2>1, <3>1
  <2>3. \A e \in Listed : hostMap[CameraOf[e]] = e
    BY <1>2, <1>6 DEF DevicesOK, MapOK, Adding
  <2>4. \A c \in Camera : hostMap[c] # NoDevice =>
          \/ hostMap[c] \in Listed'
          \/ \E x \in Thread : op'[x].pc \in Leaving /\ Head(op'[x].todo) = hostMap[c]
    BY <1>5, <1>7, <2>1, ThreadKinds
  <2>5. \A e \in Listed' : \/ hostMap[CameraOf[e]] = e
                           \/ \E p \in Process : op'[p].pc \in Adding \cup {"register"} /\ op'[p].dev = e
    BY <1>1, <1>7, <2>3 DEF Adding
  <2>6. \A p \in Process : op'[p].pc \in Adding \cup {"register"} =>
          hostMap[CameraOf[op'[p].dev]] = NoDevice /\ op'[p].dev \notin stranded'
    BY <1>1, <1>2, <1>5, <1>6, <2>2
  <2>. QED  BY <1>2, <2>4, <2>5, <2>6 DEF MapOK
<1>. QED  BY <1>9, <1>10, <1>11, <1>13, <1>14 DEF DevicesOK

LEMMA DevicesOfAdd ==
  ASSUME TypedInv, DevicesOK, NEW t \in Process, AddDevice(t)
  PROVE  DevicesOK'
<1>. USE DEF TypedInv
<1>. DEFINE d == op[t].dev
<1>1. /\ OnlyOf(t) /\ op'[t].pc = "register" /\ op'[t].dev = op[t].dev
      /\ op'[t].todo = op[t].todo /\ op'[t].next = op[t].next
  BY AddDeviceType
<1>2. /\ op[t].pc \in Adding /\ lock = t /\ d \in Device /\ t \in Thread /\ t # Watcher /\ t # HostThread
      /\ holders' = Append(holders, d) /\ UNCHANGED <<open, hostMap, stranded>>
  BY AtProcess DEF AddDevice, At, Opening, ProcessOK, Adding, history
<1>3. op'[Watcher] = op[Watcher] /\ \A x \in Process : x # t => op'[x] = op[x]
  BY <1>1, <1>2, ThreadKinds DEF OnlyOf
<1>4. \A x \in Process : op[x].pc \in Adding \cup {"register"} => x = t
  BY <1>2, Alone DEF Adding
<1>5. d \in Listed /\ Listed' = Listed /\ d \notin ToSet(holders) /\ \A e \in Listed : e \in ToSet(holders) \/ e = d
  BY <1>2, <1>4 DEF DevicesOK, HoldersOK, Listed
<1>6. \A x \in Process : op'[x].pc \notin Adding
  BY <1>1, <1>3, <1>4 DEF Adding
<1>7. HoldersOK'
  <2>1. holders \in Seq(Device) /\ Len(holders) \in Nat
    BY DEF TypeOK
  <2>2. \A x : x \in ToSet(holders') <=> x \in ToSet(holders) \/ x = d
    BY <1>2, <2>1, SetOfAppend
  <2>3. \A i, j \in DOMAIN holders' : holders'[i] = holders'[j] => i = j
    <3>1. /\ DOMAIN holders' = 1 .. Len(holders) + 1 /\ DOMAIN holders = 1 .. Len(holders)
          /\ \A i \in 1 .. Len(holders) : holders'[i] = holders[i]
          /\ holders'[Len(holders) + 1] = d
      BY <1>2, <2>1, AppendProperties
    <3>2. \A i \in 1 .. Len(holders) : holders[i] # d
      BY <1>5, <3>1 DEF ToSet
    <3>3. \A i, j \in 1 .. Len(holders) : holders[i] = holders[j] => i = j
      BY <3>1 DEF DevicesOK, HoldersOK
    <3>4. \A i \in 1 .. Len(holders) + 1 : i \in 1 .. Len(holders) \/ i = Len(holders) + 1
      BY <2>1
    <3>. QED  BY <3>1, <3>2, <3>3, <3>4
  <2>. QED  BY <1>2, <1>5, <1>6, <2>2, <2>3 DEF DevicesOK, HoldersOK
<1>8. WatchedOK'
  BY <1>6 DEF WatchedOK
<1>9. \A x \in Thread : /\ op'[x].pc \in Leaving <=> op[x].pc \in Leaving
                        /\ op'[x].pc \in Leaving => op'[x].todo = op[x].todo
  BY <1>1, <1>2 DEF OnlyOf, Leaving, Adding
<1>10. LeavingOK'
  BY <1>2, <1>9 DEF DevicesOK, LeavingOK
<1>11. MapOK'
  <2>1. \A c \in Camera : hostMap[c] # NoDevice =>
          \/ hostMap[c] \in Listed
          \/ \E x \in Thread : op'[x].pc \in Leaving /\ Head(op'[x].todo) = hostMap[c]
    BY <1>9 DEF DevicesOK, MapOK
  <2>2. \A e \in Listed : \/ hostMap[CameraOf[e]] = e
                          \/ \E p \in Process : op'[p].pc \in Adding \cup {"register"} /\ op'[p].dev = e
    <3>1. \A e \in Listed : hostMap[CameraOf[e]] = e \/ e = d
      BY <1>4 DEF DevicesOK, MapOK
    <3>. QED  BY <1>1, <3>1
  <2>3. \A p \in Process : op'[p].pc \in Adding \cup {"register"} =>
          hostMap[CameraOf[op'[p].dev]] = NoDevice /\ op'[p].dev \notin stranded
    BY <1>1, <1>2, <1>3, <1>4 DEF DevicesOK, MapOK
  <2>. QED  BY <1>2, <1>5, <2>1, <2>2, <2>3 DEF MapOK
<1>12. OneOfCamera'
  BY <1>2 DEF DevicesOK, OneOfCamera
<1>. QED  BY <1>7, <1>8, <1>10, <1>11, <1>12 DEF DevicesOK

LEMMA DevicesOfRegister ==
  ASSUME TypedInv, DevicesOK, NEW t \in Process, Register(t)
  PROVE  DevicesOK'
<1>. USE DEF TypedInv
<1>. DEFINE d == op[t].dev
<1>1. OnlyOf(t) /\ op'[t].pc = "idle"
  BY RegisterType, IdleIs
<1>2. /\ op[t].pc = "register" /\ lock = t /\ d \in Device /\ CameraOf[d] \in Camera /\ t \in Thread
      /\ t # Watcher /\ t # HostThread
      /\ hostMap' = (IF d \in open THEN [hostMap EXCEPT ![CameraOf[d]] = d] ELSE hostMap)
      /\ UNCHANGED <<open, holders, stranded>>
      /\ hostMap \in [Camera -> Device \cup {NoDevice}] /\ open \subseteq Device
  BY AtProcess, DevicesAssumption DEF Register, At, Opening, ProcessOK, TypeOK, history
<1>3. op'[Watcher] = op[Watcher] /\ \A x \in Process : x # t => op'[x] = op[x]
  BY <1>1, <1>2, ThreadKinds DEF OnlyOf
<1>4. \A x \in Process : op[x].pc \in Adding \cup {"register"} => x = t
  BY <1>2, Alone DEF Adding
<1>5. \A x \in Process : op[x].pc \notin Adding /\ op'[x].pc \notin Adding \cup {"register"}
  BY <1>1, <1>2, <1>3, <1>4 DEF Adding
<1>6. /\ Listed' = Listed /\ Listed \subseteq open
      /\ d \in open => d \in Listed
  BY <1>2 DEF Listed, DevicesOK, MapOK
<1>7. HoldersOK' /\ WatchedOK' /\ OneOfCamera'
  BY <1>2, <1>5, <1>6 DEF DevicesOK, HoldersOK, WatchedOK, OneOfCamera
<1>8. \A x \in Thread : /\ op'[x].pc \in Leaving <=> op[x].pc \in Leaving
                        /\ op'[x].pc \in Leaving => op'[x].todo = op[x].todo
  BY <1>1, <1>2 DEF OnlyOf, Leaving
<1>9. LeavingOK'
  BY <1>2, <1>8 DEF DevicesOK, LeavingOK
<1>10. MapOK'
  <2>1. ASSUME NEW c \in Camera, hostMap'[c] # NoDevice
        PROVE  \/ hostMap'[c] \in Listed
               \/ \E x \in Thread : op'[x].pc \in Leaving /\ Head(op'[x].todo) = hostMap'[c]
    <3>1. CASE d \in open /\ c = CameraOf[d]
      BY <1>2, <1>6, <3>1
    <3>2. CASE ~ (d \in open /\ c = CameraOf[d])
      <4>1. hostMap'[c] = hostMap[c]
        BY <1>2, <3>2
      <4>. QED  BY <1>8, <2>1, <4>1 DEF DevicesOK, MapOK
    <3>. QED  BY <3>1, <3>2
  <2>2. ASSUME NEW e \in Listed
        PROVE  hostMap'[CameraOf[e]] = e
    <3>0. CameraOf[e] \in Camera /\ e \in open
      BY <1>2, <1>6, DevicesAssumption
    <3>1. hostMap[CameraOf[e]] = e \/ e = d
      BY <1>4 DEF DevicesOK, MapOK
    <3>2. CASE e = d
      BY <1>2, <3>0, <3>2
    <3>3. CASE e # d
      <4>1. d \in open => CameraOf[e] # CameraOf[d]
        BY <3>0, <3>3 DEF DevicesOK, OneOfCamera
      <4>. QED  BY <1>2, <3>0, <3>1, <3>3, <4>1
    <3>. QED  BY <3>2, <3>3
  <2>. QED  BY <1>2, <1>5, <1>6, <2>1, <2>2 DEF MapOK
<1>. QED  BY <1>7, <1>9, <1>10 DEF DevicesOK

\* What is in the lists and on a thread's list to be closed is a holder.
LEMMA ClosesHolder ==
  ASSUME TypedInv, DevicesOK, NEW t \in Thread, op[t].pc \in Closing, Head(op[t].todo) \in Listed
  PROVE  Head(op[t].todo) \in ToSet(holders)
<1>. DEFINE d == Head(op[t].todo)
<1>1. op[t].todo # <<>> /\ op[t].todo \in Seq(Device)
  BY ClosingHas DEF TypedInv
<1>. SUFFICES ASSUME NEW p \in Process, op[p].pc \in Adding, op[p].dev = d
              PROVE  FALSE
  BY DEF DevicesOK, HoldersOK
<1>2. lock = p /\ op[p].pc \notin Closing
  BY AtProcess DEF TypedInv, ProcessOK, Adding, Closing
<1>3. t = Watcher
  BY <1>2, Alone
<1>4. d \in ToSet(op[Watcher].todo)
  BY <1>1, <1>3, SetOfTail
<1>. QED  BY <1>4 DEF DevicesOK, WatchedOK

\* RemoveDevice of a holder's camera removes this holder.
LEMMA Removed ==
  ASSUME TypedInv, DevicesOK, NEW d, d \in ToSet(holders), RemoveDevice(CameraOf[d])
  PROVE  /\ \A x : x \in ToSet(holders') <=> x \in ToSet(holders) /\ x # d
         /\ \A i, j \in DOMAIN holders' : holders'[i] = holders'[j] => i = j
         /\ \A i, j \in DOMAIN holders' : i < j =>
              \E k, l \in DOMAIN holders : k < l /\ holders'[i] = holders[k] /\ holders'[j] = holders[l]
         /\ unpriced' = unpriced \ {d}
         /\ spared' = {s \in spared : s[2] # d /\ (s[1] = d => IsBeingOpened(d))}
         /\ via' = IF IsBeingOpened(d) THEN via ELSE [via EXCEPT ![d] = "none"]
         /\ \E i \in 1 .. Len(holders) : holders[i] = d /\ holders' = RemoveAt(holders, i)
<1>1. /\ \A i \in DOMAIN holders : CameraOf[holders[i]] = CameraOf[d] => holders[i] = d
      /\ \E i \in DOMAIN holders : holders[i] = d
  <2>1. \A i \in DOMAIN holders : holders[i] \in ToSet(holders)
    BY Zenon DEF ToSet
  <2>2. \A e \in ToSet(holders) : e \in open
    BY DEF DevicesOK, HoldersOK, Listed
  <2>3. \A i \in DOMAIN holders : CameraOf[holders[i]] = CameraOf[d] => holders[i] = d
    BY <2>1, <2>2 DEF DevicesOK, OneOfCamera
  <2>4. \E i \in DOMAIN holders : holders[i] = d
    BY Zenon DEF ToSet
  <2>. QED  BY <2>3, <2>4
<1>2. PICK i \in 1 .. Len(holders) :
        /\ CameraOf[holders[i]] = CameraOf[d]
        /\ holders' = RemoveAt(holders, i) /\ unpriced' = unpriced \ {holders[i]}
        /\ via' = IF IsBeingOpened(holders[i]) THEN via ELSE [via EXCEPT ![holders[i]] = "none"]
        /\ spared' = {s \in spared : s[2] # holders[i] /\ (s[1] = holders[i] => IsBeingOpened(holders[i]))}
  BY <1>1, RemoveDeviceEffect DEF TypedInv
<1>3. holders \in Seq(Device) /\ DOMAIN holders = 1 .. Len(holders)
  BY DEF TypedInv, TypeOK
<1>4. holders[i] = d
  BY <1>1, <1>2, <1>3
<1>5. \A k, l \in DOMAIN holders : holders[k] = holders[l] => k = l
  BY DEF DevicesOK, HoldersOK
<1>6. /\ \A x : x \in ToSet(holders') <=> x \in ToSet(holders) /\ x # holders[i]
      /\ \A k, l \in DOMAIN holders' : holders'[k] = holders'[l] => k = l
      /\ \A k, l \in DOMAIN holders' : k < l =>
           \E m, n \in DOMAIN holders : m < n /\ holders'[k] = holders[m] /\ holders'[l] = holders[n]
  BY <1>2, <1>3, <1>5, SetOfRemoved
<1>. QED  BY <1>2, <1>4, <1>6

\* RemoveDevice of a camera nobody holds changes nothing.
LEMMA NobodyRemoved ==
  ASSUME TypedInv, DevicesOK, NEW c, \A e \in Listed : CameraOf[e] # c, RemoveDevice(c)
  PROVE  UNCHANGED <<holders, unpriced, via, spared>>
<1>1. \A i \in DOMAIN holders : holders[i] \in Listed
  <2>1. \A i \in DOMAIN holders : holders[i] \in ToSet(holders)
    BY Zenon DEF ToSet
  <2>. QED  BY <2>1 DEF DevicesOK, HoldersOK
<1>2. \A i \in 1 .. Len(holders) : CameraOf[holders[i]] # c
  BY <1>1 DEF TypedInv, TypeOK
<1>. QED  BY <1>2, RemoveDeviceEffect DEF TypedInv

\* CloseDevice of an open device removes it from the holders, and nobody if it is in no list.
LEMMA ClosingRemoves ==
  ASSUME TypedInv, DevicesOK, NEW t \in Thread, CloseDevice(t), Head(op[t].todo) \in open
  PROVE  \/ /\ Head(op[t].todo) \in ToSet(holders) /\ Head(op[t].todo) \in Listed
            /\ RemoveDevice(CameraOf[Head(op[t].todo)])
         \/ /\ Head(op[t].todo) \notin ToSet(holders) /\ Head(op[t].todo) \notin Listed
            /\ UNCHANGED <<holders, unpriced, via, spared>>
<1>. DEFINE d == Head(op[t].todo)
<1>1. op[t].pc \in Closing /\ RemoveDevice(CameraOf[d])
  BY DEF CloseDevice, At, Closing
<1>2. CASE d \in Listed
  BY <1>1, <1>2, ClosesHolder
<1>3. CASE d \notin Listed
  <2>1. \A e \in Listed : CameraOf[e] # CameraOf[d]
    BY <1>3 DEF DevicesOK, OneOfCamera, Listed
  <2>2. UNCHANGED <<holders, unpriced, via, spared>>
    BY <1>1, <2>1, NobodyRemoved
  <2>. QED  BY <1>3, <2>2 DEF DevicesOK, HoldersOK
<1>. QED  BY <1>2, <1>3

LEMMA DevicesOfClosing ==
  ASSUME TypedInv, DevicesOK, NEW t \in Thread, CloseDevice(t), Head(op[t].todo) \in open
  PROVE  DevicesOK'
<1>. USE DEF TypedInv
<1>. DEFINE d == Head(op[t].todo)
<1>1. /\ op[t].pc = "close" /\ op[t].pc \in Closing /\ open' = open \ {d} /\ stranded' = stranded \ {d}
      /\ GoTo(t, "closePrivacy") /\ lock' = lock /\ UNCHANGED <<host, hostMap>>
  BY DEF CloseDevice, At, Closing
<1>2. /\ OnlyOf(t) /\ op'[t].pc = "closePrivacy" /\ op'[t].dev = op[t].dev
      /\ op'[t].todo = op[t].todo /\ op'[t].next = op[t].next
  BY <1>1, ClosingThreads DEF Closing
<1>3. /\ \A x : x \in ToSet(holders') <=> x \in ToSet(holders) /\ x # d
      /\ \A i, j \in DOMAIN holders' : holders'[i] = holders'[j] => i = j
  <2>1. CASE d \in ToSet(holders)
    <3>1. RemoveDevice(CameraOf[d])
      BY <2>1, ClosingRemoves
    <3>. QED  BY <2>1, <3>1, Removed
  <2>2. CASE d \notin ToSet(holders)
    <3>1. holders' = holders
      BY <2>2, ClosingRemoves
    <3>. QED  BY <2>2, <3>1 DEF DevicesOK, HoldersOK
  <2>. QED  BY <2>1, <2>2
<1>4. \A x \in Process : /\ op'[x].pc \in Adding <=> op[x].pc \in Adding
                         /\ op'[x].pc = "register" <=> op[x].pc = "register"
                         /\ op'[x].pc \in Adding \cup {"register"} => op'[x].dev = op[x].dev
  BY <1>1, <1>2, ThreadKinds DEF OnlyOf, Adding
<1>5. Listed' = Listed \ {d}
  BY <1>1 DEF Listed
<1>6. \A x \in Process : op[x].pc \in Adding => op[x].dev # d
  BY ClosingRemoves DEF DevicesOK, HoldersOK
<1>7. HoldersOK'
  BY <1>3, <1>4, <1>5, <1>6 DEF DevicesOK, HoldersOK
<1>8. WatchedOK'
  <2>1. op'[Watcher].todo = op[Watcher].todo
    BY <1>2, ThreadKinds DEF OnlyOf
  <2>. QED  BY <1>4, <2>1 DEF DevicesOK, WatchedOK
<1>9. LeavingOK'
  <2>1. \A e \in open' : CameraOf[e] # CameraOf[d]
    BY <1>1 DEF DevicesOK, OneOfCamera
  <2>2. \A x \in Thread : x # t => op'[x] = op[x]
    BY <1>2 DEF OnlyOf
  <2>. QED  BY <1>1, <1>2, <2>1, <2>2 DEF DevicesOK, LeavingOK
<1>10. MapOK'
  <2>1. \A c \in Camera : hostMap[c] # NoDevice =>
          \/ hostMap[c] \in Listed'
          \/ \E x \in Thread : op'[x].pc \in Leaving /\ Head(op'[x].todo) = hostMap[c]
    <3>1. \A x \in Thread : op[x].pc \in Leaving => op'[x] = op[x]
      BY <1>1, <1>2 DEF OnlyOf, Leaving
    <3>2. op'[t].pc \in Leaving /\ Head(op'[t].todo) = d
      BY <1>2 DEF Leaving
    <3>. QED  BY <1>5, <3>1, <3>2 DEF DevicesOK, MapOK
  <2>2. \A e \in Listed' : \/ hostMap[CameraOf[e]] = e
                           \/ \E p \in Process : op'[p].pc \in Adding \cup {"register"} /\ op'[p].dev = e
    BY <1>4, <1>5 DEF DevicesOK, MapOK
  <2>3. \A p \in Process : op'[p].pc \in Adding \cup {"register"} =>
          hostMap[CameraOf[op'[p].dev]] = NoDevice /\ op'[p].dev \notin stranded'
    BY <1>1, <1>4 DEF DevicesOK, MapOK
  <2>. QED  BY <1>1, <2>1, <2>2, <2>3 DEF MapOK
<1>11. OneOfCamera'
  BY <1>1 DEF DevicesOK, OneOfCamera
<1>. QED  BY <1>7, <1>8, <1>9, <1>10, <1>11 DEF DevicesOK

\* The rest of a list has nothing that was not on the list.
LEMMA ClosedList ==
  ASSUME TypedInv, NEW t \in Thread, op[t].pc \in Closing, Closed(t)
  PROVE  /\ \A e \in ToSet(op'[t].todo) : e \in ToSet(op[t].todo)
         /\ op'[t].pc \in {"close", "privacy", "idle", "hostDied"}
<1>1. op[t].todo # <<>> /\ op[t].todo \in Seq(Device)
  BY ClosingHas DEF TypedInv
<1>2. /\ op'[t].todo = Tail(op[t].todo) \/ op'[t].todo = <<>>
      /\ op'[t].pc \in {"close", "privacy", op[t].next} /\ (op'[t].pc \in {"close", "privacy"} \/ op[t].next # "privacy")
      /\ op[t].next \in {"idle", "privacy", "hostDied"}
  BY <1>1, ClosedEffect, OpType DEF TypedInv, Doing
<1>3. ToSet(<<>>) = {}
  BY DEF ToSet
<1>. QED  BY <1>1, <1>2, <1>3, SetOfTail

LEMMA DevicesOfClosed ==
  ASSUME TypedInv, DevicesOK, NEW t \in Thread, CloseDevice(t), Head(op[t].todo) \notin open
  PROVE  DevicesOK'
<1>. USE DEF TypedInv
<1>1. /\ op[t].pc = "close" /\ op[t].pc \in Closing /\ Closed(t)
      /\ UNCHANGED <<open, holders, stranded, hostMap, host>>
  BY DEF CloseDevice, At, Closing
<1>2. OnlyOf(t)
  BY <1>1, ClosedThreads
<1>3. /\ \A e \in ToSet(op'[t].todo) : e \in ToSet(op[t].todo)
      /\ op'[t].pc \in {"close", "privacy", "idle", "hostDied"}
  BY <1>1, ClosedList
<1>. QED  BY <1>1, <1>2, <1>3, DevicesFrame DEF Adding, Leaving

LEMMA DevicesOfCloseHost ==
  ASSUME TypedInv, DevicesOK, NEW t \in Thread, CloseHost(t)
  PROVE  DevicesOK'
<1>. USE DEF TypedInv
<1>. DEFINE c == CameraOf[Head(op[t].todo)]
<1>1. /\ op[t].pc = "closeHost" /\ op[t].pc \in Closing /\ Closed(t) /\ UNCHANGED <<open, holders, stranded, host>>
      /\ hostMap' = [hostMap EXCEPT ![c] = NoDevice]
  BY DEF CloseHost, At, Closing, history
<1>2. OnlyOf(t)
  BY <1>1, ClosedThreads
<1>3. /\ \A e \in ToSet(op'[t].todo) : e \in ToSet(op[t].todo)
      /\ op'[t].pc \in {"close", "privacy", "idle", "hostDied"}
  BY <1>1, ClosedList
<1>4. OneOfCamera' /\ Listed' = Listed /\ Listed \subseteq open
  BY <1>1 DEF DevicesOK, OneOfCamera, Listed
<1>5. c \in Camera /\ \A e \in open : CameraOf[e] # c /\ CameraOf[e] \in Camera
  BY <1>1, ClosingHas, DevicesAssumption DEF DevicesOK, LeavingOK, Leaving, TypeOK
<1>6. \A x \in Process : /\ op'[x].pc \in Adding <=> op[x].pc \in Adding
                         /\ op'[x].pc \in Adding \cup {"register"} <=> op[x].pc \in Adding \cup {"register"}
                         /\ op'[x].pc \in Adding \cup {"register"} => op'[x].dev = op[x].dev
  BY <1>1, <1>2, <1>3, ThreadKinds DEF OnlyOf, Adding
<1>7. \A x \in Thread : op'[x].pc \in Leaving => op'[x] = op[x]
  BY <1>2, <1>3 DEF OnlyOf, Leaving
<1>8. HoldersOK'
  BY <1>1, <1>4, <1>6 DEF DevicesOK, HoldersOK
<1>9. WatchedOK'
  <2>1. \A e \in ToSet(op'[Watcher].todo) : e \in ToSet(op[Watcher].todo)
    BY <1>2, <1>3, ThreadKinds DEF OnlyOf
  <2>. QED  BY <1>6, <2>1 DEF DevicesOK, WatchedOK
<1>10. LeavingOK'
  BY <1>1, <1>7 DEF DevicesOK, LeavingOK
<1>11. hostMap \in [Camera -> Device \cup {NoDevice}] /\ hostMap'[c] = NoDevice
       /\ \A k \in Camera : k # c => hostMap'[k] = hostMap[k]
  BY <1>1, <1>5 DEF TypeOK
<1>12. MapOK'
  <2>1. ASSUME NEW k \in Camera, hostMap'[k] # NoDevice
        PROVE  \/ hostMap'[k] \in Listed
               \/ \E x \in Thread : op'[x].pc \in Leaving /\ Head(op'[x].todo) = hostMap'[k]
    <3>1. k # c /\ hostMap'[k] = hostMap[k] /\ CameraOf[hostMap[k]] = k
      BY <1>11, <2>1 DEF MapTyped
    <3>2. CASE hostMap[k] \in Listed
      BY <3>1, <3>2
    <3>3. CASE hostMap[k] \notin Listed
      <4>1. PICK x \in Thread : op[x].pc \in Leaving /\ Head(op[x].todo) = hostMap[k]
        BY <2>1, <3>1, <3>3 DEF DevicesOK, MapOK
      <4>2. x # t
        BY <3>1, <4>1
      <4>. QED  BY <1>2, <3>1, <4>1, <4>2 DEF OnlyOf
    <3>. QED  BY <3>2, <3>3
  <2>2. \A e \in Listed : \/ hostMap'[CameraOf[e]] = e
                          \/ \E p \in Process : op'[p].pc \in Adding \cup {"register"} /\ op'[p].dev = e
    BY <1>4, <1>5, <1>6, <1>11 DEF DevicesOK, MapOK
  <2>3. \A p \in Process : op'[p].pc \in Adding \cup {"register"} =>
          hostMap'[CameraOf[op'[p].dev]] = NoDevice /\ op'[p].dev \notin stranded
    <3>. SUFFICES ASSUME NEW p \in Process, op'[p].pc \in Adding \cup {"register"}
                  PROVE  hostMap'[CameraOf[op'[p].dev]] = NoDevice /\ op'[p].dev \notin stranded
      OBVIOUS
    <3>1. op[p].pc \in Adding \cup {"register"} /\ op'[p].dev = op[p].dev 
          /\ hostMap[CameraOf[op[p].dev]] = NoDevice /\ op[p].dev \notin stranded
      BY <1>6 DEF DevicesOK, MapOK
    <3>2. CameraOf[op[p].dev] \in Camera
      BY <3>1, AtProcess, DevicesAssumption DEF Adding, Opening
    <3>. QED  BY <1>11, <3>1, <3>2
  <2>. QED  BY <1>1, <1>4, <2>1, <2>2, <2>3 DEF MapOK
<1>. QED  BY <1>4, <1>8, <1>9, <1>10, <1>12 DEF DevicesOK

LEMMA DevicesOfClose ==
  ASSUME TypedInv, DevicesOK, NEW t \in Thread, ClosePrivacy(t) \/ CloseLock(t)
  PROVE  DevicesOK'
<1>. USE DEF TypedInv
<1>1. /\ OnlyOf(t) /\ op'[t].todo = op[t].todo /\ op'[t].next = op[t].next
      /\ \/ op[t].pc = "closePrivacy" /\ op'[t].pc = "closeHost"
         \/ op[t].pc = "closeLock" /\ op'[t].pc = "close"
      /\ UNCHANGED <<open, holders, hostMap, stranded>>
  BY ClosePrivacyType, CloseLockType DEF ClosePrivacy, CloseLock, At, history
<1>. QED  BY <1>1, DevicesFrame DEF Adding, Leaving

\* The callbacks close holders, none of which has the camera of a device that is being added.
LEMMA DevicesOfCallback ==
  ASSUME TypedInv, DevicesOK, (\E p \in Process : PermStateChange(p)) \/ PermDisablePolicy
  PROVE  DevicesOK'
<1>. USE DEF TypedInv
<1>1. PICK devices \in Seq(ToSet(holders)) : CallbackCloses(devices)
  <2>1. holders \in Seq(ToSet(holders))
    <3>1. \A i \in DOMAIN holders : holders[i] \in ToSet(holders)
      BY Zenon DEF ToSet
    <3>2. holders \in Seq(Device)
      BY DEF TypeOK
    <3>. QED  BY <3>1, <3>2
  <2>2. CASE PermDisablePolicy
    BY <2>1, <2>2 DEF PermDisablePolicy
  <2>3. ASSUME NEW p \in Process, PermStateChange(p)
        PROVE  \E devices \in Seq(ToSet(holders)) : CallbackCloses(devices)
    <3>1. GetCamerasByPid(p) \in Seq(ToSet(holders)) /\ CallbackCloses(GetCamerasByPid(p))
      BY <2>3, CamerasByPidType DEF PermStateChange
    <3>. QED  BY <3>1
  <2>. QED  BY <2>2, <2>3
<1>2. ToSet(holders) \subseteq Device
  BY DEF TypeOK, ToSet
<1>3. devices \in Seq(Device)
  BY <1>2, SeqMonotonic
<1>4. OnlyOf(Watcher) /\ op'[Watcher].pc = "close" /\ op'[Watcher].todo = devices
  BY <1>1, <1>3, CallbackType
<1>5. op[Watcher].pc = "idle" /\ UNCHANGED <<open, holders, hostMap, stranded>> /\ Listed' = Listed /\ Listed \subseteq open
  BY <1>1 DEF CallbackCloses, At, history, Listed
<1>6. \A e \in ToSet(devices) : e \in ToSet(holders)
  BY DEF ToSet
<1>7. \A x \in Process : op'[x] = op[x]
  BY <1>4, ThreadKinds DEF OnlyOf
<1>8. WatchedOK'
  <2>. SUFFICES ASSUME NEW p \in Process, op[p].pc \in Adding, NEW e \in ToSet(devices)
                PROVE  CameraOf[e] # CameraOf[op[p].dev]
    BY <1>4, <1>7 DEF WatchedOK
  <2>1. e \in ToSet(holders) /\ e \in open /\ op[p].dev \in open /\ op[p].dev \notin ToSet(holders)
    BY <1>5, <1>6 DEF DevicesOK, HoldersOK
  <2>. QED  BY <2>1 DEF DevicesOK, OneOfCamera
<1>9. \A x \in Thread : /\ op'[x].pc \in Leaving <=> op[x].pc \in Leaving
                        /\ op'[x].pc \in Leaving => op'[x] = op[x]
  BY <1>4, <1>5, ThreadKinds DEF OnlyOf, Leaving
<1>10. HoldersOK'
  BY <1>5, <1>7 DEF DevicesOK, HoldersOK
<1>11. LeavingOK'
  BY <1>5, <1>9 DEF DevicesOK, LeavingOK
<1>12. MapOK'
  <2>1. \A c \in Camera : hostMap[c] # NoDevice =>
          \/ hostMap[c] \in Listed
          \/ \E x \in Thread : op'[x].pc \in Leaving /\ Head(op'[x].todo) = hostMap[c]
    BY <1>9 DEF DevicesOK, MapOK
  <2>. QED  BY <1>5, <1>7, <2>1 DEF DevicesOK, MapOK
<1>13. OneOfCamera'
  BY <1>5 DEF DevicesOK, OneOfCamera
<1>. QED  BY <1>8, <1>10, <1>11, <1>12, <1>13 DEF DevicesOK

LEMMA DevicesOfHost ==
  ASSUME TypedInv, DevicesOK, (\E c \in Camera : CameraFails(c)) \/ HostStops \/ RemoveNext
  PROVE  DevicesOK'
<1>. USE DEF TypedInv
<1>. DEFINE t == HostThread
<1>1. CASE (\E c \in Camera : CameraFails(c)) \/ HostStops
  <2>1. /\ op[t].pc = "idle" /\ UNCHANGED <<open, holders, hostMap, stranded>>
        /\ OnlyOf(t) /\ op'[t].pc \in {"closeLock", "hostNext"}
    BY <1>1, CameraFailsType, HostStopsType DEF CameraFails, HostStops, At, history
  <2>. QED  BY <2>1, ThreadKinds, DevicesFrame DEF Adding, Leaving
<1>2. CASE RemoveNext
  <2>1. /\ op[t].pc = "hostNext" /\ UNCHANGED <<open, holders, hostMap, stranded>>
        /\ OnlyOf(t) /\ op'[t].pc \in {"idle", "hostDied", "closeLock"}
    BY <1>2, RemoveNextType DEF RemoveNext, At, history
  <2>. QED  BY <2>1, ThreadKinds, DevicesFrame DEF Adding, Leaving
<1>. QED  BY <1>1, <1>2

\* The device the removal of the host finds in the map is a holder, or being closed already.
LEMMA HostDiedRemoves ==
  ASSUME TypedInv, DevicesOK, RemoveResourceWhenHostDied, NEW c, c = Head(host.cams)
  PROVE  /\ c \in Camera
         /\ \/ /\ hostMap[c] = NoDevice
               /\ UNCHANGED <<holders, unpriced, hostMap, privacy, via, spared, stranded>>
            \/ /\ hostMap[c] # NoDevice /\ hostMap[c] \notin Listed /\ stranded' = stranded \cup ({hostMap[c]} \cap open)
               /\ {hostMap[c]} \cap open = {}
               /\ UNCHANGED <<holders, unpriced, via, spared>>
            \/ /\ hostMap[c] # NoDevice /\ hostMap[c] \in Listed /\ hostMap[c] \in ToSet(holders)
               /\ CameraOf[hostMap[c]] = c /\ RemoveDevice(CameraOf[hostMap[c]])
               /\ stranded' = stranded \cup {hostMap[c]}
<1>. USE DEF TypedInv
<1>. DEFINE d == hostMap[c]
<1>1. c \in Camera
  <2>1. host.cams # <<>> /\ host.cams \in Seq(Camera)
    BY DEF RemoveResourceWhenHostDied, At, ThreadsOK, HostOK, TypeOK
  <2>. QED  BY <2>1, HeadTailProperties
<1>2. CASE d = NoDevice
  BY <1>1, <1>2 DEF RemoveResourceWhenHostDied
<1>3. CASE d # NoDevice
  <2>1. /\ RemoveDevice(c) /\ stranded' = stranded \cup ({d} \cap open)
        /\ CameraOf[d] = c
    BY <1>1, <1>3 DEF RemoveResourceWhenHostDied, MapTyped
  <2>2. CASE d \in Listed
    <3>1. d \in ToSet(holders)
      <4>. SUFFICES ASSUME NEW p \in Process, op[p].pc \in Adding, op[p].dev = d
                    PROVE  FALSE
        BY <2>2 DEF DevicesOK, HoldersOK
      <4>. QED  BY <1>3, <2>1 DEF DevicesOK, MapOK
    <3>2. {d} \cap open = {d}
      BY <2>2 DEF Listed
    <3>. QED  BY <1>1, <1>3, <2>1, <2>2, <3>1, <3>2
  <2>3. CASE d \notin Listed
    <3>1. PICK x \in Thread : op[x].pc \in Leaving /\ Head(op[x].todo) = d
      BY <1>1, <1>3, <2>3 DEF DevicesOK, MapOK
    <3>2. \A e \in open : CameraOf[e] # c
      BY <2>1, <3>1 DEF DevicesOK, LeavingOK
    <3>3. {d} \cap open = {} /\ \A e \in Listed : CameraOf[e] # c
      BY <2>1, <3>2 DEF Listed
    <3>4. UNCHANGED <<holders, unpriced, via, spared>>
      BY <2>1, <3>3, NobodyRemoved
    <3>. QED  BY <1>1, <1>3, <2>1, <2>3, <3>3, <3>4
  <2>. QED  BY <2>2, <2>3
<1>. QED  BY <1>2, <1>3

LEMMA DevicesOfHostDied ==
  ASSUME TypedInv, DevicesOK, RemoveResourceWhenHostDied
  PROVE  DevicesOK'
<1>. USE DEF TypedInv
<1>. DEFINE t == HostThread
            c == Head(host.cams)
            d == hostMap[c]
<1>1. /\ op[t].pc = "hostDied" /\ UNCHANGED open
      /\ OnlyOf(t) /\ op'[t].pc = "hostNext"
  BY HostDiedType DEF RemoveResourceWhenHostDied, At
<1>2. /\ \A x \in Process : op'[x] = op[x]
      /\ \A x \in Thread : op[x].pc \in Leaving => op'[x] = op[x]
      /\ \A x \in Thread : op'[x].pc \in Leaving => op'[x] = op[x]
      /\ op'[Watcher] = op[Watcher]
  BY <1>1, ThreadKinds DEF OnlyOf, Leaving
<1>3. CASE d = NoDevice
  <2>1. UNCHANGED <<holders, hostMap, stranded>>
    BY <1>3, HostDiedRemoves
  <2>. QED  BY <1>1, <2>1, ThreadKinds, DevicesFrame DEF Adding, Leaving
<1>4. CASE d # NoDevice
  <2>1. c \in Camera /\ CameraOf[d] = c /\ \A e \in open : CameraOf[e] \in Camera
    BY <1>4, HostDiedRemoves, DevicesAssumption DEF MapTyped, TypeOK
  <2>2. /\ hostMap'[c] = NoDevice
        /\ \A k \in Camera : k # c => hostMap'[k] = hostMap[k]
    BY <1>4, <2>1 DEF RemoveResourceWhenHostDied, TypeOK
  <2>3. /\ Listed' = Listed \ {d} /\ stranded' \subseteq stranded \cup {d}
        /\ \A x : x \in ToSet(holders') <=> x \in ToSet(holders) /\ x # d
        /\ \A i, j \in DOMAIN holders' : holders'[i] = holders'[j] => i = j
    <3>1. CASE d \in Listed
      <4>1. d \in ToSet(holders) /\ RemoveDevice(CameraOf[d]) /\ stranded' = stranded \cup {d}
        BY <1>4, <3>1, HostDiedRemoves
      <4>2. Listed' = Listed \ {d}
        BY <1>1, <4>1 DEF Listed
      <4>. QED  BY <4>1, <4>2, Removed
    <3>2. CASE d \notin Listed
      <4>1. holders' = holders /\ stranded' = stranded
        BY <1>4, <3>2, HostDiedRemoves
      <4>2. Listed' = Listed /\ d \notin ToSet(holders)
        BY <1>1, <3>2, <4>1 DEF Listed, DevicesOK, HoldersOK
      <4>. QED  BY <3>2, <4>1, <4>2 DEF DevicesOK, HoldersOK
    <3>. QED  BY <3>1, <3>2
  <2>4. \A x \in Process : op[x].pc \in Adding \cup {"register"} => op[x].dev # d
    BY <1>4, <2>1 DEF DevicesOK, MapOK
  <2>5. HoldersOK'
    BY <1>2, <2>3, <2>4 DEF DevicesOK, HoldersOK
  <2>6. WatchedOK' /\ LeavingOK' /\ OneOfCamera'
    BY <1>1, <1>2 DEF DevicesOK, WatchedOK, LeavingOK, OneOfCamera
  <2>7. MapOK'
    <3>1. ASSUME NEW k \in Camera, hostMap'[k] # NoDevice
          PROVE  \/ hostMap'[k] \in Listed'
                 \/ \E x \in Thread : op'[x].pc \in Leaving /\ Head(op'[x].todo) = hostMap'[k]
      <4>1. k # c /\ hostMap'[k] = hostMap[k] /\ CameraOf[hostMap[k]] = k
        BY <2>2, <3>1 DEF MapTyped
      <4>2. hostMap[k] # d
        BY <2>1, <4>1
      <4>. QED  BY <1>2, <2>3, <3>1, <4>1, <4>2 DEF DevicesOK, MapOK
    <3>2. \A e \in Listed' : \/ hostMap'[CameraOf[e]] = e
                             \/ \E p \in Process : op'[p].pc \in Adding \cup {"register"} /\ op'[p].dev = e
      <4>. SUFFICES ASSUME NEW e \in Listed, e # d
                    PROVE  \/ hostMap'[CameraOf[e]] = e
                           \/ \E p \in Process : op'[p].pc \in Adding \cup {"register"} /\ op'[p].dev = e
        BY <2>3
      <4>1. hostMap[CameraOf[e]] = e => CameraOf[e] # c /\ CameraOf[e] \in Camera
        BY <2>1 DEF Listed
      <4>. QED  BY <1>2, <2>2, <4>1 DEF DevicesOK, MapOK
    <3>3. \A p \in Process : op'[p].pc \in Adding \cup {"register"} =>
            hostMap'[CameraOf[op'[p].dev]] = NoDevice /\ op'[p].dev \notin stranded'
      <4>. SUFFICES ASSUME NEW p \in Process, op[p].pc \in Adding \cup {"register"}
                    PROVE  hostMap'[CameraOf[op[p].dev]] = NoDevice /\ op[p].dev \notin stranded'
        BY <1>2
      <4>1. /\ CameraOf[op[p].dev] \in Camera /\ hostMap[CameraOf[op[p].dev]] = NoDevice
            /\ op[p].dev \notin stranded
        BY AtProcess, DevicesAssumption DEF Adding, Opening, DevicesOK, MapOK
      <4>. QED  BY <2>2, <2>3, <2>4, <4>1
    <3>. QED  BY <3>1, <3>2, <3>3 DEF MapOK
  <2>. QED  BY <2>5, <2>6, <2>7 DEF DevicesOK
<1>. QED  BY <1>3, <1>4

LEMMA DevicesOfStart ==
  ASSUME TypedInv, DevicesOK, HostStarts \/ HostDies
  PROVE  DevicesOK'
<1>1. UNCHANGED <<op, open, holders, hostMap, stranded>>
  BY DEF HostStarts, HostDies, history
<1>. QED  BY <1>1 DEF DevicesOK, OneOfCamera, HoldersOK, WatchedOK, LeavingOK, MapOK, Listed

\* An overlap stays.
LEMMA OverlapStays == [Next]_vars /\ ~ overlap' => ~ overlap
<1>. SUFFICES ASSUME [Next]_vars, ~ overlap'
              PROVE  ~ overlap
  OBVIOUS
<1>. USE DEF history
<1>1. ASSUME NEW t \in Process, OpenStep(t)
      PROVE  ~ overlap
  BY <1>1 DEF OpenStep, CanOpenCamera, HandlePrivacyBeforeOpenDevice, OpenFails, OpenSucceeds,
     AddDeviceWaits, AddDevice, Register
<1>2. ASSUME NEW t \in Thread, CloseLock(t) \/ CloseStep(t)
      PROVE  ~ overlap
  BY <1>2 DEF CloseLock, CloseStep, CloseDevice, ClosePrivacy, CloseHost
<1>3. ASSUME HostStep
      PROVE  ~ overlap
  BY <1>3 DEF HostStep, RemoveNext, RemoveResourceWhenHostDied
<1>4. ASSUME NEW t \in Process, NEW d \in Device, Open(t, d) \/ Close(t, d)
      PROVE  ~ overlap
  BY <1>4 DEF Open, Close
<1>5. ASSUME \/ \E p \in Process : PermStateChange(p)
             \/ PermDisablePolicy
             \/ \E c \in Camera : CameraFails(c)
             \/ HostDies \/ HostStops \/ HostStarts
      PROVE  ~ overlap
  BY <1>5 DEF PermStateChange, PermDisablePolicy, CallbackCloses, CameraFails, HostDies, HostStops, HostStarts
<1>6. CASE UNCHANGED vars
  BY <1>6 DEF vars
<1>. QED  BY <1>1, <1>2, <1>3, <1>4, <1>5, <1>6 DEF Next, Step

LEMMA DevicesStep ==
  ASSUME TypedInv, DevicesOK, [Next]_vars, ~ overlap'
  PROVE  DevicesOK'
<1>1. ASSUME NEW t \in Process, OpenStep(t)
      PROVE  DevicesOK'
  BY <1>1, DevicesOfCall, DevicesOfSuccess, DevicesOfAdd, DevicesOfRegister DEF OpenStep
<1>2. ASSUME NEW t \in Thread, CloseLock(t) \/ CloseStep(t)
      PROVE  DevicesOK'
  BY <1>2, DevicesOfClosing, DevicesOfClosed, DevicesOfCloseHost, DevicesOfClose DEF CloseStep
<1>3. ASSUME HostStep
      PROVE  DevicesOK'
  BY <1>3, DevicesOfHost, DevicesOfHostDied DEF HostStep
<1>4. ASSUME NEW t \in Process, NEW d \in Device, Open(t, d) \/ Close(t, d)
      PROVE  DevicesOK'
  BY <1>4, DevicesOfCall
<1>5. CASE UNCHANGED vars
  <2>1. UNCHANGED <<op, open, holders, hostMap, stranded>>
    BY <1>5 DEF vars, state, history
  <2>. QED  BY <2>1 DEF DevicesOK, OneOfCamera, HoldersOK, WatchedOK, LeavingOK, MapOK, Listed
<1>. QED  BY <1>1, <1>2, <1>3, <1>4, <1>5, DevicesOfCallback, DevicesOfHost, DevicesOfStart DEF Next, Step

DevicesInv == TypedInv /\ (~ overlap => DevicesOK)

LEMMA DevicesInit == Init => DevicesInv
<1>. SUFFICES ASSUME Init
              PROVE  DevicesInv
  OBVIOUS
<1>1. \A t \in Thread : op[t] = Idle
  BY DEF Init
<1>2. ToSet(holders) = {} /\ DOMAIN holders = {}
  BY DEF Init, ToSet
<1>3. \A t \in Thread : op[t].pc = "idle" /\ op[t].next = "idle"
  BY <1>1, IdleIs
<1>4. DevicesOK
  BY <1>2, <1>3, ThreadKinds DEF Init, DevicesOK, OneOfCamera, HoldersOK, WatchedOK, LeavingOK, MapOK,
     Listed, Adding, Leaving
<1>. QED  BY <1>4, TypedInit DEF Init, DevicesInv

LEMMA DevicesInductive == DevicesInv /\ [Next]_vars => DevicesInv'
BY TypedStep, OverlapStays, DevicesStep DEF DevicesInv

\* What the device, the device manager and the host manager know of a device agrees whenever
\* no thread is between the steps of its opening or closing, but for the devices that the
\* removal of the host took out of the lists while they were open; unless a camera was opened
\* that a callback had seen open or whose device had outlived the HDI service.
THEOREM KnowledgeAgrees == Spec => []HoldersAgree
<1>1. Spec => []DevicesInv
  BY DevicesInit, DevicesInductive, PTL DEF Spec
<1>2. DevicesInv => HoldersAgree
  <2>. SUFFICES ASSUME TypedInv, DevicesOK, NEW d \in Device, Settled(d)
                PROVE  /\ d \in Listed <=> d \in ToSet(holders)
                       /\ d \in Listed <=> hostMap[CameraOf[d]] = d
    BY DEF DevicesInv, HoldersAgree, Listed
  <2>1. \A t \in Process : op[t].pc \in Adding \cup {"register"} => op[t].dev # d
    BY ThreadKinds DEF Settled, Adding
  <2>2. \A x \in Thread : op[x].pc \in Leaving => Head(op[x].todo) # d
    BY DEF Settled, Leaving
  <2>3. d \in Listed <=> d \in ToSet(holders)
    BY <2>1 DEF DevicesOK, HoldersOK
  <2>4. CameraOf[d] \in Camera /\ d # NoDevice
    BY DevicesAssumption
  <2>5. d \in Listed <=> hostMap[CameraOf[d]] = d
    BY <2>1, <2>2, <2>4 DEF DevicesOK, MapOK
  <2>. QED  BY <2>3, <2>5
<1>. QED  BY <1>1, <1>2, PTL
-----------------------------------------------------------------------------
(***************************************************************************)
(* The use of the camera.  A process is registered as using the camera     *)
(* while it holds one, is about to, or has one whose close will end it.     *)
(***************************************************************************)
UsingOK ==
  \A p \in privacy.using \ privacy.refused :
    \/ HoldersOf(p) # {}
    \/ p \in Process /\ op[p].pc \in {"hdi", "addLock", "add"}
    \/ \E x \in Thread : op[x].pc = "closePrivacy" /\ OwnerOf[Head(op[x].todo)] = p

\* What is in the way of a step that neither starts nor ends a use.
LEMMA UsingFrame ==
  ASSUME TypedInv, UsingOK, NEW t \in Thread, OnlyOf(t), UNCHANGED privacy,
         \A p \in Process : HoldersOf(p) # {} => HoldersOf(p)' # {} \/ (op'[t].pc = "closePrivacy" /\ OwnerOf[Head(op'[t].todo)] = p),
         t \in Process /\ op[t].pc \in {"hdi", "addLock", "add"} =>
           op'[t].pc \in {"hdi", "addLock", "add"} \/ HoldersOf(t)' # {},
         op[t].pc # "closePrivacy"
  PROVE  UsingOK'
<1>. SUFFICES ASSUME NEW p \in privacy.using \ privacy.refused
              PROVE  \/ HoldersOf(p)' # {}
                     \/ p \in Process /\ op'[p].pc \in {"hdi", "addLock", "add"}
                     \/ \E x \in Thread : op'[x].pc = "closePrivacy" /\ OwnerOf[Head(op'[x].todo)] = p
  BY DEF UsingOK
<1>1. p \in Process
  BY DEF TypedInv, TypeOK
<1>2. CASE HoldersOf(p) # {}
  BY <1>1, <1>2
<1>3. CASE op[p].pc \in {"hdi", "addLock", "add"}
  <2>1. p # t => op'[p] = op[p]
    BY <1>1, ThreadKinds DEF OnlyOf
  <2>. QED  BY <1>1, <1>3, <2>1
<1>4. ASSUME NEW x \in Thread, op[x].pc = "closePrivacy", OwnerOf[Head(op[x].todo)] = p
      PROVE  \E y \in Thread : op'[y].pc = "closePrivacy" /\ OwnerOf[Head(op'[y].todo)] = p
  BY <1>4 DEF OnlyOf
<1>. QED  BY <1>2, <1>3, <1>4 DEF UsingOK

\* The end of a use: nothing is left of it unless the process holds another camera.
LEMMA UsingEnds ==
  ASSUME TypedInv, UsingOK, NEW t \in Thread, OnlyOf(t), NEW d \in Device,
         privacy' = StopUsing(privacy, d, holders'),
         \A p \in Process : HoldersOf(p) # {} => HoldersOf(p)' # {} \/ p = OwnerOf[d],
         t \in Process /\ op[t].pc \in {"hdi", "addLock", "add"} => OwnerOf[d] = t,
         op[t].pc = "closePrivacy" => OwnerOf[Head(op[t].todo)] = OwnerOf[d]
  PROVE  UsingOK'
<1>1. /\ IsMultiCameraActive(OwnerOf[d], holders') =>
           privacy'.using = privacy.using /\ privacy'.refused = privacy.refused
      /\ ~ IsMultiCameraActive(OwnerOf[d], holders') =>
           /\ privacy'.using = privacy.using \ {OwnerOf[d]}
           /\ privacy'.refused = privacy.refused \ {OwnerOf[d]}
      /\ privacy.using \subseteq Process
  <2>1. privacy \in [using : SUBSET Process, useCb : SUBSET Device, permCb : SUBSET Device, refused : SUBSET Process]
    BY DEF TypedInv, TypeOK
  <2>. QED  BY <2>1, PrivacyType
<1>. SUFFICES ASSUME NEW p \in privacy'.using \ privacy'.refused
              PROVE  \/ HoldersOf(p)' # {}
                     \/ p \in Process /\ op'[p].pc \in {"hdi", "addLock", "add"}
                     \/ \E x \in Thread : op'[x].pc = "closePrivacy" /\ OwnerOf[Head(op'[x].todo)] = p
  BY DEF UsingOK
<1>2. CASE p = OwnerOf[d]
  BY <1>1, <1>2 DEF IsMultiCameraActive, HoldersOf
<1>3. CASE p # OwnerOf[d]
  <2>1. p \in privacy.using \ privacy.refused /\ p \in Process
    BY <1>1, <1>3
  <2>2. CASE HoldersOf(p) # {}
    BY <1>3, <2>1, <2>2
  <2>3. CASE op[p].pc \in {"hdi", "addLock", "add"}
    <3>1. p # t /\ p \in Thread
      BY <1>3, <2>1, <2>3, ThreadKinds
    <3>. QED  BY <2>1, <2>3, <3>1 DEF OnlyOf
  <2>4. ASSUME NEW x \in Thread, op[x].pc = "closePrivacy", OwnerOf[Head(op[x].todo)] = p
        PROVE  \E y \in Thread : op'[y].pc = "closePrivacy" /\ OwnerOf[Head(op'[y].todo)] = p
    <3>1. x # t
      BY <1>3, <2>4
    <3>. QED  BY <2>4, <3>1 DEF OnlyOf
  <2>. QED  BY <2>1, <2>2, <2>3, <2>4 DEF UsingOK
<1>. QED  BY <1>2, <1>3

\* The first camera of a process starts the use.
LEMMA UsingStarts ==
  ASSUME TypedInv, UsingOK, NEW t \in Process, HandlePrivacyBeforeOpenDevice(t)
  PROVE  UsingOK'
<1>. USE DEF TypedInv
<1>. DEFINE d == op[t].dev
<1>1. /\ op[t].pc = "privacy" /\ d \in Device /\ OwnerOf[d] = t /\ t \in Thread /\ UNCHANGED holders
  BY AtProcess DEF HandlePrivacyBeforeOpenDevice, At, Opening
<1>2. /\ OnlyOf(t)
      /\ \/ op'[t] = Idle
         \/ op'[t].pc = "hdi" /\ op'[t].dev = op[t].dev /\ op'[t].todo = op[t].todo /\ op'[t].next = op[t].next
  BY PrivacyStepType
<1>3. \A p : HoldersOf(p)' = HoldersOf(p)
  BY <1>1 DEF HoldersOf
<1>4. \/ privacy'.using \ privacy'.refused \subseteq privacy.using \ privacy.refused
      \/ GoTo(t, "hdi") /\ privacy'.using \ privacy'.refused \subseteq (privacy.using \ privacy.refused) \cup {t}
  <2>1. CASE HoldersOf(OwnerOf[d]) # {}
    BY <2>1 DEF HandlePrivacyBeforeOpenDevice
  <2>2. CASE HoldersOf(OwnerOf[d]) = {}
    <3>1. \A granted \in IF "refusal" \in workload.actors THEN BOOLEAN ELSE {TRUE} : granted \in BOOLEAN
      BY Zenon
    <3>2. PICK granted \in BOOLEAN :
            LET started == StartUsing(privacy, d, granted)
                registered == [started EXCEPT !.permCb = @ \cup {d}]
            IN  \/ ~ Started(privacy, d, granted) /\ privacy' = started
                \/ privacy' = [registered EXCEPT !.refused = @ \cup {OwnerOf[d]}]
                \/ privacy' = registered /\ GoTo(t, "hdi")
      BY <2>2, <3>1, Zenon DEF HandlePrivacyBeforeOpenDevice
    <3>. DEFINE T == [using : SUBSET Process, useCb : SUBSET Device, permCb : SUBSET Device, refused : SUBSET Process]
                use == IF d \notin privacy.useCb /\ granted THEN privacy.using \cup {OwnerOf[d]} ELSE privacy.using
                started == StartUsing(privacy, d, granted)
                registered == [started EXCEPT !.permCb = @ \cup {d}]
    <3>3. /\ started \in T /\ started.refused = privacy.refused
          /\ started.using \subseteq privacy.using \cup {t}
          /\ ~ Started(privacy, d, granted) => started.using = privacy.using
      <4>1. use \in SUBSET Process /\ privacy.useCb \cup {d} \in SUBSET Device /\ privacy \in T
        BY <1>1 DEF TypeOK
      <4>2. started = [privacy EXCEPT !.useCb = privacy.useCb \cup {d}, !.using = use]
        BY <4>1 DEF StartUsing
      <4>3. use \subseteq privacy.using \cup {t} /\ (~ Started(privacy, d, granted) => use = privacy.using)
        BY <1>1 DEF Started
      <4>. HIDE DEF use, started
      <4>. QED  BY <4>1, <4>2, <4>3
    <3>4. \/ ~ Started(privacy, d, granted) /\ privacy' = started
          \/ privacy' = [registered EXCEPT !.refused = @ \cup {OwnerOf[d]}]
          \/ privacy' = registered /\ GoTo(t, "hdi")
      BY <3>2
    <3>. HIDE DEF started
    <3>5. registered \in T /\ registered.using = started.using /\ registered.refused = started.refused
      BY <1>1, <3>3
    <3>. HIDE DEF registered
    <3>6. LET r == [registered EXCEPT !.refused = @ \cup {OwnerOf[d]}]
          IN  r.using = registered.using /\ r.refused = registered.refused \cup {t}
      BY <1>1, <3>5
    <3>. QED  BY <3>3, <3>4, <3>5, <3>6
  <2>. QED  BY <2>1, <2>2
<1>5. ASSUME NEW p \in privacy.using \ privacy.refused
      PROVE  \/ HoldersOf(p)' # {}
             \/ p \in Process /\ op'[p].pc \in {"hdi", "addLock", "add"}
             \/ \E x \in Thread : op'[x].pc = "closePrivacy" /\ OwnerOf[Head(op'[x].todo)] = p
  <2>1. p \in Process
    BY DEF TypeOK
  <2>2. \A x \in Thread : x # t => op'[x] = op[x]
    BY <1>2 DEF OnlyOf
  <2>3. p \in Process /\ op[p].pc \in {"hdi", "addLock", "add"} => op'[p] = op[p]
    BY <1>1, <2>1, <2>2, ThreadKinds
  <2>4. \A x \in Thread : op[x].pc = "closePrivacy" => op'[x] = op[x]
    BY <1>1, <2>2
  <2>. QED  BY <1>3, <2>1, <2>3, <2>4 DEF UsingOK
<1>6. GoTo(t, "hdi") => op'[t].pc = "hdi"
  <2>1. "hdi" \in Places
    BY DEF Places
  <2>. QED  BY <1>1, <2>1, Goes
<1>. QED  BY <1>4, <1>5, <1>6 DEF UsingOK

LEMMA UsingStep ==
  ASSUME TypedInv, DevicesOK, UsingOK, [Next]_vars, ~ overlap'
  PROVE  UsingOK'
<1>. USE DEF TypedInv
<1>0. ASSUME UNCHANGED holders
      PROVE  \A p : HoldersOf(p)' = HoldersOf(p)
  BY <1>0 DEF HoldersOf
<1>1. ASSUME NEW t \in Process, (\E d \in Device : Open(t, d) \/ Close(t, d)) \/ CanOpenCamera(t)
             \/ AddDeviceWaits(t) \/ OpenSucceeds(t) \/ Register(t)
      PROVE  UsingOK'
  <2>1. t \in Thread /\ UNCHANGED <<holders, privacy>>
    BY <1>1, ThreadKinds DEF Open, Close, CanOpenCamera, AddDeviceWaits, OpenSucceeds, Register
  <2>2. OnlyOf(t)
    <3>1. ASSUME CanOpenCamera(t)
          PROVE  OnlyOf(t)
      BY <3>1, CanOpenCameraType
    <3>2. ASSUME NEW d, Open(t, d)
          PROVE  d \in Device
      BY <3>2, DevicesAssumption DEF Open, TypeOK
    <3>. QED  BY <1>1, <3>1, <3>2, OpenType, CloseType, AddDeviceWaitsType, OpenSucceedsType, RegisterType
  <2>3. /\ op[t].pc # "closePrivacy"
        /\ op[t].pc \in {"hdi", "addLock", "add"} => op'[t].pc \in {"hdi", "addLock", "add"}
    BY <1>1, AddDeviceWaitsType, OpenSucceedsType
       DEF Open, Close, CanOpenCamera, AddDeviceWaits, OpenSucceeds, Register, At
  <2>. QED  BY <1>0, <2>1, <2>2, <2>3, UsingFrame
<1>2. ASSUME NEW t \in Process, AddDevice(t)
      PROVE  UsingOK'
  <2>1. /\ t \in Thread /\ UNCHANGED privacy /\ op[t].dev \in Device /\ OwnerOf[op[t].dev] = t
        /\ holders' = Append(holders, op[t].dev) /\ op[t].pc # "closePrivacy" /\ holders \in Seq(Device)
    BY <1>2, AtProcess DEF AddDevice, At, Opening, TypeOK
  <2>2. OnlyOf(t)
    BY <1>2, AddDeviceType
  <2>3. \A x : x \in ToSet(holders') <=> x \in ToSet(holders) \/ x = op[t].dev
    BY <2>1, SetOfAppend
  <2>4. \A p \in Process : HoldersOf(p) # {} => HoldersOf(p)' # {}
    BY <2>3 DEF HoldersOf
  <2>5. HoldersOf(t)' # {}
    BY <2>1, <2>3 DEF HoldersOf
  <2>. QED  BY <2>1, <2>2, <2>4, <2>5, UsingFrame
<1>3. ASSUME NEW t \in Process, OpenFails(t)
      PROVE  UsingOK'
  <2>1. /\ t \in Thread /\ UNCHANGED holders /\ op[t].dev \in Device /\ OwnerOf[op[t].dev] = t
        /\ privacy' = StopUsing(privacy, op[t].dev, holders) /\ op[t].pc # "closePrivacy"
    BY <1>3, AtProcess DEF OpenFails, At, Opening
  <2>2. OnlyOf(t)
    BY <1>3, OpenFailsType
  <2>. QED  BY <1>0, <2>1, <2>2, UsingEnds
<1>4. ASSUME NEW t \in Thread, CloseLock(t) \/ CloseHost(t)
      PROVE  UsingOK'
  <2>1. /\ UNCHANGED <<holders, privacy>> /\ OnlyOf(t) /\ op[t].pc \in {"closeLock", "closeHost"}
    BY <1>4, CloseLockType, CloseHostType DEF CloseLock, CloseHost, At
  <2>. QED  BY <1>0, <2>1, UsingFrame
<1>5. ASSUME NEW t \in Thread, ClosePrivacy(t)
      PROVE  UsingOK'
  <2>1. /\ UNCHANGED holders /\ op[t].pc = "closePrivacy" /\ op[t].pc \in Closing
        /\ privacy' = StopUsing(privacy, Head(op[t].todo), holders)
    BY <1>5 DEF ClosePrivacy, At, Closing
  <2>2. OnlyOf(t) /\ Head(op[t].todo) \in Device
    BY <1>5, <2>1, ClosePrivacyType, ClosingHas
  <2>. QED  BY <1>0, <2>1, <2>2, UsingEnds
<1>6. ASSUME NEW t \in Thread, CloseDevice(t)
      PROVE  UsingOK'
  <2>. DEFINE d == Head(op[t].todo)
  <2>1. /\ op[t].pc = "close" /\ op[t].pc \in Closing /\ OnlyOf(t) /\ UNCHANGED privacy
    BY <1>6, CloseDeviceType DEF CloseDevice, At, Closing
  <2>2. CASE d \in open
    <3>1. GoTo(t, "closePrivacy") /\ lock' = lock /\ UNCHANGED host
      BY <1>6, <2>2 DEF CloseDevice
    <3>2. op'[t].pc = "closePrivacy" /\ Head(op'[t].todo) = d
      BY <2>1, <3>1, ClosingThreads DEF Closing
    <3>3. \A x : x \in ToSet(holders) => x \in ToSet(holders') \/ x = d
      BY <1>6, <2>2, ClosingRemoves, Removed
    <3>4. \A p \in Process : HoldersOf(p) # {} => HoldersOf(p)' # {} \/ OwnerOf[d] = p
      BY <3>3 DEF HoldersOf
    <3>. QED  BY <2>1, <3>2, <3>4, UsingFrame
  <2>3. CASE d \notin open
    <3>1. UNCHANGED holders
      BY <1>6, <2>3 DEF CloseDevice
    <3>. QED  BY <1>0, <2>1, <3>1, UsingFrame
  <2>. QED  BY <2>2, <2>3
<1>7. ASSUME RemoveResourceWhenHostDied
      PROVE  UsingOK'
  <2>. DEFINE c == Head(host.cams)
              d == hostMap[c]
  <2>1. OnlyOf(HostThread) /\ op[HostThread].pc = "hostDied" /\ c \in Camera
    BY <1>7, HostDiedType, HostDiedRemoves DEF RemoveResourceWhenHostDied, At
  <2>2. CASE d = NoDevice
    <3>1. UNCHANGED <<holders, privacy>>
      BY <1>7, <2>2, HostDiedRemoves
    <3>. QED  BY <1>0, <2>1, <3>1, ThreadKinds, UsingFrame
  <2>3. CASE d # NoDevice
    <3>1. d \in Device /\ privacy' = StopUsing(privacy, d, holders')
      BY <1>7, <2>1, <2>3 DEF RemoveResourceWhenHostDied, TypeOK
    <3>2. \A x : x \in ToSet(holders) => x \in ToSet(holders') \/ x = d
      BY <1>7, <2>3, HostDiedRemoves, Removed
    <3>3. \A p \in Process : HoldersOf(p) # {} => HoldersOf(p)' # {} \/ p = OwnerOf[d]
      BY <3>2 DEF HoldersOf
    <3>. QED  BY <2>1, <3>1, <3>3, ThreadKinds, UsingEnds
  <2>. QED  BY <2>2, <2>3
<1>8. ASSUME RemoveNext \/ (\E c \in Camera : CameraFails(c)) \/ HostStops
      PROVE  UsingOK'
  <2>1. OnlyOf(HostThread) /\ UNCHANGED <<holders, privacy>> /\ op[HostThread].pc # "closePrivacy"
    BY <1>8, RemoveNextType, CameraFailsType, HostStopsType DEF RemoveNext, CameraFails, HostStops, At
  <2>. QED  BY <1>0, <2>1, ThreadKinds, UsingFrame
<1>9. ASSUME (\E p \in Process : PermStateChange(p)) \/ PermDisablePolicy
      PROVE  UsingOK'
  <2>1. PICK devices \in Seq(Device) : CallbackCloses(devices)
    <3>1. holders \in Seq(Device)
      BY DEF TypeOK
    <3>. QED  BY <1>9, <3>1, HoldersType DEF PermStateChange, PermDisablePolicy
  <2>2. OnlyOf(Watcher) /\ UNCHANGED <<holders, privacy>> /\ op[Watcher].pc = "idle"
    BY <2>1, CallbackType DEF CallbackCloses, At
  <2>. QED  BY <1>0, <2>2, ThreadKinds, UsingFrame
<1>10. CASE HostStarts \/ HostDies \/ UNCHANGED vars
  <2>1. UNCHANGED <<op, holders, privacy>>
    BY <1>10 DEF HostStarts, HostDies, vars, state
  <2>. QED  BY <1>0, <2>1 DEF UsingOK
<1>. QED  BY <1>1, <1>2, <1>3, <1>4, <1>5, <1>6, <1>7, <1>8, <1>9, <1>10, UsingStarts
          DEF Next, Step, OpenStep, CloseStep, HostStep

UsingInv == DevicesInv /\ (~ overlap => UsingOK)

\* A process that is back from its calls, holds no camera and has none being closed is not
\* registered as using one, unless a step of the registration failed; the removal of the host,
\* which takes its camera from it without closing it, ends the use as well.
THEOREM UseEnds == Spec => []UsageEnds
<1>1. Init => UsingInv
  BY DevicesInit DEF Init, UsingInv, UsingOK
<1>2. UsingInv /\ [Next]_vars => UsingInv'
  BY DevicesInductive, OverlapStays, UsingStep DEF UsingInv, DevicesInv
<1>3. UsingInv => UsageEnds
  <2>. SUFFICES ASSUME UsingOK, NEW p \in Process, At(p, "idle"), ~ IsMultiCameraActive(p, holders),
                       \A t \in Thread : op[t].pc = "closePrivacy" => OwnerOf[Head(op[t].todo)] # p,
                       p \in privacy.using \ privacy.refused
                PROVE  FALSE
    BY DEF UsingInv, UsageEnds
  <2>. QED  BY DEF UsingOK, At, IsMultiCameraActive, HoldersOf
<1>. QED  BY <1>1, <1>2, <1>3, PTL DEF Spec
-----------------------------------------------------------------------------
(***************************************************************************)
(* Who was admitted beside whom.  A process whose request was granted and  *)
(* that has not added its device yet will be a holder: what its verdict    *)
(* promised about the holders is true until then, once those it evicts are *)
(* closed.  Each holder kept what was promised for it.  Both are about the  *)
(* costs and conflicts that are recorded: a holder's own are not when the   *)
(* HDI service was away as it was added.                                   *)
(***************************************************************************)
Pending(t) == \/ op[t].pc \in {"privacy", "hdi", "addLock", "add"}
              \/ op[t].pc \in Closing /\ op[t].next = "privacy"

\* Two holders in conflict were left together by the verdict on the later one.
PairsOK ==
  \A i, j \in DOMAIN holders :
    i < j /\ IsConflicting(holders[i], holders[j]) => <<holders[j], holders[i]>> \in spared

\* A holder that was admitted by its cost was within the limit with those before it.
CostsOK ==
  \E sum : /\ Sums(sum, holders, {})
           /\ \A k \in 1 .. Len(holders) : via[holders[k]] = "cost" => sum[k] <= MaxCost

RequestOK(t) ==
  /\ \A e \in ToSet(holders) : IsConflicting(e, op[t].dev) =>
       <<op[t].dev, e>> \in spared \/ e \in ToSet(op[t].todo)
  /\ via[op[t].dev] = "cost" =>
       \E sum : /\ Sums(sum, holders, ToSet(op[t].todo))
                /\ sum[Len(holders)] + Cost(op[t].dev) <= MaxCost

AdmittedOK == PairsOK /\ CostsOK /\ \A t \in Process : Pending(t) => RequestOK(t)

\* The costs and the conflicts are those of the workload, as far as the holders have them.
LEMMA SameCosts ==
  ASSUME UNCHANGED <<workload, unpriced>>
  PROVE  /\ \A d, e : IsConflicting(d, e)' <=> IsConflicting(d, e)
         /\ \A d : Cost(d)' = Cost(d)
         /\ \A sum, ds, skip : Sums(sum, ds, skip)' <=> Sums(sum, ds, skip)
BY DEF IsConflicting, Cost, CostHeld, Sums

\* What changes for one device does not for the others.
LEMMA OtherCosts ==
  ASSUME workload' = workload, NEW d, \A e : e # d => (e \in unpriced' <=> e \in unpriced)
  PROVE  /\ \A e : e # d => CostHeld(e)' = CostHeld(e) /\ \A k : IsConflicting(e, k)' <=> IsConflicting(e, k)
         /\ \A e : Cost(e)' = Cost(e)
<1>1. \A e : Cost(e)' = Cost(e)
  BY DEF Cost
<1>2. \A e : e # d => CostHeld(e)' = CostHeld(e)
  BY <1>1 DEF CostHeld
<1>3. \A e : e # d => \A k : IsConflicting(e, k)' <=> IsConflicting(e, k)
  BY DEF IsConflicting
<1>. QED  BY <1>1, <1>2, <1>3

LEMMA KeptSums ==
  ASSUME NEW ds, NEW sum, NEW skip, Sums(sum, ds, skip), \A k \in 1 .. Len(ds) : CostHeld(ds[k])' = CostHeld(ds[k])
  PROVE  Sums(sum, ds, skip)'
BY DEF Sums

LEMMA NextSums ==
  ASSUME NEW ds, NEW sum, sum \in [0 .. Len(ds) -> Int], sum[0] = 0,
         \A k \in 1 .. Len(ds) : sum[k] = sum[k - 1] + CostHeld(ds[k])'
  PROVE  Sums(sum, ds, {})'
BY DEF Sums

\* A thread that changes nothing about the holders and the requests.
LEMMA AdmittedFrame ==
  ASSUME TypedInv, AdmittedOK, NEW t \in Thread, OnlyOf(t), UNCHANGED <<workload, holders, unpriced, via, spared>>,
         t \in Process /\ Pending(t)' =>
           /\ Pending(t) /\ op'[t].dev = op[t].dev
           /\ \A e \in ToSet(holders) : e \in ToSet(op'[t].todo) <=> e \in ToSet(op[t].todo)
  PROVE  AdmittedOK'
<1>1. PairsOK' /\ CostsOK'
  BY SameCosts DEF AdmittedOK, PairsOK, CostsOK
<1>2. ASSUME NEW x \in Process, Pending(x)'
      PROVE  RequestOK(x)'
  <2>1. /\ Pending(x) /\ op'[x].dev = op[x].dev
        /\ \A e \in ToSet(holders) : e \in ToSet(op'[x].todo) <=> e \in ToSet(op[x].todo)
    BY <1>2, ThreadKinds DEF OnlyOf, Pending
  <2>2. RequestOK(x)
    BY <2>1 DEF AdmittedOK
  <2>3. \A e \in ToSet(holders) : IsConflicting(e, op[x].dev) => <<op[x].dev, e>> \in spared \/ e \in ToSet(op'[x].todo)
    BY <2>1, <2>2 DEF RequestOK
  <2>4. ASSUME via[op[x].dev] = "cost"
        PROVE  \E sum : /\ Sums(sum, holders, ToSet(op'[x].todo))
                        /\ sum[Len(holders)] + Cost(op[x].dev) <= MaxCost
    <3>1. PICK sum : Sums(sum, holders, ToSet(op[x].todo)) /\ sum[Len(holders)] + Cost(op[x].dev) <= MaxCost
      BY <2>2, <2>4 DEF RequestOK
    <3>2. \A k \in 1 .. Len(holders) : holders[k] \in ToSet(holders)
      <4>1. \A k \in DOMAIN holders : holders[k] \in ToSet(holders)
        BY Zenon DEF ToSet
      <4>. QED  BY <4>1 DEF TypedInv, TypeOK
    <3>3. Sums(sum, holders, ToSet(op'[x].todo))
      BY <2>1, <3>1, <3>2 DEF Sums
    <3>. QED  BY <3>1, <3>3
  <2>. QED  BY <2>1, <2>3, <2>4, SameCosts DEF RequestOK
<1>. QED  BY <1>1, <1>2 DEF AdmittedOK

\* The sums that remain as a device goes.
LEMMA RemovedSums ==
  ASSUME TypeOK, NEW n \in 1 .. Len(holders), NEW skip, NEW sum, Sums(sum, holders, skip)
  PROVE  \E s : /\ Sums(s, RemoveAt(holders, n), skip)
                /\ Len(RemoveAt(holders, n)) = Len(holders) - 1
                /\ s[Len(holders) - 1] <= sum[Len(holders)]
                /\ \A k \in 1 .. Len(holders) - 1 :
                     \E l \in 1 .. Len(holders) : RemoveAt(holders, n)[k] = holders[l] /\ s[k] <= sum[l]
<1>1. PICK r \in Seq(Device), m \in Nat : /\ r = RemoveAt(holders, n) /\ m = Len(holders) /\ Len(r) = m - 1
                                         /\ \A k \in 1 .. m - 1 : r[k] = IF k < n THEN holders[k] ELSE holders[k + 1]
  <2>1. holders \in Seq(Device) /\ Len(holders) \in Nat
    BY DEF TypeOK
  <2>2. /\ RemoveAt(holders, n) \in Seq(Device) /\ Len(RemoveAt(holders, n)) = Len(holders) - 1
        /\ \A k \in 1 .. Len(holders) - 1 :
             RemoveAt(holders, n)[k] = IF k < n THEN holders[k] ELSE holders[k + 1]
    BY <2>1, RemoveAtIs
  <2>. QED  BY <2>1, <2>2
<1>2. PICK w : w \in [1 .. m -> Nat] /\ \A k \in 1 .. m : w[k] = IF holders[k] \in skip THEN 0 ELSE CostHeld(holders[k])
  <2>. DEFINE v == [k \in 1 .. m |-> IF holders[k] \in skip THEN 0 ELSE CostHeld(holders[k])]
  <2>1. \A k \in 1 .. m : holders[k] \in Device /\ CostHeld(holders[k]) \in Nat
    BY <1>1, CostType DEF TypeOK
  <2>2. v \in [1 .. m -> Nat] /\ \A k \in 1 .. m : v[k] = IF holders[k] \in skip THEN 0 ELSE CostHeld(holders[k])
    BY <2>1
  <2>. HIDE DEF v
  <2>. QED  BY <2>2
<1>3. /\ sum \in [0 .. m -> Int] /\ sum[0] = 0 /\ n \in 1 .. m
      /\ \A k \in 1 .. m : sum[k] = sum[k - 1] + w[k]
  BY <1>1, <1>2 DEF Sums
<1>. DEFINE s == [k \in 0 .. m - 1 |-> IF k < n THEN sum[k] ELSE sum[k + 1] - w[n]]
<1>4. \A k \in 0 .. m - 1 : /\ k + 1 \in 0 .. m /\ k \in 0 .. m
                            /\ s[k] = IF k < n THEN sum[k] ELSE sum[k + 1] - w[n]
  BY <1>1
<1>5. s \in [0 .. m - 1 -> Int] /\ s[0] = 0
  <2>1. \A k \in 0 .. m : sum[k] \in Int
    BY <1>3
  <2>2. w[n] \in Int /\ m \in Nat
    BY <1>1, <1>2, <1>3
  <2>3. \A k \in 0 .. m - 1 : (IF k < n THEN sum[k] ELSE sum[k + 1] - w[n]) \in Int
    BY <1>4, <2>1, <2>2
  <2>4. 0 \in 0 .. m - 1 /\ 0 < n
    BY <1>1, <1>3
  <2>. QED  BY <1>3, <2>3, <2>4
<1>. HIDE DEF s
<1>6. ASSUME NEW k \in 1 .. m - 1
      PROVE  s[k] = s[k - 1] + (IF r[k] \in skip THEN 0 ELSE CostHeld(r[k]))
  <2>1. /\ k \in 1 .. m /\ k + 1 \in 1 .. m /\ k \in 0 .. m - 1 /\ k - 1 \in 0 .. m - 1 /\ (k + 1) - 1 = k /\ (k - 1) + 1 = k
        /\ k \in 0 .. m /\ k - 1 \in 0 .. m /\ k + 1 \in 0 .. m
    BY <1>1
  <2>2. w[k] \in Nat /\ w[k + 1] \in Nat /\ w[n] \in Nat /\ sum[k] \in Int /\ sum[k - 1] \in Int /\ sum[k + 1] \in Int
    BY <1>2, <1>3, <2>1
  <2>3. sum[k] = sum[k - 1] + w[k] /\ sum[k + 1] = sum[k] + w[k + 1]
    BY <1>3, <2>1
  <2>4. (IF r[k] \in skip THEN 0 ELSE CostHeld(r[k])) = IF k < n THEN w[k] ELSE w[k + 1]
    BY <1>1, <1>2, <2>1
  <2>5. /\ s[k] = IF k < n THEN sum[k] ELSE sum[k + 1] - w[n]
        /\ s[k - 1] = IF k - 1 < n THEN sum[k - 1] ELSE sum[k] - w[n]
    BY <1>4, <2>1
  <2>6. CASE k < n
    BY <2>1, <2>2, <2>3, <2>4, <2>5, <2>6
  <2>7. CASE k = n
    <3>1. ~ (k < n) /\ k - 1 < n
      BY <1>3, <2>7
    <3>2. s[k] = sum[k + 1] - w[k] /\ s[k - 1] = sum[k - 1]
      BY <2>5, <2>7, <3>1
    <3>3. (IF r[k] \in skip THEN 0 ELSE CostHeld(r[k])) = w[k + 1]
      BY <2>4, <3>1
    <3>. DEFINE a == sum[k - 1]  b == sum[k]  c == sum[k + 1]  v == w[k + 1]  u == w[k]
    <3>4. a \in Int /\ b \in Int /\ c \in Int /\ v \in Nat /\ u \in Nat /\ b = a + u /\ c = b + v
      BY <2>2, <2>3
    <3>. HIDE DEF a, b, c, v, u
    <3>5. c - u = a + v
      BY <3>4
    <3>. QED  BY <3>2, <3>3, <3>5 DEF a, c, v, u
  <2>8. CASE k > n
    <3>1. ~ (k < n) /\ ~ (k - 1 < n)
      BY <1>3, <2>8
    <3>2. s[k] = sum[k + 1] - w[n] /\ s[k - 1] = sum[k] - w[n]
      BY <2>5, <3>1
    <3>3. (IF r[k] \in skip THEN 0 ELSE CostHeld(r[k])) = w[k + 1]
      BY <2>4, <3>1
    <3>. DEFINE a == sum[k]  b == sum[k + 1]  v == w[k + 1]  u == w[n]
    <3>4. a \in Int /\ b \in Int /\ v \in Nat /\ u \in Nat /\ b = a + v
      BY <2>2, <2>3
    <3>. HIDE DEF a, b, v, u
    <3>5. b - u = (a - u) + v
      BY <3>4
    <3>. QED  BY <3>2, <3>3, <3>5 DEF a, b, v, u
  <2>9. k \in Nat /\ n \in Nat
    BY <1>1, <1>3
  <2>10. k < n \/ k = n \/ k > n
    BY <2>9
  <2>. QED  BY <2>6, <2>7, <2>8, <2>10, Zenon
<1>7. Sums(s, r, skip)
  BY <1>1, <1>5, <1>6 DEF Sums
<1>8. s[m - 1] <= sum[m]
  <2>1. m - 1 \in 0 .. m - 1 /\ (m - 1) + 1 = m /\ m \in 1 .. m /\ m \in 0 .. m
    BY <1>1, <1>3
  <2>2. sum[m] = sum[m - 1] + w[m] /\ w[m] \in Nat /\ w[n] \in Nat /\ sum[m] \in Int /\ sum[m - 1] \in Int
    BY <1>2, <1>3, <2>1
  <2>3. s[m - 1] = IF m - 1 < n THEN sum[m - 1] ELSE sum[m] - w[n]
    BY <1>4, <2>1
  <2>. QED  BY <2>2, <2>3
<1>9. ASSUME NEW k \in 1 .. m - 1
      PROVE  \E l \in 1 .. m : r[k] = holders[l] /\ s[k] <= sum[l]
  <2>1. k \in 1 .. m /\ k + 1 \in 1 .. m /\ k \in 0 .. m - 1 /\ k \in 0 .. m /\ k + 1 \in 0 .. m
    BY <1>1
  <2>2. w[n] \in Nat /\ sum[k] \in Int /\ sum[k + 1] \in Int
    BY <1>2, <1>3, <2>1
  <2>3. s[k] = (IF k < n THEN sum[k] ELSE sum[k + 1] - w[n]) /\ r[k] = IF k < n THEN holders[k] ELSE holders[k + 1]
    BY <1>1, <1>4, <2>1
  <2>. QED  BY <2>1, <2>2, <2>3
<1>. QED  BY <1>1, <1>7, <1>8, <1>9

\* What the evictions and closes in between leave of the holders, and of the promises.
LEMMA AdmittedOfRemoval ==
  ASSUME TypedInv, DevicesOK, AdmittedOK, NEW d, d \in ToSet(holders), RemoveDevice(CameraOf[d]),
         workload' = workload,
         \A x \in Process : Pending(x)' => Pending(x) /\ op'[x].dev = op[x].dev /\ op'[x].todo = op[x].todo
  PROVE  AdmittedOK'
<1>. USE DEF TypedInv
<1>1. \A x : x # d => (x \in unpriced' <=> x \in unpriced)
  BY Removed
<1>2. /\ \A e : e # d => CostHeld(e)' = CostHeld(e) /\ \A k : IsConflicting(e, k)' <=> IsConflicting(e, k)
      /\ \A e : Cost(e)' = Cost(e)
  BY <1>1, OtherCosts
<1>3. /\ \A x : x \in ToSet(holders') <=> x \in ToSet(holders) /\ x # d
      /\ \A i, j \in DOMAIN holders' : i < j =>
           \E k, l \in DOMAIN holders : k < l /\ holders'[i] = holders[k] /\ holders'[j] = holders[l]
      /\ spared' = {s \in spared : s[2] # d /\ (s[1] = d => IsBeingOpened(d))}
      /\ via' = IF IsBeingOpened(d) THEN via ELSE [via EXCEPT ![d] = "none"]
      /\ \E i \in 1 .. Len(holders) : holders[i] = d /\ holders' = RemoveAt(holders, i)
  BY Removed
<1>4. /\ via \in [Device -> {"none", "cost", "conflict", "table"}] /\ holders \in Seq(Device)
      /\ DOMAIN holders = 1 .. Len(holders)
  BY DEF TypeOK
<1>5. holders' \in Seq(Device) /\ DOMAIN holders' = 1 .. Len(holders')
  BY RemoveDeviceEffect DEF TypeOK
<1>6. \A i \in DOMAIN holders' : holders'[i] # d
  <2>1. \A i \in DOMAIN holders' : holders'[i] \in ToSet(holders')
    BY Zenon DEF ToSet
  <2>. QED  BY <1>3, <2>1
<1>7. PICK n \in 1 .. Len(holders) : holders' = RemoveAt(holders, n)
  BY <1>3
<1>8. PairsOK'
  <2>1. ASSUME NEW i \in DOMAIN holders', NEW j \in DOMAIN holders', i < j, IsConflicting(holders[i], holders[j])'
        PROVE  <<holders'[j], holders'[i]>> \in spared'
    <3>1. PICK k, l \in DOMAIN holders : k < l /\ holders'[i] = holders[k] /\ holders'[j] = holders[l]
      BY <1>3, <2>1
    <3>2. IsConflicting(holders[k], holders[l])
      BY <1>2, <1>6, <2>1, <3>1
    <3>3. <<holders[l], holders[k]>> \in spared
      BY <3>1, <3>2 DEF AdmittedOK, PairsOK
    <3>. QED  BY <1>3, <1>6, <3>1, <3>3
  <2>. QED  BY <2>1 DEF PairsOK
<1>9. CostsOK'
  <2>1. PICK sum : /\ Sums(sum, holders, {})
                   /\ \A k \in 1 .. Len(holders) : via[holders[k]] = "cost" => sum[k] <= MaxCost
    BY DEF AdmittedOK, CostsOK
  <2>2. PICK s : /\ Sums(s, holders', {}) /\ Len(holders') = Len(holders) - 1
                 /\ \A k \in 1 .. Len(holders) - 1 :
                      \E l \in 1 .. Len(holders) : holders'[k] = holders[l] /\ s[k] <= sum[l]
    BY <1>7, <2>1, RemovedSums
  <2>3. ASSUME NEW k \in 1 .. Len(holders'), via'[holders'[k]] = "cost"
        PROVE  s[k] <= MaxCost
    <3>1. PICK l \in 1 .. Len(holders) : holders'[k] = holders[l] /\ s[k] <= sum[l]
      BY <2>2
    <3>2. holders'[k] # d /\ holders'[k] \in Device
      BY <1>5, <1>6
    <3>3. via[holders[l]] = "cost"
      BY <1>3, <1>4, <2>3, <3>1, <3>2
    <3>4. s[k] \in Int /\ sum[l] \in Int /\ sum[l] <= MaxCost
      <4>1. k \in 0 .. Len(holders') /\ l \in 0 .. Len(holders)
        BY <1>4, <1>5
      <4>. QED  BY <2>1, <2>2, <3>3, <4>1 DEF Sums
    <3>. QED  BY <3>1, <3>4 DEF MaxCost
  <2>4. Sums(s, holders, {})'
    <3>1. \A k \in 1 .. Len(holders') : \A e : e = holders'[k] => CostHeld(e)' = CostHeld(e)
      BY <1>2, <1>5, <1>6
    <3>. QED  BY <2>2, <3>1, KeptSums
  <2>. QED  BY <2>3, <2>4 DEF CostsOK
<1>10. ASSUME NEW x \in Process, Pending(x)'
       PROVE  RequestOK(x)'
  <2>1. Pending(x) /\ op'[x].dev = op[x].dev /\ op'[x].todo = op[x].todo
    BY <1>10
  <2>2. RequestOK(x) /\ op[x].dev \in Device
    <3>1. op[x].dev \in Device
      <4>1. op[x].pc \in Opening \/ op[x].next = "privacy"
        BY <2>1 DEF Pending, Opening
      <4>. QED  BY <4>1, AtProcess DEF ProcessOK
    <3>. QED  BY <2>1, <3>1 DEF AdmittedOK
  <2>3. op[x].dev = d => IsBeingOpened(d)
    BY DEF IsBeingOpened
  <2>4. ASSUME NEW e \in ToSet(holders'), NEW k, k = op[x].dev, IsConflicting(e, k)'
        PROVE  <<op[x].dev, e>> \in spared' \/ e \in ToSet(op[x].todo)
    <3>1. e \in ToSet(holders) /\ e # d /\ IsConflicting(e, op[x].dev)
      BY <1>2, <1>3, <2>4
    <3>2. <<op[x].dev, e>> \in spared \/ e \in ToSet(op[x].todo)
      BY <2>2, <3>1 DEF RequestOK
    <3>. QED  BY <1>3, <2>3, <3>1, <3>2
  <2>5. ASSUME via'[op[x].dev] = "cost"
        PROVE  \E sum : /\ Sums(sum, holders, ToSet(op[x].todo))'
                        /\ sum[Len(holders')] + Cost(op[x].dev) <= MaxCost
    <3>1. via[op[x].dev] = "cost"
      BY <1>3, <1>4, <2>2, <2>3, <2>5
    <3>2. PICK sum : Sums(sum, holders, ToSet(op[x].todo)) /\ sum[Len(holders)] + Cost(op[x].dev) <= MaxCost
      BY <2>2, <3>1 DEF RequestOK
    <3>3. PICK s : /\ Sums(s, holders', ToSet(op[x].todo)) /\ Len(holders') = Len(holders) - 1
                   /\ s[Len(holders) - 1] <= sum[Len(holders)]
      BY <1>7, <3>2, RemovedSums
    <3>4. s[Len(holders')] \in Int /\ sum[Len(holders)] \in Int /\ Cost(op[x].dev) \in Nat
      <4>1. Len(holders') \in 0 .. Len(holders') /\ Len(holders) \in 0 .. Len(holders)
        BY <1>4, <1>5
      <4>. QED  BY <2>2, <3>2, <3>3, <4>1, CostType DEF Sums
    <3>5. s[Len(holders')] + Cost(op[x].dev) <= MaxCost
      BY <3>2, <3>3, <3>4 DEF MaxCost
    <3>6. Sums(s, holders, ToSet(op[x].todo))'
      <4>1. \A k \in 1 .. Len(holders') : \A e : e = holders'[k] => CostHeld(e)' = CostHeld(e)
        BY <1>2, <1>5, <1>6
      <4>2. ToSet(op[x].todo)' = ToSet(op[x].todo)
        BY <2>1 DEF ToSet
      <4>. QED  BY <3>3, <4>1, <4>2, KeptSums
    <3>. QED  BY <3>5, <3>6
  <2>. QED  BY <1>2, <2>1, <2>4, <2>5 DEF RequestOK
<1>. QED  BY <1>8, <1>9, <1>10 DEF AdmittedOK

LEMMA AdmittedOfClosing ==
  ASSUME TypedInv, DevicesOK, AdmittedOK, NEW t \in Thread, CloseDevice(t), Head(op[t].todo) \in open
  PROVE  AdmittedOK'
<1>. USE DEF TypedInv
<1>1. /\ op[t].pc = "close" /\ op[t].pc \in Closing /\ "closePrivacy" \in Closing
      /\ GoTo(t, "closePrivacy") /\ UNCHANGED <<workload, host, lock>>
  BY DEF CloseDevice, At, Closing
<1>2. /\ OnlyOf(t) /\ op'[t].pc = "closePrivacy" /\ op'[t].dev = op[t].dev
      /\ op'[t].todo = op[t].todo /\ op'[t].next = op[t].next
  BY <1>1, ClosingThreads
<1>3. \A x \in Process : Pending(x)' => Pending(x) /\ op'[x].dev = op[x].dev /\ op'[x].todo = op[x].todo
  BY <1>1, <1>2, ThreadKinds DEF OnlyOf, Pending
<1>4. CASE Head(op[t].todo) \in ToSet(holders)
  <2>1. RemoveDevice(CameraOf[Head(op[t].todo)])
    BY <1>4, ClosingRemoves
  <2>. QED  BY <1>1, <1>3, <1>4, <2>1, AdmittedOfRemoval
<1>5. CASE Head(op[t].todo) \notin ToSet(holders)
  <2>1. UNCHANGED <<holders, unpriced, via, spared>>
    BY <1>5, ClosingRemoves
  <2>. QED  BY <1>1, <1>2, <1>3, <2>1, AdmittedFrame
<1>. QED  BY <1>4, <1>5

\* The removal of the host takes a holder out, or nobody.
LEMMA AdmittedOfHostDied ==
  ASSUME TypedInv, DevicesOK, AdmittedOK, RemoveResourceWhenHostDied
  PROVE  AdmittedOK'
<1>. USE DEF TypedInv
<1>. DEFINE d == hostMap[Head(host.cams)]
<1>1. OnlyOf(HostThread) /\ workload' = workload
  BY HostDiedType DEF RemoveResourceWhenHostDied
<1>2. \A x \in Process : op'[x] = op[x]
  BY <1>1, ThreadKinds DEF OnlyOf
<1>3. CASE d # NoDevice /\ d \in Listed
  <2>1. d \in ToSet(holders) /\ RemoveDevice(CameraOf[d])
    BY <1>3, HostDiedRemoves
  <2>2. \A x \in Process : Pending(x)' => Pending(x)
    BY <1>2 DEF Pending
  <2>. QED  BY <1>1, <1>2, <2>1, <2>2, AdmittedOfRemoval
<1>4. CASE ~ (d # NoDevice /\ d \in Listed)
  <2>1. UNCHANGED <<holders, unpriced, via, spared>>
    BY <1>4, HostDiedRemoves
  <2>. QED  BY <1>1, <2>1, ThreadKinds, AdmittedFrame
<1>. QED  BY <1>3, <1>4

\* A device that was closed already, or is closed now, is no holder.
LEMMA AdmittedOfClosed ==
  ASSUME TypedInv, DevicesOK, AdmittedOK, NEW t \in Thread,
         (CloseDevice(t) /\ Head(op[t].todo) \notin open) \/ CloseHost(t)
  PROVE  AdmittedOK'
<1>. USE DEF TypedInv
<1>. DEFINE d == Head(op[t].todo)
<1>1. /\ op[t].pc \in {"close", "closeHost"} /\ op[t].pc \in Closing /\ Closed(t)
      /\ UNCHANGED <<workload, host, holders, unpriced, via, spared>>
  BY DEF CloseDevice, CloseHost, At, Closing, history
<1>2. d \notin ToSet(holders)
  <2>1. CASE d \notin open
    BY <2>1 DEF DevicesOK, HoldersOK, Listed
  <2>2. CASE CloseHost(t)
    <3>1. op[t].pc \in Leaving
      BY <2>2 DEF CloseHost, At, Leaving
    <3>. QED  BY <3>1 DEF DevicesOK, LeavingOK, HoldersOK, Listed
  <2>. QED  BY <2>1, <2>2
<1>3. op[t].todo # <<>> /\ op[t].todo \in Seq(Device)
  BY <1>1, ClosingHas
<1>4. /\ OnlyOf(t)
      /\ \/ /\ op'[t].pc = "close" /\ op'[t].todo = Tail(op[t].todo)
            /\ op'[t].dev = op[t].dev /\ op'[t].next = op[t].next
         \/ /\ Tail(op[t].todo) = <<>> /\ op[t].next = "privacy"
            /\ op'[t].pc = "privacy" /\ op'[t].todo = <<>>
            /\ op'[t].dev = op[t].dev
         \/ op[t].next # "privacy" /\ op'[t].pc = op[t].next /\ op'[t].next = "idle"
  BY <1>1, <1>3, ClosedEffect
<1>5. ASSUME t \in Process, Pending(t)'
      PROVE  /\ Pending(t) /\ op'[t].dev = op[t].dev
             /\ \A e \in ToSet(holders) : e \in ToSet(op'[t].todo) <=> e \in ToSet(op[t].todo)
  <2>1. op[t].next \in {"idle", "privacy"}
    BY <1>5, AtProcess DEF ProcessOK
  <2>2. /\ op[t].next = "privacy" /\ op'[t].dev = op[t].dev /\ op'[t].todo = Tail(op[t].todo)
    BY <1>4, <1>5, <2>1 DEF Pending, Closing
  <2>3. \A x : x \in ToSet(op[t].todo) <=> x = d \/ x \in ToSet(Tail(op[t].todo))
    BY <1>3, SetOfTail
  <2>. QED  BY <1>1, <1>2, <2>2, <2>3 DEF Pending
<1>. QED  BY <1>1, <1>4, <1>5, AdmittedFrame

\* The verdict leaves no conflict it has not seen, and by the cost, no excess.
LEMMA AdmittedOfVerdict ==
  ASSUME TypedInv, DevicesOK, AdmittedOK, NEW t \in Process, CanOpenCamera(t)
  PROVE  AdmittedOK'
<1>. USE DEF TypedInv
<1>. DEFINE d == op[t].dev
<1>1. /\ op[t].pc = "admit" /\ d \in Device /\ t \in Thread /\ lock = t
      /\ UNCHANGED <<workload, holders, unpriced>>
  BY AtProcess DEF CanOpenCamera, At, Opening, ProcessOK
<1>2. Distinct
  BY DEF Distinct, DevicesOK, HoldersOK
<1>3. PICK verdict \in Verdict :
        /\ Decide(t, d, verdict)
        /\ verdict.ok /\ verdict.via = "cost" =>
             /\ \A i \in DOMAIN holders : ~ IsConflicting(holders[i], d)
             /\ \E higher \in SUBSET Process : verdict = ByCost(d, higher)
  BY Judged
<1>4. /\ OnlyOf(t)
      /\ \/ op'[t] = Idle
         \/ /\ op'[t].pc = (IF verdict.evict = <<>> THEN "privacy" ELSE "close")
            /\ op'[t].todo = verdict.evict /\ op'[t].dev = op[t].dev
            /\ op'[t].next = (IF verdict.ok THEN "privacy" ELSE "idle")
            /\ verdict.evict # <<>> \/ verdict.ok
  BY <1>1, <1>3, DecideEffect
<1>5. /\ via' = IF verdict.ok THEN [via EXCEPT ![d] = verdict.via] ELSE via
      /\ spared' = IF verdict.ok THEN spared \cup Spared(d, verdict) ELSE spared
  BY <1>3 DEF Decide
<1>6. via \in [Device -> {"none", "cost", "conflict", "table"}] /\ holders \in Seq(Device)
      /\ DOMAIN holders = 1 .. Len(holders)
  BY DEF TypeOK
<1>. HIDE DEF d
<1>7. PairsOK'
  BY <1>1, <1>5, SameCosts DEF AdmittedOK, PairsOK
<1>8. \A i \in DOMAIN holders : ~ IsConflicting(holders[i], d) => holders[i] # d
  BY DEF IsConflicting
<1>9. CostsOK'
  <2>1. PICK sum : /\ Sums(sum, holders, {})
                   /\ \A k \in 1 .. Len(holders) : via[holders[k]] = "cost" => sum[k] <= MaxCost
    BY DEF AdmittedOK, CostsOK
  <2>2. ASSUME NEW k \in 1 .. Len(holders), via'[holders[k]] = "cost"
        PROVE  via[holders[k]] = "cost"
    <3>1. holders[k] \in Device
      BY <1>6
    <3>2. CASE verdict.ok /\ verdict.via = "cost"
      <4>1. holders[k] # d
        BY <1>3, <1>6, <1>8, <3>2
      <4>. QED  BY <1>5, <1>6, <2>2, <3>1, <4>1
    <3>3. CASE ~ (verdict.ok /\ verdict.via = "cost")
      BY <1>1, <1>5, <1>6, <2>2, <3>1, <3>3
    <3>. QED  BY <3>2, <3>3
  <2>. QED  BY <1>1, <2>1, <2>2, SameCosts DEF CostsOK
<1>10. ASSUME Pending(t)'
       PROVE  RequestOK(t)'
  <2>1. op'[t].todo = verdict.evict /\ op'[t].dev = d /\ verdict.ok
    <3>1. Idle.pc = "idle"
      BY IdleIs
    <3>. QED  BY <1>4, <1>10, <3>1 DEF d, Pending, Closing
  <2>2. \A x : x \in ToSet(holders) <=> \E i \in DOMAIN holders : x = holders[i]
    BY Zenon DEF ToSet
  <2>3. ASSUME NEW e \in ToSet(holders), IsConflicting(e, d)
        PROVE  <<d, e>> \in spared' \/ e \in ToSet(verdict.evict)
    <3>1. verdict.via # "cost"
      BY <1>3, <2>1, <2>2, <2>3
    <3>. QED  BY <1>5, <2>1, <2>3, <3>1 DEF Spared
  <2>4. ASSUME via'[d] = "cost"
        PROVE  \E sum : Sums(sum, holders, ToSet(verdict.evict)) /\ sum[Len(holders)] + Cost(d) <= MaxCost
    <3>1. verdict.via = "cost"
      BY <1>1, <1>5, <1>6, <2>1, <2>4 DEF d
    <3>2. PICK higher \in SUBSET Process : verdict = ByCost(d, higher)
      BY <1>3, <2>1, <3>1
    <3>3. d \in Device
      BY <1>1
    <3>. QED  BY <1>2, <2>1, <3>2, <3>3, ByCostType
  <2>. QED  BY <1>1, <2>1, <2>3, <2>4, SameCosts DEF RequestOK
<1>11. \A x \in Process : Pending(x)' => x = t
  <2>1. \A x \in Process : x # t => op'[x] = Idle
    BY <1>1, <1>4, ThreadKinds, Alone DEF OnlyOf
  <2>. QED  BY <2>1, IdleIs DEF Pending, Closing
<1>. QED  BY <1>7, <1>9, <1>10, <1>11 DEF AdmittedOK

\* What was promised at the verdict is true of the holder.
LEMMA AdmittedOfAdd ==
  ASSUME TypedInv, DevicesOK, AdmittedOK, NEW t \in Process, AddDevice(t)
  PROVE  AdmittedOK'
<1>. USE DEF TypedInv
<1>0. PICK d, m : d = op[t].dev /\ m = Len(holders)
  OBVIOUS
<1>1. /\ op[t].pc \in {"addLock", "add"} /\ lock = t /\ d \in Device /\ t \in Thread /\ op[t].todo = <<>>
      /\ holders' = Append(holders, d) /\ UNCHANGED <<workload, via, spared>>
      /\ unpriced' = unpriced \ {d} \/ unpriced' = unpriced \cup {d}
  BY <1>0, AtProcess DEF AddDevice, At, Opening, Closing, ProcessOK, history
<1>2. OnlyOf(t) /\ op'[t].pc = "register"
  BY AddDeviceType
<1>3. RequestOK(t) /\ ToSet(op[t].todo) = {}
  BY <1>1 DEF AdmittedOK, Pending, ToSet
<1>4. /\ m \in Nat /\ DOMAIN holders = 1 .. m /\ DOMAIN holders' = 1 .. m + 1 /\ Len(holders') = m + 1
      /\ \A i \in 1 .. m : holders'[i] = holders[i] /\ holders[i] \in Device /\ holders[i] # d
      /\ holders'[m + 1] = d
  <2>1. holders \in Seq(Device)
    BY DEF TypeOK
  <2>2. d \notin ToSet(holders)
    BY <1>0, <1>1 DEF DevicesOK, HoldersOK, Adding
  <2>3. \A i \in DOMAIN holders : holders[i] # d
    BY <2>2, Zenon DEF ToSet
  <2>. QED  BY <1>0, <1>1, <2>1, <2>3, AppendProperties
<1>5. /\ \A e : e # d => CostHeld(e)' = CostHeld(e) /\ \A k : IsConflicting(e, k)' <=> IsConflicting(e, k)
      /\ \A e : Cost(e)' = Cost(e)
  <2>1. \A e : e # d => (e \in unpriced' <=> e \in unpriced)
    BY <1>1
  <2>. QED  BY <1>1, <2>1, OtherCosts
<1>6. PICK u \in Nat : u = CostHeld(d)' /\ u <= Cost(d)
  <2>1. Cost(d) \in Nat
    BY <1>1, CostType
  <2>2. CostHeld(d)' = 0 \/ CostHeld(d)' = Cost(d)
    BY <1>5 DEF CostHeld
  <2>. QED  BY <2>1, <2>2
<1>7. PairsOK'
  <2>1. ASSUME NEW i \in 1 .. m + 1, NEW j \in 1 .. m + 1, i < j, IsConflicting(holders[i], holders[j])'
        PROVE  <<holders'[j], holders'[i]>> \in spared
    <3>1. i \in 1 .. m /\ (j \in 1 .. m \/ j = m + 1)
      BY <1>4, <2>1
    <3>2. \A e, k : e = holders'[i] /\ k = holders'[j] => IsConflicting(e, k)
      BY <1>4, <1>5, <2>1, <3>1
    <3>3. CASE j \in 1 .. m
      BY <1>4, <2>1, <3>1, <3>2, <3>3 DEF AdmittedOK, PairsOK
    <3>4. CASE j = m + 1
      <4>1. holders[i] \in ToSet(holders)
        BY <1>4, <3>1 DEF ToSet
      <4>. QED  BY <1>0, <1>3, <1>4, <3>1, <3>2, <3>4, <4>1 DEF RequestOK
    <3>. QED  BY <3>1, <3>3, <3>4
  <2>. QED  BY <1>1, <1>4, <2>1 DEF PairsOK
<1>8. CostsOK'
  <2>1. PICK sum : /\ Sums(sum, holders, {})
                   /\ \A k \in 1 .. m : via[holders[k]] = "cost" => sum[k] <= MaxCost
    BY <1>0 DEF AdmittedOK, CostsOK
  <2>2. /\ sum \in [0 .. m -> Int] /\ sum[0] = 0 /\ Cost(d) \in Nat
        /\ \A k \in 1 .. m : sum[k] = sum[k - 1] + CostHeld(holders[k])
    BY <1>0, <1>1, <2>1, CostType DEF Sums
  <2>3. PICK s \in [0 .. m + 1 -> Int] : (\A k \in 0 .. m : s[k] = sum[k]) /\ s[m + 1] = sum[m] + u
    <3>. DEFINE r == [k \in 0 .. m + 1 |-> IF k = m + 1 THEN sum[m] + u ELSE sum[k]]
    <3>1. \A k \in 0 .. m : k \in 0 .. m + 1 /\ k # m + 1 /\ sum[k] \in Int
      BY <1>4, <2>2
    <3>2. m \in 0 .. m /\ m + 1 \in 0 .. m + 1 /\ \A k \in 0 .. m + 1 : k \in 0 .. m \/ k = m + 1
      BY <1>4
    <3>3. \A k \in 0 .. m + 1 : (IF k = m + 1 THEN sum[m] + u ELSE sum[k]) \in Int
      BY <1>6, <2>2, <3>1, <3>2
    <3>4. (\A k \in 0 .. m : r[k] = sum[k]) /\ r[m + 1] = sum[m] + u /\ r \in [0 .. m + 1 -> Int]
      BY <3>1, <3>2, <3>3
    <3>. HIDE DEF r
    <3>. QED  BY <3>4
  <2>4. Sums(s, holders, {})'
    <3>1. ASSUME NEW k \in 1 .. m + 1, NEW e, e = holders'[k]
          PROVE  s[k] = s[k - 1] + CostHeld(e)'
      <4>1. k - 1 \in 0 .. m /\ (k \in 1 .. m \/ k = m + 1)
        BY <1>4
      <4>2. CASE k \in 1 .. m
        <5>1. k \in 0 .. m
          BY <4>2
        <5>. QED  BY <1>4, <1>5, <2>2, <2>3, <3>1, <4>1, <4>2, <5>1
      <4>3. CASE k = m + 1
        <5>1. (m + 1) - 1 = m
          BY <1>4
        <5>. QED  BY <1>4, <1>6, <2>3, <3>1, <4>1, <4>3, <5>1
      <4>. QED  BY <4>1, <4>2, <4>3
    <3>2. 0 \in 0 .. m /\ s[0] = 0
      BY <1>4, <2>2, <2>3
    <3>3. PICK ds : ds = holders'
      OBVIOUS
    <3>4. Len(ds) = m + 1 /\ \A k \in 1 .. Len(ds) : s[k] = s[k - 1] + CostHeld(ds[k])'
      BY <1>4, <3>1, <3>3
    <3>5. Sums(s, ds, {})'
      BY <2>3, <3>2, <3>4, NextSums
    <3>. QED  BY <3>3, <3>5
  <2>5. ASSUME NEW k \in 1 .. m + 1, via[holders'[k]] = "cost"
        PROVE  s[k] <= MaxCost
    <3>1. CASE k \in 1 .. m
      <4>1. k \in 0 .. m
        BY <3>1
      <4>. QED  BY <1>4, <2>1, <2>3, <2>5, <3>1, <4>1
    <3>2. CASE k = m + 1
      <4>1. PICK sum2 : Sums(sum2, holders, {}) /\ sum2[m] + Cost(d) <= MaxCost
        BY <1>0, <1>3, <1>4, <2>5, <3>2 DEF RequestOK
      <4>2. m \in 0 .. m
        BY <1>4
      <4>3. sum[m] = sum2[m]
        BY <1>0, <1>4, <2>1, <4>1, <4>2, SumsAgree
      <4>4. sum[m] \in Int /\ Cost(d) \in Nat
        BY <2>2, <4>2
      <4>. QED  BY <1>6, <2>3, <3>2, <4>1, <4>3, <4>4 DEF MaxCost
    <3>3. k \in 1 .. m \/ k = m + 1
      BY <1>4
    <3>. QED  BY <3>1, <3>2, <3>3
  <2>. QED  BY <1>1, <1>4, <2>4, <2>5 DEF CostsOK
<1>9. \A x \in Process : ~ Pending(x)'
  <2>1. \A x \in Process : x # t => op'[x] = Idle
    BY <1>1, <1>2, ThreadKinds, Alone DEF OnlyOf
  <2>. QED  BY <1>2, <2>1, IdleIs DEF Pending, Closing
<1>. QED  BY <1>7, <1>8, <1>9 DEF AdmittedOK

LEMMA AdmittedStep ==
  ASSUME TypedInv, DevicesOK, AdmittedOK, [Next]_vars, ~ overlap'
  PROVE  AdmittedOK'
<1>. USE DEF TypedInv
<1>1. ASSUME NEW t \in Process, NEW d \in Device, Open(t, d) \/ Close(t, d)
      PROVE  AdmittedOK'
  <2>1. /\ t \in Thread /\ OnlyOf(t) /\ UNCHANGED <<workload, holders, unpriced, via, spared>>
    BY <1>1, ThreadKinds, OpenType, CloseType DEF Open, Close, history
  <2>2. op'[t].pc = "admit" \/ (op'[t].next = "idle" /\ op'[t].pc = "close")
    <3>1. CASE Open(t, d)
      BY <3>1, OpenType
    <3>2. CASE Close(t, d)
      BY <3>2, CloseType
    <3>. QED  BY <1>1, <3>1, <3>2
  <2>. QED  BY <2>1, <2>2, AdmittedFrame DEF Pending, Closing
<1>2. ASSUME NEW t \in Process, \/ HandlePrivacyBeforeOpenDevice(t) \/ OpenFails(t) \/ OpenSucceeds(t)
                                \/ AddDeviceWaits(t) \/ Register(t)
      PROVE  AdmittedOK'
  <2>1. t \in Thread /\ UNCHANGED <<workload, holders, unpriced, via, spared>>
    BY <1>2, ThreadKinds DEF HandlePrivacyBeforeOpenDevice, OpenFails, OpenSucceeds, AddDeviceWaits, Register, history
  <2>2. /\ OnlyOf(t) /\ \/ op'[t] = Idle
                        \/ Pending(t) /\ op'[t].dev = op[t].dev /\ op'[t].todo = op[t].todo
    BY <1>2, PrivacyStepType, OpenFailsType, OpenSucceedsType, AddDeviceWaitsType, RegisterType
       DEF HandlePrivacyBeforeOpenDevice, OpenSucceeds, AddDeviceWaits, At, Pending
  <2>3. op'[t] = Idle => ~ Pending(t)'
    BY IdleIs DEF Pending, Closing
  <2>. QED  BY <2>1, <2>2, <2>3, AdmittedFrame
<1>3. ASSUME NEW t \in Thread, CloseLock(t) \/ ClosePrivacy(t)
      PROVE  AdmittedOK'
  <2>1. /\ UNCHANGED <<workload, holders, unpriced, via, spared>> /\ OnlyOf(t)
        /\ op'[t].todo = op[t].todo /\ op'[t].next = op[t].next /\ op'[t].dev = op[t].dev
        /\ \/ op[t].pc = "closeLock"
           \/ op[t].pc = "closePrivacy" /\ op'[t].pc = "closeHost"
    BY <1>3, ClosePrivacyType, CloseLockType DEF CloseLock, ClosePrivacy, At, history
  <2>2. t \in Process => op[t].pc # "closeLock"
    BY AtProcess DEF ProcessOK, Opening, Closing
  <2>. QED  BY <2>1, <2>2, AdmittedFrame DEF Pending, Closing
<1>4. ASSUME NEW t \in Thread, CloseDevice(t) \/ CloseHost(t)
      PROVE  AdmittedOK'
  BY <1>4, AdmittedOfClosing, AdmittedOfClosed
<1>5. ASSUME NEW t \in Thread, t \notin Process, OnlyOf(t), UNCHANGED <<workload, holders, unpriced, via, spared>>
      PROVE  AdmittedOK'
  BY <1>5, AdmittedFrame
<1>6. CASE RemoveNext \/ (\E c \in Camera : CameraFails(c)) \/ HostStops
  <2>1. UNCHANGED <<workload, holders, unpriced, via, spared>>
    BY <1>6 DEF RemoveNext, CameraFails, HostStops, history
  <2>2. OnlyOf(HostThread)
    BY <1>6, RemoveNextType, CameraFailsType, HostStopsType
  <2>. QED  BY <1>5, <2>1, <2>2, ThreadKinds
<1>7. CASE (\E p \in Process : PermStateChange(p)) \/ PermDisablePolicy
  <2>1. PICK devices \in Seq(Device) : CallbackCloses(devices)
    <3>1. holders \in Seq(Device)
      BY DEF TypeOK
    <3>. QED  BY <1>7, <3>1, HoldersType DEF PermStateChange, PermDisablePolicy
  <2>2. OnlyOf(Watcher) /\ UNCHANGED <<workload, holders, unpriced, via, spared>>
    BY <2>1, CallbackType DEF CallbackCloses, history
  <2>. QED  BY <1>5, <2>2, ThreadKinds
<1>8. CASE HostStarts \/ HostDies \/ UNCHANGED vars
  <2>1. UNCHANGED <<workload, op, holders, unpriced, via, spared>>
    BY <1>8 DEF HostStarts, HostDies, vars, state, history
  <2>2. OnlyOf(HostThread)
    BY <2>1 DEF OnlyOf
  <2>. QED  BY <1>5, <2>1, <2>2, ThreadKinds
<1>. QED  BY <1>1, <1>2, <1>3, <1>4, <1>6, <1>7, <1>8, AdmittedOfVerdict, AdmittedOfAdd,
             AdmittedOfHostDied
          DEF Next, Step, OpenStep, CloseStep, HostStep

AdmittedInv == DevicesInv /\ (~ overlap => AdmittedOK)

LEMMA AdmittedInit == Init => AdmittedInv
<1>. SUFFICES ASSUME Init
              PROVE  AdmittedInv
  OBVIOUS
<1>1. holders = <<>> /\ DOMAIN holders = {} /\ Len(holders) = 0
  BY DEF Init
<1>2. \A t \in Process : ~ Pending(t)
  BY IdleIs, ThreadKinds DEF Init, Pending, Closing
<1>. DEFINE sum == [k \in 0 .. 0 |-> 0]
<1>3. sum \in [0 .. 0 -> Int] /\ sum[0] = 0
  OBVIOUS
<1>. HIDE DEF sum
<1>4. CostsOK
  BY <1>1, <1>3 DEF CostsOK, Sums
<1>5. PairsOK
  BY <1>1 DEF PairsOK
<1>. QED  BY <1>2, <1>4, <1>5, DevicesInit DEF AdmittedInv, AdmittedOK

LEMMA AdmittedInductive == AdmittedInv /\ [Next]_vars => AdmittedInv'
BY DevicesInductive, OverlapStays, AdmittedStep DEF AdmittedInv, DevicesInv

\* Two cameras whose conflict the HDI told are open only if the verdict on the later one left
\* the earlier one knowingly, whatever else was evicted, closed or lost before it was added,
\* and although AddDevice records a holder whose conflicts it could not ask for.
THEOREM ConflictsAreSpared == Spec => []ConflictFree
<1>1. Spec => []AdmittedInv
  BY AdmittedInit, AdmittedInductive, PTL DEF Spec
<1>2. AdmittedInv => ConflictFree
  BY DEF AdmittedInv, AdmittedOK, PairsOK, ConflictFree
<1>. QED  BY <1>1, <1>2, PTL

\* As long as each camera was admitted by its cost, what they are recorded to cost together
\* is within the limit, although each verdict is about the holders it saw and others close
\* meanwhile; AddDevice records no cost for a holder while the HDI service is away.
THEOREM WithinLimit == Spec => []CostWithinLimit
<1>1. Spec => []AdmittedInv
  BY AdmittedInit, AdmittedInductive, PTL DEF Spec
<1>2. AdmittedInv => CostWithinLimit
  <2>. SUFFICES ASSUME TypeOK, CostsOK, \A d \in ToSet(holders) : via[d] = "cost"
                PROVE  TotalCost <= MaxCost
    BY DEF AdmittedInv, AdmittedOK, DevicesInv, TypedInv, CostWithinLimit
  <2>1. PICK sum : /\ Sums(sum, holders, {})
                   /\ \A k \in 1 .. Len(holders) : via[holders[k]] = "cost" => sum[k] <= MaxCost
    BY DEF CostsOK
  <2>2. holders \in Seq(Device) /\ Len(holders) \in Nat /\ DOMAIN holders = 1 .. Len(holders)
    BY DEF TypeOK
  <2>3. PICK sum2 : Sums(sum2, holders, {}) /\ sum2[Len(holders)] = TotalCost
    BY <2>2, CostOfSums DEF TotalCost
  <2>4. \A k \in 0 .. Len(holders) : sum[k] = sum2[k]
    BY <2>1, <2>2, <2>3, SumsAgree
  <2>5. Len(holders) \in 0 .. Len(holders) /\ (Len(holders) = 0 \/ Len(holders) \in 1 .. Len(holders))
    BY <2>2
  <2>6. CASE Len(holders) = 0
    BY <2>3, <2>6 DEF Sums, MaxCost
  <2>7. CASE Len(holders) \in 1 .. Len(holders)
    <3>1. \A i \in DOMAIN holders : holders[i] \in ToSet(holders)
      BY Zenon DEF ToSet
    <3>. QED  BY <2>1, <2>2, <2>3, <2>4, <2>5, <2>7, <3>1
  <2>. QED  BY <2>5, <2>6, <2>7
<1>. QED  BY <1>1, <1>2, PTL
=====
