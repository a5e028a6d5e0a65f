----------------------- MODULE CaptureSession_proofs -----------------------
(***************************************************************************)
(* For every number of threads, sessions, devices and streams, every limit *)
(* of the group, and every order of calls, closes, preemptions and deaths. *)
(***************************************************************************)
EXTENDS CaptureSession, TLAPS, FiniteSetTheorems, SequenceTheorems, WellFoundedInduction

-----------------------------------------------------------------------------
(* Sequences: the group, the sessions to be released, the devices to be closed. *)

LEMMA Least ==
  ASSUME NEW T, T \subseteq Nat, T # {}
  PROVE  \E n \in T : \A m \in T : n <= m
<1>1. \E x \in T : \A y \in T : ~ (<<y, x>> \in OpToRel(<, Nat))
  BY NatLessThanWellFounded, WFMin
<1>2. \A x \in T, y \in T : y < x => <<y, x>> \in OpToRel(<, Nat)
  BY DEF OpToRel
<1>3. \E x \in T : \A y \in T : ~ (y < x)
  BY <1>1, <1>2, Zenon
<1>4. \A x \in T, y \in T : y < x \/ x <= y
  OBVIOUS
<1>. QED  BY <1>3, <1>4

LEMMA MinIsLeast ==
  ASSUME NEW T, T \subseteq Nat, T # {}
  PROVE  Min(T) \in T /\ \A m \in T : Min(T) <= m
<1>1. \E n \in T : \A m \in T : n <= m
  BY Least
<1>. QED  BY <1>1 DEF Min

LEMMA SetOfAppend ==
  ASSUME NEW S, NEW s \in Seq(S), NEW e \in S
  PROVE  \A x : x \in ToSet(Append(s, e)) <=> x \in ToSet(s) \/ x = e
<1>1. /\ Append(s, e) \in Seq(S) /\ Len(Append(s, e)) = Len(s) + 1
      /\ \A i \in 1 .. Len(s) : Append(s, e)[i] = s[i]
      /\ Append(s, e)[Len(s) + 1] = e
  BY AppendProperties
<1>2. DOMAIN Append(s, e) = 1 .. Len(s) + 1 /\ DOMAIN s = 1 .. Len(s) /\ Len(s) \in Nat
  BY <1>1
<1>3. \A x : x \in ToSet(Append(s, e)) <=> \E i \in 1 .. Len(s) + 1 : x = Append(s, e)[i]
  BY <1>2 DEF ToSet
<1>4. \A x : x \in ToSet(s) <=> \E i \in 1 .. Len(s) : x = s[i]
  BY <1>2 DEF ToSet
<1>5. \A i \in 1 .. Len(s) + 1 : i \in 1 .. Len(s) \/ i = Len(s) + 1
  BY <1>2
<1>6. \A i \in 1 .. Len(s) : i \in 1 .. Len(s) + 1
  BY <1>2
<1>7. Len(s) + 1 \in 1 .. Len(s) + 1
  BY <1>2
<1>8. ASSUME NEW x, x \in ToSet(Append(s, e))
      PROVE  x \in ToSet(s) \/ x = e
  <2>1. PICK i \in 1 .. Len(s) + 1 : x = Append(s, e)[i]
    BY <1>3, <1>8
  <2>2. CASE i \in 1 .. Len(s)
    BY <1>1, <1>4, <2>1, <2>2
  <2>3. CASE i = Len(s) + 1
    BY <1>1, <2>1, <2>3
  <2>. QED  BY <1>5, <2>2, <2>3
<1>9. ASSUME NEW x, x \in ToSet(s)
      PROVE  x \in ToSet(Append(s, e))
  <2>1. PICK i \in 1 .. Len(s) : x = s[i]
    BY <1>4, <1>9
  <2>. QED  BY <1>1, <1>3, <1>6, <2>1
<1>10. e \in ToSet(Append(s, e))
  BY <1>1, <1>3, <1>7
<1>. QED  BY <1>8, <1>9, <1>10

LEMMA SetOfTail ==
  ASSUME NEW S, NEW s \in Seq(S), s # <<>>
  PROVE  /\ Head(s) \in ToSet(s)
         /\ \A x : x \in ToSet(s) <=> x = Head(s) \/ x \in ToSet(Tail(s))
<1>1. Len(s) \in Nat /\ Len(s) # 0 /\ DOMAIN s = 1 .. Len(s) /\ Head(s) = s[1]
  BY EmptySeq
<1>2. /\ Tail(s) \in Seq(S) /\ Len(Tail(s)) = Len(s) - 1
      /\ \A i \in 1 .. Len(Tail(s)) : Tail(s)[i] = s[i + 1]
  BY HeadTailProperties
<1>3. DOMAIN Tail(s) = 1 .. Len(s) - 1
  BY <1>2
<1>4. \A x : x \in ToSet(s) <=> \E i \in 1 .. Len(s) : x = s[i]
  BY <1>1 DEF ToSet
<1>5. \A x : x \in ToSet(Tail(s)) <=> \E i \in 1 .. Len(s) - 1 : x = Tail(s)[i]
  BY <1>3 DEF ToSet
<1>6. ASSUME NEW i \in 1 .. Len(s)
      PROVE  s[i] = Head(s) \/ s[i] \in ToSet(Tail(s))
  <2>1. CASE i = 1
    BY <1>1, <2>1
  <2>2. CASE i # 1
    <3>1. i - 1 \in 1 .. Len(s) - 1 /\ (i - 1) + 1 = i
      BY <1>1, <2>2
    <3>. QED  BY <1>2, <1>5, <3>1
  <2>. QED  BY <2>1, <2>2
<1>7. ASSUME NEW i \in 1 .. Len(s) - 1
      PROVE  Tail(s)[i] \in ToSet(s)
  <2>1. i + 1 \in 1 .. Len(s)
    BY <1>1
  <2>. QED  BY <1>2, <1>4, <2>1
<1>8. 1 \in 1 .. Len(s)
  BY <1>1
<1>. QED  BY <1>1, <1>4, <1>5, <1>6, <1>7, <1>8, Zenon

LEMMA RemoveAtIs ==
  ASSUME NEW S, NEW s \in Seq(S), NEW i \in 1 .. Len(s)
  PROVE  /\ RemoveAt(s, i) \in Seq(S)
         /\ Len(RemoveAt(s, i)) = Len(s) - 1
         /\ \A k \in 1 .. Len(s) - 1 : RemoveAt(s, i)[k] = IF k < i THEN s[k] ELSE s[k + 1]
<1>. DEFINE a == SubSeq(s, 1, i - 1)  b == SubSeq(s, i + 1, Len(s))
<1>1. Len(s) \in Nat /\ i \in Nat /\ i >= 1 /\ i <= Len(s) /\ \A k \in 1 .. Len(s) : s[k] \in S
  OBVIOUS
<1>2. a \in Seq(S) /\ Len(a) = i - 1 /\ \A k \in 1 .. i - 1 : a[k] = s[k]
  <2>1. 1 \in Int /\ i - 1 \in Int /\ \A k \in 1 .. i - 1 : s[k] \in S
    BY <1>1
  <2>2. /\ a \in Seq(S)
        /\ Len(a) = IF 1 <= i - 1 THEN (i - 1) - 1 + 1 ELSE 0
        /\ \A k \in 1 .. (i - 1) - 1 + 1 : a[k] = s[1 + k - 1]
    BY <2>1, SubSeqProperties
  <2>. HIDE DEF a
  <2>. QED  BY <1>1, <2>2
<1>3. b \in Seq(S) /\ Len(b) = Len(s) - i /\ \A k \in 1 .. Len(s) - i : b[k] = s[i + k]
  <2>1. i + 1 \in Int /\ Len(s) \in Int /\ \A k \in i + 1 .. Len(s) : s[k] \in S
    BY <1>1
  <2>2. /\ b \in Seq(S)
        /\ Len(b) = IF i + 1 <= Len(s) THEN Len(s) - (i + 1) + 1 ELSE 0
        /\ \A k \in 1 .. Len(s) - (i + 1) + 1 : b[k] = s[(i + 1) + k - 1]
    BY <2>1, SubSeqProperties
  <2>. HIDE DEF b
  <2>3. \A k \in 1 .. Len(s) - i : k \in 1 .. Len(s) - (i + 1) + 1 /\ (i + 1) + k - 1 = i + k
    BY <1>1
  <2>. QED  BY <1>1, <2>2, <2>3
<1>4. RemoveAt(s, i) = a \o b
  BY DEF RemoveAt
<1>. HIDE DEF a, b
<1>5. /\ a \o b \in Seq(S)
      /\ Len(a \o b) = Len(a) + Len(b)
      /\ \A k \in 1 .. Len(a) + Len(b) : (a \o b)[k] = IF k <= Len(a) THEN a[k] ELSE b[k - Len(a)]
  BY <1>2, <1>3, ConcatProperties
<1>6. ASSUME NEW k \in 1 .. Len(s) - 1
      PROVE  (a \o b)[k] = IF k < i THEN s[k] ELSE s[k + 1]
  <2>1. (a \o b)[k] = IF k <= Len(a) THEN a[k] ELSE b[k - Len(a)]
    BY <1>1, <1>2, <1>3, <1>5
  <2>2. CASE k < i
    BY <1>1, <1>2, <2>1, <2>2
  <2>3. CASE ~ (k < i)
    <3>1. k - (i - 1) \in 1 .. Len(s) - i /\ i + (k - (i - 1)) = k + 1
      BY <1>1, <2>3
    <3>. QED  BY <1>1, <1>2, <1>3, <2>1, <2>3, <3>1
  <2>. QED  BY <2>2, <2>3
<1>. QED  BY <1>1, <1>2, <1>3, <1>4, <1>5, <1>6

LEMMA SetOfRemoved ==
  ASSUME NEW S, NEW s \in Seq(S), NEW n \in 1 .. Len(s), \A i, j \in DOMAIN s : s[i] = s[j] => i = j
  PROVE  LET r == RemoveAt(s, n)
         IN  /\ \A x : x \in ToSet(r) <=> x \in ToSet(s) /\ x # s[n]
             /\ \A i, j \in DOMAIN r : r[i] = r[j] => i = j
             /\ \A i, j \in DOMAIN r : i < j => \E k, l \in DOMAIN s : k < l /\ r[i] = s[k] /\ r[j] = s[l]
<1>. DEFINE r == RemoveAt(s, n)
            old(k) == IF k < n THEN k ELSE k + 1
<1>1. /\ r \in Seq(S) /\ Len(r) = Len(s) - 1
      /\ \A k \in 1 .. Len(s) - 1 : r[k] = IF k < n THEN s[k] ELSE s[k + 1]
  BY RemoveAtIs
<1>2. Len(s) \in Nat /\ DOMAIN s = 1 .. Len(s) /\ DOMAIN r = 1 .. Len(s) - 1 /\ n \in Nat
  BY <1>1
<1>. HIDE DEF r
<1>3. \A k \in DOMAIN r : old(k) \in DOMAIN s /\ old(k) # n /\ r[k] = s[old(k)]
  BY <1>1, <1>2
<1>4. \A k, l \in DOMAIN r : (k < l => old(k) < old(l)) /\ (old(k) = old(l) => k = l)
  BY <1>2
<1>5. ASSUME NEW k \in DOMAIN s, k # n
      PROVE  \E l \in DOMAIN r : old(l) = k
  <2>1. CASE k < n
    BY <1>2, <2>1
  <2>2. CASE ~ (k < n)
    <3>1. k - 1 \in 1 .. Len(s) - 1 /\ ~ (k - 1 < n) /\ (k - 1) + 1 = k
      BY <1>2, <1>5, <2>2
    <3>. QED  BY <1>2, <3>1
  <2>. QED  BY <2>1, <2>2
<1>. HIDE DEF old
<1>6. ASSUME NEW x
      PROVE  x \in ToSet(r) <=> x \in ToSet(s) /\ x # s[n]
  <2>1. x \in ToSet(r) <=> \E k \in DOMAIN r : x = r[k]
    BY Zenon DEF ToSet
  <2>2. x \in ToSet(s) <=> \E k \in DOMAIN s : x = s[k]
    BY Zenon DEF ToSet
  <2>3. n \in DOMAIN s
    BY <1>2
  <2>. QED  BY <1>3, <1>5, <2>1, <2>2, <2>3, Zenon
<1>7. \A i, j \in DOMAIN r : r[i] = r[j] => i = j
  BY <1>3, <1>4, Zenon
<1>8. \A i, j \in DOMAIN r : i < j => \E k, l \in DOMAIN s : k < l /\ r[i] = s[k] /\ r[j] = s[l]
  BY <1>3, <1>4, Zenon
<1>. QED  BY <1>6, <1>7, <1>8, Zenon DEF r

\* The first occurrence is the only one of a list without repetitions.
LEMMA FirstRemoved ==
  ASSUME NEW S, NEW s \in Seq(S), IsInjective(s), NEW e
  PROVE  /\ RemoveFirst(s, e) \in Seq(S) /\ IsInjective(RemoveFirst(s, e))
         /\ Len(RemoveFirst(s, e)) <= Len(s)
         /\ \A x : x \in ToSet(RemoveFirst(s, e)) <=> x \in ToSet(s) /\ x # e
<1>1. DOMAIN s = 1 .. Len(s) /\ Len(s) \in Nat /\ \A i, j \in DOMAIN s : s[i] = s[j] => i = j
  BY DEF IsInjective
<1>2. CASE \E i \in 1 .. Len(s) : s[i] = e
  <2>. DEFINE here == {i \in 1 .. Len(s) : s[i] = e}
              n == Min(here)
              r == RemoveAt(s, n)
  <2>1. here # {} /\ here \subseteq Nat
    BY <1>2
  <2>2. RemoveFirst(s, e) = r
    BY <1>2, <2>1, Zenon DEF RemoveFirst, SelectInSeq
  <2>3. n \in here
    <3>. HIDE DEF here
    <3>. QED  BY <2>1, MinIsLeast
  <2>4. n \in 1 .. Len(s) /\ s[n] = e
    BY <2>3
  <2>. HIDE DEF n
  <2>5. r \in Seq(S) /\ Len(r) = Len(s) - 1
    BY <2>4, RemoveAtIs
  <2>6. /\ \A x : x \in ToSet(r) <=> x \in ToSet(s) /\ x # s[n]
        /\ \A i, j \in DOMAIN r : r[i] = r[j] => i = j
    BY <1>1, <2>4, SetOfRemoved
  <2>. HIDE DEF r
  <2>7. IsInjective(r) /\ Len(r) <= Len(s)
    BY <1>1, <2>5, <2>6 DEF IsInjective
  <2>. QED  BY <2>2, <2>4, <2>5, <2>6, <2>7
<1>3. CASE ~ \E i \in 1 .. Len(s) : s[i] = e
  <2>1. RemoveFirst(s, e) = s
    BY <1>3, Zenon DEF RemoveFirst
  <2>2. \A x \in ToSet(s) : x # e
    BY <1>1, <1>3 DEF ToSet
  <2>. QED  BY <1>1, <2>1, <2>2
<1>. QED  BY <1>2, <1>3

\* A list cut in two.
LEMMA Cut ==
  ASSUME NEW S, NEW s \in Seq(S), NEW n \in Nat, n <= Len(s)
  PROVE  LET a == SubSeq(s, 1, n)  b == SubSeq(s, n + 1, Len(s))
         IN  /\ a \in Seq(S) /\ b \in Seq(S) /\ Len(b) = Len(s) - n
             /\ \A x : x \in ToSet(s) <=> x \in ToSet(a) \/ x \in ToSet(b)
             /\ IsInjective(s) => IsInjective(b)
<1>. DEFINE a == SubSeq(s, 1, n)  b == SubSeq(s, n + 1, Len(s))
<1>1. Len(s) \in Nat /\ \A k \in 1 .. Len(s) : s[k] \in S
  OBVIOUS
<1>2. a \in Seq(S) /\ Len(a) = n /\ \A k \in 1 .. n : a[k] = s[k]
  <2>1. 1 \in Int /\ n \in Int /\ \A k \in 1 .. n : s[k] \in S
    BY <1>1
  <2>2. /\ a \in Seq(S)
        /\ Len(a) = IF 1 <= n THEN n - 1 + 1 ELSE 0
        /\ \A k \in 1 .. n - 1 + 1 : a[k] = s[1 + k - 1]
    BY <2>1, SubSeqProperties
  <2>. HIDE DEF a
  <2>. QED  BY <1>1, <2>2
<1>3. b \in Seq(S) /\ Len(b) = Len(s) - n /\ \A k \in 1 .. Len(s) - n : b[k] = s[n + k]
  <2>1. n + 1 \in Int /\ Len(s) \in Int /\ \A k \in n + 1 .. Len(s) : s[k] \in S
    BY <1>1
  <2>2. /\ b \in Seq(S)
        /\ Len(b) = IF n + 1 <= Len(s) THEN Len(s) - (n + 1) + 1 ELSE 0
        /\ \A k \in 1 .. Len(s) - (n + 1) + 1 : b[k] = s[(n + 1) + k - 1]
    BY <2>1, SubSeqProperties
  <2>. HIDE DEF b
  <2>3. \A k \in 1 .. Len(s) - n : k \in 1 .. Len(s) - (n + 1) + 1 /\ (n + 1) + k - 1 = n + k
    BY <1>1
  <2>. QED  BY <1>1, <2>2, <2>3
<1>. HIDE DEF a, b
<1>4. DOMAIN s = 1 .. Len(s) /\ DOMAIN a = 1 .. n /\ DOMAIN b = 1 .. Len(s) - n
  BY <1>1, <1>2, <1>3
<1>5. /\ \A x : x \in ToSet(s) <=> \E k \in 1 .. Len(s) : x = s[k]
      /\ \A x : x \in ToSet(a) <=> \E k \in 1 .. n : x = a[k]
      /\ \A x : x \in ToSet(b) <=> \E k \in 1 .. Len(s) - n : x = b[k]
  BY <1>4 DEF ToSet
<1>6. ASSUME NEW k \in 1 .. Len(s)
      PROVE  s[k] \in ToSet(a) \/ s[k] \in ToSet(b)
  <2>1. CASE k <= n
    BY <1>2, <1>5, <2>1
  <2>2. CASE ~ (k <= n)
    <3>1. k - n \in 1 .. Len(s) - n /\ n + (k - n) = k
      BY <1>1, <2>2
    <3>. QED  BY <1>3, <1>5, <3>1
  <2>. QED  BY <2>1, <2>2
<1>7. /\ \A k \in 1 .. n : k \in 1 .. Len(s) /\ a[k] = s[k]
      /\ \A k \in 1 .. Len(s) - n : n + k \in 1 .. Len(s) /\ b[k] = s[n + k]
  BY <1>1, <1>2, <1>3
<1>8. \A x : x \in ToSet(s) <=> x \in ToSet(a) \/ x \in ToSet(b)
  <2>1. \A x : x \in ToSet(s) => x \in ToSet(a) \/ x \in ToSet(b)
    BY <1>5, <1>6, Zenon
  <2>2. \A x : x \in ToSet(a) => x \in ToSet(s)
    BY <1>5, <1>7
  <2>3. \A x : x \in ToSet(b) => x \in ToSet(s)
    BY <1>5, <1>7
  <2>. QED  BY <2>1, <2>2, <2>3
<1>9. ASSUME IsInjective(s), NEW i \in DOMAIN b, NEW j \in DOMAIN b, b[i] = b[j]
      PROVE  i = j
  <2>1. s[n + i] = s[n + j] /\ n + i \in DOMAIN s /\ n + j \in DOMAIN s
    BY <1>4, <1>7, <1>9
  <2>2. n + i = n + j
    BY <1>9, <2>1 DEF IsInjective
  <2>3. i \in Nat /\ j \in Nat
    BY <1>4
  <2>. QED  BY <2>2, <2>3
<1>10. IsInjective(s) => IsInjective(b)
  BY <1>9, Zenon DEF IsInjective
<1>. QED  BY <1>2, <1>3, <1>8, <1>10, Zenon DEF a, b

LEMMA SetOfEmpty == \A x : x \notin ToSet(<<>>)
BY DEF ToSet

LEMMA EmptyInjective == IsInjective(<<>>)
BY DEF IsInjective

\* The new session is in the list once.
LEMMA InjectiveAppend ==
  ASSUME NEW S, NEW s \in Seq(S), IsInjective(s), NEW e \in S, e \notin ToSet(s)
  PROVE  IsInjective(Append(s, e))
<1>1. /\ Append(s, e) \in Seq(S) /\ Len(Append(s, e)) = Len(s) + 1
      /\ \A i \in 1 .. Len(s) : Append(s, e)[i] = s[i]
      /\ Append(s, e)[Len(s) + 1] = e
  BY AppendProperties
<1>2. DOMAIN Append(s, e) = 1 .. Len(s) + 1 /\ DOMAIN s = 1 .. Len(s) /\ Len(s) \in Nat
  BY <1>1
<1>3. \A i \in 1 .. Len(s) : s[i] # e
  BY <1>2 DEF ToSet
<1>4. \A i, j \in 1 .. Len(s) : s[i] = s[j] => i = j
  BY <1>2 DEF IsInjective
<1>5. \A i \in 1 .. Len(s) + 1 : i \in 1 .. Len(s) \/ i = Len(s) + 1
  BY <1>2
<1>. QED  BY <1>1, <1>2, <1>3, <1>4, <1>5 DEF IsInjective

\* The devices to be closed, in some order.
LEMMA SetAsSeq ==
  ASSUME NEW S, IsFiniteSet(S)
  PROVE  SetToSeq(S) \in Seq(S) /\ \A x \in S : x \in ToSet(SetToSeq(S))
<1>. DEFINE n == Cardinality(S)
<1>1. n \in Nat /\ ExistsBijection(1 .. n, S)
  BY FS_CardinalityType
<1>2. \E f \in [1 .. n -> S] : IsInjective(f)
  BY <1>1 DEF ExistsBijection, Bijection, Injection, IsInjective
<1>3. PICK f : f \in [1 .. n -> S] /\ IsInjective(f) /\ f = SetToSeq(S)
  BY <1>2 DEF SetToSeq
<1>4. f \in Seq(S) /\ DOMAIN f = 1 .. n
  BY <1>1, <1>3
<1>5. f \in Surjection(1 .. n, S)
  <2>1. IsFiniteSet(1 .. n) /\ Cardinality(1 .. n) = n
    BY <1>1, FS_Interval
  <2>2. f \in Injection(1 .. n, S)
    BY <1>3 DEF Injection, IsInjective
  <2>. QED  BY <2>1, <2>2, FS_Injection
<1>6. \A x \in S : \E i \in 1 .. n : f[i] = x
  BY <1>5 DEF Surjection
<1>7. \A x \in S : x \in ToSet(f)
  BY <1>4, <1>6 DEF ToSet
<1>. QED  BY <1>3, <1>4, <1>7
-----------------------------------------------------------------------------
(***************************************************************************)
(* What each thread may be doing.  The evictor closes one device at a time *)
(* outside every session; the thread told of the death releases the        *)
(* sessions of the group and closes devices; a client's thread releases    *)
(* other sessions than its own only while it creates one.                  *)
(***************************************************************************)
Closing == {"closeLock", "listener", "operatorRelease", "hdiClose"}
Hold == {"link", "create", "finish"} \cup Closing
Doing == [pc : Places, s : Session \cup {None}, dev : Device \cup {NoDevice},
          ways : SUBSET Stream, todo : Seq(Session), devs : Seq(Device),
          next : {"idle", "created", "dropped", "removeGroup", "operators", "done"}]

FitsEvictor(o) ==
  /\ o.pc \in {"idle", "listener", "operatorRelease", "hdiClose"}
  /\ o.s = None /\ o.todo = <<>> /\ o.devs = <<>> /\ o.next = "idle"

FitsReaper(o, living) ==
  /\ o.pc \in {"idle", "release", "finish", "removeGroup", "operators", "done"} \cup Closing
  /\ o.next \in {"idle", "removeGroup", "operators", "done"}
  /\ o.pc \in {"release", "finish"} \cup Closing => o.next # "idle"
  /\ o.pc \in {"removeGroup", "operators", "done"} => o.next = "idle"
  /\ o.pc # "idle" => ~ living

FitsClient(o) ==
  /\ o.pc \notin {"removeGroup", "operators", "done"}
  /\ o.devs = <<>>
  /\ o.next \in {"idle", "created", "dropped"}
  /\ o.todo # <<>> => o.next = "created"
  /\ o.next = "dropped" => o.s \in Session /\ o.pc \in {"release", "finish"} \cup Closing

Fits(t, o, living) ==
  /\ o.pc = "idle" => o = Idle
  /\ o.pc \in {"overflow", "removeGroup", "operators", "done"} =>
       o.s = None /\ o.todo = <<>> /\ o.devs = <<>>
  /\ o.pc \in {"begin", "addOutput", "link", "create", "stop", "release", "finish"} => o.s \in Session
  /\ o.pc \in Closing => o.dev \in Device
  /\ o.pc \in {"begin", "addOutput", "link", "create"} => o.next = "idle" /\ o.todo = <<>>
  /\ o.pc \in {"overflow", "stop"} => o.next = "created"
  /\ o.pc = "create" => o.ways = {}
  /\ t = Evictor => FitsEvictor(o)
  /\ t = Reaper => FitsReaper(o, living)
  /\ t \in Client => FitsClient(o)

ThreadsOK == \A t \in Thread : Fits(t, op[t], alive)

\* Only thread t moves.
OnlyOf(t) == \A x \in Thread : x # t => op'[x] = op[x]

LEMMA OpType ==
  ASSUME TypeOK
  PROVE  op \in [Thread -> Doing]
BY DEF TypeOK, Doing

LEMMA IdleIs ==
  /\ Idle \in Doing /\ Idle.pc = "idle" /\ Idle.s = None /\ Idle.dev = NoDevice /\ Idle.ways = {}
  /\ Idle.todo = <<>> /\ Idle.devs = <<>> /\ Idle.next = "idle"
<1>1. <<>> \in Seq(Session) /\ <<>> \in Seq(Device)
  BY EmptySeq
<1>. QED  BY <1>1 DEF Idle, Doing, Places

LEMMA IdleFits ==
  ASSUME NEW t \in Thread, NEW living \in BOOLEAN
  PROVE  Fits(t, Idle, living)
BY IdleIs DEF Fits, FitsEvictor, FitsReaper, FitsClient, Closing

\* A thread that moves as it may.
LEMMA Replaced ==
  ASSUME TypeOK, NEW t \in Thread, NEW r \in Doing, op' = [op EXCEPT ![t] = r]
  PROVE  op' \in [Thread -> Doing] /\ OnlyOf(t) /\ op'[t] = r
BY OpType DEF OnlyOf

LEMMA Moved ==
  ASSUME TypeOK, ThreadsOK, NEW t \in Thread, NEW r \in Doing, op' = [op EXCEPT ![t] = r], UNCHANGED alive,
         Fits(t, r, alive)
  PROVE  op' \in [Thread -> Doing] /\ OnlyOf(t) /\ op'[t] = r /\ ThreadsOK'
<1>1. op' \in [Thread -> Doing] /\ OnlyOf(t) /\ op'[t] = r
  BY Replaced
<1>2. ASSUME NEW x \in Thread
      PROVE  Fits(x, op'[x], alive')
  <2>1. CASE x = t
    BY <1>1, <2>1
  <2>2. CASE x # t
    <3>1. op'[x] = op[x] /\ alive' = alive
      BY <1>1, <2>2 DEF OnlyOf
    <3>. QED  BY <3>1 DEF ThreadsOK
  <2>. QED  BY <2>1, <2>2
<1>. QED  BY <1>1, <1>2 DEF ThreadsOK

\* Another place of the same call.
SameBut(o, r) == r.s = o.s /\ r.dev = o.dev /\ r.todo = o.todo /\ r.devs = o.devs /\ r.next = o.next

LEMMA Goes ==
  ASSUME TypeOK, ThreadsOK, NEW t \in Thread, NEW pc \in Places, GoTo(t, pc), UNCHANGED alive,
         \A r \in Doing : r.pc = pc /\ SameBut(op[t], r) /\ r.ways = op[t].ways => Fits(t, r, alive)
  PROVE  /\ op' \in [Thread -> Doing] /\ OnlyOf(t) /\ ThreadsOK'
         /\ op'[t].pc = pc /\ SameBut(op[t], op'[t]) /\ op'[t].ways = op[t].ways
<1>. DEFINE r == [op[t] EXCEPT !.pc = pc]
<1>1. op[t] \in Doing
  BY OpType
<1>2. r \in Doing /\ r.pc = pc /\ SameBut(op[t], r) /\ r.ways = op[t].ways
  BY <1>1 DEF Doing, SameBut
<1>3. op' = [op EXCEPT ![t] = r]
  BY DEF GoTo
<1>. HIDE DEF r
<1>4. op' \in [Thread -> Doing] /\ OnlyOf(t) /\ op'[t] = r /\ ThreadsOK'
  BY <1>2, <1>3, Moved
<1>. QED  BY <1>2, <1>4

\* What a thread that goes on has left to do.
Ready(t, o, living) ==
  /\ t = Evictor => o.todo = <<>> /\ o.devs = <<>> /\ o.next = "idle"
  /\ t = Reaper => o.next \in {"removeGroup", "operators", "done"} /\ ~ living
  /\ t \in Client => /\ o.devs = <<>> /\ o.next \in {"idle", "created", "dropped"}
                     /\ o.todo # <<>> => o.next = "created"

\* It takes the next session, or the next device, or is done with its call.
Resumed(t, o, r) ==
  \/ /\ o.todo # <<>> /\ r.pc = (IF t = Reaper THEN "release" ELSE "stop")
     /\ r.s = Head(o.todo) /\ r.todo = Tail(o.todo) /\ r.devs = o.devs /\ r.next = o.next
  \/ /\ o.todo = <<>> /\ o.devs # <<>> /\ r.pc = "closeLock"
     /\ r.s = None /\ r.dev = Head(o.devs) /\ r.devs = Tail(o.devs) /\ r.todo = <<>> /\ r.next = o.next
  \/ /\ o.todo = <<>> /\ o.devs = <<>> /\ r.pc = (IF o.next \in {"created", "dropped"} THEN "idle" ELSE o.next)
     /\ r.s = None /\ r.todo = <<>> /\ r.devs = <<>> /\ r.next = "idle"

LEMMA ResumeIs ==
  ASSUME NEW t \in Thread, NEW o \in Doing, NEW living \in BOOLEAN, Ready(t, o, living)
  PROVE  Resume(t, o) \in Doing /\ Resumed(t, o, Resume(t, o)) /\ Fits(t, Resume(t, o), living)
<1>. DEFINE r == Resume(t, o)
<1>1. /\ o.todo \in Seq(Session) /\ o.devs \in Seq(Device)
      /\ o.next \in {"idle", "created", "dropped", "removeGroup", "operators", "done"}
      /\ t \in Client \/ t = Evictor \/ t = Reaper
      /\ t = Reaper => t # Evictor /\ t \notin Client
      /\ t = Evictor => t \notin Client
  BY SessionsAssumption DEF Doing, Thread
<1>2. CASE o.todo # <<>>
  <2>. DEFINE pc == IF t = Reaper THEN "release" ELSE "stop"
  <2>1. Head(o.todo) \in Session /\ Tail(o.todo) \in Seq(Session) /\ pc \in Places
    BY <1>1, <1>2, HeadTailProperties DEF Places
  <2>2. r = [o EXCEPT !.pc = pc, !.s = Head(o.todo), !.todo = Tail(o.todo)]
    BY <1>2 DEF Resume
  <2>3. /\ r \in Doing /\ r.pc = pc /\ r.s = Head(o.todo) /\ r.todo = Tail(o.todo)
        /\ r.devs = o.devs /\ r.next = o.next
    <3>. HIDE DEF pc
    <3>. QED  BY <2>1, <2>2 DEF Doing
  <2>. HIDE DEF r
  <2>4. Resumed(t, o, r)
    BY <1>2, <2>3 DEF Resumed
  <2>5. Fits(t, r, living)
    <3>1. t # Evictor /\ r.pc \in {"release", "stop"} /\ r.s \in Session
      BY <1>2, <2>1, <2>3 DEF Ready
    <3>2. CASE t = Reaper
      <4>1. r.pc = "release" /\ t \notin Client /\ r.next \in {"removeGroup", "operators", "done"} /\ ~ living
        BY <1>1, <2>3, <3>2 DEF Ready
      <4>. QED  BY <3>1, <4>1 DEF Fits, FitsReaper, Closing
    <3>3. CASE t \in Client
      <4>1. t # Reaper /\ r.pc = "stop" /\ r.next = "created" /\ r.devs = <<>>
        BY <1>1, <1>2, <2>3, <3>3 DEF Ready
      <4>. QED  BY <3>1, <4>1 DEF Fits, FitsClient, Closing
    <3>. QED  BY <1>1, <3>1, <3>2, <3>3
  <2>. QED  BY <2>3, <2>4, <2>5 DEF r
<1>3. CASE o.todo = <<>> /\ o.devs # <<>>
  <2>1. Head(o.devs) \in Device /\ Tail(o.devs) \in Seq(Device) /\ "closeLock" \in Places
    BY <1>1, <1>3, HeadTailProperties DEF Places
  <2>2. r = [o EXCEPT !.pc = "closeLock", !.s = None, !.dev = Head(o.devs), !.devs = Tail(o.devs)]
    BY <1>3 DEF Resume
  <2>3. /\ r \in Doing /\ r.pc = "closeLock" /\ r.s = None /\ r.dev = Head(o.devs)
        /\ r.todo = o.todo /\ r.devs = Tail(o.devs) /\ r.next = o.next
    BY <2>1, <2>2 DEF Doing
  <2>. HIDE DEF r
  <2>4. Resumed(t, o, r)
    BY <1>3, <2>3 DEF Resumed
  <2>5. t = Reaper
    BY <1>1, <1>3 DEF Ready
  <2>6. Fits(t, r, living)
    <3>1. /\ t # Evictor /\ t \notin Client /\ r.dev \in Device
          /\ r.next \in {"removeGroup", "operators", "done"} /\ ~ living
      BY <1>1, <2>1, <2>3, <2>5 DEF Ready
    <3>. QED  BY <2>3, <3>1 DEF Fits, FitsReaper, Closing
  <2>. QED  BY <2>3, <2>4, <2>6 DEF r
<1>4. CASE o.todo = <<>> /\ o.devs = <<>>
  <2>. DEFINE pc == IF o.next \in {"created", "dropped"} THEN "idle" ELSE o.next
  <2>1. pc \in Places
    BY <1>1 DEF Places
  <2>2. r = [Idle EXCEPT !.pc = pc]
    BY <1>4, Zenon DEF Resume
  <2>3. /\ r \in Doing /\ r.pc = pc /\ r.s = None /\ r.todo = <<>> /\ r.devs = <<>> /\ r.next = "idle"
        /\ pc = "idle" => r = Idle
    <3>. HIDE DEF pc
    <3>. QED  BY <2>1, <2>2, IdleIs DEF Doing, Idle
  <2>. HIDE DEF r
  <2>4. Resumed(t, o, r)
    BY <1>4, <2>3 DEF Resumed
  <2>5. Fits(t, r, living)
    <3>1. CASE t = Reaper
      <4>1. /\ t # Evictor /\ t \notin Client /\ r.pc \in {"removeGroup", "operators", "done"} /\ ~ living
        BY <1>1, <2>3, <3>1 DEF Ready
      <4>. QED  BY <2>3, <4>1 DEF Fits, FitsReaper, Closing
    <3>2. CASE t # Reaper
      <4>1. o.next \in {"idle", "created", "dropped"}
        BY <1>1, <3>2 DEF Ready
      <4>2. r = Idle
        BY <2>3, <4>1
      <4>. QED  BY <4>2, IdleFits
    <3>. QED  BY <3>1, <3>2
  <2>. QED  BY <2>3, <2>4, <2>5 DEF r
<1>. QED  BY <1>2, <1>3, <1>4

LEMMA Proceeds ==
  ASSUME TypeOK, ThreadsOK, NEW t \in Thread, op[t].pc \in {"release", "finish", "hdiClose"}, Proceed(t),
         UNCHANGED alive
  PROVE  op' \in [Thread -> Doing] /\ OnlyOf(t) /\ Resumed(t, op[t], op'[t]) /\ ThreadsOK'
<1>1. op[t] \in Doing /\ Fits(t, op[t], alive) /\ alive \in BOOLEAN
  BY OpType DEF ThreadsOK, TypeOK
<1>2. Ready(t, op[t], alive)
  BY <1>1 DEF Ready, Fits, FitsEvictor, FitsReaper, FitsClient, Closing
<1>3. Resume(t, op[t]) \in Doing /\ Resumed(t, op[t], Resume(t, op[t])) /\ Fits(t, Resume(t, op[t]), alive)
  BY <1>1, <1>2, ResumeIs
<1>4. op' = [op EXCEPT ![t] = Resume(t, op[t])]
  BY DEF Proceed
<1>. QED  BY <1>3, <1>4, Moved

\* A call of a client begins or ends.
LEMMA Idles ==
  ASSUME TypeOK, ThreadsOK, NEW t \in Thread, op' = [op EXCEPT ![t] = Idle], UNCHANGED alive
  PROVE  op' \in [Thread -> Doing] /\ OnlyOf(t) /\ op'[t] = Idle /\ ThreadsOK'
BY IdleIs, IdleFits, Moved DEF TypeOK
-----------------------------------------------------------------------------
(* Every operation keeps the types and the places of the threads. *)

SessionType == [st : States, input : Device \cup {NoDevice}, proxy : BOOLEAN]
OperatorType == [listed : BOOLEAN, hdi : Device \cup {NoDevice, Stale}, outputs : SUBSET Stream]
DeviceType == [open : BOOLEAN, listener : Session \cup {None}, callback : Session \cup {None}]
LinkType == [Stream -> Device \cup {NoDevice, Stale}]

\* The record of workload is one of those that SessionsAssumption allows.
LEMMA WorkloadIs ==
  ASSUME TypeOK
  PROVE  /\ workload.sessions \in 0 .. MaxSessions /\ workload.limit \in Nat \ {0}
         /\ workload.devices \subseteq Device /\ workload.threads \subseteq Client /\ MaxSessions \in Nat
<1>1. workload \in [sessions : 0..MaxSessions, limit : Nat \ {0}, devices : SUBSET Device,
                    threads : SUBSET Client,
                    calls : SUBSET {"begin", "addInput", "removeInput", "addOutput", "removeOutput",
                                    "commit", "start", "stop", "release", "close"},
                    actors : SUBSET {"eviction", "permission", "failure", "drop", "death"}]
  BY SessionsAssumption DEF TypeOK
<1>. QED  BY <1>1, SessionsAssumption

LEMMA OpKept ==
  ASSUME ThreadsOK, UNCHANGED <<op, alive>>
  PROVE  ThreadsOK'
BY DEF ThreadsOK

LEMMA Kinds ==
  ASSUME NEW t \in Thread
  PROVE  /\ t \in Client \/ t = Evictor \/ t = Reaper
         /\ t = Reaper => t # Evictor /\ t \notin Client
         /\ t = Evictor => t \notin Client
         /\ Reaper \in Thread /\ Evictor \in Thread /\ Client \subseteq Thread
BY SessionsAssumption DEF Thread

LEMMA ClientIs ==
  ASSUME NEW t \in Client
  PROVE  t \in Thread /\ t # Evictor /\ t # Reaper
BY SessionsAssumption DEF Thread

\* The types of the parts.
LEMMA Parts ==
  ASSUME TypeOK
  PROVE  /\ session \in [Session -> SessionType] /\ operator \in [Session -> OperatorType]
         /\ linked \in [Session -> LinkType] /\ device \in [Device -> DeviceType]
BY DEF TypeOK, SessionType, OperatorType, LinkType, DeviceType

LEMMA Fields ==
  ASSUME TypeOK, NEW s \in Session
  PROVE  /\ session[s] \in SessionType /\ operator[s] \in OperatorType /\ linked[s] \in LinkType
         /\ session[s].st \in States /\ session[s].input \in Device \cup {NoDevice}
         /\ session[s].proxy \in BOOLEAN
         /\ operator[s].listed \in BOOLEAN /\ operator[s].hdi \in Device \cup {NoDevice, Stale}
         /\ operator[s].outputs \in SUBSET Stream
BY DEF TypeOK, SessionType, OperatorType, LinkType

\* One field of one record.
LEMMA StateSet ==
  ASSUME TypeOK, NEW s \in Session, NEW st \in States
  PROVE  [session EXCEPT ![s].st = st] \in [Session -> SessionType]
<1>1. [session[s] EXCEPT !.st = st] \in SessionType
  BY Fields DEF SessionType
<1>2. [session EXCEPT ![s].st = st] = [session EXCEPT ![s] = [session[s] EXCEPT !.st = st]]
  OBVIOUS
<1>. QED  BY <1>1, <1>2, Parts

LEMMA InputSet ==
  ASSUME TypeOK, NEW s \in Session, NEW d \in Device \cup {NoDevice}
  PROVE  [session EXCEPT ![s].input = d] \in [Session -> SessionType]
<1>1. [session[s] EXCEPT !.input = d] \in SessionType
  BY Fields DEF SessionType
<1>2. [session EXCEPT ![s].input = d] = [session EXCEPT ![s] = [session[s] EXCEPT !.input = d]]
  OBVIOUS
<1>. QED  BY <1>1, <1>2, Parts

LEMMA ListenerSet ==
  ASSUME TypeOK, NEW d \in Device, NEW s \in Session \cup {None}
  PROVE  [device EXCEPT ![d].listener = s] \in [Device -> DeviceType]
<1>1. [device[d] EXCEPT !.listener = s] \in DeviceType
  BY Parts DEF DeviceType
<1>2. [device EXCEPT ![d].listener = s] = [device EXCEPT ![d] = [device[d] EXCEPT !.listener = s]]
  OBVIOUS
<1>. QED  BY <1>1, <1>2, Parts

LEMMA HdiSet ==
  ASSUME TypeOK, NEW s \in Session, NEW h \in Device \cup {NoDevice, Stale}
  PROVE  [operator EXCEPT ![s].hdi = h] \in [Session -> OperatorType]
<1>1. [operator[s] EXCEPT !.hdi = h] \in OperatorType
  BY Fields DEF OperatorType
<1>2. [operator EXCEPT ![s].hdi = h] = [operator EXCEPT ![s] = [operator[s] EXCEPT !.hdi = h]]
  OBVIOUS
<1>. QED  BY <1>1, <1>2, Parts

\* A place of a client's own call.
LEMMA ClientFits ==
  ASSUME NEW t \in Client, NEW o, NEW living,
         o.pc \in {"begin", "addOutput", "link", "create", "release", "listener"},
         o.pc # "listener" => o.s \in Session, o.pc = "listener" => o.dev \in Device,
         o.todo = <<>>, o.devs = <<>>, o.next = "idle", o.pc = "create" => o.ways = {}
  PROVE  Fits(t, o, living)
<1>1. t # Evictor /\ t # Reaper
  BY SessionsAssumption
<1>. QED  BY <1>1 DEF Fits, FitsClient, Closing

LEMMA NewInstanceType ==
  ASSUME TypeOK, ThreadsOK, NEW t \in Client, NewInstance(t)
  PROVE  /\ TypeOK' /\ ThreadsOK' /\ OnlyOf(t)
         /\ op'[t] = [Idle EXCEPT !.pc = "overflow", !.next = "created"]
<1>. DEFINE known == {k \in Session : session[k].st # "none"}
            s == 1 + Cardinality(known)
            r == [Idle EXCEPT !.pc = "overflow", !.next = "created"]
<1>1. t \in Thread /\ t # Evictor /\ t # Reaper
  BY ClientIs
<1>2. r \in Doing /\ r.pc = "overflow" /\ r.next = "created" /\ r.s = None /\ r.todo = <<>> /\ r.devs = <<>>
  BY IdleIs DEF Doing, Places
<1>. HIDE DEF r
<1>3. Fits(t, r, alive)
  BY <1>1, <1>2 DEF Fits, FitsClient, Closing
<1>4. op' = [op EXCEPT ![t] = r] /\ UNCHANGED alive
  BY DEF NewInstance, r
<1>5. op' \in [Thread -> Doing] /\ OnlyOf(t) /\ op'[t] = r /\ ThreadsOK'
  BY <1>1, <1>2, <1>3, <1>4, Moved
<1>6. s \in Session
  <2>1. Session = 1 .. MaxSessions /\ MaxSessions \in Nat /\ workload.sessions \in 0 .. MaxSessions
    BY WorkloadIs DEF Session
  <2>2. IsFiniteSet(Session)
    BY <2>1, FS_Interval
  <2>3. IsFiniteSet(known)
    BY <2>2, FS_Subset
  <2>4. Cardinality(known) \in Nat
    BY <2>3, FS_CardinalityType
  <2>5. s <= workload.sessions
    BY DEF NewInstance
  <2>. HIDE DEF known
  <2>. QED  BY <2>1, <2>4, <2>5
<1>7. /\ session' = [session EXCEPT ![s] = [st |-> "init", input |-> NoDevice, proxy |-> TRUE]]
      /\ operator' = [operator EXCEPT ![s].listed = TRUE]
      /\ group' = Append(group, s)
      /\ UNCHANGED <<workload, gate, linked, device, letGo, alive, shared, crossed, late, skipped, lost, inFlight>>
  BY DEF NewInstance, history
<1>. HIDE DEF s
<1>8. group' \in Seq(Session)
  BY <1>6, <1>7 DEF TypeOK
<1>9. session' \in [Session -> SessionType] /\ operator' \in [Session -> OperatorType]
  <2>1. [st |-> "init", input |-> NoDevice, proxy |-> TRUE] \in SessionType
    BY DEF SessionType, States
  <2>2. session' \in [Session -> SessionType]
    BY <1>6, <1>7, <2>1, Parts
  <2>3. [operator[s] EXCEPT !.listed = TRUE] \in OperatorType
    BY <1>6, Fields DEF OperatorType
  <2>4. operator' = [operator EXCEPT ![s] = [operator[s] EXCEPT !.listed = TRUE]]
    BY <1>7
  <2>5. operator' \in [Session -> OperatorType]
    BY <1>6, <2>3, <2>4, Parts
  <2>. QED  BY <2>2, <2>5
<1>. QED  BY <1>5, <1>7, <1>8, <1>9 DEF TypeOK, SessionType, OperatorType, Doing, r

LEMMA PreemptType ==
  ASSUME TypeOK, ThreadsOK, NEW t \in Thread, PreemptOverflowSessions(t)
  PROVE  /\ TypeOK' /\ ThreadsOK' /\ OnlyOf(t) /\ t \in Client
         /\ \E n \in Nat :
              LET a == SubSeq(group, 1, n)  b == SubSeq(group, n + 1, Len(group)) IN
              /\ n <= Len(group) /\ Len(group) - n <= workload.limit
              /\ group' = b /\ a \in Seq(Session) /\ b \in Seq(Session)
              /\ \E o \in Doing : Resumed(t, o, op'[t]) /\ o.todo = a /\ o.devs = <<>> /\ o.next = "created"
<1>. DEFINE n == IF Len(group) > workload.limit THEN Len(group) - workload.limit ELSE 0
            a == SubSeq(group, 1, n)  b == SubSeq(group, n + 1, Len(group))
            o == [op[t] EXCEPT !.todo = a]
<1>1. op[t] \in Doing /\ op[t].pc = "overflow" /\ Fits(t, op[t], alive) /\ alive \in BOOLEAN /\ group \in Seq(Session)
  BY OpType DEF PreemptOverflowSessions, At, ThreadsOK, TypeOK
<1>2. t \in Client /\ t # Evictor /\ t # Reaper /\ op[t].devs = <<>> /\ op[t].next = "created"
  BY <1>1, Kinds DEF Fits, FitsEvictor, FitsReaper, Closing
<1>3. n \in Nat /\ n <= Len(group) /\ Len(group) - n <= workload.limit
  BY <1>1, WorkloadIs
<1>4. /\ group' = b /\ op' = [op EXCEPT ![t] = Resume(t, o)]
      /\ UNCHANGED <<workload, gate, session, operator, linked, device, letGo, alive, shared, crossed, late, skipped, lost, inFlight>>
  BY DEF PreemptOverflowSessions, history
<1>. HIDE DEF n
<1>5. a \in Seq(Session) /\ b \in Seq(Session)
  BY <1>1, <1>3, Cut
<1>. HIDE DEF a, b
<1>6. o \in Doing /\ o.todo = a /\ o.devs = <<>> /\ o.next = "created"
  BY <1>1, <1>2, <1>5 DEF Doing
<1>. HIDE DEF o
<1>7. Ready(t, o, alive)
  BY <1>2, <1>6 DEF Ready
<1>8. Resume(t, o) \in Doing /\ Resumed(t, o, Resume(t, o)) /\ Fits(t, Resume(t, o), alive)
  BY <1>1, <1>6, <1>7, ResumeIs
<1>9. op' \in [Thread -> Doing] /\ OnlyOf(t) /\ op'[t] = Resume(t, o) /\ ThreadsOK'
  BY <1>4, <1>8, Moved
<1>10. TypeOK'
  BY <1>4, <1>5, <1>9 DEF TypeOK, Doing
<1>11. Resumed(t, o, op'[t])
  BY <1>8, <1>9
<1>12. \E m \in Nat :
              LET x == SubSeq(group, 1, m)  y == SubSeq(group, m + 1, Len(group)) IN
              /\ m <= Len(group) /\ Len(group) - m <= workload.limit
              /\ group' = y /\ x \in Seq(Session) /\ y \in Seq(Session)
              /\ \E z \in Doing : Resumed(t, z, op'[t]) /\ z.todo = x /\ z.devs = <<>> /\ z.next = "created"
  BY <1>3, <1>4, <1>5, <1>6, <1>11, Zenon DEF a, b
<1>. QED  BY <1>2, <1>9, <1>10, <1>12, Zenon

LEMMA EnterType ==
  ASSUME TypeOK, ThreadsOK, NEW t \in Client, NEW s \in Session, NEW call, Enter(t, s, call)
  PROVE  /\ TypeOK' /\ ThreadsOK' /\ OnlyOf(t)
         /\ op'[t] = [Idle EXCEPT !.pc = call, !.s = s] /\ call \in {"begin", "addOutput"}
<1>. DEFINE r == [Idle EXCEPT !.pc = call, !.s = s]
<1>1. t \in Thread /\ call \in {"begin", "addOutput"} /\ op[t] = Idle
  BY ClientIs DEF Enter, MayCall, At, ThreadsOK, Fits
<1>2. /\ r \in Doing /\ r.pc \in {"begin", "addOutput"} /\ r.s = s /\ r.todo = <<>> /\ r.devs = <<>>
      /\ r.next = "idle"
  BY <1>1, IdleIs DEF Doing, Places
<1>3. op' = [op EXCEPT ![t].pc = call, ![t].s = s]
  BY DEF Enter
<1>4. op' = [op EXCEPT ![t] = r]
  BY <1>1, <1>3, OpType
<1>. HIDE DEF r
<1>5. Fits(t, r, alive)
  BY <1>2, ClientFits
<1>6. UNCHANGED <<workload, gate, session, operator, linked, device, letGo, group, alive, shared, crossed, late, skipped, lost, inFlight>>
  BY DEF Enter, history
<1>7. op' \in [Thread -> Doing] /\ OnlyOf(t) /\ op'[t] = r /\ ThreadsOK'
  BY <1>1, <1>2, <1>4, <1>5, <1>6, Moved
<1>. QED  BY <1>1, <1>6, <1>7 DEF TypeOK, Doing, r

LEMMA InitialOperatorType ==
  ASSUME TypeOK, NEW s \in Session
  PROVE  /\ InitialOperator(s) \in OperatorType
         /\ HasOperator(s) => InitialOperator(s) = operator[s]
         /\ ~ HasOperator(s) => InitialOperator(s) = [listed |-> TRUE, hdi |-> NoDevice, outputs |-> {}]
BY DEF TypeOK, OperatorType, InitialOperator, NoOperator

LEMMA UnlinkType ==
  ASSUME TypeOK, NEW s \in Session, NEW outputs
  PROVE  Unlink(s, outputs) \in LinkType
BY DEF TypeOK, LinkType, Unlink

LEMMA BeginConfigType ==
  ASSUME TypeOK, ThreadsOK, NEW t \in Thread, BeginConfig(t)
  PROVE  TypeOK' /\ ThreadsOK' /\ OnlyOf(t) /\ op'[t] = Idle /\ op[t].s \in Session
<1>. DEFINE s == op[t].s
<1>1. s \in Session
  BY DEF BeginConfig, At, ThreadsOK, Fits
<1>2. /\ op' = [op EXCEPT ![t] = Idle]
      /\ UNCHANGED <<workload, gate, device, letGo, group, alive, shared, crossed, lost, inFlight>>
      /\ operator' = [operator EXCEPT ![s] = InitialOperator(s)]
      /\ session' = session \/ session' = [session EXCEPT ![s].st = "configuring"]
      /\ linked' = linked \/ linked' = [linked EXCEPT ![s] = Unlink(s, InitialOperator(s).outputs)]
      /\ late' = late \/ late' = late \cup {s}
      /\ skipped' = skipped \/ skipped' = skipped \ {s}
  BY DEF BeginConfig
<1>3. op' \in [Thread -> Doing] /\ OnlyOf(t) /\ op'[t] = Idle /\ ThreadsOK'
  BY <1>2, Idles
<1>4. operator' \in [Session -> OperatorType]
  <2>1. InitialOperator(s) \in OperatorType
    BY <1>1, InitialOperatorType
  <2>. HIDE DEF s
  <2>. QED  BY <1>1, <1>2, <2>1, Parts
<1>5. linked' \in [Session -> LinkType]
  <2>1. Unlink(s, InitialOperator(s).outputs) \in LinkType
    BY <1>1, UnlinkType
  <2>. HIDE DEF s
  <2>. QED  BY <1>1, <1>2, <2>1, Parts
<1>6. session' \in [Session -> SessionType]
  <2>1. [session EXCEPT ![s].st = "configuring"] \in [Session -> SessionType]
    BY <1>1, StateSet DEF States
  <2>. QED  BY <1>2, <2>1, Parts
<1>7. late' \subseteq Session /\ skipped' \subseteq Session
  BY <1>1, <1>2 DEF TypeOK
<1>. QED  BY <1>1, <1>2, <1>3, <1>4, <1>5, <1>6, <1>7 DEF TypeOK, SessionType, OperatorType, LinkType, Doing

LEMMA AddOutputType ==
  ASSUME TypeOK, ThreadsOK, NEW t \in Thread, NEW x \in Stream, AddOutput(t, x)
  PROVE  TypeOK' /\ ThreadsOK' /\ OnlyOf(t) /\ op'[t] = Idle /\ op[t].s \in Session
<1>. DEFINE s == op[t].s
            o == [InitialOperator(s) EXCEPT !.outputs = IF session[s].st = "configuring" THEN @ \cup {x} ELSE @]
<1>1. s \in Session
  BY DEF AddOutput, At, ThreadsOK, Fits
<1>2. /\ op' = [op EXCEPT ![t] = Idle]
      /\ UNCHANGED <<workload, gate, session, linked, device, letGo, group, alive, shared, crossed, skipped, lost, inFlight>>
      /\ operator' = [operator EXCEPT ![s] = o]
      /\ late' = late \/ late' = late \cup {s}
  BY DEF AddOutput
<1>3. op' \in [Thread -> Doing] /\ OnlyOf(t) /\ op'[t] = Idle /\ ThreadsOK'
  BY <1>2, Idles
<1>4. o \in OperatorType
  BY <1>1, InitialOperatorType DEF OperatorType
<1>. HIDE DEF o
<1>5. operator' \in [Session -> OperatorType]
  BY <1>1, <1>2, <1>4 DEF TypeOK, OperatorType
<1>. QED  BY <1>1, <1>2, <1>3, <1>5 DEF TypeOK, OperatorType, Doing

LEMMA RemoveOutputType ==
  ASSUME TypeOK, ThreadsOK, NEW t \in Client, NEW s \in Session, NEW x \in Stream, RemoveOutput(t, s, x)
  PROVE  TypeOK' /\ ThreadsOK' /\ op' = op
<1>1. /\ operator' = [operator EXCEPT ![s].outputs = @ \ {x}]
      /\ UNCHANGED <<workload, op, gate, session, linked, device, letGo, group, alive, shared, crossed, late, skipped, lost, inFlight>>
  BY DEF RemoveOutput, history
<1>2. operator' \in [Session -> OperatorType]
  <2>1. [operator[s] EXCEPT !.outputs = operator[s].outputs \ {x}] \in OperatorType
    BY Fields DEF OperatorType
  <2>2. operator' = [operator EXCEPT ![s] = [operator[s] EXCEPT !.outputs = operator[s].outputs \ {x}]]
    BY <1>1
  <2>. QED  BY <2>1, <2>2, Parts
<1>. QED  BY <1>1, <1>2, OpKept DEF TypeOK, OperatorType

LEMMA AddInputType ==
  ASSUME TypeOK, ThreadsOK, NEW t \in Client, NEW s \in Session, NEW d \in Device, AddInput(t, s, d)
  PROVE  TypeOK' /\ ThreadsOK' /\ op' = op
<1>1. /\ session' = [session EXCEPT ![s].input = d] /\ device' = [device EXCEPT ![d].listener = s]
      /\ shared' = shared \/ shared' = shared \cup {d}
      /\ UNCHANGED <<workload, op, gate, operator, linked, letGo, group, alive, crossed, late, skipped, lost, inFlight>>
  BY DEF AddInput
<1>2. session' \in [Session -> SessionType] /\ device' \in [Device -> DeviceType]
  BY <1>1, InputSet, ListenerSet
<1>. QED  BY <1>1, <1>2, OpKept DEF TypeOK, SessionType, DeviceType

LEMMA RemoveInputType ==
  ASSUME TypeOK, ThreadsOK, NEW t \in Client, NEW s \in Session, RemoveInput(t, s)
  PROVE  TypeOK' /\ ThreadsOK' /\ op' = op /\ session[s].input \in Device
<1>1. /\ session' = [session EXCEPT ![s].input = NoDevice]
      /\ device' = [device EXCEPT ![session[s].input].listener = None]
      /\ operator' = [operator EXCEPT ![s].hdi = NoDevice]
      /\ UNCHANGED <<workload, op, gate, linked, letGo, group, alive, shared, crossed, late, skipped, lost, inFlight>>
      /\ session[s].input # NoDevice
  BY DEF RemoveInput, history
<1>2. session[s].input \in Device
  BY <1>1, Fields
<1>3. /\ session' \in [Session -> SessionType] /\ device' \in [Device -> DeviceType]
      /\ operator' \in [Session -> OperatorType]
  BY <1>1, <1>2, InputSet, ListenerSet, HdiSet
<1>. QED  BY <1>1, <1>2, <1>3, OpKept DEF TypeOK, SessionType, DeviceType, OperatorType

LEMMA CommitConfigType ==
  ASSUME TypeOK, ThreadsOK, NEW t \in Client, NEW s \in Session, CommitConfig(t, s)
  PROVE  /\ TypeOK' /\ ThreadsOK' /\ OnlyOf(t)
         /\ \/ op' = op
            \/ op'[t] = [Idle EXCEPT !.pc = "link", !.s = s, !.ways = operator[s].outputs]
<1>. DEFINE d == session[s].input
            asks == operator[s].hdi = NoDevice /\ d # NoDevice /\ device[d].open
            r == [Idle EXCEPT !.pc = "link", !.s = s, !.ways = operator[s].outputs]
<1>1. t \in Thread
  BY ClientIs
<1>2. /\ operator' = IF asks THEN [operator EXCEPT ![s].hdi = d] ELSE operator
      /\ device' = IF asks THEN [device EXCEPT ![d].callback = s] ELSE device
      /\ letGo' = IF asks THEN (letGo \cup {device[d].callback}) \ {s, None} ELSE letGo
      /\ op' = op \/ op' = [op EXCEPT ![t] = r]
      /\ crossed' = crossed \/ crossed' = crossed \cup {s}
      /\ UNCHANGED <<workload, gate, session, linked, group, alive, shared, late, skipped, lost, inFlight>>
  BY DEF CommitConfig
<1>3. /\ r \in Doing /\ r.pc = "link" /\ r.s = s /\ r.todo = <<>> /\ r.devs = <<>> /\ r.next = "idle"
  BY IdleIs, Fields DEF Doing, Places
<1>. HIDE DEF r
<1>4. Fits(t, r, alive)
  BY <1>3, ClientFits
<1>5. op' \in [Thread -> Doing] /\ OnlyOf(t) /\ ThreadsOK' /\ (op' = op \/ op'[t] = r)
  <2>1. CASE op' = op
    BY <1>2, <2>1, OpKept, OpType DEF OnlyOf
  <2>2. CASE op' = [op EXCEPT ![t] = r]
    BY <1>1, <1>2, <1>3, <1>4, <2>2, Moved
  <2>. QED  BY <1>2, <2>1, <2>2
<1>6. /\ operator' \in [Session -> OperatorType] /\ device' \in [Device -> DeviceType]
      /\ letGo' \subseteq Session
  <2>1. CASE asks
    <3>1. d \in Device /\ device[d] \in DeviceType
      BY <2>1, Fields, Parts
    <3>2. [device[d] EXCEPT !.callback = s] \in DeviceType
      BY <3>1 DEF DeviceType
    <3>3. device' = [device EXCEPT ![d] = [device[d] EXCEPT !.callback = s]]
      BY <1>2, <2>1
    <3>4. operator' = [operator EXCEPT ![s].hdi = d] /\ letGo' = (letGo \cup {device[d].callback}) \ {s, None}
      BY <1>2, <2>1
    <3>5. device[d].callback \in Session \cup {None} /\ letGo \subseteq Session
      BY <3>1 DEF DeviceType, TypeOK
    <3>. HIDE DEF d
    <3>6. device' \in [Device -> DeviceType]
      BY <3>1, <3>2, <3>3, Parts
    <3>7. operator' \in [Session -> OperatorType]
      BY <3>1, <3>4, HdiSet
    <3>. QED  BY <3>4, <3>5, <3>6, <3>7
  <2>2. CASE ~ asks
    BY <1>2, <2>2, Parts DEF TypeOK
  <2>. QED  BY <2>1, <2>2
<1>. HIDE DEF asks
<1>. QED  BY <1>2, <1>5, <1>6 DEF TypeOK, OperatorType, DeviceType, Doing, r

LEMMA LinkStreamType ==
  ASSUME TypeOK, ThreadsOK, NEW t \in Thread, NEW x \in Stream, LinkStream(t, x)
  PROVE  /\ TypeOK' /\ ThreadsOK' /\ OnlyOf(t) /\ op[t].s \in Session
         /\ \/ op'[t] = Idle /\ linked' = linked
            \/ /\ operator[op[t].s].hdi # NoDevice
               /\ linked' = [linked EXCEPT ![op[t].s][x] = operator[op[t].s].hdi]
               /\ op'[t].s = op[t].s /\ op'[t].ways = op[t].ways \ {x} /\ op'[t].pc \in {"link", "create"}
               /\ op'[t].todo = <<>> /\ op'[t].next = "idle"
<1>. DEFINE s == op[t].s
            pc == IF op[t].ways = {x} THEN "create" ELSE "link"
            r == [op[t] EXCEPT !.ways = op[t].ways \ {x}, !.pc = pc]
<1>1. op[t] \in Doing /\ op[t].pc = "link" /\ Fits(t, op[t], alive)
  BY OpType DEF LinkStream, At, ThreadsOK
<1>2. s \in Session /\ op[t].next = "idle" /\ op[t].todo = <<>>
  BY <1>1 DEF Fits
<1>3. t \in Client /\ op[t].devs = <<>>
  BY <1>1, Kinds DEF Fits, FitsEvictor, FitsReaper, FitsClient, Closing
<1>4. UNCHANGED <<workload, gate, session, operator, device, letGo, group, alive, shared, crossed, late, skipped, lost, inFlight>>
  BY DEF LinkStream, history
<1>5. CASE operator[s].hdi = NoDevice
  <2>1. op' = [op EXCEPT ![t] = Idle] /\ linked' = linked
    BY <1>5 DEF LinkStream
  <2>2. op' \in [Thread -> Doing] /\ OnlyOf(t) /\ op'[t] = Idle /\ ThreadsOK'
    BY <1>4, <2>1, Idles
  <2>. QED  BY <1>2, <1>4, <2>1, <2>2 DEF TypeOK, Doing
<1>6. CASE operator[s].hdi # NoDevice
  <2>1. /\ linked' = [linked EXCEPT ![s][x] = operator[s].hdi]
        /\ op' = [op EXCEPT ![t].ways = @ \ {x}, ![t].pc = IF op[t].ways = {x} THEN "create" ELSE @]
    BY <1>6 DEF LinkStream
  <2>2. op' = [op EXCEPT ![t] = r]
    BY <1>1, <2>1, OpType
  <2>3. /\ r \in Doing /\ r.pc = pc /\ r.s = s /\ r.todo = <<>> /\ r.devs = <<>> /\ r.next = "idle"
        /\ r.ways = op[t].ways \ {x}
    <3>1. pc \in Places
      BY DEF Places
    <3>. HIDE DEF pc
    <3>. QED  BY <1>1, <1>2, <1>3, <3>1 DEF Doing
  <2>. HIDE DEF r
  <2>4. r.pc \in {"link", "create"} /\ (r.pc = "create" => r.ways = {})
    BY <2>3
  <2>5. Fits(t, r, alive)
    BY <1>2, <1>3, <2>3, <2>4, ClientFits
  <2>6. op' \in [Thread -> Doing] /\ OnlyOf(t) /\ op'[t] = r /\ ThreadsOK'
    BY <1>4, <2>2, <2>3, <2>5, Moved
  <2>7. linked' \in [Session -> LinkType]
    <3>1. operator[s].hdi \in Device \cup {NoDevice, Stale} /\ linked[s] \in LinkType
      BY <1>2, Fields
    <3>2. [linked[s] EXCEPT ![x] = operator[s].hdi] \in LinkType
      BY <3>1 DEF LinkType
    <3>3. linked' = [linked EXCEPT ![s] = [linked[s] EXCEPT ![x] = operator[s].hdi]]
      BY <2>1
    <3>. HIDE DEF s
    <3>. QED  BY <1>2, <3>2, <3>3, Parts
  <2>. QED  BY <1>2, <1>4, <1>6, <2>1, <2>3, <2>4, <2>6, <2>7 DEF TypeOK, LinkType, Doing
<1>. QED  BY <1>5, <1>6

LEMMA CreateStreamsType ==
  ASSUME TypeOK, ThreadsOK, NEW t \in Thread, CreateStreams(t)
  PROVE  TypeOK' /\ ThreadsOK' /\ OnlyOf(t) /\ op'[t] = Idle /\ op[t].s \in Session
<1>1. op[t].s \in Session
  BY DEF CreateStreams, At, ThreadsOK, Fits
<1>2. /\ op' = [op EXCEPT ![t] = Idle]
      /\ UNCHANGED <<workload, gate, operator, linked, device, letGo, group, alive, shared, crossed, late, skipped, lost, inFlight>>
      /\ session' = session \/ session' = [session EXCEPT ![op[t].s].st = "committed"]
  BY DEF CreateStreams, history
<1>3. op' \in [Thread -> Doing] /\ OnlyOf(t) /\ op'[t] = Idle /\ ThreadsOK'
  BY <1>2, Idles
<1>4. session' \in [Session -> SessionType]
  <2>1. [session EXCEPT ![op[t].s].st = "committed"] \in [Session -> SessionType]
    BY <1>1, StateSet DEF States
  <2>. QED  BY <1>2, <2>1, Parts
<1>. QED  BY <1>1, <1>2, <1>3, <1>4 DEF TypeOK, SessionType, Doing

LEMMA StartType ==
  ASSUME TypeOK, ThreadsOK, NEW t \in Client, NEW s \in Session, Start(t, s)
  PROVE  TypeOK' /\ ThreadsOK' /\ op' = op
<1>1. /\ session' = [session EXCEPT ![s].st = "started"]
      /\ UNCHANGED <<workload, op, gate, operator, linked, device, letGo, group, alive, shared, crossed, late, skipped, lost, inFlight>>
  BY DEF Start, history
<1>2. session' \in [Session -> SessionType]
  BY <1>1, StateSet DEF States
<1>. QED  BY <1>1, <1>2, OpKept DEF TypeOK, SessionType

LEMMA StopEffectType ==
  ASSUME TypeOK, NEW s \in Session, StopEffect(s)
  PROVE  session' \in [Session -> SessionType] /\ skipped' \subseteq Session
<1>1. /\ session' = session \/ session' = [session EXCEPT ![s].st = "committed"]
      /\ skipped' = skipped \/ skipped' = skipped \cup {s}
  BY DEF StopEffect
<1>2. [session EXCEPT ![s].st = "committed"] \in [Session -> SessionType]
  BY StateSet DEF States
<1>3. session' \in [Session -> SessionType]
  BY <1>1, <1>2, Parts
<1>. QED  BY <1>1, <1>3 DEF TypeOK

LEMMA StopType ==
  ASSUME TypeOK, ThreadsOK, NEW t \in Client, NEW s \in Session, Stop(t, s)
  PROVE  TypeOK' /\ ThreadsOK' /\ op' = op
<1>1. /\ StopEffect(s)
      /\ UNCHANGED <<workload, op, gate, operator, linked, device, letGo, group, alive, shared, crossed, late, lost, inFlight>>
  BY DEF Stop
<1>. QED  BY <1>1, StopEffectType, OpKept DEF TypeOK, SessionType

LEMMA ReleaseType ==
  ASSUME TypeOK, ThreadsOK, NEW t \in Client, NEW s \in Session, Release(t, s)
  PROVE  TypeOK' /\ ThreadsOK' /\ OnlyOf(t) /\ op'[t] = [Idle EXCEPT !.pc = "release", !.s = s]
<1>. DEFINE r == [Idle EXCEPT !.pc = "release", !.s = s]
<1>1. t \in Thread
  BY ClientIs
<1>2. /\ r \in Doing /\ r.pc = "release" /\ r.s = s /\ r.todo = <<>> /\ r.devs = <<>> /\ r.next = "idle"
  BY IdleIs DEF Doing, Places
<1>3. /\ StopEffect(s) /\ op' = [op EXCEPT ![t] = r]
      /\ UNCHANGED <<workload, gate, operator, linked, device, letGo, group, alive, shared, crossed, late, lost, inFlight>>
  BY DEF Release
<1>. HIDE DEF r
<1>4. Fits(t, r, alive)
  BY <1>2, ClientFits
<1>5. op' \in [Thread -> Doing] /\ OnlyOf(t) /\ op'[t] = r /\ ThreadsOK'
  BY <1>1, <1>2, <1>3, <1>4, Moved
<1>. QED  BY <1>3, <1>5, StopEffectType DEF TypeOK, SessionType, Doing, r

LEMMA StopPreemptedType ==
  ASSUME TypeOK, ThreadsOK, NEW t \in Thread, StopPreempted(t)
  PROVE  /\ TypeOK' /\ ThreadsOK' /\ OnlyOf(t) /\ op[t].s \in Session /\ t \in Client
         /\ op'[t].pc = "release" /\ SameBut(op[t], op'[t])
<1>1. op[t].pc = "stop" /\ Fits(t, op[t], alive) /\ op[t].s \in Session
  BY DEF StopPreempted, At, ThreadsOK, Fits
<1>2. t \in Client /\ t # Evictor /\ t # Reaper /\ op[t].devs = <<>> /\ op[t].next = "created"
  BY <1>1, Kinds DEF Fits, FitsEvictor, FitsReaper, FitsClient, Closing
<1>3. /\ StopEffect(op[t].s) /\ GoTo(t, "release")
      /\ UNCHANGED <<workload, gate, operator, linked, device, letGo, group, alive, shared, crossed, late, lost, inFlight>>
  BY DEF StopPreempted
<1>4. \A r \in Doing : r.pc = "release" /\ SameBut(op[t], r) /\ r.ways = op[t].ways => Fits(t, r, alive)
  BY <1>1, <1>2 DEF Fits, FitsClient, SameBut, Closing
<1>5. /\ op' \in [Thread -> Doing] /\ OnlyOf(t) /\ ThreadsOK' /\ op'[t].pc = "release" /\ SameBut(op[t], op'[t])
  BY <1>3, <1>4, Goes DEF Places
<1>. QED  BY <1>1, <1>2, <1>3, <1>5, StopEffectType DEF TypeOK, SessionType, Doing

LEMMA DropProxyType ==
  ASSUME TypeOK, ThreadsOK, NEW t \in Client, NEW s \in Session, DropProxy(t, s)
  PROVE  /\ TypeOK' /\ ThreadsOK' /\ OnlyOf(t)
         /\ op'[t] = [Idle EXCEPT !.pc = "release", !.s = s, !.next = "dropped"]
<1>. DEFINE r == [Idle EXCEPT !.pc = "release", !.s = s, !.next = "dropped"]
<1>1. t \in Thread /\ t # Evictor /\ t # Reaper
  BY ClientIs
<1>2. /\ r \in Doing /\ r.pc = "release" /\ r.s = s /\ r.todo = <<>> /\ r.devs = <<>> /\ r.next = "dropped"
  BY IdleIs DEF Doing, Places
<1>3. /\ session' = [session EXCEPT ![s].proxy = FALSE] /\ op' = [op EXCEPT ![t] = r]
      /\ UNCHANGED <<workload, gate, operator, linked, device, letGo, group, alive, shared, crossed, late, skipped, lost, inFlight>>
  BY DEF DropProxy, history
<1>. HIDE DEF r
<1>4. Fits(t, r, alive)
  BY <1>1, <1>2 DEF Fits, FitsClient, Closing
<1>5. op' \in [Thread -> Doing] /\ OnlyOf(t) /\ op'[t] = r /\ ThreadsOK'
  BY <1>1, <1>2, <1>3, <1>4, Moved
<1>6. session' \in [Session -> SessionType]
  <2>1. [session[s] EXCEPT !.proxy = FALSE] \in SessionType
    BY Fields DEF SessionType
  <2>2. session' = [session EXCEPT ![s] = [session[s] EXCEPT !.proxy = FALSE]]
    BY <1>3
  <2>. QED  BY <2>1, <2>2, Parts
<1>. QED  BY <1>3, <1>5, <1>6 DEF TypeOK, SessionType, Doing, r

LEMMA ReleaseSessionType ==
  ASSUME TypeOK, ThreadsOK, IsInjective(group), NEW t \in Thread, ReleaseSession(t)
  PROVE  /\ TypeOK' /\ ThreadsOK' /\ OnlyOf(t) /\ op[t].s \in Session
         /\ \/ /\ op'[t].pc = (IF session[op[t].s].input = NoDevice THEN "finish" ELSE "closeLock")
               /\ op'[t].s = op[t].s /\ op'[t].dev = session[op[t].s].input
               /\ op'[t].todo = op[t].todo /\ op'[t].devs = op[t].devs /\ op'[t].next = op[t].next
               /\ session[op[t].s].st # "released" /\ HasOperator(op[t].s)
            \/ /\ Resumed(t, op[t], op'[t]) /\ UNCHANGED <<linked, operator>>
               /\ ~ (session[op[t].s].st # "released" /\ HasOperator(op[t].s))
<1>. DEFINE s == op[t].s
            d == session[s].input
            proceeds == session[s].st # "released" /\ HasOperator(s)
            pc == IF d = NoDevice THEN "finish" ELSE "closeLock"
            r == [op[t] EXCEPT !.pc = pc, !.dev = d]
<1>1. op[t] \in Doing /\ op[t].pc = "release" /\ Fits(t, op[t], alive) /\ s \in Session
  BY OpType DEF ReleaseSession, At, ThreadsOK, Fits
<1>2. d \in Device \cup {NoDevice} /\ operator[s] \in OperatorType
  BY <1>1, Fields
<1>3. /\ group' = RemoveFirst(group, s) \/ group' = group
      /\ UNCHANGED <<workload, gate, session, device, letGo, alive, shared, crossed, late, skipped, inFlight>>
  BY DEF ReleaseSession
<1>4. group' \in Seq(Session)
  BY <1>3, FirstRemoved DEF TypeOK
<1>5. CASE proceeds
  <2>1. /\ linked' = [linked EXCEPT ![s] = Unlink(s, operator[s].outputs)]
        /\ operator' = [operator EXCEPT ![s].outputs = {}]
        /\ op' = [op EXCEPT ![t].pc = pc, ![t].dev = d]
        /\ lost' = lost
    BY <1>5 DEF ReleaseSession
  <2>2. op' = [op EXCEPT ![t] = r]
    BY <2>1, OpType
  <2>3. /\ r \in Doing /\ r.pc = pc /\ r.s = s /\ r.dev = d
        /\ r.todo = op[t].todo /\ r.devs = op[t].devs /\ r.next = op[t].next
    <3>1. pc \in Places
      BY DEF Places
    <3>. HIDE DEF pc, d
    <3>. QED  BY <1>1, <1>2, <3>1 DEF Doing
  <2>. HIDE DEF r
  <2>4. r.pc = "finish" \/ (r.pc = "closeLock" /\ r.dev \in Device)
    BY <1>2, <2>3
  <2>5. Fits(t, r, alive)
    BY <1>1, <2>3, <2>4 DEF Fits, FitsEvictor, FitsReaper, FitsClient, Closing
  <2>6. op' \in [Thread -> Doing] /\ OnlyOf(t) /\ op'[t] = r /\ ThreadsOK'
    BY <1>3, <2>2, <2>3, <2>5, Moved
  <2>7. linked' \in [Session -> LinkType]
    <3>1. Unlink(s, operator[s].outputs) \in LinkType
      BY <1>1, UnlinkType
    <3>. HIDE DEF s
    <3>. QED  BY <1>1, <2>1, <3>1, Parts
  <2>8. operator' \in [Session -> OperatorType]
    <3>1. [operator[s] EXCEPT !.outputs = {}] \in OperatorType
      BY <1>2 DEF OperatorType
    <3>2. operator' = [operator EXCEPT ![s] = [operator[s] EXCEPT !.outputs = {}]]
      BY <2>1
    <3>. HIDE DEF s
    <3>. QED  BY <1>1, <3>1, <3>2, Parts
  <2>9. TypeOK'
    BY <1>3, <1>4, <2>1, <2>6, <2>7, <2>8 DEF TypeOK, LinkType, OperatorType, Doing
  <2>. QED  BY <1>1, <1>5, <2>3, <2>6, <2>9
<1>6. CASE ~ proceeds
  <2>1. Proceed(t) /\ UNCHANGED <<linked, operator>> /\ (lost' = lost \/ lost' = lost \cup {s})
    BY <1>6 DEF ReleaseSession
  <2>2. op' \in [Thread -> Doing] /\ OnlyOf(t) /\ Resumed(t, op[t], op'[t]) /\ ThreadsOK'
    BY <1>1, <1>3, <2>1, Proceeds
  <2>3. TypeOK'
    BY <1>1, <1>3, <1>4, <2>1, <2>2 DEF TypeOK, Doing
  <2>. QED  BY <1>1, <1>6, <2>1, <2>2, <2>3
<1>. QED  BY <1>5, <1>6

LEMMA ReleaseFinishType ==
  ASSUME TypeOK, ThreadsOK, NEW t \in Thread, ReleaseFinish(t)
  PROVE  /\ TypeOK' /\ ThreadsOK' /\ OnlyOf(t) /\ op[t].s \in Session /\ Resumed(t, op[t], op'[t])
<1>. DEFINE s == op[t].s
            d == session[s].input
<1>1. op[t].pc = "finish" /\ s \in Session
  BY DEF ReleaseFinish, At, ThreadsOK, Fits
<1>2. /\ session' = [session EXCEPT ![s].st = "released", ![s].input = NoDevice]
      /\ device' = IF d # NoDevice THEN [device EXCEPT ![d].listener = None] ELSE device
      /\ operator' = [operator EXCEPT ![s] = NoOperator]
      /\ Proceed(t)
      /\ UNCHANGED <<workload, gate, linked, letGo, group, alive, shared, crossed, late, skipped, lost, inFlight>>
  BY DEF ReleaseFinish, history
<1>3. op' \in [Thread -> Doing] /\ OnlyOf(t) /\ Resumed(t, op[t], op'[t]) /\ ThreadsOK'
  BY <1>1, <1>2, Proceeds
<1>4. session' \in [Session -> SessionType]
  <2>1. [session[s] EXCEPT !.st = "released", !.input = NoDevice] \in SessionType
    <3>1. session[s] \in SessionType /\ "released" \in States
      BY <1>1, Fields DEF States
    <3>. HIDE DEF s
    <3>. QED  BY <3>1 DEF SessionType
  <2>2. session' = [session EXCEPT ![s] = [session[s] EXCEPT !.st = "released", !.input = NoDevice]]
    BY <1>2
  <2>. HIDE DEF s
  <2>. QED  BY <1>1, <2>1, <2>2, Parts
<1>5. device' \in [Device -> DeviceType]
  <2>1. d \in Device \cup {NoDevice}
    BY <1>1, Fields
  <2>. HIDE DEF d
  <2>. QED  BY <1>2, <2>1, ListenerSet, Parts
<1>6. operator' \in [Session -> OperatorType]
  <2>1. NoOperator \in OperatorType
    BY DEF NoOperator, OperatorType
  <2>. HIDE DEF s
  <2>. QED  BY <1>1, <1>2, <2>1, Parts
<1>7. TypeOK'
  BY <1>2, <1>3, <1>4, <1>5, <1>6 DEF TypeOK, SessionType, DeviceType, OperatorType, Doing
<1>. QED  BY <1>1, <1>3, <1>7

LEMMA OpenType ==
  ASSUME TypeOK, ThreadsOK, NEW t, NEW d \in Device, Open(t, d)
  PROVE  TypeOK' /\ ThreadsOK' /\ op' = op
<1>1. /\ device' = [device EXCEPT ![d].open = TRUE]
      /\ UNCHANGED <<workload, op, gate, session, operator, linked, letGo, group, alive, shared, crossed, late, skipped, lost, inFlight>>
  BY DEF Open, history
<1>2. device' \in [Device -> DeviceType]
  <2>1. [device[d] EXCEPT !.open = TRUE] \in DeviceType
    BY Parts DEF DeviceType
  <2>2. device' = [device EXCEPT ![d] = [device[d] EXCEPT !.open = TRUE]]
    BY <1>1
  <2>. QED  BY <2>1, <2>2, Parts
<1>. QED  BY <1>1, <1>2, OpKept DEF TypeOK, DeviceType

LEMMA CloseType ==
  ASSUME TypeOK, ThreadsOK, NEW t \in Thread, NEW d \in Device, Close(t, d)
  PROVE  /\ TypeOK' /\ ThreadsOK' /\ OnlyOf(t) /\ t # Reaper
         /\ op'[t] = [Idle EXCEPT !.pc = "listener", !.dev = d]
<1>. DEFINE r == [Idle EXCEPT !.pc = "listener", !.dev = d]
<1>1. t \in Client \/ t = Evictor
  BY DEF Close
<1>2. t # Reaper
  BY <1>1, SessionsAssumption
<1>3. /\ r \in Doing /\ r.pc = "listener" /\ r.s = None /\ r.dev = d /\ r.todo = <<>> /\ r.devs = <<>>
      /\ r.next = "idle"
  BY IdleIs DEF Doing, Places
<1>4. /\ op' = [op EXCEPT ![t] = r] /\ gate' \in {t, gate}
      /\ UNCHANGED <<workload, session, operator, linked, device, letGo, group, alive, shared, crossed, late, skipped, lost, inFlight>>
  BY DEF Close, history
<1>. HIDE DEF r
<1>5. Fits(t, r, alive)
  BY <1>1, <1>2, <1>3, ClientIs DEF Fits, FitsEvictor, FitsClient, Closing
<1>6. op' \in [Thread -> Doing] /\ OnlyOf(t) /\ op'[t] = r /\ ThreadsOK'
  BY <1>3, <1>4, <1>5, Moved
<1>. QED  BY <1>2, <1>4, <1>6 DEF TypeOK, Doing, r

\* One place of a close to the next.
LEMMA ClosingGoes ==
  ASSUME TypeOK, ThreadsOK, NEW t \in Thread, op[t].pc \in Closing,
         NEW pc \in {"listener", "operatorRelease", "hdiClose"}, GoTo(t, pc), UNCHANGED alive
  PROVE  /\ op' \in [Thread -> Doing] /\ OnlyOf(t) /\ ThreadsOK'
         /\ op'[t].pc = pc /\ SameBut(op[t], op'[t])
<1>1. Fits(t, op[t], alive) /\ pc \in Places
  BY DEF ThreadsOK, Places
<1>2. \A r \in Doing : r.pc = pc /\ SameBut(op[t], r) /\ r.ways = op[t].ways => Fits(t, r, alive)
  BY <1>1 DEF Fits, FitsEvictor, FitsReaper, FitsClient, SameBut, Closing
<1>. QED  BY <1>1, <1>2, Goes

LEMMA CloseLockType ==
  ASSUME TypeOK, ThreadsOK, NEW t \in Thread, CloseLock(t)
  PROVE  TypeOK' /\ ThreadsOK' /\ OnlyOf(t) /\ op'[t].pc = "listener" /\ SameBut(op[t], op'[t])
<1>1. /\ GoTo(t, "listener") /\ gate' = t /\ op[t].pc \in Closing
      /\ UNCHANGED <<workload, session, operator, linked, device, letGo, group, alive, shared, crossed, late, skipped, lost, inFlight>>
  BY DEF CloseLock, At, Closing, history
<1>2. op' \in [Thread -> Doing] /\ OnlyOf(t) /\ ThreadsOK' /\ op'[t].pc = "listener" /\ SameBut(op[t], op'[t])
  BY <1>1, ClosingGoes
<1>. QED  BY <1>1, <1>2 DEF TypeOK, Doing

LEMMA BeforeDeviceCloseType ==
  ASSUME TypeOK, ThreadsOK, NEW t \in Thread, BeforeDeviceClose(t)
  PROVE  /\ TypeOK' /\ ThreadsOK' /\ OnlyOf(t) /\ op[t].dev \in Device /\ SameBut(op[t], op'[t])
         /\ \/ /\ op'[t].pc = "operatorRelease" /\ device[op[t].dev].listener \in Session
               /\ HasOperator(device[op[t].dev].listener)
            \/ /\ op'[t].pc = "hdiClose" /\ linked' = linked
               /\ device[op[t].dev].listener # None => ~ HasOperator(device[op[t].dev].listener)
<1>. DEFINE d == op[t].dev
            s == device[d].listener
<1>1. op[t].pc \in Closing /\ d \in Device
  BY DEF BeforeDeviceClose, At, ThreadsOK, Fits, Closing
<1>2. UNCHANGED <<workload, gate, session, operator, device, letGo, group, alive, shared, crossed, late, skipped, lost, inFlight>>
  BY DEF BeforeDeviceClose, history
<1>3. CASE s # None /\ HasOperator(s)
  <2>1. linked' = [linked EXCEPT ![s] = Unlink(s, operator[s].outputs)] /\ GoTo(t, "operatorRelease")
    BY <1>3 DEF BeforeDeviceClose
  <2>2. s \in Session
    BY <1>1, <1>3, Parts DEF DeviceType
  <2>3. /\ op' \in [Thread -> Doing] /\ OnlyOf(t) /\ ThreadsOK' /\ op'[t].pc = "operatorRelease"
        /\ SameBut(op[t], op'[t])
    BY <1>1, <1>2, <2>1, ClosingGoes
  <2>4. linked' \in [Session -> LinkType]
    <3>1. Unlink(s, operator[s].outputs) \in LinkType
      BY <2>2, UnlinkType
    <3>. HIDE DEF s
    <3>. QED  BY <2>1, <2>2, <3>1, Parts
  <2>5. TypeOK'
    BY <1>2, <2>3, <2>4 DEF TypeOK, LinkType, Doing
  <2>. QED  BY <1>1, <1>3, <2>2, <2>3, <2>5
<1>4. CASE ~ (s # None /\ HasOperator(s))
  <2>1. linked' = linked /\ GoTo(t, "hdiClose")
    BY <1>4 DEF BeforeDeviceClose
  <2>2. op' \in [Thread -> Doing] /\ OnlyOf(t) /\ ThreadsOK' /\ op'[t].pc = "hdiClose" /\ SameBut(op[t], op'[t])
    BY <1>1, <1>2, <2>1, ClosingGoes
  <2>3. TypeOK'
    BY <1>2, <2>1, <2>2 DEF TypeOK, Doing
  <2>. QED  BY <1>1, <1>4, <2>1, <2>2, <2>3
<1>. QED  BY <1>3, <1>4

LEMMA OperatorReleaseType ==
  ASSUME TypeOK, ThreadsOK, NEW t \in Thread, OperatorRelease(t)
  PROVE  /\ TypeOK' /\ ThreadsOK' /\ OnlyOf(t) /\ op[t].dev \in Device
         /\ op'[t].pc = "hdiClose" /\ SameBut(op[t], op'[t])
<1>. DEFINE s == device[op[t].dev].listener
<1>1. op[t].pc \in Closing /\ op[t].dev \in Device
  BY DEF OperatorRelease, At, ThreadsOK, Fits, Closing
<1>2. /\ operator' = [operator EXCEPT ![s].listed = FALSE, ![s].hdi = NoDevice]
      /\ GoTo(t, "hdiClose")
      /\ UNCHANGED <<workload, gate, session, linked, device, letGo, group, alive, shared, crossed, late, skipped, lost, inFlight>>
  BY DEF OperatorRelease, history
<1>3. op' \in [Thread -> Doing] /\ OnlyOf(t) /\ ThreadsOK' /\ op'[t].pc = "hdiClose" /\ SameBut(op[t], op'[t])
  BY <1>1, <1>2, ClosingGoes
<1>4. operator' \in [Session -> OperatorType]
  <2>1. CASE s \in Session
    <3>1. [operator[s] EXCEPT !.listed = FALSE, !.hdi = NoDevice] \in OperatorType
      BY <2>1, Fields DEF OperatorType
    <3>2. operator' = [operator EXCEPT ![s] = [operator[s] EXCEPT !.listed = FALSE, !.hdi = NoDevice]]
      BY <1>2
    <3>. HIDE DEF s
    <3>. QED  BY <2>1, <3>1, <3>2, Parts
  <2>2. CASE s \notin Session
    <3>. HIDE DEF s
    <3>1. operator' = operator
      BY <1>2, <2>2, Parts
    <3>. QED  BY <3>1, Parts
  <2>. QED  BY <2>1, <2>2
<1>. QED  BY <1>1, <1>2, <1>3, <1>4 DEF TypeOK, OperatorType, Doing

LEMMA HdiCloseType ==
  ASSUME TypeOK, ThreadsOK, NEW t \in Thread, HdiClose(t)
  PROVE  /\ TypeOK' /\ ThreadsOK' /\ OnlyOf(t) /\ op[t].dev \in Device
         /\ \/ op[t].s \in Session /\ op'[t].pc = "finish" /\ SameBut(op[t], op'[t])
            \/ op[t].s = None /\ Resumed(t, op[t], op'[t])
<1>. DEFINE d == op[t].dev
            Gone(h) == IF h = d THEN Stale ELSE h
<1>1. op[t] \in Doing /\ op[t].pc = "hdiClose" /\ Fits(t, op[t], alive) /\ d \in Device
  BY OpType DEF HdiClose, At, ThreadsOK, Fits, Closing
<1>2. /\ gate' \in {"free", gate}
      /\ UNCHANGED <<workload, session, group, alive, shared, crossed, late, skipped, lost, inFlight>>
  BY DEF HdiClose, history
<1>3. /\ device' \in [Device -> DeviceType] /\ letGo' \subseteq Session
      /\ operator' \in [Session -> OperatorType] /\ linked' \in [Session -> LinkType]
  <2>1. CASE device[d].open
    <3>1. /\ device' = [device EXCEPT ![d].open = FALSE, ![d].callback = None]
          /\ letGo' = (letGo \cup {device[d].callback}) \ {None}
          /\ operator' = [s \in Session |-> [operator[s] EXCEPT !.hdi = Gone(@)]]
          /\ linked' = [s \in Session |-> [x \in Stream |-> Gone(linked[s][x])]]
      BY <2>1 DEF HdiClose
    <3>2. device[d] \in DeviceType
      BY <1>1, Parts
    <3>3. [device[d] EXCEPT !.open = FALSE, !.callback = None] \in DeviceType
      BY <3>2 DEF DeviceType
    <3>4. device' = [device EXCEPT ![d] = [device[d] EXCEPT !.open = FALSE, !.callback = None]]
      BY <3>1
    <3>5. device[d].callback \in Session \cup {None} /\ letGo \subseteq Session
      BY <3>2 DEF DeviceType, TypeOK
    <3>6. \A s \in Session : [operator[s] EXCEPT !.hdi = Gone(operator[s].hdi)] \in OperatorType
      <4>1. ASSUME NEW s \in Session
            PROVE  [operator[s] EXCEPT !.hdi = Gone(operator[s].hdi)] \in OperatorType
        <5>1. operator[s] \in OperatorType /\ Gone(operator[s].hdi) \in Device \cup {NoDevice, Stale}
          BY Fields
        <5>. HIDE DEF Gone
        <5>. QED  BY <5>1 DEF OperatorType
      <4>. QED  BY <4>1
    <3>7. \A s \in Session : [x \in Stream |-> Gone(linked[s][x])] \in LinkType
      <4>1. ASSUME NEW s \in Session, NEW x \in Stream
            PROVE  Gone(linked[s][x]) \in Device \cup {NoDevice, Stale}
        BY Fields DEF LinkType
      <4>. HIDE DEF Gone
      <4>. QED  BY <4>1 DEF LinkType
    <3>. HIDE DEF d, Gone
    <3>8. device' \in [Device -> DeviceType] /\ letGo' \subseteq Session
      BY <1>1, <3>1, <3>3, <3>4, <3>5, Parts
    <3>9. operator' \in [Session -> OperatorType]
      BY <3>1, <3>6
    <3>10. linked' \in [Session -> LinkType]
      BY <3>1, <3>7
    <3>. QED  BY <3>8, <3>9, <3>10
  <2>2. CASE ~ device[d].open
    <3>1. UNCHANGED <<device, letGo, operator, linked>>
      BY <2>2 DEF HdiClose
    <3>. QED  BY <3>1, Parts DEF TypeOK
  <2>. QED  BY <2>1, <2>2
<1>4. CASE op[t].s # None
  <2>1. GoTo(t, "finish") /\ op[t].s \in Session
    BY <1>1, <1>4 DEF HdiClose, Doing
  <2>2. \A r \in Doing : r.pc = "finish" /\ SameBut(op[t], r) /\ r.ways = op[t].ways => Fits(t, r, alive)
    BY <1>1, <2>1, <1>4 DEF Fits, FitsEvictor, FitsReaper, FitsClient, SameBut, Closing
  <2>3. op' \in [Thread -> Doing] /\ OnlyOf(t) /\ ThreadsOK' /\ op'[t].pc = "finish" /\ SameBut(op[t], op'[t])
    BY <1>2, <2>1, <2>2, Goes DEF Places
  <2>. QED  BY <1>1, <1>2, <1>3, <2>1, <2>3 DEF TypeOK, OperatorType, DeviceType, LinkType, Doing
<1>5. CASE op[t].s = None
  <2>1. Proceed(t)
    BY <1>5 DEF HdiClose
  <2>2. op' \in [Thread -> Doing] /\ OnlyOf(t) /\ Resumed(t, op[t], op'[t]) /\ ThreadsOK'
    BY <1>1, <1>2, <2>1, Proceeds
  <2>. QED  BY <1>1, <1>2, <1>3, <1>5, <2>2 DEF TypeOK, OperatorType, DeviceType, LinkType, Doing
<1>. QED  BY <1>4, <1>5

LEMMA HdiLetsGoType ==
  ASSUME TypeOK, ThreadsOK, NEW s \in Session, HdiLetsGo(s)
  PROVE  TypeOK' /\ ThreadsOK' /\ op' = op
<1>1. /\ letGo' = letGo \ {s}
      /\ UNCHANGED <<workload, op, gate, session, operator, linked, device, group, alive, shared, crossed, late, skipped, lost, inFlight>>
  BY DEF HdiLetsGo, history
<1>. QED  BY <1>1, OpKept DEF TypeOK

LEMMA DieType ==
  ASSUME TypeOK, ThreadsOK, Die
  PROVE  /\ TypeOK' /\ ThreadsOK' /\ OnlyOf(Reaper) /\ ~ alive' /\ op[Reaper] = Idle
         /\ \E o \in Doing : Resumed(Reaper, o, op'[Reaper]) /\ o.todo = group /\ o.devs = <<>> /\ o.next = "removeGroup"
<1>. DEFINE o == [Idle EXCEPT !.todo = group, !.next = "removeGroup"]
            r == Resume(Reaper, o)
<1>1. /\ Reaper \in Thread /\ alive = TRUE /\ alive' = FALSE /\ group \in Seq(Session)
      /\ Reaper \notin Client /\ Reaper # Evictor
  BY SessionsAssumption DEF Die, Thread, TypeOK
<1>2. op[Reaper] = Idle
  BY <1>1 DEF ThreadsOK, Fits, FitsReaper
<1>3. o \in Doing /\ o.todo = group /\ o.devs = <<>> /\ o.next = "removeGroup"
  BY <1>1, IdleIs DEF Doing
<1>4. /\ op' = [op EXCEPT ![Reaper] = r]
      /\ inFlight' \in BOOLEAN
      /\ UNCHANGED <<workload, gate, session, operator, linked, device, letGo, group, shared, crossed, late, skipped, lost>>
  BY DEF Die
<1>. HIDE DEF o
<1>5. Ready(Reaper, o, FALSE)
  BY <1>1, <1>3 DEF Ready
<1>6. r \in Doing /\ Resumed(Reaper, o, r) /\ Fits(Reaper, r, FALSE)
  BY <1>1, <1>3, <1>5, ResumeIs
<1>. HIDE DEF r
<1>7. op' \in [Thread -> Doing] /\ OnlyOf(Reaper) /\ op'[Reaper] = r
  BY <1>1, <1>4, <1>6, Replaced
<1>8. ASSUME NEW x \in Thread
      PROVE  Fits(x, op'[x], alive')
  <2>1. CASE x = Reaper
    BY <1>1, <1>6, <1>7, <2>1
  <2>2. CASE x # Reaper
    <3>1. op'[x] = op[x] /\ Fits(x, op[x], alive)
      BY <1>7, <2>2 DEF OnlyOf, ThreadsOK
    <3>. QED  BY <2>2, <3>1 DEF Fits
  <2>. QED  BY <2>1, <2>2
<1>9. TypeOK'
  BY <1>1, <1>4, <1>7 DEF TypeOK, Doing
<1>. QED  BY <1>1, <1>2, <1>3, <1>6, <1>7, <1>8, <1>9 DEF ThreadsOK

\* The thread of the death after the sessions, with a list of devices to close.
LEMMA ReaperGoesOn ==
  ASSUME TypeOK, ThreadsOK, NEW t \in Thread, op[t].pc \in {"removeGroup", "operators"}, UNCHANGED alive,
         NEW o \in Doing, o.todo = <<>>, o.next \in {"operators", "done"},
         op' = [op EXCEPT ![t] = Resume(t, o)]
  PROVE  /\ op' \in [Thread -> Doing] /\ OnlyOf(t) /\ ThreadsOK' /\ t = Reaper /\ ~ alive
         /\ Resumed(t, o, op'[t])
<1>1. Fits(t, op[t], alive) /\ alive \in BOOLEAN
  BY DEF ThreadsOK, TypeOK
<1>2. t = Reaper /\ ~ alive /\ t \notin Client /\ t # Evictor
  BY <1>1, Kinds DEF Fits, FitsEvictor, FitsReaper, FitsClient
<1>4. Ready(t, o, alive)
  BY <1>2 DEF Ready
<1>5. Resume(t, o) \in Doing /\ Resumed(t, o, Resume(t, o)) /\ Fits(t, Resume(t, o), alive)
  BY <1>1, <1>4, ResumeIs
<1>7. op' \in [Thread -> Doing] /\ OnlyOf(t) /\ op'[t] = Resume(t, o) /\ ThreadsOK'
  BY <1>5, Moved
<1>. QED  BY <1>2, <1>5, <1>7

LEMMA RemoveGroupType ==
  ASSUME TypeOK, ThreadsOK, NEW t \in Thread, RemoveGroup(t)
  PROVE  /\ TypeOK' /\ ThreadsOK' /\ OnlyOf(t) /\ t = Reaper /\ ~ alive
         /\ \E o \in Doing : /\ Resumed(t, o, op'[t]) /\ o.todo = <<>> /\ o.next = "operators"
                             /\ \A d \in Device : device[d].open => d \in ToSet(o.devs)
<1>. DEFINE D == {d \in Device : device[d].open}
            ds == SetToSeq(D)
<1>1. /\ op[t].pc = "removeGroup" /\ group' = <<>>
      /\ op' = [op EXCEPT ![t] = Resume(t, [Idle EXCEPT !.devs = ds, !.next = "operators"])]
      /\ UNCHANGED <<workload, gate, session, operator, linked, device, letGo, alive, shared, crossed, late, skipped, lost, inFlight>>
  BY DEF RemoveGroup, At, history
<1>2. IsFiniteSet(D) /\ D \subseteq Device
  BY SessionsAssumption, FS_Subset
<1>. HIDE DEF D
<1>3. ds \in Seq(D) /\ \A d \in D : d \in ToSet(ds)
  BY <1>2, SetAsSeq
<1>. HIDE DEF ds
<1>4. ds \in Seq(Device) /\ <<>> \in Seq(Session)
  BY <1>2, <1>3
<1>. DEFINE o == [Idle EXCEPT !.devs = ds, !.next = "operators"]
<1>5. /\ o \in Doing /\ o.todo = <<>> /\ o.devs = ds /\ o.next = "operators"
      /\ op' = [op EXCEPT ![t] = Resume(t, o)]
  BY <1>1, <1>4, IdleIs DEF Doing
<1>. HIDE DEF o
<1>8. op' \in [Thread -> Doing] /\ OnlyOf(t) /\ ThreadsOK' /\ t = Reaper /\ ~ alive /\ Resumed(t, o, op'[t])
  BY <1>1, <1>5, ReaperGoesOn
<1>6. TypeOK'
  BY <1>1, <1>4, <1>8 DEF TypeOK, Doing
<1>7. \A d \in Device : device[d].open => d \in ToSet(ds)
  BY <1>3 DEF D
<1>. QED  BY <1>5, <1>6, <1>7, <1>8

LEMMA ReleaseOperatorsType ==
  ASSUME TypeOK, ThreadsOK, NEW t \in Thread, ReleaseOperators(t)
  PROVE  /\ TypeOK' /\ ThreadsOK' /\ OnlyOf(t) /\ t = Reaper /\ ~ alive
         /\ \E o \in Doing : Resumed(t, o, op'[t]) /\ o.todo = <<>> /\ o.next = "done"
<1>. DEFINE ds == SetToSeq(workload.devices)
<1>1. /\ op[t].pc = "operators"
      /\ op' = [op EXCEPT ![t] = Resume(t, [Idle EXCEPT !.devs = ds, !.next = "done"])]
      /\ UNCHANGED <<workload, gate, session, linked, device, letGo, group, alive, shared, crossed, late, skipped, lost, inFlight>>
  BY DEF ReleaseOperators, At, history
<1>2. IsFiniteSet(workload.devices) /\ workload.devices \subseteq Device
  BY SessionsAssumption, WorkloadIs, FS_Subset
<1>3. ds \in Seq(workload.devices)
  BY <1>2, SetAsSeq
<1>. HIDE DEF ds
<1>4. ds \in Seq(Device)
  BY <1>2, <1>3
<1>. DEFINE o == [Idle EXCEPT !.devs = ds, !.next = "done"]
<1>5. /\ o \in Doing /\ o.todo = <<>> /\ o.next = "done"
      /\ op' = [op EXCEPT ![t] = Resume(t, o)]
  BY <1>1, <1>4, IdleIs DEF Doing
<1>. HIDE DEF o
<1>8. op' \in [Thread -> Doing] /\ OnlyOf(t) /\ ThreadsOK' /\ t = Reaper /\ ~ alive /\ Resumed(t, o, op'[t])
  BY <1>1, <1>5, ReaperGoesOn
<1>6. operator' \in [Session -> OperatorType]
  <2>1. \A s \in Session : operator[s] \in OperatorType
    BY Fields
  <2>2. \A s \in Session : [operator[s] EXCEPT !.listed = FALSE, !.hdi = NoDevice] \in OperatorType
    BY <2>1 DEF OperatorType
  <2>3. operator' = [s \in Session |-> IF operator[s].listed
                                           THEN [operator[s] EXCEPT !.listed = FALSE, !.hdi = NoDevice]
                                           ELSE operator[s]]
    BY DEF ReleaseOperators
  <2>. QED  BY <2>1, <2>2, <2>3
<1>7. TypeOK'
  BY <1>1, <1>6, <1>8 DEF TypeOK, OperatorType, Doing
<1>. QED  BY <1>5, <1>7, <1>8

LEMMA DestroyType ==
  ASSUME TypeOK, ThreadsOK, NEW s \in Session, Destroy(s)
  PROVE  TypeOK' /\ ThreadsOK' /\ op' = op
<1>1. /\ session' = [session EXCEPT ![s].st = "gone", ![s].input = NoDevice]
      /\ device' = [d \in Device |-> [device[d] EXCEPT !.listener = IF @ = s THEN None ELSE @]]
      /\ UNCHANGED <<workload, op, gate, operator, linked, letGo, group, alive, shared, crossed, late, skipped, lost, inFlight>>
  BY DEF Destroy, history
<1>2. session' \in [Session -> SessionType]
  <2>1. [session[s] EXCEPT !.st = "gone", !.input = NoDevice] \in SessionType
    BY Fields DEF SessionType, States
  <2>2. session' = [session EXCEPT ![s] = [session[s] EXCEPT !.st = "gone", !.input = NoDevice]]
    BY <1>1
  <2>. QED  BY <2>1, <2>2, Parts
<1>3. device' \in [Device -> DeviceType]
  <2>1. ASSUME NEW d \in Device
        PROVE  [device[d] EXCEPT !.listener = IF @ = s THEN None ELSE @] \in DeviceType
    <3>1. device[d] \in DeviceType
      BY Parts
    <3>. DEFINE l == IF device[d].listener = s THEN None ELSE device[d].listener
    <3>2. l \in Session \cup {None}
      BY <3>1 DEF DeviceType
    <3>. HIDE DEF l
    <3>3. [device[d] EXCEPT !.listener = l] \in DeviceType
      BY <3>1, <3>2 DEF DeviceType
    <3>. QED  BY <3>3 DEF l
  <2>. QED  BY <1>1, <2>1
<1>. QED  BY <1>1, <1>2, <1>3, OpKept DEF TypeOK, SessionType, DeviceType
-----------------------------------------------------------------------------
(***************************************************************************)
(* Which sessions there are.  They are created in order, and what names    *)
(* one, a thread, the list of one or the group, names one that exists.     *)
(***************************************************************************)
Live == {"init", "configuring", "committed", "started", "released"}

Names(o, s) == o.s = s \/ s \in ToSet(o.todo)
Named(s) == (\E t \in Thread : Names(op[t], s)) \/ InGroup(s)

InOrder == \E n \in 0 .. MaxSessions : {k \in Session : session[k].st # "none"} = 1 .. n

SessionOK(s) ==
  /\ session[s].st = "none" => session[s].input = NoDevice /\ operator[s] = NoOperator
  /\ session[s].proxy => session[s].st \in Live
  /\ Named(s) => session[s].st \in Live

SessionsOK == InOrder /\ (\A s \in Session : SessionOK(s)) /\ IsInjective(group)

Typed == TypeOK /\ ThreadsOK /\ SessionsOK

\* A step that creates and destroys no session.
Gentle ==
  \A s \in Session :
    /\ session[s].st \in Live => session'[s].st \in Live
    /\ session[s].st \notin Live => session'[s].st = session[s].st
    /\ session'[s].proxy => session[s].proxy
    /\ session[s].st = "none" => session'[s].input = session[s].input /\ operator'[s] = operator[s]

LEMMA GentleKeeps ==
  ASSUME Typed, Gentle, \A s \in Session : Named(s)' => Named(s) \/ session[s].proxy, IsInjective(group')
  PROVE  SessionsOK'
<1>1. PICK n \in 0 .. MaxSessions : {k \in Session : session[k].st # "none"} = 1 .. n
  BY DEF Typed, SessionsOK, InOrder
<1>2. \A s \in Session : session'[s].st = "none" <=> session[s].st = "none"
  BY DEF Gentle, Live
<1>3. {k \in Session : session'[k].st # "none"} = {k \in Session : session[k].st # "none"}
  BY <1>2
<1>4. InOrder'
  BY <1>1, <1>3 DEF InOrder, Session
<1>5. ASSUME NEW s \in Session
      PROVE  SessionOK(s)'
  <2>1. SessionOK(s)
    BY DEF Typed, SessionsOK
  <2>2. session[s].st \in Live => session'[s].st \in Live
    BY DEF Gentle
  <2>3. session'[s].proxy => session[s].proxy
    BY DEF Gentle
  <2>4. session'[s].st = "none" => session'[s].input = session[s].input /\ operator'[s] = operator[s]
    BY <1>2 DEF Gentle
  <2>. HIDE DEF Named
  <2>. QED  BY <1>2, <2>1, <2>2, <2>3, <2>4 DEF SessionOK, NoOperator
<1>. QED  BY <1>4, <1>5 DEF SessionsOK

\* A thread takes no name from anywhere but its list, the group and the client.
LEMMA NamesKept ==
  ASSUME NEW t \in Thread, OnlyOf(t),
         \A s \in Session : Names(op'[t], s) => Named(s) \/ session[s].proxy,
         \A s \in Session : s \in ToSet(group') => s \in ToSet(group)
  PROVE  \A s \in Session : Named(s)' => Named(s) \/ session[s].proxy
<1>. SUFFICES ASSUME NEW s \in Session, Named(s)'
              PROVE  Named(s) \/ session[s].proxy
  OBVIOUS
<1>1. CASE InGroup(s)'
  BY <1>1 DEF InGroup, Named
<1>2. CASE \E x \in Thread : Names(op'[x], s)
  <2>1. PICK x \in Thread : Names(op'[x], s)
    BY <1>2
  <2>2. CASE x = t
    BY <2>1, <2>2
  <2>3. CASE x # t
    BY <2>1, <2>3 DEF OnlyOf, Named
  <2>. QED  BY <2>2, <2>3
<1>. QED  BY <1>1, <1>2 DEF Named

LEMMA OpNames ==
  ASSUME UNCHANGED <<op, group>>
  PROVE  \A s \in Session : Named(s)' => Named(s) \/ session[s].proxy
BY DEF Named, Names, InGroup

LEMMA ResumedNames ==
  ASSUME NEW t, NEW o \in Doing, NEW r, Resumed(t, o, r), NEW s \in Session, Names(r, s)
  PROVE  s \in ToSet(o.todo)
<1>1. o.todo \in Seq(Session) /\ s # None
  BY DEF Doing, Session, None
<1>2. CASE o.todo # <<>>
  <2>1. r.s = Head(o.todo) /\ r.todo = Tail(o.todo)
    BY <1>2 DEF Resumed
  <2>. QED  BY <1>1, <1>2, <2>1, SetOfTail DEF Names
<1>3. CASE o.todo = <<>>
  <2>1. r.s = None /\ r.todo = <<>>
    BY <1>3 DEF Resumed
  <2>. QED  BY <1>1, <2>1, SetOfEmpty DEF Names
<1>. QED  BY <1>2, <1>3

LEMMA SameNames ==
  ASSUME NEW o, NEW r, SameBut(o, r), NEW s, Names(r, s)
  PROVE  Names(o, s)
BY DEF SameBut, Names

LEMMA IdleNames == \A s \in Session : ~ Names(Idle, s)
BY IdleIs, SetOfEmpty DEF Names, Session, None

\* A name alone.
LEMMA NamesOne ==
  ASSUME NEW o, o.todo = <<>>, NEW s, Names(o, s)
  PROVE  o.s = s
BY SetOfEmpty DEF Names

\* A call of the client names a session it has.
LEMMA MayCallIs ==
  ASSUME TypeOK, NEW t, NEW s \in Session, NEW call, MayCall(t, s, call)
  PROVE  session[s].proxy /\ session[s].st \in Live \ {"released"} /\ op[t].pc = "idle" /\ alive
BY Fields DEF MayCall, At, Live, States

LEMMA LiveOf ==
  ASSUME Typed, NEW t \in Thread, NEW s \in Session, Names(op[t], s)
  PROVE  Named(s) /\ session[s].st \in Live
BY DEF Typed, SessionsOK, SessionOK, Named

LEMMA SameGroup ==
  ASSUME Typed
  PROVE  IsInjective(group) /\ group \in Seq(Session)
BY DEF Typed, TypeOK, SessionsOK

\* The new session is the next in order.
LEMMA FreshSession ==
  ASSUME Typed, NEW t \in Client, NewInstance(t)
  PROVE  \E s \in Session :
           /\ s = 1 + Cardinality({k \in Session : session[k].st # "none"})
           /\ session[s].st = "none" /\ ~ Named(s)
           /\ {k \in Session : session[k].st # "none"} \cup {s} = 1 .. s
<1>. DEFINE known == {k \in Session : session[k].st # "none"}
<1>1. PICK n \in 0 .. MaxSessions : known = 1 .. n
  BY DEF Typed, SessionsOK, InOrder
<1>2. MaxSessions \in Nat /\ workload.sessions \in 0 .. MaxSessions /\ n \in Nat
  BY <1>1, WorkloadIs DEF Typed
<1>3. Cardinality(known) = n
  <2>1. Cardinality(1 .. n) = IF 1 > n THEN 0 ELSE n - 1 + 1
    BY <1>2, FS_Interval
  <2>. HIDE DEF known
  <2>. QED  BY <1>1, <1>2, <2>1
<1>4. 1 + Cardinality(known) <= workload.sessions
  BY DEF NewInstance
<1>. DEFINE s == n + 1
<1>5. s \in Session /\ s = 1 + Cardinality(known)
  <2>. HIDE DEF known
  <2>. QED  BY <1>2, <1>3, <1>4 DEF Session
<1>6. session[s].st = "none"
  <2>1. s \notin 1 .. n
    BY <1>2
  <2>. HIDE DEF s
  <2>. QED  BY <1>1, <1>5, <2>1
<1>7. ~ Named(s)
  BY <1>5, <1>6 DEF Typed, SessionsOK, SessionOK, Live
<1>8. known \cup {s} = 1 .. s
  <2>1. 1 .. n \cup {n + 1} = 1 .. n + 1
    BY <1>2
  <2>. HIDE DEF known
  <2>. QED  BY <1>1, <2>1
<1>. QED  BY <1>5, <1>6, <1>7, <1>8

LEMMA NewInstanceTyped ==
  ASSUME Typed, NEW t \in Client, NewInstance(t)
  PROVE  Typed'
<1>1. TypeOK' /\ ThreadsOK' /\ OnlyOf(t) /\ op'[t] = [Idle EXCEPT !.pc = "overflow", !.next = "created"]
  BY NewInstanceType DEF Typed
<1>2. PICK s \in Session :
        /\ s = 1 + Cardinality({k \in Session : session[k].st # "none"})
        /\ session[s].st = "none" /\ ~ Named(s)
        /\ {k \in Session : session[k].st # "none"} \cup {s} = 1 .. s
  BY FreshSession
<1>3. /\ session' = [session EXCEPT ![s] = [st |-> "init", input |-> NoDevice, proxy |-> TRUE]]
      /\ operator' = [operator EXCEPT ![s].listed = TRUE]
      /\ group' = Append(group, s)
  BY <1>2 DEF NewInstance
<1>4. /\ session'[s].st = "init" /\ session'[s].proxy
      /\ \A k \in Session : k # s => session'[k] = session[k] /\ operator'[k] = operator[k]
  BY <1>2, <1>3, Parts DEF Typed
<1>5. InOrder'
  <2>1. {k \in Session : session'[k].st # "none"} = {k \in Session : session[k].st # "none"} \cup {s}
    BY <1>4
  <2>2. s \in 0 .. MaxSessions /\ {k \in Session : session'[k].st # "none"} = 1 .. s
    BY <1>2, <2>1, WorkloadIs DEF Session, Typed
  <2>. QED  BY <2>2 DEF InOrder
<1>6. group \in Seq(Session) /\ IsInjective(group)
  BY SameGroup
<1>7. IsInjective(group')
  <2>1. s \notin ToSet(group)
    BY <1>2 DEF Named, InGroup
  <2>. QED  BY <1>2, <1>3, <1>6, <2>1, InjectiveAppend
<1>8. ASSUME NEW k \in Session
      PROVE  SessionOK(k)'
  <2>1. CASE k = s
    BY <1>4, <2>1 DEF SessionOK, Live
  <2>2. CASE k # s
    <3>1. SessionOK(k)
      BY DEF Typed, SessionsOK
    <3>2. Named(k)' => Named(k)
      <4>1. InGroup(k)' => InGroup(k)
        BY <1>2, <1>3, <1>6, <2>2, SetOfAppend DEF InGroup
      <4>2. ~ Names(op'[t], k)
        <5>1. op'[t].s = None /\ op'[t].todo = <<>>
          BY <1>1, IdleIs DEF Doing
        <5>. QED  BY <5>1, SetOfEmpty DEF Names, Session, None
      <4>. QED  BY <1>1, <4>1, <4>2 DEF Named, OnlyOf
    <3>. QED  BY <1>4, <2>2, <3>1, <3>2 DEF SessionOK
  <2>. QED  BY <2>1, <2>2
<1>. QED  BY <1>1, <1>5, <1>7, <1>8 DEF Typed, SessionsOK

LEMMA PreemptTyped ==
  ASSUME Typed, NEW t \in Thread, PreemptOverflowSessions(t)
  PROVE  Typed'
<1>1. /\ TypeOK' /\ ThreadsOK' /\ OnlyOf(t)
      /\ \E n \in Nat :
           LET a == SubSeq(group, 1, n)  b == SubSeq(group, n + 1, Len(group)) IN
           /\ n <= Len(group) /\ Len(group) - n <= workload.limit
           /\ group' = b /\ a \in Seq(Session) /\ b \in Seq(Session)
           /\ \E o \in Doing : Resumed(t, o, op'[t]) /\ o.todo = a /\ o.devs = <<>> /\ o.next = "created"
  BY PreemptType DEF Typed
<1>2. PICK n \in Nat :
        LET a == SubSeq(group, 1, n)  b == SubSeq(group, n + 1, Len(group)) IN
        /\ n <= Len(group) /\ group' = b
        /\ \E o \in Doing : Resumed(t, o, op'[t]) /\ o.todo = a
  BY <1>1
<1>. DEFINE a == SubSeq(group, 1, n)  b == SubSeq(group, n + 1, Len(group))
<1>3. PICK o \in Doing : Resumed(t, o, op'[t]) /\ o.todo = a
  BY <1>2
<1>4. IsInjective(group) /\ group \in Seq(Session)
  BY SameGroup
<1>5. /\ \A x : x \in ToSet(group) <=> x \in ToSet(a) \/ x \in ToSet(b)
      /\ IsInjective(group) => IsInjective(b)
  BY <1>2, <1>4, Cut
<1>6. group' = b
  BY <1>2
<1>. HIDE DEF a, b
<1>7. \A s \in Session : Names(op'[t], s) => Named(s)
  BY <1>3, <1>5, ResumedNames DEF Named, InGroup
<1>8. \A s \in Session : Named(s)' => Named(s) \/ session[s].proxy
  BY <1>1, <1>5, <1>6, <1>7, NamesKept
<1>9. UNCHANGED <<session, operator>>
  BY DEF PreemptOverflowSessions
<1>10. Gentle
  BY <1>9 DEF Gentle
<1>. QED  BY <1>1, <1>4, <1>5, <1>6, <1>8, <1>10, GentleKeeps DEF Typed

\* The steps that move no thread.
LEMMA StillTyped ==
  ASSUME Typed, TypeOK', ThreadsOK', UNCHANGED <<op, group>>, Gentle
  PROVE  Typed'
BY OpNames, GentleKeeps, SameGroup DEF Typed

\* The steps of one thread that leave the group.
LEMMA MovedTyped ==
  ASSUME Typed, NEW t \in Thread, TypeOK', ThreadsOK', OnlyOf(t), UNCHANGED group, Gentle,
         \A s \in Session : Names(op'[t], s) => Named(s) \/ session[s].proxy
  PROVE  Typed'
<1>1. \A s \in Session : Named(s)' => Named(s) \/ session[s].proxy
  BY NamesKept
<1>. QED  BY <1>1, GentleKeeps, SameGroup DEF Typed

LEMMA IdledTyped ==
  ASSUME Typed, NEW t \in Thread, TypeOK', ThreadsOK', OnlyOf(t), UNCHANGED group, Gentle, op'[t] = Idle
  PROVE  Typed'
BY IdleNames, MovedTyped

LEMMA SameTyped ==
  ASSUME Typed, NEW t \in Thread, TypeOK', ThreadsOK', OnlyOf(t), UNCHANGED group, Gentle, SameBut(op[t], op'[t])
  PROVE  Typed'
<1>1. \A s \in Session : Names(op'[t], s) => Named(s)
  BY SameNames DEF Named
<1>. QED  BY <1>1, MovedTyped

LEMMA ResumedTyped ==
  ASSUME Typed, NEW t \in Thread, TypeOK', ThreadsOK', OnlyOf(t), UNCHANGED group, Gentle, Resumed(t, op[t], op'[t])
  PROVE  Typed'
<1>1. op[t] \in Doing
  BY OpType DEF Typed
<1>2. \A s \in Session : Names(op'[t], s) => Named(s)
  BY <1>1, ResumedNames DEF Named, Names
<1>. QED  BY <1>2, MovedTyped

\* The client's thread takes a session of the client.
LEMMA TakenTyped ==
  ASSUME Typed, NEW t \in Thread, TypeOK', ThreadsOK', OnlyOf(t), UNCHANGED group, Gentle,
         NEW s \in Session, session[s].proxy, op'[t].s = s, op'[t].todo = <<>>
  PROVE  Typed'
<1>1. \A k \in Session : Names(op'[t], k) => session[k].proxy
  BY NamesOne
<1>. QED  BY <1>1, MovedTyped

\* The steps that set the state of one session.
LEMMA GentleState ==
  ASSUME TypeOK, NEW s \in Session, session[s].st \in Live, NEW st \in Live,
         session' = session \/ session' = [session EXCEPT ![s].st = st],
         \A k \in Session : session[k].st = "none" => operator'[k] = operator[k]
  PROVE  Gentle
<1>1. session \in [Session -> SessionType]
  BY Parts
<1>2. CASE session' = [session EXCEPT ![s].st = st]
  <2>1. \A k \in Session : /\ session'[k].st = IF k = s THEN st ELSE session[k].st
                           /\ session'[k].proxy = session[k].proxy /\ session'[k].input = session[k].input
    BY <1>1, <1>2 DEF SessionType
  <2>. QED  BY <2>1 DEF Gentle, Live
<1>3. CASE session' = session
  BY <1>3 DEF Gentle
<1>. QED  BY <1>2, <1>3

LEMMA GentleInput ==
  ASSUME TypeOK, NEW s \in Session, session[s].st \in Live, NEW d,
         session' = [session EXCEPT ![s].input = d],
         \A k \in Session : session[k].st = "none" => operator'[k] = operator[k]
  PROVE  Gentle
<1>1. session \in [Session -> SessionType]
  BY Parts
<1>2. \A k \in Session : /\ session'[k].st = session[k].st /\ session'[k].proxy = session[k].proxy
                         /\ k # s => session'[k].input = session[k].input
  BY <1>1 DEF SessionType
<1>. QED  BY <1>2 DEF Gentle, Live

LEMMA GentleSame ==
  ASSUME UNCHANGED session, \A k \in Session : session[k].st = "none" => operator'[k] = operator[k]
  PROVE  Gentle
BY DEF Gentle

LEMMA EnterTyped ==
  ASSUME Typed, NEW t \in Client, NEW s \in Session, NEW call, Enter(t, s, call)
  PROVE  Typed'
<1>1. /\ TypeOK' /\ ThreadsOK' /\ OnlyOf(t) /\ t \in Thread /\ op'[t] = [Idle EXCEPT !.pc = call, !.s = s]
  BY EnterType, ClientIs DEF Typed
<1>2. op'[t].s = s /\ op'[t].todo = <<>>
  BY <1>1, IdleIs DEF Doing
<1>3. session[s].proxy /\ UNCHANGED <<session, operator, group>>
  BY DEF Enter, MayCall
<1>. QED  BY <1>1, <1>2, <1>3, GentleSame, TakenTyped

LEMMA BeginConfigTyped ==
  ASSUME Typed, NEW t \in Thread, BeginConfig(t)
  PROVE  Typed'
<1>1. TypeOK' /\ ThreadsOK' /\ OnlyOf(t) /\ op'[t] = Idle /\ op[t].s \in Session
  BY BeginConfigType DEF Typed
<1>2. session[op[t].s].st \in Live
  BY <1>1, LiveOf DEF Names
<1>3. /\ operator' = [operator EXCEPT ![op[t].s] = InitialOperator(op[t].s)] /\ group' = group
      /\ session' = session \/ session' = [session EXCEPT ![op[t].s].st = "configuring"]
  BY DEF BeginConfig
<1>4. \A k \in Session : session[k].st = "none" => operator'[k] = operator[k]
  BY <1>1, <1>2, <1>3, Parts DEF Typed, Live
<1>5. Gentle
  BY <1>1, <1>2, <1>3, <1>4, GentleState DEF Live, Typed
<1>. QED  BY <1>1, <1>3, <1>5, IdledTyped

LEMMA AddOutputTyped ==
  ASSUME Typed, NEW t \in Thread, NEW x \in Stream, AddOutput(t, x)
  PROVE  Typed'
<1>1. TypeOK' /\ ThreadsOK' /\ OnlyOf(t) /\ op'[t] = Idle /\ op[t].s \in Session
  BY AddOutputType DEF Typed
<1>2. session[op[t].s].st \in Live
  BY <1>1, LiveOf DEF Names
<1>3. PICK o : operator' = [operator EXCEPT ![op[t].s] = o]
  BY DEF AddOutput
<1>4. UNCHANGED <<session, group>>
  BY DEF AddOutput
<1>5. \A k \in Session : session[k].st = "none" => operator'[k] = operator[k]
  BY <1>1, <1>2, <1>3, Parts DEF Typed, Live
<1>. QED  BY <1>1, <1>4, <1>5, GentleSame, IdledTyped

LEMMA RemoveOutputTyped ==
  ASSUME Typed, NEW t \in Client, NEW s \in Session, NEW x \in Stream, RemoveOutput(t, s, x)
  PROVE  Typed'
<1>1. TypeOK' /\ ThreadsOK' /\ op' = op
  BY RemoveOutputType DEF Typed
<1>2. /\ session[s].st = "configuring" /\ operator' = [operator EXCEPT ![s].outputs = @ \ {x}]
      /\ UNCHANGED <<session, group>>
  BY DEF RemoveOutput
<1>3. \A k \in Session : session[k].st = "none" => operator'[k] = operator[k]
  BY <1>2, Parts DEF Typed
<1>. QED  BY <1>1, <1>2, <1>3, GentleSame, StillTyped

LEMMA AddInputTyped ==
  ASSUME Typed, NEW t \in Client, NEW s \in Session, NEW d \in Device, AddInput(t, s, d)
  PROVE  Typed'
<1>1. TypeOK' /\ ThreadsOK' /\ op' = op
  BY AddInputType DEF Typed
<1>2. /\ session[s].st = "configuring" /\ session' = [session EXCEPT ![s].input = d]
      /\ UNCHANGED <<operator, group>>
  BY DEF AddInput
<1>3. Gentle
  BY <1>2, GentleInput DEF Typed, Live
<1>. QED  BY <1>1, <1>2, <1>3, StillTyped

LEMMA RemoveInputTyped ==
  ASSUME Typed, NEW t \in Client, NEW s \in Session, RemoveInput(t, s)
  PROVE  Typed'
<1>1. TypeOK' /\ ThreadsOK' /\ op' = op
  BY RemoveInputType DEF Typed
<1>2. /\ session[s].st = "configuring" /\ session' = [session EXCEPT ![s].input = NoDevice]
      /\ operator' = [operator EXCEPT ![s].hdi = NoDevice] /\ UNCHANGED group
  BY DEF RemoveInput
<1>3. \A k \in Session : session[k].st = "none" => operator'[k] = operator[k]
  BY <1>2, Parts DEF Typed
<1>4. Gentle
  BY <1>2, <1>3, GentleInput DEF Typed, Live
<1>. QED  BY <1>1, <1>2, <1>4, StillTyped

LEMMA CommitConfigTyped ==
  ASSUME Typed, NEW t \in Client, NEW s \in Session, CommitConfig(t, s)
  PROVE  Typed'
<1>1. /\ TypeOK' /\ ThreadsOK' /\ OnlyOf(t) /\ t \in Thread
      /\ op' = op \/ op'[t] = [Idle EXCEPT !.pc = "link", !.s = s, !.ways = operator[s].outputs]
  BY CommitConfigType, ClientIs DEF Typed
<1>2. /\ session[s].st \in {"configuring", "started"} /\ session[s].proxy /\ UNCHANGED <<session, group>>
      /\ operator' = operator \/ operator' = [operator EXCEPT ![s].hdi = session[s].input]
  BY DEF CommitConfig, MayCall
<1>3. \A k \in Session : session[k].st = "none" => operator'[k] = operator[k]
  BY <1>2, Parts DEF Typed
<1>4. Gentle
  BY <1>2, <1>3, GentleSame
<1>5. CASE op' = op
  BY <1>1, <1>2, <1>4, <1>5, StillTyped
<1>6. CASE op'[t] = [Idle EXCEPT !.pc = "link", !.s = s, !.ways = operator[s].outputs]
  <2>1. op'[t].s = s /\ op'[t].todo = <<>>
    BY <1>6, IdleIs DEF Doing
  <2>. QED  BY <1>1, <1>2, <1>4, <2>1, TakenTyped
<1>. QED  BY <1>1, <1>5, <1>6

LEMMA LinkStreamTyped ==
  ASSUME Typed, NEW t \in Thread, NEW x \in Stream, LinkStream(t, x)
  PROVE  Typed'
<1>1. /\ TypeOK' /\ ThreadsOK' /\ OnlyOf(t) /\ op[t].s \in Session
      /\ op'[t] = Idle \/ (op'[t].s = op[t].s /\ op'[t].todo = <<>>)
  BY LinkStreamType DEF Typed
<1>2. UNCHANGED <<session, operator, group>>
  BY DEF LinkStream
<1>3. Gentle
  BY <1>2, GentleSame
<1>4. CASE op'[t] = Idle
  BY <1>1, <1>2, <1>3, <1>4, IdledTyped
<1>5. CASE op'[t].s = op[t].s /\ op'[t].todo = <<>>
  <2>1. \A k \in Session : Names(op'[t], k) => Named(k)
    BY <1>5, NamesOne DEF Named, Names
  <2>. QED  BY <1>1, <1>2, <1>3, <2>1, MovedTyped
<1>. QED  BY <1>1, <1>4, <1>5

LEMMA CreateStreamsTyped ==
  ASSUME Typed, NEW t \in Thread, CreateStreams(t)
  PROVE  Typed'
<1>1. TypeOK' /\ ThreadsOK' /\ OnlyOf(t) /\ op'[t] = Idle /\ op[t].s \in Session
  BY CreateStreamsType DEF Typed
<1>2. session[op[t].s].st \in Live
  BY <1>1, LiveOf DEF Names
<1>3. /\ session' = session \/ session' = [session EXCEPT ![op[t].s].st = "committed"]
      /\ UNCHANGED <<operator, group>>
  BY DEF CreateStreams
<1>4. Gentle
  BY <1>1, <1>2, <1>3, GentleState DEF Live, Typed
<1>. QED  BY <1>1, <1>3, <1>4, IdledTyped

LEMMA StartTyped ==
  ASSUME Typed, NEW t \in Client, NEW s \in Session, Start(t, s)
  PROVE  Typed'
<1>1. TypeOK' /\ ThreadsOK' /\ op' = op
  BY StartType DEF Typed
<1>2. /\ session[s].st = "committed" /\ session' = [session EXCEPT ![s].st = "started"]
      /\ UNCHANGED <<operator, group>>
  BY DEF Start
<1>3. Gentle
  BY <1>2, GentleState DEF Live, Typed
<1>. QED  BY <1>1, <1>2, <1>3, StillTyped

LEMMA StopGentle ==
  ASSUME Typed, NEW s \in Session, StopEffect(s), UNCHANGED operator
  PROVE  Gentle
<1>1. CASE session[s].st \in {"configuring", "started"} /\ HasOperator(s)
  <2>1. session' = [session EXCEPT ![s].st = "committed"]
    BY <1>1 DEF StopEffect
  <2>. QED  BY <1>1, <2>1, GentleState DEF Live, Typed
<1>2. CASE ~ (session[s].st \in {"configuring", "started"} /\ HasOperator(s))
  <2>1. session' = session
    BY <1>2 DEF StopEffect
  <2>. QED  BY <2>1, GentleSame
<1>. QED  BY <1>1, <1>2

LEMMA StopTyped ==
  ASSUME Typed, NEW t \in Client, NEW s \in Session, Stop(t, s)
  PROVE  Typed'
<1>1. TypeOK' /\ ThreadsOK' /\ op' = op
  BY StopType DEF Typed
<1>2. StopEffect(s) /\ UNCHANGED <<operator, group>>
  BY DEF Stop
<1>. QED  BY <1>1, <1>2, StopGentle, StillTyped

LEMMA ReleaseTyped ==
  ASSUME Typed, NEW t \in Client, NEW s \in Session, Release(t, s)
  PROVE  Typed'
<1>1. TypeOK' /\ ThreadsOK' /\ OnlyOf(t) /\ t \in Thread /\ op'[t] = [Idle EXCEPT !.pc = "release", !.s = s]
  BY ReleaseType, ClientIs DEF Typed
<1>2. StopEffect(s) /\ UNCHANGED <<operator, group>> /\ session[s].proxy
  BY DEF Release, MayCall
<1>3. op'[t].s = s /\ op'[t].todo = <<>>
  BY <1>1, IdleIs DEF Doing
<1>. QED  BY <1>1, <1>2, <1>3, StopGentle, TakenTyped

LEMMA StopPreemptedTyped ==
  ASSUME Typed, NEW t \in Thread, StopPreempted(t)
  PROVE  Typed'
<1>1. TypeOK' /\ ThreadsOK' /\ OnlyOf(t) /\ op[t].s \in Session /\ SameBut(op[t], op'[t])
  BY StopPreemptedType DEF Typed
<1>2. StopEffect(op[t].s) /\ UNCHANGED <<operator, group>>
  BY DEF StopPreempted
<1>. QED  BY <1>1, <1>2, StopGentle, SameTyped

LEMMA DropProxyTyped ==
  ASSUME Typed, NEW t \in Client, NEW s \in Session, DropProxy(t, s)
  PROVE  Typed'
<1>1. /\ TypeOK' /\ ThreadsOK' /\ OnlyOf(t) /\ t \in Thread
      /\ op'[t] = [Idle EXCEPT !.pc = "release", !.s = s, !.next = "dropped"]
  BY DropProxyType, ClientIs DEF Typed
<1>2. session' = [session EXCEPT ![s].proxy = FALSE] /\ UNCHANGED <<operator, group>> /\ session[s].proxy
  BY DEF DropProxy
<1>3. op'[t].s = s /\ op'[t].todo = <<>>
  BY <1>1, IdleIs DEF Doing
<1>4. Gentle
  <2>1. \A k \in Session : /\ session'[k].st = session[k].st /\ session'[k].input = session[k].input
                           /\ session'[k].proxy => session[k].proxy
    BY <1>2, Parts DEF SessionType, Typed
  <2>. QED  BY <1>2, <2>1 DEF Gentle
<1>. QED  BY <1>1, <1>2, <1>3, <1>4, TakenTyped

LEMMA ReleaseSessionTyped ==
  ASSUME Typed, NEW t \in Thread, ReleaseSession(t)
  PROVE  Typed'
<1>1. IsInjective(group) /\ group \in Seq(Session) /\ op[t] \in Doing
  BY SameGroup, OpType DEF Typed
<1>2. /\ TypeOK' /\ ThreadsOK' /\ OnlyOf(t) /\ op[t].s \in Session
      /\ \/ op'[t].s = op[t].s /\ op'[t].todo = op[t].todo
         \/ Resumed(t, op[t], op'[t])
  BY <1>1, ReleaseSessionType DEF Typed
<1>3. session[op[t].s].st \in Live
  BY <1>2, LiveOf DEF Names
<1>4. /\ group' = group \/ group' = RemoveFirst(group, op[t].s)
      /\ session' = session
      /\ operator' = operator \/ operator' = [operator EXCEPT ![op[t].s].outputs = {}]
  BY DEF ReleaseSession
<1>5. IsInjective(group') /\ \A s \in Session : s \in ToSet(group') => s \in ToSet(group)
  BY <1>1, <1>4, FirstRemoved
<1>6. \A s \in Session : Names(op'[t], s) => Named(s)
  BY <1>1, <1>2, ResumedNames DEF Named, Names
<1>7. \A s \in Session : Named(s)' => Named(s) \/ session[s].proxy
  BY <1>2, <1>5, <1>6, NamesKept
<1>8. \A k \in Session : session[k].st = "none" => operator'[k] = operator[k]
  BY <1>2, <1>3, <1>4, Parts DEF Typed, Live
<1>. QED  BY <1>2, <1>4, <1>5, <1>7, <1>8, GentleSame, GentleKeeps DEF Typed

LEMMA ReleaseFinishTyped ==
  ASSUME Typed, NEW t \in Thread, ReleaseFinish(t)
  PROVE  Typed'
<1>1. TypeOK' /\ ThreadsOK' /\ OnlyOf(t) /\ op[t].s \in Session /\ Resumed(t, op[t], op'[t])
  BY ReleaseFinishType DEF Typed
<1>2. session[op[t].s].st \in Live
  BY <1>1, LiveOf DEF Names
<1>3. /\ session' = [session EXCEPT ![op[t].s].st = "released", ![op[t].s].input = NoDevice]
      /\ operator' = [operator EXCEPT ![op[t].s] = NoOperator] /\ UNCHANGED group
  BY DEF ReleaseFinish
<1>4. Gentle
  <2>1. \A k \in Session : /\ k # op[t].s => session'[k] = session[k] /\ operator'[k] = operator[k]
                           /\ k = op[t].s => session'[k].st = "released" /\ session'[k].proxy = session[k].proxy
    BY <1>3, Parts DEF SessionType, Typed
  <2>. QED  BY <1>2, <2>1 DEF Gentle, Live
<1>. QED  BY <1>1, <1>3, <1>4, ResumedTyped

LEMMA OpenTyped ==
  ASSUME Typed, NEW t, NEW d \in Device, Open(t, d)
  PROVE  Typed'
<1>1. TypeOK' /\ ThreadsOK' /\ op' = op
  BY OpenType DEF Typed
<1>2. UNCHANGED <<session, operator, group>>
  BY DEF Open
<1>. QED  BY <1>1, <1>2, GentleSame, StillTyped

LEMMA CloseTyped ==
  ASSUME Typed, NEW t \in Thread, NEW d \in Device, Close(t, d)
  PROVE  Typed'
<1>1. TypeOK' /\ ThreadsOK' /\ OnlyOf(t) /\ op'[t] = [Idle EXCEPT !.pc = "listener", !.dev = d]
  BY CloseType DEF Typed
<1>2. UNCHANGED <<session, operator, group>>
  BY DEF Close
<1>3. op'[t].s = None /\ op'[t].todo = <<>>
  BY <1>1, IdleIs DEF Doing
<1>4. \A k \in Session : ~ Names(op'[t], k)
  BY <1>3, NamesOne DEF Session, None
<1>. QED  BY <1>1, <1>2, <1>4, GentleSame, MovedTyped

LEMMA CloseLockTyped ==
  ASSUME Typed, NEW t \in Thread, CloseLock(t)
  PROVE  Typed'
<1>1. TypeOK' /\ ThreadsOK' /\ OnlyOf(t) /\ SameBut(op[t], op'[t])
  BY CloseLockType DEF Typed
<1>2. UNCHANGED <<session, operator, group>>
  BY DEF CloseLock
<1>. QED  BY <1>1, <1>2, GentleSame, SameTyped

LEMMA BeforeDeviceCloseTyped ==
  ASSUME Typed, NEW t \in Thread, BeforeDeviceClose(t)
  PROVE  Typed'
<1>1. TypeOK' /\ ThreadsOK' /\ OnlyOf(t) /\ SameBut(op[t], op'[t])
  BY BeforeDeviceCloseType DEF Typed
<1>2. UNCHANGED <<session, operator, group>>
  BY DEF BeforeDeviceClose
<1>. QED  BY <1>1, <1>2, GentleSame, SameTyped

\* A session that is not there has no operator to lose.
LEMMA NoneHasNone ==
  ASSUME Typed, NEW s \in Session, session[s].st = "none"
  PROVE  /\ operator[s] = NoOperator /\ session[s].input = NoDevice
         /\ ~ operator[s].listed /\ operator[s].hdi = NoDevice /\ operator[s].outputs = {}
<1>1. operator[s] = NoOperator /\ session[s].input = NoDevice
  BY DEF Typed, SessionsOK, SessionOK
<1>2. ~ NoOperator.listed /\ NoOperator.hdi = NoDevice /\ NoOperator.outputs = {}
  BY DEF NoOperator
<1>. QED  BY <1>1, <1>2

LEMMA OperatorReleaseTyped ==
  ASSUME Typed, NEW t \in Thread, OperatorRelease(t)
  PROVE  Typed'
<1>1. TypeOK' /\ ThreadsOK' /\ OnlyOf(t) /\ SameBut(op[t], op'[t]) /\ op[t].dev \in Device
  BY OperatorReleaseType DEF Typed
<1>. DEFINE s == device[op[t].dev].listener
<1>2. /\ operator' = [operator EXCEPT ![s].listed = FALSE, ![s].hdi = NoDevice]
      /\ UNCHANGED <<session, group>>
  BY DEF OperatorRelease
<1>. HIDE DEF s
<1>3. \A k \in Session : session[k].st = "none" => operator'[k] = operator[k]
  <2>1. \A k \in Session : k # s => operator'[k] = operator[k]
    BY <1>2, Parts DEF Typed
  <2>2. ASSUME s \in Session, session[s].st = "none"
        PROVE  operator'[s] = operator[s]
    <3>. DEFINE r == [operator[s] EXCEPT !.listed = FALSE, !.hdi = NoDevice]
    <3>1. operator[s] \in OperatorType
      BY <2>2, Fields DEF Typed
    <3>2. r \in OperatorType /\ r.listed = FALSE /\ r.hdi = NoDevice /\ r.outputs = operator[s].outputs
      BY <3>1, SessionsAssumption DEF OperatorType
    <3>3. operator' = [operator EXCEPT ![s] = r]
      BY <1>2
    <3>. HIDE DEF r
    <3>4. operator'[s] = r
      BY <2>2, <3>3, Parts DEF Typed
    <3>5. operator[s].listed = FALSE /\ operator[s].hdi = NoDevice
      BY <2>2, <3>1, NoneHasNone DEF OperatorType
    <3>6. \A a, b \in OperatorType : a.listed = b.listed /\ a.hdi = b.hdi /\ a.outputs = b.outputs => a = b
      BY DEF OperatorType
    <3>. QED  BY <3>1, <3>2, <3>4, <3>5, <3>6
  <2>. QED  BY <2>1, <2>2
<1>. QED  BY <1>1, <1>2, <1>3, GentleSame, SameTyped

LEMMA HdiCloseTyped ==
  ASSUME Typed, NEW t \in Thread, HdiClose(t)
  PROVE  Typed'
<1>1. /\ TypeOK' /\ ThreadsOK' /\ OnlyOf(t) /\ op[t].dev \in Device
      /\ SameBut(op[t], op'[t]) \/ Resumed(t, op[t], op'[t])
  BY HdiCloseType DEF Typed
<1>. DEFINE d == op[t].dev
            Gone(h) == IF h = d THEN Stale ELSE h
<1>2. /\ operator' = operator \/ operator' = [s \in Session |-> [operator[s] EXCEPT !.hdi = Gone(@)]]
      /\ UNCHANGED <<session, group>>
  BY DEF HdiClose
<1>3. \A k \in Session : session[k].st = "none" => operator'[k] = operator[k]
  <2>1. ASSUME NEW k \in Session, session[k].st = "none",
               operator' = [s \in Session |-> [operator[s] EXCEPT !.hdi = Gone(@)]]
        PROVE  operator'[k] = operator[k]
    <3>1. operator[k] = NoOperator /\ operator[k].hdi = NoDevice
      BY <2>1, NoneHasNone
    <3>2. Gone(operator[k].hdi) = NoDevice
      BY <1>1, <3>1, SessionsAssumption
    <3>3. operator'[k] = [operator[k] EXCEPT !.hdi = Gone(operator[k].hdi)]
      BY <2>1
    <3>. HIDE DEF Gone
    <3>. QED  BY <3>1, <3>2, <3>3 DEF NoOperator
  <2>. QED  BY <1>2, <2>1
<1>4. Gentle
  BY <1>2, <1>3, GentleSame
<1>. QED  BY <1>1, <1>2, <1>4, SameTyped, ResumedTyped

LEMMA HdiLetsGoTyped ==
  ASSUME Typed, NEW s \in Session, HdiLetsGo(s)
  PROVE  Typed'
<1>1. TypeOK' /\ ThreadsOK' /\ op' = op
  BY HdiLetsGoType DEF Typed
<1>2. UNCHANGED <<session, operator, group>>
  BY DEF HdiLetsGo
<1>. QED  BY <1>1, <1>2, GentleSame, StillTyped

LEMMA DieTyped ==
  ASSUME Typed, Die
  PROVE  Typed'
<1>1. /\ TypeOK' /\ ThreadsOK' /\ OnlyOf(Reaper) /\ Reaper \in Thread
      /\ \E o \in Doing : Resumed(Reaper, o, op'[Reaper]) /\ o.todo = group
  BY DieType DEF Typed, Thread
<1>2. UNCHANGED <<session, operator, group>>
  BY DEF Die
<1>3. \A s \in Session : Names(op'[Reaper], s) => Named(s)
  BY <1>1, ResumedNames DEF Named, InGroup
<1>. QED  BY <1>1, <1>2, <1>3, GentleSame, MovedTyped

LEMMA RemoveGroupTyped ==
  ASSUME Typed, NEW t \in Thread, RemoveGroup(t)
  PROVE  Typed'
<1>1. /\ TypeOK' /\ ThreadsOK' /\ OnlyOf(t)
      /\ \E o \in Doing : Resumed(t, o, op'[t]) /\ o.todo = <<>>
  BY RemoveGroupType DEF Typed
<1>2. UNCHANGED <<session, operator>> /\ group' = <<>>
  BY DEF RemoveGroup
<1>3. \A s \in Session : ~ Names(op'[t], s)
  BY <1>1, ResumedNames, SetOfEmpty
<1>4. \A s \in Session : s \notin ToSet(group')
  BY <1>2, SetOfEmpty
<1>5. \A s \in Session : Named(s)' => Named(s) \/ session[s].proxy
  BY <1>1, <1>3, <1>4, NamesKept
<1>. QED  BY <1>1, <1>2, <1>5, GentleSame, GentleKeeps, EmptyInjective DEF Typed

LEMMA ReleaseOperatorsTyped ==
  ASSUME Typed, NEW t \in Thread, ReleaseOperators(t)
  PROVE  Typed'
<1>1. /\ TypeOK' /\ ThreadsOK' /\ OnlyOf(t)
      /\ \E o \in Doing : Resumed(t, o, op'[t]) /\ o.todo = <<>>
  BY ReleaseOperatorsType DEF Typed
<1>2. UNCHANGED <<session, group>>
  BY DEF ReleaseOperators
<1>3. \A s \in Session : ~ Names(op'[t], s)
  BY <1>1, ResumedNames, SetOfEmpty
<1>4. \A k \in Session : ~ operator[k].listed => operator'[k] = operator[k]
  BY DEF ReleaseOperators
<1>5. \A k \in Session : session[k].st = "none" => operator'[k] = operator[k]
  BY <1>4, NoneHasNone
<1>. QED  BY <1>1, <1>2, <1>3, <1>5, GentleSame, MovedTyped

\* What nothing names can go.
LEMMA DestroyUnnamed ==
  ASSUME Typed, NEW s \in Session, Destroy(s)
  PROVE  ~ Named(s)
BY DEF Destroy, Named, Names

LEMMA DestroyTyped ==
  ASSUME Typed, NEW s \in Session, Destroy(s)
  PROVE  Typed'
<1>1. TypeOK' /\ ThreadsOK' /\ op' = op
  BY DestroyType DEF Typed
<1>2. /\ session' = [session EXCEPT ![s].st = "gone", ![s].input = NoDevice] /\ ~ session[s].proxy
      /\ session[s].st # "none" /\ UNCHANGED <<operator, group>>
  BY DEF Destroy
<1>3. \A k \in Session : /\ k # s => session'[k] = session[k]
                         /\ k = s => session'[k].st = "gone" /\ session'[k].proxy = session[k].proxy
  BY <1>2, Parts DEF SessionType, Typed
<1>4. \A k \in Session : Named(k)' <=> Named(k)
  BY <1>1, <1>2 DEF Named, Names, InGroup
<1>5. \A k \in Session : session'[k].st = "none" <=> session[k].st = "none"
  BY <1>2, <1>3
<1>6. InOrder'
  <2>1. PICK n \in 0 .. MaxSessions : {k \in Session : session[k].st # "none"} = 1 .. n
    BY DEF Typed, SessionsOK, InOrder
  <2>2. {k \in Session : session'[k].st # "none"} = {k \in Session : session[k].st # "none"}
    BY <1>5
  <2>. QED  BY <2>1, <2>2 DEF InOrder, Session
<1>7. ASSUME NEW k \in Session
      PROVE  SessionOK(k)'
  <2>1. SessionOK(k)
    BY DEF Typed, SessionsOK
  <2>2. CASE k = s
    <3>1. ~ Named(k)'
      BY <1>4, <2>2, DestroyUnnamed
    <3>. QED  BY <1>2, <1>3, <2>2, <3>1 DEF SessionOK
  <2>3. CASE k # s
    BY <1>2, <1>3, <1>4, <2>1, <2>3 DEF SessionOK
  <2>. QED  BY <2>2, <2>3
<1>8. IsInjective(group')
  BY <1>2, SameGroup
<1>. QED  BY <1>1, <1>6, <1>7, <1>8 DEF Typed, SessionsOK

LEMMA TypedInit == Init => Typed
<1>. SUFFICES ASSUME Init
              PROVE  Typed
  OBVIOUS
<1>1. op = [t \in Thread |-> Idle] /\ alive = TRUE /\ group = <<>>
  BY DEF Init
<1>2. op \in [Thread -> Doing]
  BY <1>1, IdleIs
<1>3. /\ session \in [Session -> SessionType] /\ operator \in [Session -> OperatorType]
      /\ linked \in [Session -> LinkType] /\ device \in [Device -> DeviceType]
  <2>1. [st |-> "none", input |-> NoDevice, proxy |-> FALSE] \in SessionType
    BY DEF SessionType, States
  <2>2. NoOperator \in OperatorType
    BY DEF NoOperator, OperatorType
  <2>3. [x \in Stream |-> NoDevice] \in LinkType
    BY DEF LinkType
  <2>4. [open |-> FALSE, listener |-> None, callback |-> None] \in DeviceType
    BY DEF DeviceType
  <2>5. /\ session = [s \in Session |-> [st |-> "none", input |-> NoDevice, proxy |-> FALSE]]
        /\ operator = [s \in Session |-> NoOperator]
        /\ linked = [s \in Session |-> [x \in Stream |-> NoDevice]]
        /\ device = [d \in Device |-> [open |-> FALSE, listener |-> None, callback |-> None]]
    BY DEF Init
  <2>6. /\ \A r \in SessionType : [s \in Session |-> r] \in [Session -> SessionType]
        /\ \A r \in OperatorType : [s \in Session |-> r] \in [Session -> OperatorType]
        /\ \A r \in LinkType : [s \in Session |-> r] \in [Session -> LinkType]
        /\ \A r \in DeviceType : [d \in Device |-> r] \in [Device -> DeviceType]
    OBVIOUS
  <2>. QED  BY <2>1, <2>2, <2>3, <2>4, <2>5, <2>6, Zenon
<1>4. TypeOK
  <2>1. /\ workload \in Workload /\ gate = "free" /\ letGo = {} /\ shared = {} /\ crossed = {} /\ late = {}
        /\ skipped = {} /\ lost = {} /\ inFlight = FALSE
    BY DEF Init
  <2>2. group \in Seq(Session) /\ alive \in BOOLEAN
    BY <1>1, EmptySeq
  <2>. QED  BY <1>2, <1>3, <2>1, <2>2 DEF TypeOK, SessionType, OperatorType, LinkType, DeviceType, Doing
<1>5. ThreadsOK
  BY <1>1, IdleFits DEF ThreadsOK
<1>6. \A s \in Session : ~ Named(s)
  BY <1>1, IdleNames, SetOfEmpty DEF Named, InGroup
<1>7. \A s \in Session : session[s].st = "none" /\ session[s].input = NoDevice /\ ~ session[s].proxy
                         /\ operator[s] = NoOperator
  BY DEF Init
<1>8. InOrder
  <2>1. {k \in Session : session[k].st # "none"} = 1 .. 0 /\ 0 \in 0 .. MaxSessions
    BY <1>7, SessionsAssumption
  <2>. QED  BY <2>1 DEF InOrder
<1>. QED  BY <1>1, <1>4, <1>5, <1>6, <1>7, <1>8, EmptyInjective DEF Typed, SessionsOK, SessionOK

\* The steps, one by one.
LEMMA Steps ==
  ASSUME Next, TypeOK
  PROVE  \/ \E t \in Thread :
              \/ PreemptOverflowSessions(t) \/ BeginConfig(t) \/ CreateStreams(t) \/ StopPreempted(t)
              \/ ReleaseSession(t) \/ ReleaseFinish(t) \/ CloseLock(t) \/ BeforeDeviceClose(t)
              \/ OperatorRelease(t) \/ HdiClose(t) \/ RemoveGroup(t) \/ ReleaseOperators(t)
              \/ \E x \in Stream : AddOutput(t, x) \/ LinkStream(t, x)
              \/ \E d \in Device : Close(t, d)
         \/ \E t \in Client :
              \/ NewInstance(t)
              \/ \E s \in Session :
                   \/ \E call : Enter(t, s, call)
                   \/ \E x \in Stream : RemoveOutput(t, s, x)
                   \/ \E d \in Device : AddInput(t, s, d)
                   \/ RemoveInput(t, s) \/ CommitConfig(t, s) \/ Start(t, s) \/ Stop(t, s)
                   \/ Release(t, s) \/ DropProxy(t, s)
              \/ \E d \in Device : Open(t, d)
         \/ \E s \in Session : HdiLetsGo(s) \/ Destroy(s)
         \/ Die
<1>1. CASE \E t \in Thread : Step(t)
  BY <1>1 DEF Step
<1>2. CASE \E t \in workload.threads : Call(t)
  <2>1. PICK t \in Client : Call(t)
    BY <1>2, WorkloadIs
  <2>2. t \in Thread
    BY ClientIs
  <2>. QED  BY <2>1, <2>2, Zenon DEF Call
<1>3. CASE \E d \in Device : Close(Evictor, d)
  BY <1>3 DEF Thread
<1>4. CASE \E s \in Session : HdiLetsGo(s) \/ Destroy(s)
  BY <1>4
<1>5. CASE Die
  BY <1>5
<1>. QED  BY <1>1, <1>2, <1>3, <1>4, <1>5 DEF Next

LEMMA TypedStep ==
  ASSUME Typed, [Next]_vars
  PROVE  Typed'
<1>1. CASE Next
  BY <1>1, Steps, NewInstanceTyped, PreemptTyped, EnterTyped, BeginConfigTyped, AddOutputTyped, RemoveOutputTyped,
     AddInputTyped, RemoveInputTyped, CommitConfigTyped, LinkStreamTyped, CreateStreamsTyped, StartTyped, StopTyped,
     ReleaseTyped, StopPreemptedTyped, DropProxyTyped, ReleaseSessionTyped, ReleaseFinishTyped, OpenTyped, CloseTyped,
     CloseLockTyped, BeforeDeviceCloseTyped, OperatorReleaseTyped, HdiCloseTyped, HdiLetsGoTyped, DieTyped,
     RemoveGroupTyped, ReleaseOperatorsTyped, DestroyTyped, Zenon DEF Typed
<1>2. CASE UNCHANGED vars
  <2>1. UNCHANGED <<workload, op, gate, session, operator, linked, device, letGo, group, alive, shared, crossed,
                    late, skipped, lost, inFlight>>
    BY <1>2 DEF vars, state, history
  <2>2. TypeOK' /\ ThreadsOK'
    BY <2>1 DEF Typed, TypeOK, ThreadsOK
  <2>3. Gentle
    BY <2>1 DEF Gentle
  <2>. QED  BY <2>1, <2>2, <2>3, StillTyped
<1>. QED  BY <1>1, <1>2

\* Every value is of its type: every record of a thread, a session, an operator and a device is
\* one the code can build, and the group and the lists hold sessions and devices only.
THEOREM TypeCorrect == Spec => []TypeOK
<1>1. Init => Typed
  BY TypedInit
<1>2. Typed /\ [Next]_vars => Typed'
  BY TypedStep
<1>3. Typed => TypeOK
  BY DEF Typed
<1>. QED  BY <1>1, <1>2, <1>3, PTL DEF Spec

-----------------------------------------------------------------------------
(***************************************************************************)
(* What each operation does to the sessions, the operators and the devices, *)
(* field by field.                                                          *)
(***************************************************************************)
LEMMA OperatorIs ==
  ASSUME TypeOK, NEW s \in Session, NEW o, operator' = [operator EXCEPT ![s] = o]
  PROVE  /\ operator'[s] = o
         /\ \A k \in Session : k # s => operator'[k] = operator[k]
BY Parts

LEMMA LinkedIs ==
  ASSUME TypeOK, NEW s \in Session, NEW o, linked' = [linked EXCEPT ![s] = o]
  PROVE  /\ linked'[s] = o
         /\ \A k \in Session : k # s => linked'[k] = linked[k]
BY Parts

LEMMA NoOperatorIs == ~ NoOperator.listed /\ NoOperator.hdi = NoDevice /\ NoOperator.outputs = {}
BY DEF NoOperator

LEMMA NewInstanceDoes ==
  ASSUME Typed, NEW t \in Client, NewInstance(t)
  PROVE  \E s \in Session :
           /\ session[s].st = "none" /\ ~ Named(s) /\ session[s].input = NoDevice
           /\ session'[s].st = "init" /\ session'[s].input = NoDevice /\ session'[s].proxy
           /\ \A k \in Session : k # s => session'[k] = session[k] /\ operator'[k] = operator[k]
           /\ operator'[s].hdi = NoDevice /\ operator'[s].outputs = {}
           /\ group' = Append(group, s)
<1>1. PICK s \in Session :
        /\ s = 1 + Cardinality({k \in Session : session[k].st # "none"})
        /\ session[s].st = "none" /\ ~ Named(s)
  BY FreshSession
<1>2. /\ session' = [session EXCEPT ![s] = [st |-> "init", input |-> NoDevice, proxy |-> TRUE]]
      /\ operator' = [operator EXCEPT ![s].listed = TRUE]
      /\ group' = Append(group, s)
  BY <1>1 DEF NewInstance
<1>3. /\ session'[s] = [st |-> "init", input |-> NoDevice, proxy |-> TRUE]
      /\ \A k \in Session : k # s => session'[k] = session[k]
  BY <1>2, Parts DEF Typed
<1>4. /\ \A k \in Session : k # s => operator'[k] = operator[k]
      /\ operator'[s].hdi = operator[s].hdi /\ operator'[s].outputs = operator[s].outputs
  BY <1>2, Parts DEF Typed, OperatorType
<1>5. operator[s].hdi = NoDevice /\ operator[s].outputs = {} /\ session[s].input = NoDevice
  BY <1>1, NoneHasNone
<1>6. session'[s].st = "init" /\ session'[s].input = NoDevice /\ session'[s].proxy
  BY <1>3
<1>7. \A k \in Session : k # s => session'[k] = session[k] /\ operator'[k] = operator[k]
  BY <1>3, <1>4
<1>8. operator'[s].hdi = NoDevice /\ operator'[s].outputs = {} /\ group' = Append(group, s)
  BY <1>2, <1>4, <1>5
<1>. QED  BY <1>1, <1>5, <1>6, <1>7, <1>8

LEMMA BeginConfigDoes ==
  ASSUME Typed, NEW t \in Thread, BeginConfig(t)
  PROVE  LET s == op[t].s IN
         /\ s \in Session /\ At(t, "begin") /\ StateLockFree(s)
         /\ \A k \in Session : /\ session'[k].input = session[k].input /\ session'[k].proxy = session[k].proxy
                               /\ k # s => session'[k].st = session[k].st /\ operator'[k] = operator[k]
         /\ operator'[s] = InitialOperator(s)
         /\ \/ /\ session[s].st \in {"init", "committed", "started"} /\ session'[s].st = "configuring"
               /\ linked' = [linked EXCEPT ![s] = Unlink(s, InitialOperator(s).outputs)]
            \/ session[s].st \notin {"init", "committed", "started"} /\ UNCHANGED <<session, linked>>
<1>. DEFINE s == op[t].s
<1>1. s \in Session
  BY BeginConfigType DEF Typed
<1>2. /\ At(t, "begin") /\ StateLockFree(s) /\ operator' = [operator EXCEPT ![s] = InitialOperator(s)]
      /\ \/ /\ session[s].st \in {"init", "committed", "started"}
            /\ session' = [session EXCEPT ![s].st = "configuring"]
            /\ linked' = [linked EXCEPT ![s] = Unlink(s, InitialOperator(s).outputs)]
         \/ session[s].st \notin {"init", "committed", "started"} /\ UNCHANGED <<session, linked>>
  BY DEF BeginConfig
<1>. HIDE DEF s
<1>3. operator'[s] = InitialOperator(s) /\ \A k \in Session : k # s => operator'[k] = operator[k]
  BY <1>1, <1>2, OperatorIs DEF Typed
<1>4. \A k \in Session : /\ session'[k].input = session[k].input /\ session'[k].proxy = session[k].proxy
                         /\ (k # s => session'[k].st = session[k].st)
  <2>1. CASE session' = [session EXCEPT ![s].st = "configuring"]
    BY <1>1, <2>1, Parts DEF Typed, SessionType
  <2>. QED  BY <1>2, <2>1
<1>5. session' = [session EXCEPT ![s].st = "configuring"] => session'[s].st = "configuring"
  BY <1>1, Parts DEF Typed, SessionType
<1>. QED  BY <1>1, <1>2, <1>3, <1>4, <1>5, Zenon DEF s

LEMMA AddOutputDoes ==
  ASSUME Typed, NEW t \in Thread, NEW x \in Stream, AddOutput(t, x)
  PROVE  LET s == op[t].s IN
         /\ s \in Session /\ At(t, "addOutput") /\ StateLockFree(s)
         /\ \A k \in Session : k # s => operator'[k] = operator[k]
         /\ operator'[s].listed = InitialOperator(s).listed /\ operator'[s].hdi = InitialOperator(s).hdi
         /\ operator'[s].outputs = IF session[s].st = "configuring" THEN InitialOperator(s).outputs \cup {x}
                                                                    ELSE InitialOperator(s).outputs
         /\ UNCHANGED <<session, linked, device>>
<1>. DEFINE s == op[t].s
            i == InitialOperator(s)
            o == [i EXCEPT !.outputs = IF session[s].st = "configuring" THEN @ \cup {x} ELSE @]
<1>1. s \in Session /\ i \in OperatorType
  BY AddOutputType, InitialOperatorType DEF Typed
<1>2. At(t, "addOutput") /\ StateLockFree(s) /\ operator' = [operator EXCEPT ![s] = o]
      /\ UNCHANGED <<session, linked, device>>
  BY DEF AddOutput
<1>3. /\ o.listed = i.listed /\ o.hdi = i.hdi
      /\ o.outputs = IF session[s].st = "configuring" THEN i.outputs \cup {x} ELSE i.outputs
  <2>. HIDE DEF i
  <2>. QED  BY <1>1 DEF OperatorType
<1>. HIDE DEF o, i
<1>4. operator'[s] = o /\ \A k \in Session : k # s => operator'[k] = operator[k]
  BY <1>1, <1>2, OperatorIs DEF Typed
<1>. QED  BY <1>1, <1>2, <1>3, <1>4 DEF i

LEMMA RemoveOutputDoes ==
  ASSUME Typed, NEW t \in Client, NEW s \in Session, NEW x \in Stream, RemoveOutput(t, s, x)
  PROVE  /\ session[s].st = "configuring" /\ StateLockFree(s)
         /\ \A k \in Session : /\ operator'[k].listed = operator[k].listed /\ operator'[k].hdi = operator[k].hdi
                               /\ operator'[k].outputs = IF k = s THEN operator[s].outputs \ {x} ELSE operator[k].outputs
<1>1. /\ session[s].st = "configuring" /\ StateLockFree(s)
      /\ operator' = [operator EXCEPT ![s].outputs = operator[s].outputs \ {x}]
  <2>1. operator' = [operator EXCEPT ![s].outputs = @ \ {x}] /\ session[s].st = "configuring" /\ StateLockFree(s)
    BY DEF RemoveOutput
  <2>. QED  BY <2>1
<1>. QED  BY <1>1, Parts DEF Typed, OperatorType

LEMMA AddInputDoes ==
  ASSUME Typed, NEW t \in Client, NEW s \in Session, NEW d \in Device, AddInput(t, s, d)
  PROVE  /\ session[s].st = "configuring" /\ session[s].input = NoDevice /\ StateLockFree(s) /\ WrapperFree(s)
         /\ ListenerLockFree(d)
         /\ \A k \in Session : /\ session'[k].st = session[k].st /\ session'[k].proxy = session[k].proxy
                               /\ session'[k].input = IF k = s THEN d ELSE session[k].input
         /\ \A e \in Device : /\ device'[e].open = device[e].open /\ device'[e].callback = device[e].callback
                              /\ device'[e].listener = IF e = d THEN s ELSE device[e].listener
         /\ shared' = IF \E k \in Session : session[k].input = d THEN shared \cup {d} ELSE shared
<1>1. /\ session[s].st = "configuring" /\ session[s].input = NoDevice /\ StateLockFree(s) /\ WrapperFree(s)
      /\ ListenerLockFree(d)
      /\ session' = [session EXCEPT ![s].input = d] /\ device' = [device EXCEPT ![d].listener = s]
      /\ shared' = IF \E k \in Session : session[k].input = d THEN shared \cup {d} ELSE shared
  BY DEF AddInput
<1>2. \A k \in Session : /\ session'[k].st = session[k].st /\ session'[k].proxy = session[k].proxy
                         /\ session'[k].input = IF k = s THEN d ELSE session[k].input
  BY <1>1, Parts DEF Typed, SessionType
<1>3. \A e \in Device : /\ device'[e].open = device[e].open /\ device'[e].callback = device[e].callback
                        /\ device'[e].listener = IF e = d THEN s ELSE device[e].listener
  BY <1>1, Parts DEF Typed, DeviceType
<1>. QED  BY <1>1, <1>2, <1>3

LEMMA RemoveInputDoes ==
  ASSUME Typed, NEW t \in Client, NEW s \in Session, RemoveInput(t, s)
  PROVE  LET d == session[s].input IN
         /\ d \in Device /\ session[s].st = "configuring" /\ StateLockFree(s) /\ WrapperFree(s)
         /\ ListenerLockFree(d)
         /\ \A k \in Session : /\ session'[k].st = session[k].st /\ session'[k].proxy = session[k].proxy
                               /\ session'[k].input = IF k = s THEN NoDevice ELSE session[k].input
                               /\ operator'[k].listed = operator[k].listed
                               /\ operator'[k].outputs = operator[k].outputs
                               /\ operator'[k].hdi = IF k = s THEN NoDevice ELSE operator[k].hdi
         /\ \A e \in Device : /\ device'[e].open = device[e].open /\ device'[e].callback = device[e].callback
                              /\ device'[e].listener = IF e = d THEN None ELSE device[e].listener
<1>. DEFINE d == session[s].input
<1>1. /\ session[s].st = "configuring" /\ StateLockFree(s) /\ WrapperFree(s) /\ ListenerLockFree(d)
      /\ session' = [session EXCEPT ![s].input = NoDevice] /\ device' = [device EXCEPT ![d].listener = None]
      /\ operator' = [operator EXCEPT ![s].hdi = NoDevice]
  BY DEF RemoveInput
<1>2. d \in Device
  BY RemoveInputType DEF Typed
<1>3. \A k \in Session : /\ session'[k].st = session[k].st /\ session'[k].proxy = session[k].proxy
                         /\ session'[k].input = IF k = s THEN NoDevice ELSE session[k].input
  BY <1>1, Parts DEF Typed, SessionType
<1>4. \A k \in Session : /\ operator'[k].listed = operator[k].listed
                         /\ operator'[k].outputs = operator[k].outputs
                         /\ operator'[k].hdi = IF k = s THEN NoDevice ELSE operator[k].hdi
  BY <1>1, Parts DEF Typed, OperatorType
<1>. HIDE DEF d
<1>5. \A e \in Device : /\ device'[e].open = device[e].open /\ device'[e].callback = device[e].callback
                        /\ device'[e].listener = IF e = d THEN None ELSE device[e].listener
  BY <1>1, <1>2, Parts DEF Typed, DeviceType
<1>. QED  BY <1>1, <1>2, <1>3, <1>4, <1>5 DEF d

LEMMA CommitConfigDoes ==
  ASSUME Typed, NEW t \in Client, NEW s \in Session, CommitConfig(t, s)
  PROVE  LET d == session[s].input IN
         /\ session[s].st \in {"configuring", "started"} /\ StateLockFree(s) /\ HasOperator(s) /\ MayCall(t, s, "commit")
         /\ \/ /\ operator[s].hdi = NoDevice /\ d \in Device /\ device[d].open
               /\ \A k \in Session : /\ operator'[k].listed = operator[k].listed
                                     /\ operator'[k].outputs = operator[k].outputs
                                     /\ operator'[k].hdi = IF k = s THEN d ELSE operator[k].hdi
               /\ \A e \in Device : /\ device'[e].open = device[e].open
                                    /\ device'[e].listener = device[e].listener
                                    /\ device'[e].callback = IF e = d THEN s ELSE device[e].callback
               /\ letGo' = (letGo \cup {device[d].callback}) \ {s, None}
               /\ crossed' = IF \E k \in Thread : At(k, "hdiClose") /\ op[k].dev = d THEN crossed \cup {s} ELSE crossed
            \/ UNCHANGED <<operator, device, letGo, crossed>>
         /\ \/ /\ d # NoDevice /\ operator[s].outputs # {}
               /\ op' = [op EXCEPT ![t] = [Idle EXCEPT !.pc = "link", !.s = s, !.ways = operator[s].outputs]]
            \/ op' = op
<1>. DEFINE d == session[s].input
            asks == operator[s].hdi = NoDevice /\ d # NoDevice /\ device[d].open
            busy == \E k \in Thread : At(k, "hdiClose") /\ op[k].dev = d
<1>1. /\ session[s].st \in {"configuring", "started"} /\ StateLockFree(s) /\ HasOperator(s) /\ MayCall(t, s, "commit")
      /\ operator' = IF asks THEN [operator EXCEPT ![s].hdi = d] ELSE operator
      /\ device' = IF asks THEN [device EXCEPT ![d].callback = s] ELSE device
      /\ letGo' = IF asks THEN (letGo \cup {device[d].callback}) \ {s, None} ELSE letGo
      /\ crossed' = IF asks /\ busy THEN crossed \cup {s} ELSE crossed
  BY DEF CommitConfig
<1>2. \/ /\ d # NoDevice /\ operator[s].outputs # {}
         /\ op' = [op EXCEPT ![t] = [Idle EXCEPT !.pc = "link", !.s = s, !.ways = operator[s].outputs]]
      \/ op' = op
  BY DEF CommitConfig
<1>3. d \in Device \cup {NoDevice}
  BY Fields DEF Typed
<1>. HIDE DEF busy
<1>4. CASE asks
  <2>1. /\ operator' = [operator EXCEPT ![s].hdi = d] /\ device' = [device EXCEPT ![d].callback = s]
        /\ letGo' = (letGo \cup {device[d].callback}) \ {s, None}
        /\ crossed' = IF busy THEN crossed \cup {s} ELSE crossed
    BY <1>1, <1>4
  <2>2. operator[s].hdi = NoDevice /\ d \in Device /\ device[d].open
    BY <1>3, <1>4
  <2>. HIDE DEF d
  <2>3. \A k \in Session : /\ operator'[k].listed = operator[k].listed
                           /\ operator'[k].outputs = operator[k].outputs
                           /\ operator'[k].hdi = IF k = s THEN d ELSE operator[k].hdi
    BY <2>1, Parts DEF Typed, OperatorType
  <2>4. \A e \in Device : /\ device'[e].open = device[e].open
                          /\ device'[e].listener = device[e].listener
                          /\ device'[e].callback = IF e = d THEN s ELSE device[e].callback
    BY <2>1, <2>2, Parts DEF Typed, DeviceType
  <2>. QED  BY <1>1, <1>2, <2>1, <2>2, <2>3, <2>4, Zenon DEF d, busy
<1>5. CASE ~ asks
  <2>1. UNCHANGED <<operator, device, letGo, crossed>>
    BY <1>1, <1>5
  <2>. QED  BY <1>1, <1>2, <2>1, Zenon DEF d
<1>. QED  BY <1>4, <1>5

LEMMA CreateStreamsDoes ==
  ASSUME Typed, NEW t \in Thread, CreateStreams(t)
  PROVE  LET s == op[t].s IN
         /\ s \in Session /\ At(t, "create")
         /\ \A k \in Session : /\ session'[k].input = session[k].input /\ session'[k].proxy = session[k].proxy
                               /\ k # s => session'[k].st = session[k].st
         /\ \/ session'[s].st = session[s].st
            \/ session'[s].st = "committed" /\ operator[s].hdi \in Device
<1>. DEFINE s == op[t].s
<1>1. s \in Session /\ At(t, "create")
  BY CreateStreamsType DEF Typed, CreateStreams
<1>2. \/ session' = session
      \/ session' = [session EXCEPT ![s].st = "committed"] /\ operator[s].hdi \in Device
  BY DEF CreateStreams
<1>. HIDE DEF s
<1>3. CASE session' = session
  BY <1>1, <1>3, Zenon DEF s
<1>4. CASE session' = [session EXCEPT ![s].st = "committed"] /\ operator[s].hdi \in Device
  <2>1. /\ \A k \in Session : /\ session'[k].input = session[k].input /\ session'[k].proxy = session[k].proxy
                              /\ k # s => session'[k].st = session[k].st
        /\ session'[s].st = "committed"
    BY <1>1, <1>4, Parts DEF Typed, SessionType
  <2>. QED  BY <1>1, <1>4, <2>1, Zenon DEF s
<1>. QED  BY <1>2, <1>3, <1>4

LEMMA StartDoes ==
  ASSUME Typed, NEW t \in Client, NEW s \in Session, Start(t, s)
  PROVE  /\ session[s].st = "committed" /\ StateLockFree(s)
         /\ \A k \in Session : /\ session'[k].input = session[k].input /\ session'[k].proxy = session[k].proxy
                               /\ session'[k].st = IF k = s THEN "started" ELSE session[k].st
<1>1. session[s].st = "committed" /\ StateLockFree(s) /\ session' = [session EXCEPT ![s].st = "started"]
  BY DEF Start
<1>. QED  BY <1>1, Parts DEF Typed, SessionType

LEMMA StopEffectDoes ==
  ASSUME Typed, NEW s \in Session, StopEffect(s)
  PROVE  \/ UNCHANGED <<session, skipped>>
         \/ /\ session[s].st \in {"configuring", "started"}
            /\ \A k \in Session : /\ session'[k].input = session[k].input /\ session'[k].proxy = session[k].proxy
                                  /\ session'[k].st = IF k = s THEN "committed" ELSE session[k].st
            /\ skipped' = IF session[s].st = "configuring" THEN skipped \cup {s} ELSE skipped
<1>1. CASE UNCHANGED <<session, skipped>>
  BY <1>1
<1>2. CASE /\ session[s].st \in {"configuring", "started"} /\ session' = [session EXCEPT ![s].st = "committed"]
           /\ skipped' = IF session[s].st = "configuring" THEN skipped \cup {s} ELSE skipped
  <2>1. \A k \in Session : /\ session'[k].input = session[k].input /\ session'[k].proxy = session[k].proxy
                           /\ session'[k].st = IF k = s THEN "committed" ELSE session[k].st
    BY <1>2, Parts DEF Typed, SessionType
  <2>. QED  BY <1>2, <2>1
<1>. QED  BY <1>1, <1>2 DEF StopEffect

LEMMA DropProxyDoes ==
  ASSUME Typed, NEW t \in Client, NEW s \in Session, DropProxy(t, s)
  PROVE  /\ op[t].pc = "idle" /\ session[s].proxy /\ WrapperFree(s)
         /\ \A k \in Client : op[k].s = s => op[k].next = "created"
         /\ \A k \in Session : /\ session'[k].st = session[k].st /\ session'[k].input = session[k].input
                               /\ session'[k].proxy = IF k = s THEN FALSE ELSE session[k].proxy
<1>1. /\ op[t].pc = "idle" /\ session[s].proxy /\ WrapperFree(s)
      /\ \A k \in Client : op[k].s = s => op[k].next = "created"
      /\ session' = [session EXCEPT ![s].proxy = FALSE]
  BY DEF DropProxy, At
<1>2. \A k \in Session : /\ session'[k].st = session[k].st /\ session'[k].input = session[k].input
                         /\ k # s => session'[k].proxy = session[k].proxy
  BY <1>1, Parts DEF Typed, SessionType
<1>3. session'[s].proxy = FALSE
  BY <1>1, Parts DEF Typed, SessionType
<1>. QED  BY <1>1, <1>2, <1>3

LEMMA ReleaseSessionDoes ==
  ASSUME Typed, NEW t \in Thread, ReleaseSession(t)
  PROVE  LET s == op[t].s IN
         /\ s \in Session /\ At(t, "release") /\ StateLockFree(s)
         /\ group' = IF session[s].st # "released" /\ op[t].next # "dropped" THEN RemoveFirst(group, s) ELSE group
         /\ \/ /\ session[s].st # "released" /\ HasOperator(s)
               /\ linked' = [linked EXCEPT ![s] = Unlink(s, operator[s].outputs)]
               /\ \A k \in Session : /\ operator'[k].listed = operator[k].listed /\ operator'[k].hdi = operator[k].hdi
                                     /\ operator'[k].outputs = IF k = s THEN {} ELSE operator[k].outputs
               /\ op'[t].pc = (IF session[s].input = NoDevice THEN "finish" ELSE "closeLock")
               /\ op'[t].s = op[t].s /\ op'[t].dev = session[s].input
               /\ op'[t].todo = op[t].todo /\ op'[t].devs = op[t].devs /\ op'[t].next = op[t].next
               /\ lost' = lost
            \/ /\ Resumed(t, op[t], op'[t]) /\ UNCHANGED <<linked, operator>>
               /\ ~ (session[s].st # "released" /\ HasOperator(s))
               /\ lost' = IF session[s].st # "released" THEN lost \cup {s} ELSE lost
<1>. DEFINE s == op[t].s
<1>1. /\ s \in Session
      /\ \/ /\ op'[t].pc = (IF session[s].input = NoDevice THEN "finish" ELSE "closeLock")
            /\ op'[t].s = op[t].s /\ op'[t].dev = session[s].input
            /\ op'[t].todo = op[t].todo /\ op'[t].devs = op[t].devs /\ op'[t].next = op[t].next
            /\ session[s].st # "released" /\ HasOperator(s)
         \/ /\ Resumed(t, op[t], op'[t]) /\ UNCHANGED <<linked, operator>>
            /\ ~ (session[s].st # "released" /\ HasOperator(s))
  BY ReleaseSessionType, SameGroup DEF Typed
<1>2. /\ At(t, "release") /\ StateLockFree(s)
      /\ group' = IF session[s].st # "released" /\ op[t].next # "dropped" THEN RemoveFirst(group, s) ELSE group
      /\ session[s].st # "released" /\ HasOperator(s) =>
           /\ linked' = [linked EXCEPT ![s] = Unlink(s, operator[s].outputs)]
           /\ operator' = [operator EXCEPT ![s].outputs = {}]
           /\ lost' = lost
      /\ ~ (session[s].st # "released" /\ HasOperator(s)) =>
           lost' = IF session[s].st # "released" THEN lost \cup {s} ELSE lost
  BY DEF ReleaseSession
<1>. HIDE DEF s
<1>3. session[s].st # "released" /\ HasOperator(s) =>
        \A k \in Session : /\ operator'[k].listed = operator[k].listed /\ operator'[k].hdi = operator[k].hdi
                           /\ operator'[k].outputs = IF k = s THEN {} ELSE operator[k].outputs
  <2>1. SUFFICES ASSUME operator' = [operator EXCEPT ![s].outputs = {}]
                 PROVE  \A k \in Session : /\ operator'[k].listed = operator[k].listed
                                           /\ operator'[k].hdi = operator[k].hdi
                                           /\ operator'[k].outputs = IF k = s THEN {} ELSE operator[k].outputs
    BY <1>2
  <2>2. s \in Session /\ operator \in [Session -> OperatorType]
    BY <1>1, Parts DEF Typed
  <2>. QED  BY <2>1, <2>2 DEF OperatorType
<1>4. CASE session[s].st # "released" /\ HasOperator(s)
  BY <1>1, <1>2, <1>3, <1>4, Zenon DEF s
<1>5. CASE ~ (session[s].st # "released" /\ HasOperator(s))
  BY <1>1, <1>2, <1>5, Zenon DEF s
<1>. QED  BY <1>4, <1>5

LEMMA ReleaseFinishDoes ==
  ASSUME Typed, NEW t \in Thread, ReleaseFinish(t)
  PROVE  LET s == op[t].s IN
         /\ s \in Session /\ At(t, "finish") /\ (session[s].input \in Device => ListenerLockFree(session[s].input))
         /\ \A k \in Session : /\ session'[k].st = IF k = s THEN "released" ELSE session[k].st
                               /\ session'[k].input = IF k = s THEN NoDevice ELSE session[k].input
                               /\ session'[k].proxy = session[k].proxy
                               /\ k # s => operator'[k] = operator[k]
         /\ operator'[s] = NoOperator
         /\ \A e \in Device : /\ device'[e].open = device[e].open /\ device'[e].callback = device[e].callback
                              /\ device'[e].listener = IF e = session[s].input THEN None ELSE device[e].listener
<1>. DEFINE s == op[t].s  d == session[s].input
<1>1. s \in Session
  BY ReleaseFinishType DEF Typed
<1>2. d \in Device \cup {NoDevice} /\ NoDevice \notin Device
  BY <1>1, Fields, SessionsAssumption DEF Typed
<1>3. /\ At(t, "finish") /\ (d # NoDevice => ListenerLockFree(d))
      /\ session' = [session EXCEPT ![s].st = "released", ![s].input = NoDevice]
      /\ operator' = [operator EXCEPT ![s] = NoOperator]
      /\ device' = IF d # NoDevice THEN [device EXCEPT ![d].listener = None] ELSE device
  BY DEF ReleaseFinish
<1>. HIDE DEF s, d
<1>4. \A k \in Session : /\ session'[k].st = IF k = s THEN "released" ELSE session[k].st
                         /\ session'[k].input = IF k = s THEN NoDevice ELSE session[k].input
                         /\ session'[k].proxy = session[k].proxy
  BY <1>1, <1>3, Parts DEF Typed, SessionType
<1>5. operator'[s] = NoOperator /\ \A k \in Session : k # s => operator'[k] = operator[k]
  BY <1>1, <1>3, OperatorIs DEF Typed
<1>6. \A e \in Device : /\ device'[e].open = device[e].open /\ device'[e].callback = device[e].callback
                        /\ device'[e].listener = IF e = d THEN None ELSE device[e].listener
  <2>1. CASE d \in Device
    <3>1. device' = [device EXCEPT ![d].listener = None]
      BY <1>2, <1>3, <2>1
    <3>. QED  BY <2>1, <3>1, Parts DEF Typed, DeviceType
  <2>2. CASE d = NoDevice
    BY <1>2, <1>3, <2>2
  <2>. QED  BY <1>2, <2>1, <2>2
<1>7. d \in Device => ListenerLockFree(d)
  BY <1>2, <1>3
<1>8. At(t, "finish")
  BY <1>3
<1>. QED  BY <1>1, <1>4, <1>5, <1>6, <1>7, <1>8, Zenon DEF s, d

LEMMA OpenDoes ==
  ASSUME Typed, NEW t, NEW d \in Device, Open(t, d)
  PROVE  /\ alive
         /\ \A e \in Device : /\ device'[e].open = IF e = d THEN TRUE ELSE device[e].open
                              /\ device'[e].listener = device[e].listener
                              /\ device'[e].callback = device[e].callback
<1>1. alive /\ device' = [device EXCEPT ![d].open = TRUE]
  BY DEF Open
<1>2. \A e \in Device : /\ e # d => device'[e].open = device[e].open
                        /\ device'[e].listener = device[e].listener
                        /\ device'[e].callback = device[e].callback
  BY <1>1, Parts DEF Typed, DeviceType
<1>3. device'[d].open = TRUE
  BY <1>1, Parts DEF Typed, DeviceType
<1>. QED  BY <1>1, <1>2, <1>3

LEMMA OperatorReleaseDoes ==
  ASSUME Typed, NEW t \in Thread, OperatorRelease(t)
  PROVE  LET s == device[op[t].dev].listener IN
         /\ At(t, "operatorRelease")
         /\ \A k \in Session : /\ k # s => operator'[k] = operator[k]
                               /\ k = s => ~ operator'[k].listed /\ operator'[k].hdi = NoDevice
                               /\ operator'[k].outputs = operator[k].outputs
<1>. DEFINE s == device[op[t].dev].listener
<1>1. /\ At(t, "operatorRelease")
      /\ operator' = [operator EXCEPT ![s].listed = FALSE, ![s].hdi = NoDevice]
  BY DEF OperatorRelease
<1>. HIDE DEF s
<1>2. \A k \in Session : k # s => operator'[k] = operator[k]
  BY <1>1, Parts DEF Typed
<1>3. s \in Session => operator'[s].listed = FALSE /\ operator'[s].hdi = NoDevice
                       /\ operator'[s].outputs = operator[s].outputs
  BY <1>1, Parts DEF Typed, OperatorType
<1>4. \A k \in Session : /\ k # s => operator'[k] = operator[k]
                         /\ k = s => ~ operator'[k].listed /\ operator'[k].hdi = NoDevice
                         /\ operator'[k].outputs = operator[k].outputs
  BY <1>2, <1>3
<1>. QED  BY <1>1, <1>4, Zenon DEF s

LEMMA HdiCloseDoes ==
  ASSUME Typed, NEW t \in Thread, HdiClose(t)
  PROVE  LET d == op[t].dev IN
         /\ d \in Device /\ At(t, "hdiClose")
         /\ \/ op[t].s \in Session /\ op'[t].pc = "finish" /\ SameBut(op[t], op'[t])
            \/ op[t].s = None /\ Resumed(t, op[t], op'[t])
         /\ \A e \in Device : /\ device'[e].open = IF e = d THEN FALSE ELSE device[e].open
                              /\ device'[e].listener = device[e].listener
                              /\ e # d => device'[e] = device[e]
         /\ \/ /\ device[d].open /\ device'[d].callback = None
               /\ letGo' = (letGo \cup {device[d].callback}) \ {None}
               /\ \A k \in Session : /\ operator'[k].listed = operator[k].listed
                                     /\ operator'[k].outputs = operator[k].outputs
                                     /\ operator'[k].hdi = IF operator[k].hdi = d THEN Stale ELSE operator[k].hdi
                                     /\ \A x \in Stream : linked'[k][x] = IF linked[k][x] = d THEN Stale ELSE linked[k][x]
            \/ ~ device[d].open /\ UNCHANGED <<device, letGo, operator, linked>>
<1>. DEFINE d == op[t].dev
            Gone(h) == IF h = d THEN Stale ELSE h
<1>1. /\ d \in Device
      /\ \/ op[t].s \in Session /\ op'[t].pc = "finish" /\ SameBut(op[t], op'[t])
         \/ op[t].s = None /\ Resumed(t, op[t], op'[t])
  BY HdiCloseType DEF Typed
<1>2. /\ At(t, "hdiClose")
      /\ \/ /\ device[d].open
            /\ device' = [device EXCEPT ![d].open = FALSE, ![d].callback = None]
            /\ letGo' = (letGo \cup {device[d].callback}) \ {None}
            /\ operator' = [s \in Session |-> [operator[s] EXCEPT !.hdi = Gone(@)]]
            /\ linked' = [s \in Session |-> [x \in Stream |-> Gone(linked[s][x])]]
         \/ ~ device[d].open /\ UNCHANGED <<device, letGo, operator, linked>>
  BY DEF HdiClose
<1>3. device \in [Device -> DeviceType] /\ operator \in [Session -> OperatorType]
  BY Parts DEF Typed
<1>4. CASE device[d].open
  <2>. HIDE DEF d
  <2>1. /\ device' = [device EXCEPT ![d].open = FALSE, ![d].callback = None]
        /\ letGo' = (letGo \cup {device[d].callback}) \ {None}
        /\ linked' = [s \in Session |-> [x \in Stream |-> Gone(linked[s][x])]]
    BY <1>2, <1>4
  <2>2. \A e \in Device : e # d => device'[e] = device[e]
    BY <1>1, <1>3, <2>1
  <2>3. /\ device'[d].open = FALSE /\ device'[d].listener = device[d].listener
        /\ device'[d].callback = None
    BY <1>1, <1>3, <2>1 DEF DeviceType
  <2>4. \A k \in Session : operator'[k] = [operator[k] EXCEPT !.hdi = Gone(operator[k].hdi)]
    BY <1>2, <1>4
  <2>5. \A k \in Session : /\ operator'[k].listed = operator[k].listed
                           /\ operator'[k].outputs = operator[k].outputs
                           /\ operator'[k].hdi = Gone(operator[k].hdi)
    <3>. HIDE DEF Gone
    <3>. QED  BY <1>3, <2>4 DEF OperatorType
  <2>6. \A k \in Session, x \in Stream : linked'[k][x] = Gone(linked[k][x])
    BY <2>1
  <2>7. \A e \in Device : /\ device'[e].open = IF e = d THEN FALSE ELSE device[e].open
                          /\ device'[e].listener = device[e].listener
    BY <2>2, <2>3
  <2>8. \A k \in Session : /\ operator'[k].listed = operator[k].listed
                           /\ operator'[k].outputs = operator[k].outputs
                           /\ operator'[k].hdi = IF operator[k].hdi = d THEN Stale ELSE operator[k].hdi
                           /\ \A x \in Stream : linked'[k][x] = IF linked[k][x] = d THEN Stale ELSE linked[k][x]
    BY <2>5, <2>6
  <2>9. At(t, "hdiClose")
    BY <1>2
  <2>. QED  BY <1>1, <1>4, <2>1, <2>2, <2>3, <2>7, <2>8, <2>9, Zenon DEF d
<1>5. CASE ~ device[d].open
  <2>1. At(t, "hdiClose") /\ UNCHANGED <<device, letGo, operator, linked>>
    BY <1>2, <1>5
  <2>2. \A e \in Device : /\ device'[e].open = IF e = d THEN FALSE ELSE device[e].open
                          /\ device'[e].listener = device[e].listener
                          /\ e # d => device'[e] = device[e]
    <3>1. device[d].open = FALSE
      BY <1>1, <1>3, <1>5 DEF DeviceType
    <3>. QED  BY <2>1, <3>1
  <2>. QED  BY <1>1, <1>5, <2>1, <2>2, Zenon DEF d
<1>. QED  BY <1>4, <1>5

LEMMA ReleaseOperatorsDoes ==
  ASSUME Typed, NEW t \in Thread, ReleaseOperators(t)
  PROVE  \A k \in Session : /\ operator'[k].listed = FALSE /\ operator'[k].outputs = operator[k].outputs
                            /\ operator'[k].hdi = IF operator[k].listed THEN NoDevice ELSE operator[k].hdi
<1>1. ASSUME NEW k \in Session
      PROVE  /\ operator'[k].listed = FALSE /\ operator'[k].outputs = operator[k].outputs
             /\ operator'[k].hdi = IF operator[k].listed THEN NoDevice ELSE operator[k].hdi
  <2>1. operator[k] \in OperatorType
    BY Fields DEF Typed
  <2>2. operator'[k] = IF operator[k].listed THEN [operator[k] EXCEPT !.listed = FALSE, !.hdi = NoDevice]
                                             ELSE operator[k]
    BY DEF ReleaseOperators
  <2>3. CASE operator[k].listed
    <3>1. operator'[k] = [operator[k] EXCEPT !.listed = FALSE, !.hdi = NoDevice]
      BY <2>2, <2>3
    <3>. QED  BY <2>1, <2>3, <3>1 DEF OperatorType
  <2>4. CASE ~ operator[k].listed
    <3>1. operator'[k] = operator[k]
      BY <2>2, <2>4
    <3>. QED  BY <2>1, <2>4, <3>1 DEF OperatorType
  <2>. QED  BY <2>3, <2>4
<1>. QED  BY <1>1

LEMMA DestroyDoes ==
  ASSUME Typed, NEW s \in Session, Destroy(s)
  PROVE  /\ session[s].st \in Live /\ ~ session[s].proxy /\ ~ Named(s)
         /\ \A t \in Thread : At(t, "operatorRelease") => device[op[t].dev].listener # s
         /\ \A k \in Session : /\ session'[k].st = IF k = s THEN "gone" ELSE session[k].st
                               /\ session'[k].input = IF k = s THEN NoDevice ELSE session[k].input
                               /\ session'[k].proxy = session[k].proxy
         /\ \A e \in Device : /\ device'[e].open = device[e].open /\ device'[e].callback = device[e].callback
                              /\ device'[e].listener = IF device[e].listener = s THEN None ELSE device[e].listener
<1>1. /\ session[s].st \notin {"none", "gone"} /\ ~ session[s].proxy
      /\ \A t \in Thread : At(t, "operatorRelease") => device[op[t].dev].listener # s
      /\ session' = [session EXCEPT ![s].st = "gone", ![s].input = NoDevice]
      /\ device' = [d \in Device |-> [device[d] EXCEPT !.listener = IF @ = s THEN None ELSE @]]
  BY DEF Destroy
<1>2. session[s].st \in Live
  BY <1>1, Fields DEF Typed, States, Live
<1>3. ~ Named(s)
  BY DestroyUnnamed
<1>4. \A k \in Session : /\ session'[k].st = IF k = s THEN "gone" ELSE session[k].st
                         /\ session'[k].input = IF k = s THEN NoDevice ELSE session[k].input
                         /\ session'[k].proxy = session[k].proxy
  BY <1>1, Parts DEF Typed, SessionType
<1>5. ASSUME NEW e \in Device
      PROVE  /\ device'[e].open = device[e].open /\ device'[e].callback = device[e].callback
             /\ device'[e].listener = IF device[e].listener = s THEN None ELSE device[e].listener
  <2>. DEFINE n == IF device[e].listener = s THEN None ELSE device[e].listener
  <2>1. device'[e] = [device[e] EXCEPT !.listener = n] /\ device[e] \in DeviceType
    BY <1>1, Parts DEF Typed
  <2>. HIDE DEF n
  <2>2. device'[e].open = device[e].open /\ device'[e].callback = device[e].callback /\ device'[e].listener = n
    BY <2>1 DEF DeviceType
  <2>. QED  BY <2>2 DEF n
<1>. QED  BY <1>1, <1>2, <1>3, <1>4, <1>5

-----------------------------------------------------------------------------
(***************************************************************************)
(* The listener of a device is the session whose input it is.              *)
(***************************************************************************)
ListenerOK(s, d) ==
  /\ device[d].listener = s => session[s].input = d
  /\ session[s].input = d /\ d \notin shared => device[d].listener = s

ListenersOK == \A s \in Session, d \in Device : ListenerOK(s, d)

LEMMA ListenersKept ==
  ASSUME ListenersOK, UNCHANGED shared,
         \A s \in Session : session'[s].input = session[s].input,
         \A d \in Device : device'[d].listener = device[d].listener
  PROVE  ListenersOK'
BY DEF ListenersOK, ListenerOK

\* What is neither an input nor a device's listener can be left alone.
LEMMA NotSessions == NoDevice \notin Device /\ Stale \notin Device /\ NoDevice # Stale /\ None \notin Session
BY SessionsAssumption DEF Session, None

LEMMA InputLetGo ==
  ASSUME ListenersOK, UNCHANGED shared, NEW s \in Session,
         \A k \in Session : session'[k].input = IF k = s THEN NoDevice ELSE session[k].input,
         \A d \in Device : device'[d].listener = IF d = session[s].input THEN None ELSE device[d].listener
  PROVE  ListenersOK'
<1>. SUFFICES ASSUME NEW k \in Session, NEW d \in Device
              PROVE  ListenerOK(k, d)'
  BY DEF ListenersOK
<1>1. ListenerOK(k, d) /\ ListenerOK(s, d)
  BY DEF ListenersOK
<1>. QED  BY <1>1, NotSessions DEF ListenerOK

LEMMA ListenersQuiet ==
  ASSUME ListenersOK, UNCHANGED <<session, device, shared>>
  PROVE  ListenersOK'
BY DEF ListenersOK, ListenerOK

LEMMA AddInputListeners ==
  ASSUME Typed, ListenersOK, NEW t \in Client, NEW s \in Session, NEW d \in Device, AddInput(t, s, d)
  PROVE  ListenersOK'
<1>. SUFFICES ASSUME NEW k \in Session, NEW e \in Device
              PROVE  ListenerOK(k, e)'
  BY DEF ListenersOK
<1>1. /\ session[s].input = NoDevice
      /\ \A x \in Session : session'[x].input = IF x = s THEN d ELSE session[x].input
      /\ \A x \in Device : device'[x].listener = IF x = d THEN s ELSE device[x].listener
      /\ shared' = IF \E x \in Session : session[x].input = d THEN shared \cup {d} ELSE shared
  BY AddInputDoes
<1>2. ListenerOK(k, e) /\ ListenerOK(s, e)
  BY DEF ListenersOK
<1>3. session[k].input = d => d \in shared'
  BY <1>1
<1>4. shared \subseteq shared'
  BY <1>1
<1>. QED  BY <1>1, <1>2, <1>3, <1>4, NotSessions DEF ListenerOK

LEMMA DestroyListeners ==
  ASSUME Typed, ListenersOK, NEW s \in Session, Destroy(s)
  PROVE  ListenersOK'
<1>. SUFFICES ASSUME NEW k \in Session, NEW d \in Device
              PROVE  ListenerOK(k, d)'
  BY DEF ListenersOK
<1>1. /\ session'[k].input = IF k = s THEN NoDevice ELSE session[k].input
      /\ device'[d].listener = IF device[d].listener = s THEN None ELSE device[d].listener
  BY DestroyDoes
<1>2. shared' = shared
  BY DEF Destroy, history
<1>3. ListenerOK(k, d) /\ ListenerOK(s, d)
  BY DEF ListenersOK
<1>. QED  BY <1>1, <1>2, <1>3, NotSessions DEF ListenerOK

LEMMA ListenersStep ==
  ASSUME Typed, ListenersOK, [Next]_vars
  PROVE  ListenersOK'
<1>1. ASSUME NEW t \in Thread,
             \/ PreemptOverflowSessions(t) \/ ReleaseSession(t) \/ CloseLock(t) \/ BeforeDeviceClose(t)
             \/ OperatorRelease(t) \/ RemoveGroup(t) \/ ReleaseOperators(t)
             \/ \E x \in Stream : AddOutput(t, x) \/ LinkStream(t, x)
             \/ \E d \in Device : Close(t, d)
      PROVE  ListenersOK'
  <2>1. UNCHANGED <<session, device, shared>>
    BY <1>1 DEF PreemptOverflowSessions, ReleaseSession, CloseLock, BeforeDeviceClose, OperatorRelease, RemoveGroup,
                ReleaseOperators, AddOutput, LinkStream, Close, history
  <2>. QED  BY <2>1, ListenersQuiet
<1>2. ASSUME NEW t \in Client, NEW s \in Session, \E call : Enter(t, s, call)
      PROVE  ListenersOK'
  BY <1>2, ListenersQuiet DEF Enter, history
<1>3. ASSUME NEW t \in Client, NEW s \in Session, \E x \in Stream : RemoveOutput(t, s, x)
      PROVE  ListenersOK'
  BY <1>3, ListenersQuiet DEF RemoveOutput, history
<1>4. ASSUME NEW s \in Session, HdiLetsGo(s)
      PROVE  ListenersOK'
  BY <1>4, ListenersQuiet DEF HdiLetsGo, history
<1>5. ASSUME Die
      PROVE  ListenersOK'
  BY <1>5, ListenersQuiet DEF Die
<1>6. ASSUME NEW t \in Thread, BeginConfig(t)
      PROVE  ListenersOK'
  BY <1>6, BeginConfigDoes, ListenersKept DEF BeginConfig
<1>7. ASSUME NEW t \in Thread, CreateStreams(t)
      PROVE  ListenersOK'
  BY <1>7, CreateStreamsDoes, ListenersKept DEF CreateStreams, history
<1>8. ASSUME NEW t \in Thread, StopPreempted(t)
      PROVE  ListenersOK'
  <2>1. StopEffect(op[t].s) /\ op[t].s \in Session /\ UNCHANGED <<device, shared>>
    BY <1>8, StopPreemptedType DEF StopPreempted, Typed
  <2>. QED  BY <2>1, StopEffectDoes, ListenersKept
<1>9. ASSUME NEW t \in Client, NEW s \in Session, Stop(t, s) \/ Release(t, s)
      PROVE  ListenersOK'
  <2>1. StopEffect(s) /\ UNCHANGED <<device, shared>>
    BY <1>9 DEF Stop, Release
  <2>. QED  BY <2>1, StopEffectDoes, ListenersKept
<1>10. ASSUME NEW t \in Client, NEW s \in Session, Start(t, s)
       PROVE  ListenersOK'
  BY <1>10, StartDoes, ListenersKept DEF Start, history
<1>11. ASSUME NEW t \in Client, NEW s \in Session, DropProxy(t, s)
       PROVE  ListenersOK'
  BY <1>11, DropProxyDoes, ListenersKept DEF DropProxy, history
<1>12. ASSUME NEW t \in Client, NEW s \in Session, CommitConfig(t, s)
       PROVE  ListenersOK'
  <2>1. /\ UNCHANGED <<session, shared>>
        /\ \A d \in Device : device'[d].listener = device[d].listener
    BY <1>12, CommitConfigDoes DEF CommitConfig
  <2>. QED  BY <2>1, ListenersKept
<1>13. ASSUME NEW t \in Client, NEW d \in Device, Open(t, d)
       PROVE  ListenersOK'
  BY <1>13, OpenDoes, ListenersKept DEF Open, history
<1>14. ASSUME NEW t \in Thread, HdiClose(t)
       PROVE  ListenersOK'
  <2>1. /\ UNCHANGED <<session, shared>>
        /\ \A d \in Device : device'[d].listener = device[d].listener
    BY <1>14, HdiCloseDoes DEF HdiClose, history
  <2>. QED  BY <2>1, ListenersKept
<1>15. ASSUME NEW t \in Client, NewInstance(t)
       PROVE  ListenersOK'
  <2>1. UNCHANGED <<device, shared>>
    BY <1>15 DEF NewInstance, history
  <2>2. \A k \in Session : session'[k].input = session[k].input
    BY <1>15, NewInstanceDoes
  <2>. QED  BY <2>1, <2>2, ListenersKept
<1>16. ASSUME NEW t \in Client, NEW s \in Session, RemoveInput(t, s)
       PROVE  ListenersOK'
  BY <1>16, RemoveInputDoes, InputLetGo DEF RemoveInput, history
<1>17. ASSUME NEW t \in Thread, ReleaseFinish(t)
       PROVE  ListenersOK'
  <2>1. shared' = shared
    BY <1>17 DEF ReleaseFinish, history
  <2>2. /\ op[t].s \in Session
        /\ \A k \in Session : session'[k].input = IF k = op[t].s THEN NoDevice ELSE session[k].input
        /\ \A d \in Device : device'[d].listener = IF d = session[op[t].s].input THEN None ELSE device[d].listener
    BY <1>17, ReleaseFinishDoes
  <2>. QED  BY <2>1, <2>2, InputLetGo
<1>18. CASE UNCHANGED vars
  BY <1>18, ListenersQuiet DEF vars, state, history
<1>19. CASE Next
  BY <1>19, Steps, <1>1, <1>2, <1>3, <1>4, <1>5, <1>6, <1>7, <1>8, <1>9, <1>10, <1>11, <1>12, <1>13, <1>14, <1>15,
     <1>16, <1>17, AddInputListeners, DestroyListeners, Zenon DEF Typed
<1>. QED  BY <1>18, <1>19

LEMMA ListenersInit == Init => ListenersOK
<1>. SUFFICES ASSUME Init
              PROVE  ListenersOK
  OBVIOUS
<1>1. \A s \in Session : session[s].input = NoDevice
  BY DEF Init
<1>2. \A d \in Device : device[d].listener = None
  BY DEF Init
<1>. QED  BY <1>1, <1>2, NotSessions DEF ListenersOK, ListenerOK

\* A device tells its session that it closes: the listener of a device is the session whose input
\* it is, and no other, unless two sessions had it as their input at once (HCameraDevice's
\* SetCameraCloseListener, HCaptureSession's SetCameraDevice).
THEOREM ListenersAgree == Spec => []ListenerAgrees
<1>1. Init => Typed /\ ListenersOK
  BY TypedInit, ListenersInit
<1>2. Typed /\ ListenersOK /\ [Next]_vars => (Typed /\ ListenersOK)'
  BY TypedStep, ListenersStep
<1>3. Typed /\ ListenersOK => ListenerAgrees
  BY DEF ListenersOK, ListenerOK, ListenerAgrees
<1>. QED  BY <1>1, <1>2, <1>3, PTL DEF Spec

-----------------------------------------------------------------------------
(***************************************************************************)
(* The lock of a session's state: one thread holds it, and what it found   *)
(* when it took it, the state and the device, stays so until it lets go.   *)
(***************************************************************************)
Holds(o, s) == o.s = s /\ o.pc \in Hold

Found(o, s) ==
  /\ o.pc \in {"link", "create"} => session[s].st \in {"configuring", "started"}
  /\ o.pc \in Closing \cup {"finish"} => session[s].st \in Live \ {"released"}
  /\ o.pc \in Closing => o.dev = session[s].input

LocksOK ==
  \A s \in Session :
    /\ \A t, k \in Thread : Holds(op[t], s) /\ Holds(op[k], s) => t = k
    /\ \A t \in Thread : Holds(op[t], s) => Found(op[t], s)

LEMMA LockFree ==
  ASSUME NEW s
  PROVE  StateLockFree(s) <=> \A t \in Thread : ~ Holds(op[t], s)
BY DEF StateLockFree, Holds, Hold, Closing

\* A session changes only while nobody else holds its lock.
LEMMA LocksKept ==
  ASSUME LocksOK, NEW t \in Thread, OnlyOf(t),
         \A s \in Session : Holds(op'[t], s) => (Holds(op[t], s) \/ StateLockFree(s)) /\ Found(op[t], s)',
         \A s \in Session : \/ session'[s].st = session[s].st /\ session'[s].input = session[s].input
                            \/ StateLockFree(s) \/ Holds(op[t], s)
  PROVE  LocksOK'
<1>. SUFFICES ASSUME NEW s \in Session
              PROVE  /\ \A x, k \in Thread : Holds(op'[x], s) /\ Holds(op'[k], s) => x = k
                     /\ \A x \in Thread : Holds(op'[x], s) => Found(op[x], s)'
  BY DEF LocksOK
<1>1. \A x \in Thread : x # t /\ Holds(op'[x], s) => Holds(op[x], s) /\ ~ StateLockFree(s) /\ ~ Holds(op[t], s)
  <2>1. \A x, k \in Thread : Holds(op[x], s) /\ Holds(op[k], s) => x = k
    BY DEF LocksOK
  <2>. QED  BY <2>1, LockFree DEF OnlyOf
<1>2. \A x, k \in Thread : Holds(op'[x], s) /\ Holds(op'[k], s) => x = k
  <2>1. \A x, k \in Thread : Holds(op[x], s) /\ Holds(op[k], s) => x = k
    BY DEF LocksOK
  <2>. QED  BY <1>1, <2>1
<1>3. ASSUME NEW x \in Thread, Holds(op'[x], s)
      PROVE  Found(op[x], s)'
  <2>1. CASE x = t
    BY <1>3, <2>1
  <2>2. CASE x # t
    <3>1. Holds(op[x], s) /\ session'[s].st = session[s].st /\ session'[s].input = session[s].input /\ op'[x] = op[x]
      BY <1>1, <1>3, <2>2 DEF OnlyOf
    <3>2. Found(op[x], s)
      BY <3>1 DEF LocksOK
    <3>. QED  BY <3>1, <3>2 DEF Found
  <2>. QED  BY <2>1, <2>2
<1>. QED  BY <1>2, <1>3

LEMMA LocksStill ==
  ASSUME LocksOK, UNCHANGED op,
         \A s \in Session : \/ session'[s].st = session[s].st /\ session'[s].input = session[s].input
                            \/ StateLockFree(s)
  PROVE  LocksOK'
<1>. SUFFICES ASSUME NEW s \in Session
              PROVE  /\ \A x, k \in Thread : Holds(op'[x], s) /\ Holds(op'[k], s) => x = k
                     /\ \A x \in Thread : Holds(op'[x], s) => Found(op[x], s)'
  BY DEF LocksOK
<1>1. \A x, k \in Thread : Holds(op[x], s) /\ Holds(op[k], s) => x = k
  BY DEF LocksOK
<1>2. ASSUME NEW x \in Thread, Holds(op[x], s)
      PROVE  Found(op[x], s)'
  <2>1. session'[s].st = session[s].st /\ session'[s].input = session[s].input /\ op'[x] = op[x]
    BY <1>2, LockFree
  <2>2. Found(op[x], s)
    BY <1>2 DEF LocksOK
  <2>. QED  BY <2>1, <2>2 DEF Found
<1>. QED  BY <1>1, <1>2

\* A thread that lets go, or has nothing to hold.
LEMMA LocksLetGo ==
  ASSUME LocksOK, NEW t \in Thread, OnlyOf(t), \A s \in Session : ~ Holds(op'[t], s),
         \A s \in Session : \/ session'[s].st = session[s].st /\ session'[s].input = session[s].input
                            \/ StateLockFree(s) \/ Holds(op[t], s)
  PROVE  LocksOK'
BY LocksKept

LEMMA ResumedHolds ==
  ASSUME NEW t, NEW o, NEW r, Resumed(t, o, r), o.next \in {"idle", "created", "dropped", "removeGroup", "operators", "done"}
  PROVE  \A s \in Session : ~ Holds(r, s)
BY NotSessions DEF Resumed, Holds, Hold, Closing

LEMMA DoingNext ==
  ASSUME NEW o \in Doing
  PROVE  o.next \in {"idle", "created", "dropped", "removeGroup", "operators", "done"}
BY DEF Doing

LEMMA IdleHolds == \A s \in Session : ~ Holds(Idle, s)
BY IdleIs, NotSessions DEF Holds

LEMMA UnnamedFree ==
  ASSUME NEW s, ~ Named(s)
  PROVE  StateLockFree(s)
BY DEF Named, Names, StateLockFree

\* The place moves on with the lock in hand.
LEMMA HeldOn ==
  ASSUME LocksOK, NEW t \in Thread, OnlyOf(t), UNCHANGED session, SameBut(op[t], op'[t]),
         \/ op[t].pc \in Closing /\ op'[t].pc \in Closing \cup {"finish"}
         \/ op'[t].pc \notin Hold
  PROVE  LocksOK'
<1>1. ASSUME NEW s \in Session, Holds(op'[t], s)
      PROVE  Holds(op[t], s) /\ Found(op[t], s)'
  <2>1. op[t].pc \in Closing /\ op'[t].pc \in Closing \cup {"finish"} /\ op[t].s = s /\ op[t].dev = op'[t].dev
    BY <1>1 DEF SameBut, Holds
  <2>2. Holds(op[t], s)
    BY <2>1 DEF Holds, Hold
  <2>3. Found(op[t], s)
    BY <2>2 DEF LocksOK
  <2>. QED  BY <2>1, <2>2, <2>3 DEF Found, Closing
<1>. QED  BY <1>1, LocksKept

LEMMA LinkStreamLocks ==
  ASSUME Typed, LocksOK, NEW t \in Thread, NEW x \in Stream, LinkStream(t, x)
  PROVE  LocksOK'
<1>1. /\ OnlyOf(t) /\ op[t].s \in Session
      /\ \/ op'[t] = Idle
         \/ op'[t].s = op[t].s /\ op'[t].pc \in {"link", "create"}
  BY LinkStreamType DEF Typed
<1>2. op[t].pc = "link" /\ UNCHANGED session
  BY DEF LinkStream, At
<1>3. ASSUME NEW s \in Session, Holds(op'[t], s)
      PROVE  Holds(op[t], s) /\ Found(op[t], s)'
  <2>1. op'[t].s = op[t].s /\ op'[t].pc \in {"link", "create"}
    BY <1>1, <1>3, IdleHolds
  <2>2. Holds(op[t], s)
    BY <1>2, <1>3, <2>1 DEF Holds, Hold
  <2>3. Found(op[t], s)
    BY <2>2 DEF LocksOK
  <2>. QED  BY <1>2, <2>1, <2>2, <2>3 DEF Found, Closing
<1>. QED  BY <1>1, <1>2, <1>3, LocksKept

LEMMA CommitConfigLocks ==
  ASSUME Typed, LocksOK, NEW t \in Client, NEW s \in Session, CommitConfig(t, s)
  PROVE  LocksOK'
<1>1. /\ session[s].st \in {"configuring", "started"} /\ StateLockFree(s)
      /\ \/ op'[t] = [Idle EXCEPT !.pc = "link", !.s = s, !.ways = operator[s].outputs]
         \/ op' = op
  BY CommitConfigDoes, CommitConfigType DEF Typed
<1>2. t \in Thread /\ UNCHANGED session
  BY ClientIs DEF CommitConfig
<1>3. CASE op' = op
  BY <1>2, <1>3, LocksStill
<1>4. CASE op' # op
  <2>1. op'[t] = [Idle EXCEPT !.pc = "link", !.s = s, !.ways = operator[s].outputs] /\ OnlyOf(t)
    BY <1>1, <1>4, CommitConfigType DEF Typed
  <2>2. op'[t].pc = "link" /\ op'[t].s = s
    BY <2>1, IdleIs DEF Doing
  <2>3. \A k \in Session : Holds(op'[t], k) => k = s /\ Found(op[t], k)'
    BY <1>1, <1>2, <2>2 DEF Holds, Found, Closing
  <2>. QED  BY <1>1, <1>2, <2>1, <2>3, LocksKept
<1>. QED  BY <1>3, <1>4

LEMMA ReleaseSessionLocks ==
  ASSUME Typed, LocksOK, NEW t \in Thread, ReleaseSession(t)
  PROVE  LocksOK'
<1>. DEFINE s == op[t].s
<1>1. /\ s \in Session /\ StateLockFree(s)
      /\ \/ /\ session[s].st # "released"
            /\ op'[t].pc = (IF session[s].input = NoDevice THEN "finish" ELSE "closeLock")
            /\ op'[t].s = s /\ op'[t].dev = session[s].input
         \/ Resumed(t, op[t], op'[t])
  BY ReleaseSessionDoes
<1>2. OnlyOf(t) /\ session' = session /\ op[t] \in Doing
  BY ReleaseSessionType, SameGroup, OpType DEF Typed, ReleaseSession
<1>3. session[s].st \in Live
  BY <1>1, LiveOf DEF Names
<1>4. CASE Resumed(t, op[t], op'[t])
  BY <1>2, <1>4, ResumedHolds, DoingNext, LocksLetGo
<1>5. CASE /\ session[s].st # "released"
           /\ op'[t].pc = (IF session[s].input = NoDevice THEN "finish" ELSE "closeLock")
           /\ op'[t].s = s /\ op'[t].dev = session[s].input
  <2>1. \A k \in Session : Holds(op'[t], k) => k = s /\ Found(op[t], k)'
    BY <1>2, <1>3, <1>5 DEF Holds, Found, Closing
  <2>. QED  BY <1>1, <1>2, <2>1, LocksKept
<1>. QED  BY <1>1, <1>4, <1>5

\* Two forms of a step that holds nothing after it.
LEMMA LocksResumed ==
  ASSUME LocksOK, NEW t \in Thread, OnlyOf(t), NEW o \in Doing, Resumed(t, o, op'[t]),
         \A s \in Session : \/ session'[s].st = session[s].st /\ session'[s].input = session[s].input
                            \/ StateLockFree(s) \/ Holds(op[t], s)
  PROVE  LocksOK'
BY ResumedHolds, DoingNext, LocksLetGo

LEMMA LocksAt ==
  ASSUME LocksOK, NEW t \in Thread, OnlyOf(t), op'[t].pc \notin Hold \/ op'[t].s = None,
         \A s \in Session : \/ session'[s].st = session[s].st /\ session'[s].input = session[s].input
                            \/ StateLockFree(s) \/ Holds(op[t], s)
  PROVE  LocksOK'
BY NotSessions, LocksLetGo DEF Holds

LEMMA LocksStep ==
  ASSUME Typed, LocksOK, [Next]_vars
  PROVE  LocksOK'
<1>1. ASSUME NEW t \in Client, NewInstance(t)
      PROVE  LocksOK'
  <2>0. t \in Thread /\ OnlyOf(t) /\ op'[t] = [Idle EXCEPT !.pc = "overflow", !.next = "created"]
    BY <1>1, NewInstanceType, ClientIs DEF Typed
  <2>1. t \in Thread /\ OnlyOf(t) /\ op'[t].s = None
    BY <2>0, IdleIs DEF Doing
  <2>2. PICK s \in Session : ~ Named(s) /\ \A k \in Session : k # s => session'[k] = session[k]
    BY <1>1, NewInstanceDoes
  <2>. QED  BY <2>1, <2>2, UnnamedFree, LocksAt
<1>2. ASSUME NEW t \in Thread, PreemptOverflowSessions(t)
      PROVE  LocksOK'
  <2>1. OnlyOf(t) /\ UNCHANGED session
    BY <1>2, PreemptType DEF Typed, PreemptOverflowSessions
  <2>2. PICK o \in Doing : Resumed(t, o, op'[t])
    BY <1>2, PreemptType DEF Typed
  <2>. QED  BY <2>1, <2>2, LocksResumed
<1>3. ASSUME NEW t \in Client, NEW s \in Session, \E call : Enter(t, s, call)
      PROVE  LocksOK'
  <2>1. PICK call : Enter(t, s, call)
    BY <1>3
  <2>2. t \in Thread /\ OnlyOf(t) /\ op'[t] = [Idle EXCEPT !.pc = call, !.s = s] /\ call \in {"begin", "addOutput"}
        /\ UNCHANGED session
    BY <2>1, EnterType, ClientIs DEF Typed, Enter
  <2>3. op'[t].pc \notin Hold
    BY <2>2, IdleIs DEF Doing, Hold, Closing
  <2>. QED  BY <2>2, <2>3, LocksAt
<1>4. ASSUME NEW t \in Thread, BeginConfig(t)
      PROVE  LocksOK'
  <2>1. OnlyOf(t) /\ op'[t].s = None
    BY <1>4, BeginConfigType, IdleIs DEF Typed
  <2>2. \A k \in Session : \/ session'[k].st = session[k].st /\ session'[k].input = session[k].input
                           \/ StateLockFree(k)
    BY <1>4, BeginConfigDoes
  <2>. QED  BY <2>1, <2>2, LocksAt
<1>5. ASSUME NEW t \in Thread, NEW x \in Stream, AddOutput(t, x)
      PROVE  LocksOK'
  <2>1. OnlyOf(t) /\ op'[t].s = None /\ UNCHANGED session
    BY <1>5, AddOutputType, IdleIs DEF Typed, AddOutput
  <2>. QED  BY <2>1, LocksAt
<1>6. ASSUME NEW t \in Thread, CreateStreams(t)
      PROVE  LocksOK'
  <2>1. OnlyOf(t) /\ op'[t].s = None
    BY <1>6, CreateStreamsType, IdleIs DEF Typed
  <2>2. \A k \in Session : \/ session'[k].st = session[k].st /\ session'[k].input = session[k].input
                           \/ Holds(op[t], k)
    BY <1>6, CreateStreamsDoes DEF Holds, Hold, At
  <2>. QED  BY <2>1, <2>2, LocksAt
<1>7. ASSUME NEW t \in Client, NEW s \in Session, Release(t, s)
      PROVE  LocksOK'
  <2>0. t \in Thread /\ OnlyOf(t) /\ op'[t] = [Idle EXCEPT !.pc = "release", !.s = s]
    BY <1>7, ReleaseType, ClientIs DEF Typed
  <2>1. t \in Thread /\ OnlyOf(t) /\ op'[t].pc \notin Hold
    BY <2>0, IdleIs DEF Doing, Hold, Closing
  <2>2. StopEffect(s) /\ StateLockFree(s)
    BY <1>7 DEF Release
  <2>3. \A k \in Session : \/ session'[k].st = session[k].st /\ session'[k].input = session[k].input
                           \/ StateLockFree(k)
    BY <2>2, StopEffectDoes
  <2>. QED  BY <2>1, <2>3, LocksAt
<1>8. ASSUME NEW t \in Thread, StopPreempted(t)
      PROVE  LocksOK'
  <2>1. OnlyOf(t) /\ op'[t].pc \notin Hold /\ op[t].s \in Session
    BY <1>8, StopPreemptedType DEF Typed, Hold, Closing
  <2>2. StopEffect(op[t].s) /\ StateLockFree(op[t].s)
    BY <1>8 DEF StopPreempted
  <2>3. \A k \in Session : \/ session'[k].st = session[k].st /\ session'[k].input = session[k].input
                           \/ StateLockFree(k)
    BY <2>1, <2>2, StopEffectDoes
  <2>. QED  BY <2>1, <2>3, LocksAt
<1>9. ASSUME NEW t \in Client, NEW s \in Session, DropProxy(t, s)
      PROVE  LocksOK'
  <2>1. t \in Thread /\ OnlyOf(t) /\ op'[t].pc \notin Hold
    <3>1. t \in Thread /\ OnlyOf(t) /\ op'[t] = [Idle EXCEPT !.pc = "release", !.s = s, !.next = "dropped"]
      BY <1>9, DropProxyType, ClientIs DEF Typed
    <3>. QED  BY <3>1, IdleIs DEF Doing, Hold, Closing
  <2>2. \A k \in Session : session'[k].st = session[k].st /\ session'[k].input = session[k].input
    BY <1>9, DropProxyDoes
  <2>. QED  BY <2>1, <2>2, LocksAt
<1>10. ASSUME NEW t \in Thread, ReleaseFinish(t)
       PROVE  LocksOK'
  <2>1. OnlyOf(t) /\ Resumed(t, op[t], op'[t]) /\ op[t] \in Doing
    BY <1>10, ReleaseFinishType, OpType DEF Typed
  <2>2. \A k \in Session : \/ session'[k].st = session[k].st /\ session'[k].input = session[k].input
                           \/ Holds(op[t], k)
    BY <1>10, ReleaseFinishDoes DEF Holds, Hold, At
  <2>. QED  BY <2>1, <2>2, LocksResumed
<1>11. ASSUME NEW t \in Thread, NEW d \in Device, Close(t, d)
       PROVE  LocksOK'
  <2>1. OnlyOf(t) /\ op'[t].s = None /\ UNCHANGED session
    <3>1. OnlyOf(t) /\ UNCHANGED session /\ op'[t] = [Idle EXCEPT !.pc = "listener", !.dev = d]
      BY <1>11, CloseType DEF Typed, Close
    <3>. QED  BY <3>1, IdleIs DEF Doing
  <2>. QED  BY <2>1, LocksAt
<1>12. ASSUME NEW t \in Thread, CloseLock(t) \/ BeforeDeviceClose(t) \/ OperatorRelease(t)
       PROVE  LocksOK'
  <2>1. /\ OnlyOf(t) /\ SameBut(op[t], op'[t]) /\ op'[t].pc \in Closing /\ UNCHANGED session
        /\ op[t].pc \in Closing
    BY <1>12, CloseLockType, BeforeDeviceCloseType, OperatorReleaseType
       DEF Typed, CloseLock, BeforeDeviceClose, OperatorRelease, At, Closing
  <2>. QED  BY <2>1, HeldOn
<1>13. ASSUME NEW t \in Thread, HdiClose(t)
       PROVE  LocksOK'
  <2>1. /\ OnlyOf(t) /\ UNCHANGED session /\ op[t].pc \in Closing /\ op[t] \in Doing
        /\ (SameBut(op[t], op'[t]) /\ op'[t].pc = "finish") \/ Resumed(t, op[t], op'[t])
    BY <1>13, HdiCloseType, OpType DEF Typed, HdiClose, At, Closing
  <2>. QED  BY <2>1, HeldOn, LocksResumed
<1>14. ASSUME Die
       PROVE  LocksOK'
  <2>1. Reaper \in Thread /\ OnlyOf(Reaper) /\ UNCHANGED session
    BY <1>14, DieType DEF Typed, Die, Thread
  <2>2. PICK o \in Doing : Resumed(Reaper, o, op'[Reaper])
    BY <1>14, DieType DEF Typed
  <2>. QED  BY <2>1, <2>2, LocksResumed
<1>15. ASSUME NEW t \in Thread, RemoveGroup(t) \/ ReleaseOperators(t)
       PROVE  LocksOK'
  <2>1. OnlyOf(t) /\ UNCHANGED session
    BY <1>15, RemoveGroupType, ReleaseOperatorsType DEF Typed, RemoveGroup, ReleaseOperators
  <2>2. PICK o \in Doing : Resumed(t, o, op'[t])
    BY <1>15, RemoveGroupType, ReleaseOperatorsType DEF Typed
  <2>. QED  BY <2>1, <2>2, LocksResumed
<1>16. ASSUME NEW t \in Client, NEW s \in Session, \E x \in Stream : RemoveOutput(t, s, x)
       PROVE  LocksOK'
  BY <1>16, LocksStill DEF RemoveOutput
<1>17. ASSUME NEW t \in Client, NEW s \in Session, \E d \in Device : AddInput(t, s, d)
       PROVE  LocksOK'
  <2>1. UNCHANGED op
    BY <1>17 DEF AddInput
  <2>. QED  BY <1>17, <2>1, AddInputDoes, LocksStill
<1>18. ASSUME NEW t \in Client, NEW s \in Session, RemoveInput(t, s)
       PROVE  LocksOK'
  <2>1. UNCHANGED op
    BY <1>18 DEF RemoveInput
  <2>. QED  BY <1>18, <2>1, RemoveInputDoes, LocksStill
<1>19. ASSUME NEW t \in Client, NEW s \in Session, Start(t, s)
       PROVE  LocksOK'
  <2>1. UNCHANGED op
    BY <1>19 DEF Start
  <2>. QED  BY <1>19, <2>1, StartDoes, LocksStill
<1>20. ASSUME NEW t \in Client, NEW s \in Session, Stop(t, s)
       PROVE  LocksOK'
  <2>1. UNCHANGED op /\ StopEffect(s) /\ StateLockFree(s)
    BY <1>20 DEF Stop
  <2>. QED  BY <2>1, StopEffectDoes, LocksStill
<1>21. ASSUME NEW t \in Client, NEW d \in Device, Open(t, d)
       PROVE  LocksOK'
  BY <1>21, LocksStill DEF Open
<1>22. ASSUME NEW s \in Session, HdiLetsGo(s)
       PROVE  LocksOK'
  BY <1>22, LocksStill DEF HdiLetsGo
<1>23. ASSUME NEW s \in Session, Destroy(s)
       PROVE  LocksOK'
  <2>1. UNCHANGED op
    BY <1>23 DEF Destroy
  <2>. QED  BY <1>23, <2>1, DestroyDoes, UnnamedFree, LocksStill
<1>24. CASE UNCHANGED vars
  BY <1>24, LocksStill DEF vars, state
<1>25. CASE Next
  BY <1>25, Steps, <1>1, <1>2, <1>3, <1>4, <1>5, <1>6, <1>7, <1>8, <1>9, <1>10, <1>11, <1>12, <1>13, <1>14, <1>15,
     <1>16, <1>17, <1>18, <1>19, <1>20, <1>21, <1>22, <1>23, LinkStreamLocks, CommitConfigLocks,
     ReleaseSessionLocks, Zenon DEF Typed
<1>. QED  BY <1>24, <1>25

LEMMA LocksInit == Init => LocksOK
<1>. SUFFICES ASSUME Init
              PROVE  LocksOK
  OBVIOUS
<1>1. \A t \in Thread : op[t] = Idle
  BY DEF Init
<1>. QED  BY <1>1, IdleHolds DEF LocksOK

-----------------------------------------------------------------------------
(***************************************************************************)
(* What a released session holds.  Who releases one took it out of the     *)
(* group before, or its last proxy is gone.                                *)
(***************************************************************************)
Leaves(o, s) == o.s = s /\ o.pc \in Closing \cup {"finish"}
Dropped(o, s) == o.s = s /\ o.next = "dropped"

Out(s) == InGroup(s) => ~ session[s].proxy

LeftOK(s) ==
  session[s].st = "released" => session[s].input = NoDevice /\ (s \in late \/ ~ operator[s].listed) /\ Out(s)

ReleasedOK ==
  \A s \in Session :
    /\ LeftOK(s)
    /\ \A t \in Thread : (Leaves(op[t], s) => Out(s)) /\ (Dropped(op[t], s) => ~ session[s].proxy)

\* No other session is released than before, and none by a thread that let its proxy go.
LeavesNone(t) ==
  \A s \in Session : (Leaves(op'[t], s) => Leaves(op[t], s)) /\ (Dropped(op'[t], s) => Dropped(op[t], s))

\* The steps that neither release a session nor create one.
NoneReleased ==
  /\ \A s \in Session : session'[s].proxy => session[s].proxy
  /\ \A s \in Session : s \in ToSet(group') => s \in ToSet(group)
  /\ late \subseteq late'
  /\ \A s \in Session : session'[s].st = "released" =>
       /\ session[s].st = "released" /\ session'[s].input = session[s].input
       /\ operator'[s].listed => operator[s].listed \/ s \in late'

LEMMA ReleasedKept ==
  ASSUME ReleasedOK, NEW t \in Thread, OnlyOf(t), NoneReleased,
         \A s \in Session : /\ Leaves(op'[t], s) => Leaves(op[t], s) \/ Out(s)'
                            /\ Dropped(op'[t], s) => Dropped(op[t], s) \/ ~ session'[s].proxy
  PROVE  ReleasedOK'
<1>. SUFFICES ASSUME NEW s \in Session
              PROVE  /\ LeftOK(s)'
                     /\ \A x \in Thread : (Leaves(op'[x], s) => Out(s)') /\ (Dropped(op'[x], s) => ~ session'[s].proxy)
  BY DEF ReleasedOK
<1>1. /\ LeftOK(s)
      /\ \A x \in Thread : (Leaves(op[x], s) => Out(s)) /\ (Dropped(op[x], s) => ~ session[s].proxy)
  BY DEF ReleasedOK
<1>2. Out(s) => Out(s)'
  BY DEF NoneReleased, Out, InGroup
<1>3. LeftOK(s)'
  BY <1>1, <1>2 DEF NoneReleased, LeftOK
<1>4. session'[s].proxy => session[s].proxy
  BY DEF NoneReleased
<1>. QED  BY <1>1, <1>2, <1>3, <1>4 DEF OnlyOf

LEMMA ReleasedQuiet ==
  ASSUME ReleasedOK, NEW t \in Thread, OnlyOf(t), NoneReleased, LeavesNone(t)
  PROVE  ReleasedOK'
BY ReleasedKept DEF LeavesNone

\* The moves that leave no session.
LEMMA ResumedLeaves ==
  ASSUME NEW t \in Thread, NEW o \in Doing, NEW r, Resumed(t, o, r), o.next = "dropped" => o.todo = <<>>
  PROVE  \A s \in Session : ~ Leaves(r, s) /\ ~ Dropped(r, s)
<1>. SUFFICES ASSUME NEW s \in Session, r.s = s
              PROVE  r.pc \notin Closing \cup {"finish"} /\ r.next # "dropped"
  BY DEF Leaves, Dropped
<1>1. r.pc = (IF t = Reaper THEN "release" ELSE "stop") /\ r.next = o.next /\ o.todo # <<>>
  BY NotSessions DEF Resumed
<1>. QED  BY <1>1 DEF Closing

LEMMA DroppedAlone ==
  ASSUME Typed, NEW t \in Thread
  PROVE  op[t] \in Doing /\ (op[t].next = "dropped" => op[t].todo = <<>>)
<1>1. op[t] \in Doing /\ Fits(t, op[t], alive)
  BY OpType DEF Typed, ThreadsOK
<1>. QED  BY <1>1, Kinds DEF Fits, FitsEvictor, FitsReaper, FitsClient

LEMMA IdleLeaves == \A s \in Session : ~ Leaves(Idle, s) /\ ~ Dropped(Idle, s)
BY IdleIs, NotSessions DEF Leaves, Dropped

LEMMA ClosingLeaves ==
  ASSUME NEW t \in Thread, SameBut(op[t], op'[t]), op[t].pc \in Closing \/ op'[t].pc \notin Closing \cup {"finish"}
  PROVE  LeavesNone(t)
BY DEF LeavesNone, Leaves, Dropped, SameBut

LEMMA ThreadLeaves ==
  ASSUME Typed, NEW t \in Thread,
         \/ PreemptOverflowSessions(t) \/ BeginConfig(t) \/ CreateStreams(t) \/ StopPreempted(t)
         \/ ReleaseFinish(t) \/ CloseLock(t) \/ BeforeDeviceClose(t)
         \/ OperatorRelease(t) \/ HdiClose(t) \/ RemoveGroup(t) \/ ReleaseOperators(t)
         \/ \E x \in Stream : AddOutput(t, x) \/ LinkStream(t, x)
         \/ \E d \in Device : Close(t, d)
  PROVE  OnlyOf(t) /\ LeavesNone(t)
<1>1. CASE BeginConfig(t) \/ CreateStreams(t) \/ \E x \in Stream : AddOutput(t, x)
  <2>1. OnlyOf(t) /\ op'[t] = Idle
    BY <1>1, BeginConfigType, CreateStreamsType, AddOutputType DEF Typed
  <2>. QED  BY <2>1, IdleLeaves DEF LeavesNone
<1>2. CASE CloseLock(t) \/ BeforeDeviceClose(t) \/ OperatorRelease(t)
  <2>1. OnlyOf(t) /\ SameBut(op[t], op'[t]) /\ op[t].pc \in Closing
    BY <1>2, CloseLockType, BeforeDeviceCloseType, OperatorReleaseType
       DEF Typed, CloseLock, BeforeDeviceClose, OperatorRelease, At, Closing
  <2>. QED  BY <2>1, ClosingLeaves
<1>3. CASE StopPreempted(t)
  <2>1. OnlyOf(t) /\ SameBut(op[t], op'[t]) /\ op'[t].pc = "release"
    BY <1>3, StopPreemptedType DEF Typed
  <2>. QED  BY <2>1, ClosingLeaves DEF Closing
<1>4. CASE ReleaseFinish(t)
  <2>1. OnlyOf(t) /\ Resumed(t, op[t], op'[t])
    BY <1>4, ReleaseFinishType DEF Typed
  <2>. QED  BY <2>1, DroppedAlone, ResumedLeaves DEF LeavesNone
<1>5. CASE HdiClose(t)
  <2>1. /\ OnlyOf(t) /\ op[t].pc \in Closing
        /\ SameBut(op[t], op'[t]) \/ Resumed(t, op[t], op'[t])
    BY <1>5, HdiCloseType DEF Typed, HdiClose, At, Closing
  <2>2. CASE SameBut(op[t], op'[t])
    BY <2>1, <2>2, ClosingLeaves
  <2>3. CASE Resumed(t, op[t], op'[t])
    BY <2>1, <2>3, DroppedAlone, ResumedLeaves DEF LeavesNone
  <2>. QED  BY <2>1, <2>2, <2>3
<1>6. CASE PreemptOverflowSessions(t)
  <2>1. OnlyOf(t) /\ \E o \in Doing : Resumed(t, o, op'[t]) /\ o.next = "created"
    BY <1>6, PreemptType DEF Typed
  <2>. QED  BY <2>1, ResumedLeaves DEF LeavesNone
<1>7. CASE RemoveGroup(t)
  <2>1. OnlyOf(t) /\ \E o \in Doing : Resumed(t, o, op'[t]) /\ o.next = "operators"
    BY <1>7, RemoveGroupType DEF Typed
  <2>. QED  BY <2>1, ResumedLeaves DEF LeavesNone
<1>8. CASE ReleaseOperators(t)
  <2>1. OnlyOf(t) /\ \E o \in Doing : Resumed(t, o, op'[t]) /\ o.next = "done"
    BY <1>8, ReleaseOperatorsType DEF Typed
  <2>. QED  BY <2>1, ResumedLeaves DEF LeavesNone
<1>9. CASE \E x \in Stream : LinkStream(t, x)
  <2>1. /\ OnlyOf(t)
        /\ \/ op'[t] = Idle
           \/ op'[t].pc \in {"link", "create"} /\ op'[t].next = "idle"
    BY <1>9, LinkStreamType DEF Typed
  <2>. QED  BY <2>1, IdleLeaves DEF LeavesNone, Leaves, Dropped, Closing
<1>10. CASE \E d \in Device : Close(t, d)
  <2>1. PICK d \in Device : Close(t, d)
    BY <1>10
  <2>2. OnlyOf(t) /\ op'[t] = [Idle EXCEPT !.pc = "listener", !.dev = d]
    BY <2>1, CloseType DEF Typed
  <2>3. op'[t].s = None
    BY <2>2, IdleIs DEF Doing
  <2>. QED  BY <2>2, <2>3, NotSessions DEF LeavesNone, Leaves, Dropped
<1>. QED  BY <1>1, <1>2, <1>3, <1>4, <1>5, <1>6, <1>7, <1>8, <1>9, <1>10

LEMMA CallLeaves ==
  ASSUME Typed, NEW t \in Client,
         \/ NewInstance(t)
         \/ \E s \in Session :
              \/ \E call : Enter(t, s, call)
              \/ \E x \in Stream : RemoveOutput(t, s, x)
              \/ \E d \in Device : AddInput(t, s, d)
              \/ RemoveInput(t, s) \/ CommitConfig(t, s) \/ Start(t, s) \/ Stop(t, s) \/ Release(t, s)
         \/ \E d \in Device : Open(t, d)
  PROVE  t \in Thread /\ OnlyOf(t) /\ LeavesNone(t)
<1>0. t \in Thread
  BY ClientIs
<1>1. CASE op' = op
  BY <1>0, <1>1 DEF OnlyOf, LeavesNone
<1>2. CASE NewInstance(t)
  <2>1. OnlyOf(t) /\ op'[t] = [Idle EXCEPT !.pc = "overflow", !.next = "created"]
    BY <1>2, NewInstanceType DEF Typed
  <2>2. op'[t].s = None
    BY <2>1, IdleIs DEF Doing
  <2>. QED  BY <1>0, <2>1, <2>2, NotSessions DEF LeavesNone, Leaves, Dropped
<1>3. ASSUME NEW s \in Session, NEW call, Enter(t, s, call)
      PROVE  OnlyOf(t) /\ LeavesNone(t)
  <2>1. OnlyOf(t) /\ op'[t] = [Idle EXCEPT !.pc = call, !.s = s] /\ call \in {"begin", "addOutput"}
    BY <1>3, EnterType DEF Typed
  <2>2. op'[t].pc \in {"begin", "addOutput"} /\ op'[t].next = "idle"
    BY <2>1, IdleIs DEF Doing
  <2>. QED  BY <2>1, <2>2 DEF LeavesNone, Leaves, Dropped, Closing
<1>4. ASSUME NEW s \in Session, Release(t, s)
      PROVE  OnlyOf(t) /\ LeavesNone(t)
  <2>1. OnlyOf(t) /\ op'[t] = [Idle EXCEPT !.pc = "release", !.s = s]
    BY <1>4, ReleaseType DEF Typed
  <2>2. op'[t].pc = "release" /\ op'[t].next = "idle"
    BY <2>1, IdleIs DEF Doing
  <2>. QED  BY <2>1, <2>2 DEF LeavesNone, Leaves, Dropped, Closing
<1>5. ASSUME NEW s \in Session, CommitConfig(t, s), op' # op
      PROVE  OnlyOf(t) /\ LeavesNone(t)
  <2>1. OnlyOf(t) /\ op'[t] = [Idle EXCEPT !.pc = "link", !.s = s, !.ways = operator[s].outputs]
    BY <1>5, CommitConfigType DEF Typed
  <2>2. op'[t].pc = "link" /\ op'[t].next = "idle"
    BY <2>1, IdleIs DEF Doing
  <2>. QED  BY <2>1, <2>2 DEF LeavesNone, Leaves, Dropped, Closing
<1>6. \A s \in Session : \/ \E x \in Stream : RemoveOutput(t, s, x)
                         \/ \E d \in Device : AddInput(t, s, d)
                         \/ RemoveInput(t, s) \/ Start(t, s) \/ Stop(t, s)
                         => op' = op
  BY DEF RemoveOutput, AddInput, RemoveInput, Start, Stop
<1>7. \A d \in Device : Open(t, d) => op' = op
  BY DEF Open
<1>. QED  BY <1>0, <1>1, <1>2, <1>3, <1>4, <1>5, <1>6, <1>7

LEMMA NoneReleasedBy ==
  ASSUME UNCHANGED <<session, late>>, \A s \in Session : s \in ToSet(group') => s \in ToSet(group),
         \A s \in Session : operator'[s].listed => operator[s].listed
  PROVE  NoneReleased
BY DEF NoneReleased

LEMMA OperatorMade ==
  ASSUME TypeOK, NEW s \in Session
  PROVE  InitialOperator(s).listed => operator[s].listed \/ ~ HasOperator(s)
BY InitialOperatorType

LEMMA StopNoneReleased ==
  ASSUME Typed, NEW s \in Session, StopEffect(s), UNCHANGED <<operator, group, late>>
  PROVE  NoneReleased
<1>1. CASE UNCHANGED session
  BY <1>1, NoneReleasedBy
<1>2. CASE /\ session[s].st \in {"configuring", "started"}
           /\ \A k \in Session : /\ session'[k].input = session[k].input /\ session'[k].proxy = session[k].proxy
                                 /\ session'[k].st = IF k = s THEN "committed" ELSE session[k].st
  BY <1>2 DEF NoneReleased
<1>. QED  BY <1>1, <1>2, StopEffectDoes

LEMMA ThreadNoneReleased ==
  ASSUME Typed, NEW t \in Thread,
         \/ PreemptOverflowSessions(t) \/ BeginConfig(t) \/ CreateStreams(t) \/ StopPreempted(t)
         \/ CloseLock(t) \/ BeforeDeviceClose(t)
         \/ OperatorRelease(t) \/ HdiClose(t) \/ RemoveGroup(t) \/ ReleaseOperators(t)
         \/ \E x \in Stream : AddOutput(t, x) \/ LinkStream(t, x)
         \/ \E d \in Device : Close(t, d)
  PROVE  NoneReleased
<1>1. CASE \/ CloseLock(t) \/ BeforeDeviceClose(t)
           \/ \E x \in Stream : LinkStream(t, x)
           \/ \E d \in Device : Close(t, d)
  <2>1. UNCHANGED <<session, operator, group, late>>
    BY <1>1 DEF CloseLock, BeforeDeviceClose, LinkStream, Close, history
  <2>. QED  BY <2>1, NoneReleasedBy
<1>2. CASE PreemptOverflowSessions(t)
  <2>1. UNCHANGED <<session, operator, late>>
    BY <1>2 DEF PreemptOverflowSessions, history
  <2>2. PICK n \in Nat : n <= Len(group) /\ group' = SubSeq(group, n + 1, Len(group))
    BY <1>2, PreemptType DEF Typed
  <2>3. \A x : x \in ToSet(group) <=> x \in ToSet(SubSeq(group, 1, n)) \/ x \in ToSet(SubSeq(group, n + 1, Len(group)))
    BY <2>2, SameGroup, Cut
  <2>. QED  BY <2>1, <2>2, <2>3, NoneReleasedBy
<1>3. CASE RemoveGroup(t)
  <2>1. UNCHANGED <<session, operator, late>> /\ group' = <<>>
    BY <1>3 DEF RemoveGroup, history
  <2>. QED  BY <2>1, SetOfEmpty, NoneReleasedBy
<1>4. CASE OperatorRelease(t)
  <2>1. UNCHANGED <<session, group, late>>
    BY <1>4 DEF OperatorRelease, history
  <2>2. \A s \in Session : operator'[s].listed => operator[s].listed
    BY <1>4, OperatorReleaseDoes
  <2>. QED  BY <2>1, <2>2, NoneReleasedBy
<1>5. CASE HdiClose(t)
  <2>1. UNCHANGED <<session, group, late>>
    BY <1>5 DEF HdiClose, history
  <2>2. \A s \in Session : operator'[s].listed => operator[s].listed
    BY <1>5, HdiCloseDoes
  <2>. QED  BY <2>1, <2>2, NoneReleasedBy
<1>6. CASE ReleaseOperators(t)
  <2>1. UNCHANGED <<session, group, late>>
    BY <1>6 DEF ReleaseOperators, history
  <2>2. \A s \in Session : operator'[s].listed => operator[s].listed
    BY <1>6, ReleaseOperatorsDoes
  <2>. QED  BY <2>1, <2>2, NoneReleasedBy
<1>7. CASE BeginConfig(t)
  <2>1. /\ group' = group
        /\ late' = IF session[op[t].s].st = "released" THEN late \cup {op[t].s} ELSE late
    BY <1>7 DEF BeginConfig
  <2>2. /\ op[t].s \in Session
        /\ \A k \in Session : /\ session'[k].input = session[k].input /\ session'[k].proxy = session[k].proxy
                              /\ k # op[t].s => session'[k].st = session[k].st /\ operator'[k] = operator[k]
        /\ session'[op[t].s].st = "configuring" \/ UNCHANGED session
    BY <1>7, BeginConfigDoes
  <2>. QED  BY <2>1, <2>2 DEF NoneReleased
<1>8. CASE \E x \in Stream : AddOutput(t, x)
  <2>1. /\ UNCHANGED <<session, group>>
        /\ late' = IF session[op[t].s].st = "released" THEN late \cup {op[t].s} ELSE late
    BY <1>8 DEF AddOutput
  <2>2. /\ op[t].s \in Session
        /\ \A k \in Session : k # op[t].s => operator'[k] = operator[k]
    BY <1>8, AddOutputDoes
  <2>. QED  BY <2>1, <2>2 DEF NoneReleased
<1>9. CASE CreateStreams(t)
  <2>1. UNCHANGED <<operator, group, late>>
    BY <1>9 DEF CreateStreams, history
  <2>2. /\ \A k \in Session : /\ session'[k].input = session[k].input /\ session'[k].proxy = session[k].proxy
                              /\ k # op[t].s => session'[k].st = session[k].st
        /\ session'[op[t].s].st = session[op[t].s].st \/ session'[op[t].s].st = "committed"
    BY <1>9, CreateStreamsDoes
  <2>. QED  BY <2>1, <2>2 DEF NoneReleased
<1>10. CASE StopPreempted(t)
  <2>1. UNCHANGED <<operator, group, late>> /\ StopEffect(op[t].s)
    BY <1>10 DEF StopPreempted
  <2>2. op[t].s \in Session
    BY <1>10, StopPreemptedType DEF Typed
  <2>. QED  BY <2>1, <2>2, StopNoneReleased
<1>. QED  BY <1>1, <1>2, <1>3, <1>4, <1>5, <1>6, <1>7, <1>8, <1>9, <1>10

LEMMA CallNoneReleased ==
  ASSUME Typed, NEW t \in Client,
         \/ \E s \in Session :
              \/ \E call : Enter(t, s, call)
              \/ \E x \in Stream : RemoveOutput(t, s, x)
              \/ \E d \in Device : AddInput(t, s, d)
              \/ RemoveInput(t, s) \/ CommitConfig(t, s) \/ Start(t, s) \/ Stop(t, s) \/ Release(t, s)
              \/ DropProxy(t, s)
         \/ \E d \in Device : Open(t, d)
  PROVE  NoneReleased
<1>1. ASSUME \/ \E d \in Device : Open(t, d)
             \/ \E s \in Session : \E call : Enter(t, s, call)
      PROVE  NoneReleased
  <2>1. UNCHANGED <<session, operator, group, late>>
    BY <1>1 DEF Open, Enter, history
  <2>. QED  BY <2>1, NoneReleasedBy
<1>2. ASSUME NEW s \in Session, \E x \in Stream : RemoveOutput(t, s, x)
      PROVE  NoneReleased
  <2>1. UNCHANGED <<session, group, late>>
    BY <1>2 DEF RemoveOutput, history
  <2>2. \A k \in Session : operator'[k].listed => operator[k].listed
    BY <1>2, RemoveOutputDoes
  <2>. QED  BY <2>1, <2>2, NoneReleasedBy
<1>3. ASSUME NEW s \in Session, \E d \in Device : AddInput(t, s, d)
      PROVE  NoneReleased
  <2>1. UNCHANGED <<operator, group, late>>
    BY <1>3 DEF AddInput
  <2>2. /\ session[s].st = "configuring"
        /\ \A k \in Session : /\ session'[k].st = session[k].st /\ session'[k].proxy = session[k].proxy
                              /\ k # s => session'[k].input = session[k].input
    BY <1>3, AddInputDoes
  <2>. QED  BY <2>1, <2>2 DEF NoneReleased
<1>4. ASSUME NEW s \in Session, RemoveInput(t, s)
      PROVE  NoneReleased
  <2>1. UNCHANGED <<group, late>>
    BY <1>4 DEF RemoveInput, history
  <2>2. /\ session[s].st = "configuring"
        /\ \A k \in Session : /\ session'[k].st = session[k].st /\ session'[k].proxy = session[k].proxy
                              /\ k # s => session'[k].input = session[k].input
                              /\ operator'[k].listed = operator[k].listed
    BY <1>4, RemoveInputDoes
  <2>. QED  BY <2>1, <2>2 DEF NoneReleased
<1>5. ASSUME NEW s \in Session, CommitConfig(t, s)
      PROVE  NoneReleased
  <2>1. UNCHANGED <<session, group, late>>
    BY <1>5 DEF CommitConfig
  <2>2. \A k \in Session : operator'[k].listed => operator[k].listed
    BY <1>5, CommitConfigDoes
  <2>. QED  BY <2>1, <2>2, NoneReleasedBy
<1>6. ASSUME NEW s \in Session, Start(t, s)
      PROVE  NoneReleased
  <2>1. UNCHANGED <<operator, group, late>>
    BY <1>6 DEF Start, history
  <2>2. \A k \in Session : /\ session'[k].input = session[k].input /\ session'[k].proxy = session[k].proxy
                           /\ session'[k].st = IF k = s THEN "started" ELSE session[k].st
    BY <1>6, StartDoes
  <2>. QED  BY <2>1, <2>2 DEF NoneReleased
<1>7. ASSUME NEW s \in Session, Stop(t, s) \/ Release(t, s)
      PROVE  NoneReleased
  <2>1. UNCHANGED <<operator, group, late>> /\ StopEffect(s)
    BY <1>7 DEF Stop, Release
  <2>. QED  BY <2>1, StopNoneReleased
<1>8. ASSUME NEW s \in Session, DropProxy(t, s)
      PROVE  NoneReleased
  <2>1. UNCHANGED <<operator, group, late>>
    BY <1>8 DEF DropProxy, history
  <2>2. \A k \in Session : /\ session'[k].st = session[k].st /\ session'[k].input = session[k].input
                           /\ session'[k].proxy = IF k = s THEN FALSE ELSE session[k].proxy
    BY <1>8, DropProxyDoes
  <2>. QED  BY <2>1, <2>2 DEF NoneReleased
<1>. QED  BY <1>1, <1>2, <1>3, <1>4, <1>5, <1>6, <1>7, <1>8

LEMMA NewInstanceReleased ==
  ASSUME Typed, ReleasedOK, NEW t \in Client, NewInstance(t)
  PROVE  ReleasedOK'
<1>1. PICK s \in Session :
        /\ session[s].st = "none" /\ ~ Named(s) /\ session'[s].st = "init"
        /\ \A k \in Session : k # s => session'[k] = session[k] /\ operator'[k] = operator[k]
        /\ group' = Append(group, s)
  BY NewInstanceDoes
<1>2. \A x : x \in ToSet(group') <=> x \in ToSet(group) \/ x = s
  BY <1>1, SameGroup, SetOfAppend
<1>3. OnlyOf(t) /\ LeavesNone(t) /\ t \in Thread /\ late' = late
  BY CallLeaves DEF NewInstance, history
<1>. SUFFICES ASSUME NEW k \in Session
              PROVE  /\ LeftOK(k)'
                     /\ \A x \in Thread : (Leaves(op'[x], k) => Out(k)') /\ (Dropped(op'[x], k) => ~ session'[k].proxy)
  BY DEF ReleasedOK
<1>4. \A x \in Thread : (Leaves(op'[x], k) => Leaves(op[x], k)) /\ (Dropped(op'[x], k) => Dropped(op[x], k))
  BY <1>3 DEF OnlyOf, LeavesNone
<1>5. CASE k = s
  <2>1. \A x \in Thread : ~ Leaves(op[x], k) /\ ~ Dropped(op[x], k)
    BY <1>1, <1>5 DEF Named, Names, Leaves, Dropped
  <2>. QED  BY <1>1, <1>4, <1>5, <2>1 DEF LeftOK
<1>6. CASE k # s
  <2>1. /\ LeftOK(k)
        /\ \A x \in Thread : (Leaves(op[x], k) => Out(k)) /\ (Dropped(op[x], k) => ~ session[k].proxy)
    BY DEF ReleasedOK
  <2>2. session'[k] = session[k] /\ operator'[k] = operator[k] /\ (Out(k)' <=> Out(k))
    BY <1>1, <1>2, <1>6 DEF Out, InGroup
  <2>. QED  BY <1>3, <1>4, <2>1, <2>2 DEF LeftOK
<1>. QED  BY <1>5, <1>6

LEMMA ReleaseSessionReleased ==
  ASSUME Typed, ReleasedOK, NEW t \in Thread, ReleaseSession(t)
  PROVE  ReleasedOK'
<1>1. PICK s \in Session :
      /\ s = op[t].s /\ At(t, "release")
      /\ group' = IF session[s].st # "released" /\ op[t].next # "dropped" THEN RemoveFirst(group, s) ELSE group
      /\ \/ /\ session[s].st # "released"
            /\ \A k \in Session : operator'[k].listed = operator[k].listed
            /\ op'[t].s = s /\ op'[t].next = op[t].next
         \/ Resumed(t, op[t], op'[t]) /\ UNCHANGED operator
  BY ReleaseSessionDoes
<1>2. OnlyOf(t) /\ UNCHANGED <<session, late>>
  BY ReleaseSessionType, SameGroup DEF Typed, ReleaseSession
<1>3. \A x : x \in ToSet(RemoveFirst(group, s)) <=> x \in ToSet(group) /\ x # s
  BY SameGroup, FirstRemoved
<1>4. NoneReleased
  BY <1>1, <1>2, <1>3, NoneReleasedBy
<1>5. CASE Resumed(t, op[t], op'[t])
  <2>1. LeavesNone(t)
    BY <1>5, DroppedAlone, ResumedLeaves DEF LeavesNone
  <2>. QED  BY <1>2, <1>4, <2>1, ReleasedQuiet
<1>6. CASE session[s].st # "released" /\ op'[t].s = s /\ op'[t].next = op[t].next
  <2>1. op[t].s = s
    BY <1>1
  <2>2. Out(s)'
    <3>1. CASE op[t].next = "dropped"
      <4>1. ~ session[s].proxy
        BY <1>1, <2>1, <3>1 DEF ReleasedOK, Dropped
      <4>. QED  BY <1>2, <4>1 DEF Out
    <3>2. CASE op[t].next # "dropped"
      <4>1. s \notin ToSet(group')
        BY <1>1, <1>3, <1>6, <3>2
      <4>. QED  BY <4>1 DEF Out, InGroup
    <3>. QED  BY <3>1, <3>2
  <2>3. \A k \in Session : /\ Leaves(op'[t], k) => Leaves(op[t], k) \/ Out(k)'
                           /\ Dropped(op'[t], k) => Dropped(op[t], k) \/ ~ session'[k].proxy
    BY <1>6, <2>1, <2>2 DEF Leaves, Dropped
  <2>. QED  BY <1>2, <1>4, <2>3, ReleasedKept
<1>. QED  BY <1>1, <1>5, <1>6

LEMMA ReleaseFinishReleased ==
  ASSUME Typed, ReleasedOK, NEW t \in Thread, ReleaseFinish(t)
  PROVE  ReleasedOK'
<1>1. PICK s \in Session :
        /\ s = op[t].s /\ At(t, "finish")
        /\ \A k \in Session : /\ session'[k].st = IF k = s THEN "released" ELSE session[k].st
                              /\ session'[k].input = IF k = s THEN NoDevice ELSE session[k].input
                              /\ session'[k].proxy = session[k].proxy
                              /\ k # s => operator'[k] = operator[k]
        /\ operator'[s] = NoOperator
  BY ReleaseFinishDoes
<1>2. OnlyOf(t) /\ LeavesNone(t) /\ UNCHANGED <<group, late>>
  BY ThreadLeaves DEF ReleaseFinish, history
<1>3. Out(s)
  <2>1. Leaves(op[t], s)
    BY <1>1 DEF Leaves, At
  <2>. QED  BY <2>1 DEF ReleasedOK
<1>4. \A k \in Session : Out(k)' <=> Out(k)
  BY <1>1, <1>2 DEF Out, InGroup
<1>5. \A k \in Session : LeftOK(k)'
  BY <1>1, <1>2, <1>3, <1>4, NoOperatorIs DEF ReleasedOK, LeftOK
<1>6. \A k \in Session, x \in Thread :
        (Leaves(op'[x], k) => Leaves(op[x], k)) /\ (Dropped(op'[x], k) => Dropped(op[x], k))
  BY <1>2 DEF OnlyOf, LeavesNone
<1>. QED  BY <1>1, <1>4, <1>5, <1>6 DEF ReleasedOK

LEMMA DropProxyReleased ==
  ASSUME Typed, ReleasedOK, NEW t \in Client, NEW s \in Session, DropProxy(t, s)
  PROVE  ReleasedOK'
<1>1. NoneReleased /\ ~ session'[s].proxy
  BY CallNoneReleased, DropProxyDoes
<1>2. t \in Thread /\ OnlyOf(t) /\ op'[t] = [Idle EXCEPT !.pc = "release", !.s = s, !.next = "dropped"]
  BY DropProxyType, ClientIs DEF Typed
<1>3. op'[t].pc = "release" /\ op'[t].s = s
  BY <1>2, IdleIs DEF Doing
<1>. QED  BY <1>1, <1>2, <1>3, ReleasedKept DEF Leaves, Dropped, Closing

LEMMA DieReleased ==
  ASSUME Typed, ReleasedOK, Die
  PROVE  ReleasedOK'
<1>1. Reaper \in Thread /\ OnlyOf(Reaper) /\ \E o \in Doing : Resumed(Reaper, o, op'[Reaper]) /\ o.next = "removeGroup"
  BY DieType DEF Typed, Thread
<1>2. LeavesNone(Reaper)
  BY <1>1, ResumedLeaves DEF LeavesNone
<1>3. UNCHANGED <<session, operator, group, late>>
  BY DEF Die
<1>. QED  BY <1>1, <1>2, <1>3, NoneReleasedBy, ReleasedQuiet

LEMMA ReleasedStill ==
  ASSUME ReleasedOK, UNCHANGED op, NoneReleased
  PROVE  ReleasedOK'
<1>1. Reaper \in Thread /\ OnlyOf(Reaper) /\ LeavesNone(Reaper)
  BY DEF OnlyOf, LeavesNone, Thread
<1>. QED  BY <1>1, ReleasedQuiet

LEMMA DestroyReleased ==
  ASSUME Typed, ReleasedOK, NEW s \in Session, Destroy(s)
  PROVE  ReleasedOK'
<1>1. UNCHANGED <<op, operator, group, late>>
  BY DEF Destroy, history
<1>2. \A k \in Session : /\ session'[k].st = IF k = s THEN "gone" ELSE session[k].st
                         /\ session'[k].input = IF k = s THEN NoDevice ELSE session[k].input
                         /\ session'[k].proxy = session[k].proxy
  BY DestroyDoes
<1>3. NoneReleased
  BY <1>1, <1>2 DEF NoneReleased
<1>. QED  BY <1>1, <1>3, ReleasedStill

LEMMA ReleasedStep ==
  ASSUME Typed, ReleasedOK, [Next]_vars
  PROVE  ReleasedOK'
<1>1. ASSUME NEW t \in Thread,
             \/ PreemptOverflowSessions(t) \/ BeginConfig(t) \/ CreateStreams(t) \/ StopPreempted(t)
             \/ CloseLock(t) \/ BeforeDeviceClose(t)
             \/ OperatorRelease(t) \/ HdiClose(t) \/ RemoveGroup(t) \/ ReleaseOperators(t)
             \/ \E x \in Stream : AddOutput(t, x) \/ LinkStream(t, x)
             \/ \E d \in Device : Close(t, d)
      PROVE  ReleasedOK'
  <2>1. OnlyOf(t) /\ LeavesNone(t)
    BY <1>1, ThreadLeaves
  <2>2. NoneReleased
    BY <1>1, ThreadNoneReleased
  <2>. QED  BY <2>1, <2>2, ReleasedQuiet
<1>2. ASSUME NEW t \in Client,
             \/ \E s \in Session :
                  \/ \E call : Enter(t, s, call)
                  \/ \E x \in Stream : RemoveOutput(t, s, x)
                  \/ \E d \in Device : AddInput(t, s, d)
                  \/ RemoveInput(t, s) \/ CommitConfig(t, s) \/ Start(t, s) \/ Stop(t, s) \/ Release(t, s)
             \/ \E d \in Device : Open(t, d)
      PROVE  ReleasedOK'
  <2>1. t \in Thread /\ OnlyOf(t) /\ LeavesNone(t)
    BY <1>2, CallLeaves
  <2>2. NoneReleased
    BY <1>2, CallNoneReleased
  <2>. QED  BY <2>1, <2>2, ReleasedQuiet
<1>3. ASSUME NEW s \in Session, HdiLetsGo(s)
      PROVE  ReleasedOK'
  <2>1. UNCHANGED <<op, session, operator, group, late>>
    BY <1>3 DEF HdiLetsGo, history
  <2>. QED  BY <2>1, NoneReleasedBy, ReleasedStill
<1>4. CASE UNCHANGED vars
  <2>1. UNCHANGED <<op, session, operator, group, late>>
    BY <1>4 DEF vars, state, history
  <2>. QED  BY <2>1, NoneReleasedBy, ReleasedStill
<1>5. CASE Next
  BY <1>5, Steps, <1>1, <1>2, <1>3, NewInstanceReleased, ReleaseSessionReleased, ReleaseFinishReleased,
     DropProxyReleased, DieReleased, DestroyReleased, Zenon DEF Typed
<1>. QED  BY <1>4, <1>5

LEMMA ReleasedInit == Init => ReleasedOK
<1>. SUFFICES ASSUME Init
              PROVE  ReleasedOK
  OBVIOUS
<1>1. \A t \in Thread : op[t] = Idle
  BY DEF Init
<1>2. \A s \in Session : session[s].st = "none"
  BY DEF Init
<1>. QED  BY <1>1, <1>2, IdleLeaves DEF ReleasedOK, LeftOK

\* A released session holds nothing: no device and no listener, no operator in the manager's map
\* unless a call that had passed CallbackEnter before the release ran after it, and it is in the
\* group only if its last proxy was let go (HCaptureSession::Release, RemoveSession and
\* ~HCaptureSessionWrapper).
THEOREM ReleasedIsEmpty == Spec => []ReleasedHoldsNothing
<1>1. Init => Typed /\ ListenersOK /\ ReleasedOK
  BY TypedInit, ListenersInit, ReleasedInit
<1>2. Typed /\ ListenersOK /\ ReleasedOK /\ [Next]_vars => (Typed /\ ListenersOK /\ ReleasedOK)'
  BY TypedStep, ListenersStep, ReleasedStep
<1>3. Typed /\ ListenersOK /\ ReleasedOK => ReleasedHoldsNothing
  <2>. SUFFICES ASSUME ListenersOK, ReleasedOK, NEW s \in Session, session[s].st = "released"
                PROVE  /\ session[s].input = NoDevice
                       /\ \A d \in Device : device[d].listener # s
                       /\ s \notin late => ~ operator[s].listed
                       /\ InGroup(s) => ~ session[s].proxy
    BY DEF ReleasedHoldsNothing
  <2>1. session[s].input = NoDevice /\ (s \notin late => ~ operator[s].listed) /\ (InGroup(s) => ~ session[s].proxy)
    BY DEF ReleasedOK, LeftOK, Out
  <2>2. \A d \in Device : device[d].listener # s
    BY <2>1, NotSessions DEF ListenersOK, ListenerOK
  <2>. QED  BY <2>1, <2>2
<1>. QED  BY <1>1, <1>2, <1>3, PTL DEF Spec

-----------------------------------------------------------------------------
(***************************************************************************)
(* The group accounts for the sessions the client wants: one that left it  *)
(* is being released, or its release found the operator gone.              *)
(***************************************************************************)
Takes(o, s) ==
  \/ o.s = s /\ o.pc \in {"stop", "release", "finish"} \cup Closing
  \/ s \in ToSet(o.todo)

Going(s) == \E t \in Thread : Takes(op[t], s)
Wanted(s) == session[s].st \in Live \ {"released"} /\ session[s].proxy /\ alive

GroupOK ==
  /\ \A s \in Session : Wanted(s) => InGroup(s) \/ s \in lost \/ Going(s)
  /\ Len(group) <= workload.limit \/ \E t \in Thread : At(t, "overflow")

\* No session is wanted that was not.
NoneWanted == \A s \in Session : Wanted(s)' => Wanted(s)

LEMMA GroupKept ==
  ASSUME GroupOK, NEW t \in Thread, OnlyOf(t), UNCHANGED <<workload, group>>, NoneWanted, lost \subseteq lost',
         op[t].pc # "overflow", \A s \in Session : Wanted(s)' /\ Takes(op[t], s) => Takes(op'[t], s)
  PROVE  GroupOK'
<1>1. ASSUME NEW s \in Session, Wanted(s)'
      PROVE  InGroup(s)' \/ s \in lost' \/ Going(s)'
  <2>1. InGroup(s) \/ s \in lost \/ Going(s)
    BY <1>1 DEF GroupOK, NoneWanted
  <2>2. InGroup(s) => InGroup(s)'
    BY DEF InGroup
  <2>3. Going(s) => Going(s)'
    BY <1>1 DEF Going, OnlyOf
  <2>. QED  BY <2>1, <2>2, <2>3
<1>2. Len(group') <= workload'.limit \/ \E x \in Thread : At(x, "overflow")'
  BY DEF GroupOK, At, OnlyOf
<1>. QED  BY <1>1, <1>2 DEF GroupOK

\* The moves of the threads that take no session from a list.
LEMMA ResumedTakes ==
  ASSUME NEW t, NEW o \in Doing, NEW r, Resumed(t, o, r), NEW s \in ToSet(o.todo)
  PROVE  Takes(r, s)
<1>1. o.todo \in Seq(Session) /\ o.todo # <<>>
  BY SetOfEmpty DEF Doing
<1>2. r.pc \in {"release", "stop"} /\ r.s = Head(o.todo) /\ r.todo = Tail(o.todo)
  BY <1>1 DEF Resumed
<1>3. s = Head(o.todo) \/ s \in ToSet(Tail(o.todo))
  BY <1>1, SetOfTail
<1>. QED  BY <1>2, <1>3 DEF Takes

LEMMA TakesNothing ==
  ASSUME Typed, NEW t \in Thread,
         op[t].pc \in {"idle", "begin", "addOutput", "link", "create", "overflow", "removeGroup", "operators", "done"}
  PROVE  \A s : ~ Takes(op[t], s)
<1>1. op[t].todo = <<>>
  BY IdleIs DEF Typed, ThreadsOK, Fits
<1>. QED  BY <1>1, SetOfEmpty DEF Takes, Closing

LEMMA SameTakes ==
  ASSUME NEW o, NEW r, SameBut(o, r), r.pc \in {"stop", "release", "finish"} \cup Closing, NEW s, Takes(o, s)
  PROVE  Takes(r, s)
BY DEF SameBut, Takes

\* What the thread t took it still takes, but for the session it has dealt with.
TakesOn(t) == op[t].pc # "overflow" /\ \A s \in Session : Takes(op[t], s) => Takes(op'[t], s)

LEMMA ThreadTakes ==
  ASSUME Typed, NEW t \in Thread,
         \/ BeginConfig(t) \/ CreateStreams(t) \/ StopPreempted(t) \/ CloseLock(t) \/ BeforeDeviceClose(t)
         \/ OperatorRelease(t) \/ HdiClose(t) \/ RemoveGroup(t) \/ ReleaseOperators(t)
         \/ \E x \in Stream : AddOutput(t, x) \/ LinkStream(t, x)
         \/ \E d \in Device : Close(t, d)
  PROVE  TakesOn(t)
<1>1. CASE \/ BeginConfig(t) \/ CreateStreams(t) \/ RemoveGroup(t) \/ ReleaseOperators(t)
           \/ \E x \in Stream : AddOutput(t, x) \/ LinkStream(t, x)
           \/ \E d \in Device : Close(t, d)
  <2>1. op[t].pc \in {"idle", "begin", "addOutput", "link", "create", "removeGroup", "operators"}
    BY <1>1 DEF BeginConfig, CreateStreams, RemoveGroup, ReleaseOperators, AddOutput, LinkStream, Close, At
  <2>. QED  BY <2>1, TakesNothing DEF TakesOn
<1>2. CASE StopPreempted(t)
  <2>1. SameBut(op[t], op'[t]) /\ op'[t].pc = "release" /\ op[t].pc = "stop"
    BY <1>2, StopPreemptedType DEF Typed, StopPreempted, At
  <2>. QED  BY <2>1, SameTakes DEF TakesOn
<1>3. CASE CloseLock(t) \/ BeforeDeviceClose(t) \/ OperatorRelease(t)
  <2>1. SameBut(op[t], op'[t]) /\ op'[t].pc \in Closing /\ op[t].pc \in Closing
    BY <1>3, CloseLockType, BeforeDeviceCloseType, OperatorReleaseType
       DEF Typed, CloseLock, BeforeDeviceClose, OperatorRelease, At, Closing
  <2>. QED  BY <2>1, SameTakes DEF TakesOn, Closing
<1>4. CASE HdiClose(t)
  <2>1. /\ op[t].pc = "hdiClose" /\ op[t] \in Doing
        /\ \/ SameBut(op[t], op'[t]) /\ op'[t].pc = "finish"
           \/ op[t].s = None /\ Resumed(t, op[t], op'[t])
    BY <1>4, HdiCloseType, OpType DEF Typed, HdiClose, At
  <2>2. CASE SameBut(op[t], op'[t]) /\ op'[t].pc = "finish"
    BY <2>1, <2>2, SameTakes DEF TakesOn
  <2>3. CASE op[t].s = None /\ Resumed(t, op[t], op'[t])
    <3>1. \A s \in Session : Takes(op[t], s) => s \in ToSet(op[t].todo)
      BY <2>3, NotSessions DEF Takes
    <3>. QED  BY <2>1, <2>3, <3>1, ResumedTakes DEF TakesOn
  <2>. QED  BY <2>1, <2>2, <2>3
<1>. QED  BY <1>1, <1>2, <1>3, <1>4

LEMMA CallTakes ==
  ASSUME Typed, NEW t \in Client,
         \/ NewInstance(t)
         \/ \E s \in Session :
              \/ \E call : Enter(t, s, call)
              \/ \E x \in Stream : RemoveOutput(t, s, x)
              \/ \E d \in Device : AddInput(t, s, d)
              \/ RemoveInput(t, s) \/ CommitConfig(t, s) \/ Start(t, s) \/ Stop(t, s) \/ Release(t, s)
              \/ DropProxy(t, s)
         \/ \E d \in Device : Open(t, d)
  PROVE  TakesOn(t) /\ t \in Thread
<1>1. op[t].pc = "idle" /\ t \in Thread
  <2>1. ASSUME NEW s \in Session,
               \/ \E call : Enter(t, s, call)
               \/ \E x \in Stream : RemoveOutput(t, s, x)
               \/ \E d \in Device : AddInput(t, s, d)
               \/ RemoveInput(t, s)
        PROVE  op[t].pc = "idle"
    BY <2>1 DEF Enter, RemoveOutput, AddInput, RemoveInput, MayCall, At
  <2>2. ASSUME NEW s \in Session, CommitConfig(t, s) \/ Start(t, s)
        PROVE  op[t].pc = "idle"
    BY <2>2 DEF CommitConfig, Start, MayCall, At
  <2>3. ASSUME NEW s \in Session, Stop(t, s) \/ Release(t, s) \/ DropProxy(t, s)
        PROVE  op[t].pc = "idle"
    BY <2>3 DEF Stop, Release, DropProxy, MayCall, At
  <2>4. ASSUME NewInstance(t) \/ \E d \in Device : Open(t, d)
        PROVE  op[t].pc = "idle"
    BY <2>4 DEF NewInstance, Open, MayCall, At
  <2>. QED  BY <2>1, <2>2, <2>3, <2>4, ClientIs, Zenon
<1>. QED  BY <1>1, TakesNothing DEF TakesOn

\* No operation brings a session back that was released.
LEMMA WantedBy ==
  ASSUME UNCHANGED <<session, alive>>
  PROVE  NoneWanted
BY DEF NoneWanted, Wanted

LEMMA StopWanted ==
  ASSUME Typed, NEW s \in Session, StopEffect(s), UNCHANGED alive
  PROVE  NoneWanted
<1>1. CASE UNCHANGED session
  BY <1>1, WantedBy
<1>2. CASE /\ session[s].st \in {"configuring", "started"}
           /\ \A k \in Session : /\ session'[k].input = session[k].input /\ session'[k].proxy = session[k].proxy
                                 /\ session'[k].st = IF k = s THEN "committed" ELSE session[k].st
  BY <1>2 DEF NoneWanted, Wanted, Live
<1>. QED  BY <1>1, <1>2, StopEffectDoes

LEMMA ThreadWanted ==
  ASSUME Typed, LocksOK, NEW t \in Thread,
         \/ PreemptOverflowSessions(t) \/ BeginConfig(t) \/ CreateStreams(t) \/ StopPreempted(t)
         \/ ReleaseSession(t) \/ ReleaseFinish(t) \/ CloseLock(t) \/ BeforeDeviceClose(t)
         \/ OperatorRelease(t) \/ HdiClose(t) \/ RemoveGroup(t) \/ ReleaseOperators(t)
         \/ \E x \in Stream : AddOutput(t, x) \/ LinkStream(t, x)
         \/ \E d \in Device : Close(t, d)
  PROVE  NoneWanted /\ UNCHANGED <<workload, alive>>
<1>0. UNCHANGED <<workload, alive>>
  BY DEF PreemptOverflowSessions, BeginConfig, CreateStreams, StopPreempted, ReleaseSession, ReleaseFinish, CloseLock,
         BeforeDeviceClose, OperatorRelease, HdiClose, RemoveGroup, ReleaseOperators, AddOutput, LinkStream, Close
<1>1. CASE \/ PreemptOverflowSessions(t) \/ ReleaseSession(t) \/ CloseLock(t) \/ BeforeDeviceClose(t)
           \/ OperatorRelease(t) \/ HdiClose(t) \/ RemoveGroup(t) \/ ReleaseOperators(t)
           \/ \E x \in Stream : AddOutput(t, x) \/ LinkStream(t, x)
           \/ \E d \in Device : Close(t, d)
  <2>1. UNCHANGED session
    BY <1>1 DEF PreemptOverflowSessions, ReleaseSession, CloseLock, BeforeDeviceClose, OperatorRelease, HdiClose,
                RemoveGroup, ReleaseOperators, AddOutput, LinkStream, Close
  <2>. QED  BY <1>0, <2>1, WantedBy
<1>2. CASE BeginConfig(t)
  <2>1. /\ \A k \in Session : /\ session'[k].proxy = session[k].proxy
                              /\ k # op[t].s => session'[k].st = session[k].st
        /\ session[op[t].s].st \in {"init", "committed", "started"} \/ UNCHANGED session
    BY <1>2, BeginConfigDoes
  <2>. QED  BY <1>0, <2>1 DEF NoneWanted, Wanted, Live
<1>3. CASE CreateStreams(t)
  <2>1. /\ op[t].s \in Session /\ op[t].pc = "create"
        /\ \A k \in Session : /\ session'[k].proxy = session[k].proxy
                              /\ k # op[t].s => session'[k].st = session[k].st
    BY <1>3, CreateStreamsDoes DEF At
  <2>2. session[op[t].s].st \in {"configuring", "started"}
    BY <2>1 DEF LocksOK, Holds, Hold, Found
  <2>. QED  BY <1>0, <2>1, <2>2 DEF NoneWanted, Wanted, Live
<1>4. CASE StopPreempted(t)
  <2>1. op[t].s \in Session /\ StopEffect(op[t].s)
    BY <1>4, StopPreemptedType DEF Typed, StopPreempted
  <2>. QED  BY <1>0, <2>1, StopWanted
<1>5. CASE ReleaseFinish(t)
  <2>1. \A k \in Session : /\ session'[k].st = IF k = op[t].s THEN "released" ELSE session[k].st
                           /\ session'[k].proxy = session[k].proxy
    BY <1>5, ReleaseFinishDoes
  <2>. QED  BY <1>0, <2>1 DEF NoneWanted, Wanted, Live
<1>. QED  BY <1>0, <1>1, <1>2, <1>3, <1>4, <1>5

LEMMA CallWanted ==
  ASSUME Typed, NEW t \in Client,
         \/ \E s \in Session :
              \/ \E call : Enter(t, s, call)
              \/ \E x \in Stream : RemoveOutput(t, s, x)
              \/ \E d \in Device : AddInput(t, s, d)
              \/ RemoveInput(t, s) \/ CommitConfig(t, s) \/ Start(t, s) \/ Stop(t, s) \/ Release(t, s)
              \/ DropProxy(t, s)
         \/ \E d \in Device : Open(t, d)
  PROVE  NoneWanted /\ UNCHANGED <<workload, alive, group, lost>>
<1>0. UNCHANGED <<workload, alive, group, lost>>
  <2>1. ASSUME NEW s \in Session,
               \/ \E call : Enter(t, s, call)
               \/ \E x \in Stream : RemoveOutput(t, s, x)
               \/ \E d \in Device : AddInput(t, s, d)
               \/ RemoveInput(t, s)
        PROVE  UNCHANGED <<workload, alive, group, lost>>
    BY <2>1 DEF Enter, RemoveOutput, AddInput, RemoveInput, history
  <2>2. ASSUME NEW s \in Session, CommitConfig(t, s) \/ Start(t, s)
        PROVE  UNCHANGED <<workload, alive, group, lost>>
    BY <2>2 DEF CommitConfig, Start, history
  <2>3. ASSUME NEW s \in Session, Stop(t, s) \/ Release(t, s) \/ DropProxy(t, s)
        PROVE  UNCHANGED <<workload, alive, group, lost>>
    BY <2>3 DEF Stop, Release, DropProxy, history
  <2>4. ASSUME NEW d \in Device, Open(t, d)
        PROVE  UNCHANGED <<workload, alive, group, lost>>
    BY <2>4 DEF Open, history
  <2>. QED  BY <2>1, <2>2, <2>3, <2>4, Zenon
<1>1. ASSUME \/ \E d \in Device : Open(t, d)
             \/ \E s \in Session :
                  \/ \E call : Enter(t, s, call)
                  \/ \E x \in Stream : RemoveOutput(t, s, x)
                  \/ CommitConfig(t, s)
      PROVE  NoneWanted
  <2>1. UNCHANGED session
    BY <1>1 DEF Open, Enter, RemoveOutput, CommitConfig
  <2>. QED  BY <1>0, <2>1, WantedBy
<1>2. ASSUME NEW s \in Session, \E d \in Device : AddInput(t, s, d)
      PROVE  NoneWanted
  <2>1. \A k \in Session : session'[k].st = session[k].st /\ session'[k].proxy = session[k].proxy
    BY <1>2, AddInputDoes
  <2>. QED  BY <1>0, <2>1 DEF NoneWanted, Wanted
<1>3. ASSUME NEW s \in Session, RemoveInput(t, s)
      PROVE  NoneWanted
  <2>1. \A k \in Session : session'[k].st = session[k].st /\ session'[k].proxy = session[k].proxy
    BY <1>3, RemoveInputDoes
  <2>. QED  BY <1>0, <2>1 DEF NoneWanted, Wanted
<1>4. ASSUME NEW s \in Session, Start(t, s)
      PROVE  NoneWanted
  <2>1. /\ session[s].st = "committed"
        /\ \A k \in Session : /\ session'[k].proxy = session[k].proxy
                              /\ session'[k].st = IF k = s THEN "started" ELSE session[k].st
    BY <1>4, StartDoes
  <2>. QED  BY <1>0, <2>1 DEF NoneWanted, Wanted, Live
<1>5. ASSUME NEW s \in Session, Stop(t, s) \/ Release(t, s)
      PROVE  NoneWanted
  <2>1. StopEffect(s)
    BY <1>5 DEF Stop, Release
  <2>. QED  BY <1>0, <2>1, StopWanted
<1>6. ASSUME NEW s \in Session, DropProxy(t, s)
      PROVE  NoneWanted
  <2>1. \A k \in Session : /\ session'[k].st = session[k].st
                           /\ session'[k].proxy = IF k = s THEN FALSE ELSE session[k].proxy
    BY <1>6, DropProxyDoes
  <2>. QED  BY <1>0, <2>1 DEF NoneWanted, Wanted
<1>. QED  BY <1>0, <1>1, <1>2, <1>3, <1>4, <1>5, <1>6

LEMMA NewInstanceGroup ==
  ASSUME Typed, GroupOK, NEW t \in Client, NewInstance(t)
  PROVE  GroupOK'
<1>1. PICK s \in Session :
        /\ \A k \in Session : k # s => session'[k] = session[k]
        /\ group' = Append(group, s)
  BY NewInstanceDoes
<1>2. \A x : x \in ToSet(group') <=> x \in ToSet(group) \/ x = s
  BY <1>1, SameGroup, SetOfAppend
<1>3. OnlyOf(t) /\ TakesOn(t) /\ t \in Thread /\ UNCHANGED <<workload, alive, lost>>
  BY CallLeaves, CallTakes DEF NewInstance, history
<1>4. op'[t] = [Idle EXCEPT !.pc = "overflow", !.next = "created"]
  BY NewInstanceType DEF Typed
<1>5. op'[t].pc = "overflow"
  BY <1>4, IdleIs DEF Doing
<1>6. ASSUME NEW k \in Session, Wanted(k)'
      PROVE  InGroup(k)' \/ k \in lost' \/ Going(k)'
  <2>1. CASE k = s
    BY <1>2, <2>1 DEF InGroup
  <2>2. CASE k # s
    <3>1. Wanted(k)
      BY <1>1, <1>3, <1>6, <2>2 DEF Wanted
    <3>2. InGroup(k) \/ k \in lost \/ Going(k)
      BY <3>1 DEF GroupOK
    <3>3. Going(k) => Going(k)'
      BY <1>3 DEF Going, OnlyOf, TakesOn
    <3>4. InGroup(k) => InGroup(k)'
      BY <1>2 DEF InGroup
    <3>. QED  BY <1>3, <3>2, <3>3, <3>4
  <2>. QED  BY <2>1, <2>2
<1>7. \E x \in Thread : At(x, "overflow")'
  BY <1>3, <1>5 DEF At
<1>. QED  BY <1>6, <1>7 DEF GroupOK

LEMMA PreemptGroup ==
  ASSUME Typed, LocksOK, GroupOK, NEW t \in Thread, PreemptOverflowSessions(t)
  PROVE  GroupOK'
<1>1. PICK n \in Nat :
        LET a == SubSeq(group, 1, n)  b == SubSeq(group, n + 1, Len(group)) IN
        /\ n <= Len(group) /\ Len(group) - n <= workload.limit
        /\ group' = b /\ a \in Seq(Session) /\ b \in Seq(Session)
        /\ \E o \in Doing : Resumed(t, o, op'[t]) /\ o.todo = a /\ o.devs = <<>> /\ o.next = "created"
  BY PreemptType DEF Typed
<1>. DEFINE a == SubSeq(group, 1, n)  b == SubSeq(group, n + 1, Len(group))
<1>2. PICK o \in Doing : Resumed(t, o, op'[t]) /\ o.todo = a
  BY <1>1
<1>3. group \in Seq(Session)
  BY SameGroup
<1>4. /\ Len(b) = Len(group) - n
      /\ \A x : x \in ToSet(group) <=> x \in ToSet(a) \/ x \in ToSet(b)
  BY <1>1, <1>3, Cut
<1>5. group' = b /\ Len(b) <= workload.limit
  BY <1>1, <1>4
<1>. HIDE DEF a, b
<1>6. OnlyOf(t) /\ NoneWanted /\ UNCHANGED <<workload, lost>> /\ op[t].pc = "overflow"
  BY ThreadLeaves, ThreadWanted DEF PreemptOverflowSessions, history, At
<1>7. ASSUME NEW k \in Session, Wanted(k)'
      PROVE  InGroup(k)' \/ k \in lost' \/ Going(k)'
  <2>1. InGroup(k) \/ k \in lost \/ Going(k)
    BY <1>6, <1>7 DEF GroupOK, NoneWanted
  <2>2. Going(k) => Going(k)'
    <3>1. ~ Takes(op[t], k)
      BY <1>6, TakesNothing
    <3>. QED  BY <1>6, <3>1 DEF Going, OnlyOf
  <2>3. CASE InGroup(k)
    <3>1. k \in ToSet(a) \/ k \in ToSet(b)
      BY <1>4, <2>3 DEF InGroup
    <3>2. k \in ToSet(a) => Going(k)'
      BY <1>2, ResumedTakes DEF Going
    <3>3. k \in ToSet(b) => InGroup(k)'
      BY <1>5 DEF InGroup
    <3>. QED  BY <3>1, <3>2, <3>3
  <2>. QED  BY <1>6, <2>1, <2>2, <2>3
<1>. QED  BY <1>5, <1>6, <1>7 DEF GroupOK

LEMMA ReleaseSessionGroup ==
  ASSUME Typed, LocksOK, GroupOK, NEW t \in Thread, ReleaseSession(t)
  PROVE  GroupOK'
<1>1. PICK s \in Session :
        /\ s = op[t].s /\ At(t, "release")
        /\ group' = IF session[s].st # "released" /\ op[t].next # "dropped" THEN RemoveFirst(group, s) ELSE group
        /\ \/ /\ op'[t].pc = (IF session[s].input = NoDevice THEN "finish" ELSE "closeLock")
              /\ op'[t].s = s /\ op'[t].todo = op[t].todo /\ lost' = lost
           \/ /\ Resumed(t, op[t], op'[t])
              /\ lost' = IF session[s].st # "released" THEN lost \cup {s} ELSE lost
  BY ReleaseSessionDoes
<1>2. OnlyOf(t) /\ NoneWanted /\ UNCHANGED <<workload, session>> /\ op[t] \in Doing
  BY ReleaseSessionType, SameGroup, ThreadWanted, OpType DEF Typed, ReleaseSession
<1>3. /\ Len(RemoveFirst(group, s)) <= Len(group) /\ RemoveFirst(group, s) \in Seq(Session)
      /\ \A x : x \in ToSet(RemoveFirst(group, s)) <=> x \in ToSet(group) /\ x # s
  BY SameGroup, FirstRemoved
<1>4. ASSUME NEW k \in Session, Wanted(k)'
      PROVE  InGroup(k)' \/ k \in lost' \/ Going(k)'
  <2>1. (InGroup(k) \/ k \in lost \/ Going(k)) /\ session[k].st # "released"
    BY <1>2, <1>4 DEF GroupOK, NoneWanted, Wanted
  <2>2. lost \subseteq lost'
    BY <1>1
  <2>3. CASE k = s
    <3>1. Going(k)' \/ k \in lost'
      BY <1>1, <2>1, <2>3 DEF Going, Takes, Closing
    <3>. QED  BY <3>1
  <2>4. CASE k # s
    <3>1. InGroup(k) => InGroup(k)'
      BY <1>1, <1>3, <2>4 DEF InGroup
    <3>2. Takes(op[t], k) => k \in ToSet(op[t].todo)
      BY <1>1, <2>4 DEF Takes
    <3>3. k \in ToSet(op[t].todo) => Takes(op'[t], k)
      BY <1>1, <1>2, ResumedTakes DEF Takes
    <3>4. Going(k) => Going(k)'
      BY <1>2, <3>2, <3>3 DEF Going, OnlyOf
    <3>. QED  BY <2>1, <2>2, <3>1, <3>4
  <2>. QED  BY <2>3, <2>4
<1>5. Len(group') <= workload'.limit \/ \E x \in Thread : At(x, "overflow")'
  <2>1. Len(group') <= Len(group) /\ Len(group) \in Nat /\ Len(group') \in Nat
    BY <1>1, <1>3, SameGroup
  <2>2. workload.limit \in Nat
    BY WorkloadIs DEF Typed
  <2>3. CASE Len(group) <= workload.limit
    BY <1>2, <2>1, <2>2, <2>3
  <2>4. CASE \E x \in Thread : At(x, "overflow")
    BY <1>1, <1>2, <2>4 DEF At, OnlyOf
  <2>. QED  BY <2>3, <2>4 DEF GroupOK
<1>. QED  BY <1>4, <1>5 DEF GroupOK

LEMMA ReleaseFinishGroup ==
  ASSUME Typed, LocksOK, GroupOK, NEW t \in Thread, ReleaseFinish(t)
  PROVE  GroupOK'
<1>1. PICK s \in Session :
        s = op[t].s /\ At(t, "finish") /\ session'[s].st = "released"
  BY ReleaseFinishDoes
<1>2. OnlyOf(t) /\ NoneWanted /\ UNCHANGED <<workload, group, lost>> /\ op[t] \in Doing /\ Resumed(t, op[t], op'[t])
  BY ReleaseFinishType, ThreadWanted, OpType DEF Typed, ReleaseFinish, history
<1>3. ASSUME NEW k \in Session, Wanted(k)', Takes(op[t], k)
      PROVE  Takes(op'[t], k)
  <2>1. k # s
    BY <1>1, <1>3 DEF Wanted
  <2>2. k \in ToSet(op[t].todo)
    BY <1>1, <1>3, <2>1 DEF Takes
  <2>. QED  BY <1>2, <2>2, ResumedTakes
<1>. QED  BY <1>1, <1>2, <1>3, GroupKept DEF At

LEMMA RemoveGroupGroup ==
  ASSUME Typed, GroupOK, NEW t \in Thread, RemoveGroup(t)
  PROVE  GroupOK'
<1>1. ~ alive /\ group' = <<>> /\ UNCHANGED <<workload, alive>>
  BY RemoveGroupType DEF Typed, RemoveGroup
<1>2. Len(group') <= workload.limit
  BY <1>1, WorkloadIs, EmptySeq DEF Typed
<1>. QED  BY <1>1, <1>2 DEF GroupOK, Wanted

LEMMA DieGroup ==
  ASSUME Typed, GroupOK, Die
  PROVE  GroupOK'
<1>1. /\ Reaper \in Thread /\ OnlyOf(Reaper) /\ ~ alive' /\ op[Reaper].pc = "idle"
      /\ UNCHANGED <<workload, group>>
  BY DieType, IdleIs DEF Typed, Die, Thread
<1>2. (\E x \in Thread : At(x, "overflow")) => \E x \in Thread : At(x, "overflow")'
  BY <1>1 DEF At, OnlyOf
<1>. QED  BY <1>1, <1>2 DEF GroupOK, Wanted

LEMMA GroupStill ==
  ASSUME Typed, GroupOK, UNCHANGED <<op, workload, group>>, NoneWanted, lost \subseteq lost'
  PROVE  GroupOK'
<1>1. ASSUME NEW s \in Session, Wanted(s)'
      PROVE  InGroup(s)' \/ s \in lost' \/ Going(s)'
  <2>1. InGroup(s) \/ s \in lost \/ Going(s)
    BY <1>1 DEF GroupOK, NoneWanted
  <2>. QED  BY <2>1 DEF InGroup, Going
<1>. QED  BY <1>1 DEF GroupOK, At

LEMMA DestroyGroup ==
  ASSUME Typed, GroupOK, NEW s \in Session, Destroy(s)
  PROVE  GroupOK'
<1>1. UNCHANGED <<op, workload, group, lost, alive>>
  BY DEF Destroy, history
<1>2. \A k \in Session : /\ session'[k].st = IF k = s THEN "gone" ELSE session[k].st
                         /\ session'[k].proxy = session[k].proxy
  BY DestroyDoes
<1>3. NoneWanted
  BY <1>1, <1>2 DEF NoneWanted, Wanted, Live
<1>. QED  BY <1>1, <1>3, GroupStill

LEMMA GroupStep ==
  ASSUME Typed, LocksOK, GroupOK, [Next]_vars
  PROVE  GroupOK'
<1>1. ASSUME NEW t \in Thread,
             \/ BeginConfig(t) \/ CreateStreams(t) \/ StopPreempted(t) \/ CloseLock(t) \/ BeforeDeviceClose(t)
             \/ OperatorRelease(t) \/ HdiClose(t) \/ ReleaseOperators(t)
             \/ \E x \in Stream : AddOutput(t, x) \/ LinkStream(t, x)
             \/ \E d \in Device : Close(t, d)
      PROVE  GroupOK'
  <2>1. OnlyOf(t)
    BY <1>1, ThreadLeaves
  <2>2. NoneWanted /\ UNCHANGED workload
    BY <1>1, ThreadWanted
  <2>3. TakesOn(t)
    BY <1>1, ThreadTakes
  <2>4. UNCHANGED <<group, lost>>
    BY <1>1 DEF BeginConfig, CreateStreams, StopPreempted, CloseLock, BeforeDeviceClose, OperatorRelease, HdiClose,
                ReleaseOperators, AddOutput, LinkStream, Close, history
  <2>. QED  BY <2>1, <2>2, <2>3, <2>4, GroupKept DEF TakesOn
<1>2. ASSUME NEW t \in Client,
             \/ \E s \in Session :
                  \/ \E call : Enter(t, s, call)
                  \/ \E x \in Stream : RemoveOutput(t, s, x)
                  \/ \E d \in Device : AddInput(t, s, d)
                  \/ RemoveInput(t, s) \/ CommitConfig(t, s) \/ Start(t, s) \/ Stop(t, s) \/ Release(t, s)
             \/ \E d \in Device : Open(t, d)
      PROVE  GroupOK'
  <2>1. OnlyOf(t) /\ t \in Thread
    BY <1>2, CallLeaves
  <2>2. NoneWanted /\ UNCHANGED <<workload, group, lost>>
    BY <1>2, CallWanted
  <2>3. TakesOn(t)
    BY <1>2, CallTakes
  <2>. QED  BY <2>1, <2>2, <2>3, GroupKept DEF TakesOn
<1>3. ASSUME NEW t \in Client, NEW s \in Session, DropProxy(t, s)
      PROVE  GroupOK'
  <2>1. OnlyOf(t) /\ t \in Thread
    BY <1>3, DropProxyType, ClientIs DEF Typed
  <2>2. NoneWanted /\ UNCHANGED <<workload, group, lost>>
    BY <1>3, CallWanted
  <2>3. TakesOn(t)
    BY <1>3, CallTakes
  <2>. QED  BY <2>1, <2>2, <2>3, GroupKept DEF TakesOn
<1>4. ASSUME NEW s \in Session, HdiLetsGo(s)
      PROVE  GroupOK'
  <2>1. UNCHANGED <<op, session, alive, workload, group, lost>>
    BY <1>4 DEF HdiLetsGo, history
  <2>. QED  BY <2>1, WantedBy, GroupStill
<1>5. CASE UNCHANGED vars
  <2>1. UNCHANGED <<op, session, alive, workload, group, lost>>
    BY <1>5 DEF vars, state, history
  <2>. QED  BY <2>1, WantedBy, GroupStill
<1>6. CASE Next
  BY <1>6, Steps, <1>1, <1>2, <1>3, <1>4, NewInstanceGroup, PreemptGroup, ReleaseSessionGroup, ReleaseFinishGroup,
     RemoveGroupGroup, DieGroup, DestroyGroup, Zenon DEF Typed
<1>. QED  BY <1>5, <1>6

LEMMA GroupInit == Init => GroupOK
<1>. SUFFICES ASSUME Init
              PROVE  GroupOK
  OBVIOUS
<1>1. \A s \in Session : session[s].st = "none"
  BY DEF Init
<1>2. Len(group) <= workload.limit
  BY WorkloadIs, EmptySeq, TypedInit DEF Init, Typed
<1>. QED  BY <1>1, <1>2 DEF GroupOK, Wanted, Live

\* The lock of a session's state is held by one thread at a time, and a thread that links the
\* session's streams, or closes its device to release it, finds it in the state in which it took
\* the lock (sessionStateLock_ in CommitConfig and Release).
THEOREM OneHolder == Spec => []LocksOK
<1>1. Init => Typed /\ LocksOK
  BY TypedInit, LocksInit
<1>2. Typed /\ LocksOK /\ [Next]_vars => (Typed /\ LocksOK)'
  BY TypedStep, LocksStep
<1>. QED  BY <1>1, <1>2, PTL DEF Spec

\* The group accounts for the sessions: one that was not released is in it, unless its Release
\* found the operator gone; it holds none twice, and it is no larger than its limit while no
\* session is created (HCameraSessionManager's AddSession, RemoveSession and
\* PreemptOverflowSessions).
THEOREM GroupAccountsForAll == Spec => []GroupAccounts
<1>1. Init => Typed /\ LocksOK /\ GroupOK
  BY TypedInit, LocksInit, GroupInit
<1>2. Typed /\ LocksOK /\ GroupOK /\ [Next]_vars => (Typed /\ LocksOK /\ GroupOK)'
  BY TypedStep, LocksStep, GroupStep
<1>3. Typed /\ LocksOK /\ GroupOK => GroupAccounts
  <2>. SUFFICES ASSUME Typed, GroupOK
                PROVE  GroupAccounts
    OBVIOUS
  <2>1. ASSUME NEW s \in Session, session[s].st \notin {"none", "released", "gone"}, session[s].proxy, AtRest(s), alive
        PROVE  InGroup(s) \/ s \in lost
    <3>1. session[s].st \in Live \ {"released"}
      BY <2>1, Fields DEF Typed, States, Live
    <3>2. ~ Going(s)
      BY <2>1 DEF AtRest, Going, Takes
    <3>. QED  BY <2>1, <3>1, <3>2 DEF GroupOK, Wanted
  <2>2. ASSUME ServiceFree
        PROVE  Len(group) <= workload.limit
    <3>1. \A t \in Thread : ~ At(t, "overflow")
      BY <2>2 DEF ServiceFree, At, Typed, ThreadsOK, Fits
    <3>. QED  BY <3>1 DEF GroupOK
  <2>3. IsInjective(group)
    BY SameGroup
  <2>. QED  BY <2>1, <2>2, <2>3 DEF GroupAccounts
<1>. QED  BY <1>1, <1>2, <1>3, PTL DEF Spec

-----------------------------------------------------------------------------
(***************************************************************************)
(* The client's death.  What the thread told of it has still to do covers  *)
(* what is left, if no call was under way: only the proxies that go with   *)
(* the client release sessions beside it.                                  *)
(***************************************************************************)
ReaperOK(o) ==
  /\ o.pc # "idle"
  /\ o.pc \in {"operators", "done"} \/ o.next \in {"operators", "done"} => group = <<>>
  /\ o.next = "operators" =>
       \A d \in Device : device[d].open => d \in ToSet(o.devs) \/ (o.dev = d /\ o.pc \in Closing)
  /\ o.pc \in {"operators", "done"} \/ o.next = "done" => \A d \in Device : ~ device[d].open
  /\ o.pc = "done" \/ o.next = "done" => \A s \in Session : ~ operator[s].listed

DeathOK ==
  ~ alive /\ ~ inFlight =>
    /\ \A t \in Client : op[t].pc = "idle" \/ op[t].next = "dropped"
    /\ ReaperOK(op[Reaper])

\* Nothing comes back.
Fewer ==
  /\ \A d \in Device : device'[d].open => device[d].open
  /\ \A s \in Session : operator'[s].listed => operator[s].listed
  /\ group = <<>> => group' = <<>>

LEMMA DeathNot ==
  ASSUME alive \/ inFlight, UNCHANGED <<alive, inFlight>>
  PROVE  DeathOK'
BY DEF DeathOK

LEMMA ReaperStays ==
  ASSUME NEW o, ReaperOK(o), Fewer
  PROVE  ReaperOK(o)'
BY DEF ReaperOK, Fewer

LEMMA DeathKept ==
  ASSUME DeathOK, NEW t \in Thread, t # Reaper, OnlyOf(t), UNCHANGED <<alive, inFlight>>, Fewer,
         t \in Client /\ ~ alive /\ ~ inFlight => op'[t].pc = "idle" \/ op'[t].next = "dropped"
  PROVE  DeathOK'
<1>. SUFFICES ASSUME ~ alive, ~ inFlight
              PROVE  /\ \A x \in Client : op'[x].pc = "idle" \/ op'[x].next = "dropped"
                     /\ ReaperOK(op[Reaper])'
  BY DEF DeathOK
<1>1. (\A x \in Client : op[x].pc = "idle" \/ op[x].next = "dropped") /\ ReaperOK(op[Reaper])
  BY DEF DeathOK
<1>2. op'[Reaper] = op[Reaper]
  BY DEF OnlyOf, Thread
<1>3. ReaperOK(op[Reaper])'
  <2>1. PICK o : o = op[Reaper]
    OBVIOUS
  <2>2. ReaperOK(o)'
    BY <1>1, <2>1, ReaperStays
  <2>. QED  BY <1>2, <2>1, <2>2 DEF ReaperOK
<1>4. \A x \in Client : x # t => op'[x] = op[x]
  BY ClientIs DEF OnlyOf
<1>. QED  BY <1>1, <1>3, <1>4

LEMMA DeathStill ==
  ASSUME DeathOK, UNCHANGED <<op, alive, inFlight>>, Fewer
  PROVE  DeathOK'
<1>1. Evictor \in Thread /\ Evictor # Reaper /\ Evictor \notin Client /\ OnlyOf(Evictor)
  BY SessionsAssumption DEF Thread, OnlyOf
<1>. QED  BY <1>1, DeathKept

\* The steps of the thread itself.
LEMMA DeathReaper ==
  ASSUME DeathOK, OnlyOf(Reaper), UNCHANGED <<alive, inFlight>>, ~ alive /\ ~ inFlight => ReaperOK(op[Reaper])'
  PROVE  DeathOK'
<1>. SUFFICES ASSUME ~ alive, ~ inFlight
              PROVE  /\ \A x \in Client : op'[x].pc = "idle" \/ op'[x].next = "dropped"
                     /\ ReaperOK(op[Reaper])'
  BY DEF DeathOK
<1>1. \A x \in Client : op[x].pc = "idle" \/ op[x].next = "dropped"
  BY DEF DeathOK
<1>2. \A x \in Client : op'[x] = op[x]
  BY ClientIs DEF OnlyOf
<1>. QED  BY <1>1, <1>2

LEMMA ReaperMoves ==
  ASSUME NEW o, NEW r, ReaperOK(o), Fewer, r.next = o.next, r.devs = o.devs,
         r.pc \in Closing \cup {"finish"}, o.pc \in Closing \cup {"release"},
         \A d \in Device : device'[d].open /\ o.dev = d /\ o.pc \in Closing => r.dev = d /\ r.pc \in Closing
  PROVE  ReaperOK(r)'
<1>1. r.pc \notin {"idle", "operators", "done"} /\ o.pc \notin {"idle", "operators", "done"}
  BY DEF Closing
<1>2. /\ r.next \in {"operators", "done"} => group' = <<>>
      /\ r.next = "done" => /\ \A d \in Device : ~ device'[d].open
                            /\ \A s \in Session : ~ operator'[s].listed
  BY <1>1 DEF ReaperOK, Fewer
<1>3. ASSUME r.next = "operators", NEW d \in Device, device'[d].open
      PROVE  d \in ToSet(r.devs) \/ (r.dev = d /\ r.pc \in Closing)
  BY <1>3 DEF ReaperOK, Fewer
<1>. QED  BY <1>1, <1>2, <1>3 DEF ReaperOK

LEMMA ReaperResumed ==
  ASSUME NEW o \in Doing, NEW r, Resumed(Reaper, o, r), o.next \in {"removeGroup", "operators", "done"},
         o.next \in {"operators", "done"} => group' = <<>>,
         o.next = "operators" => \A d \in Device : device'[d].open => d \in ToSet(o.devs),
         o.next = "done" => /\ \A d \in Device : ~ device'[d].open
                            /\ \A s \in Session : ~ operator'[s].listed
  PROVE  ReaperOK(r)'
<1>1. CASE o.todo # <<>>
  <2>1. r.pc = "release" /\ r.next = o.next /\ r.devs = o.devs
    BY <1>1 DEF Resumed
  <2>. QED  BY <2>1 DEF ReaperOK
<1>2. CASE o.todo = <<>> /\ o.devs # <<>>
  <2>1. r.pc = "closeLock" /\ r.dev = Head(o.devs) /\ r.devs = Tail(o.devs) /\ r.next = o.next
    BY <1>2 DEF Resumed
  <2>2. \A d : d \in ToSet(o.devs) => d = r.dev \/ d \in ToSet(r.devs)
    BY <1>2, <2>1, SetOfTail DEF Doing
  <2>. QED  BY <2>1, <2>2 DEF ReaperOK, Closing
<1>3. CASE o.todo = <<>> /\ o.devs = <<>>
  <2>1. r.pc = o.next /\ r.next = "idle"
    BY <1>3 DEF Resumed
  <2>2. \A d \in Device : d \notin ToSet(o.devs)
    BY <1>3, SetOfEmpty
  <2>. QED  BY <2>1, <2>2 DEF ReaperOK
<1>. QED  BY <1>1, <1>2, <1>3

\* What a dead client's threads can still do.
LEMMA DeadClient ==
  ASSUME Typed, DeathOK, ~ alive, ~ inFlight, NEW t \in Thread
  PROVE  op[t].pc \in {"idle", "release", "finish", "removeGroup", "operators", "done"} \cup Closing
<1>1. Fits(t, op[t], alive)
  BY DEF Typed, ThreadsOK
<1>2. CASE t \in Client
  <2>1. op[t].pc = "idle" \/ op[t].next = "dropped"
    BY <1>2 DEF DeathOK
  <2>. QED  BY <1>1, <1>2, <2>1 DEF Fits, FitsClient
<1>3. CASE t = Evictor
  BY <1>1, <1>3 DEF Fits, FitsEvictor, Closing
<1>4. CASE t = Reaper
  BY <1>1, <1>4 DEF Fits, FitsReaper
<1>. QED  BY <1>2, <1>3, <1>4, Kinds

\* A thread that releases or closes.
LEMMA DeathOfThread ==
  ASSUME Typed, DeathOK, NEW t \in Thread, OnlyOf(t), UNCHANGED <<alive, inFlight>>, Fewer,
         op[t].pc \in {"release", "finish"} \cup Closing,
         \/ /\ op'[t].next = op[t].next /\ op'[t].devs = op[t].devs /\ op'[t].pc \in Closing \cup {"finish"}
            /\ op[t].pc # "finish"
            /\ \A d \in Device : device'[d].open /\ op[t].dev = d /\ op[t].pc \in Closing
                                 => op'[t].dev = d /\ op'[t].pc \in Closing
         \/ /\ Resumed(t, op[t], op'[t])
            /\ op[t].pc \in Closing => \A d \in Device : device'[d].open => op[t].dev # d
  PROVE  DeathOK'
<1>. SUFFICES ASSUME ~ alive, ~ inFlight
              PROVE  DeathOK'
  BY DeathNot
<1>1. Fits(t, op[t], alive) /\ op[t] \in Doing /\ op[t].pc \notin {"idle", "operators", "done"}
  BY OpType DEF Typed, ThreadsOK, Closing
<1>2. CASE t # Reaper
  <2>1. ASSUME t \in Client
        PROVE  op'[t].pc = "idle" \/ op'[t].next = "dropped"
    <3>1. op[t].next = "dropped" /\ op[t].todo = <<>> /\ op[t].devs = <<>>
      BY <1>1, <2>1 DEF DeathOK, Fits, FitsClient
    <3>. QED  BY <3>1 DEF Resumed
  <2>. QED  BY <1>2, <2>1, DeathKept
<1>3. CASE t = Reaper
  <2>1. ReaperOK(op[t]) /\ op[t].next \in {"removeGroup", "operators", "done"}
    BY <1>1, <1>3, Kinds DEF DeathOK, Fits, FitsReaper
  <2>2. PICK o, r : o = op[t] /\ r = op'[t]
    OBVIOUS
  <2>3. ReaperOK(r)'
    <3>1. CASE Resumed(t, o, r) /\ (o.pc \in Closing => \A d \in Device : device'[d].open => o.dev # d)
      <4>1. /\ o.next \in {"operators", "done"} => group' = <<>>
            /\ o.next = "done" => /\ \A d \in Device : ~ device'[d].open
                                  /\ \A s \in Session : ~ operator'[s].listed
        BY <2>1, <2>2 DEF ReaperOK, Fewer
      <4>2. o.next = "operators" => \A d \in Device : device'[d].open => d \in ToSet(o.devs)
        BY <2>1, <2>2, <3>1 DEF ReaperOK, Fewer
      <4>. QED  BY <1>1, <1>3, <2>1, <2>2, <3>1, <4>1, <4>2, ReaperResumed
    <3>2. CASE /\ r.next = o.next /\ r.devs = o.devs /\ r.pc \in Closing \cup {"finish"} /\ o.pc # "finish"
               /\ \A d \in Device : device'[d].open /\ o.dev = d /\ o.pc \in Closing => r.dev = d /\ r.pc \in Closing
      <4>1. o.pc \in Closing \cup {"release"}
        BY <2>2, <3>2
      <4>. QED  BY <2>1, <2>2, <3>2, <4>1, ReaperMoves
    <3>. QED  BY <2>2, <3>1, <3>2
  <2>4. ReaperOK(op[Reaper])'
    BY <1>3, <2>2, <2>3 DEF ReaperOK
  <2>. QED  BY <1>3, <2>4, DeathReaper
<1>. QED  BY <1>2, <1>3

LEMMA FewerBy ==
  ASSUME UNCHANGED <<device, operator, group>>
  PROVE  Fewer
BY DEF Fewer

LEMMA EmptyStays ==
  ASSUME Typed, NEW s
  PROVE  group = <<>> => RemoveFirst(group, s) = <<>>
<1>1. /\ Len(RemoveFirst(group, s)) <= Len(group) /\ RemoveFirst(group, s) \in Seq(Session)
      /\ group \in Seq(Session)
  BY SameGroup, FirstRemoved
<1>2. ASSUME group = <<>>
      PROVE  RemoveFirst(group, s) = <<>>
  <2>1. Len(RemoveFirst(group, s)) <= 0
    BY <1>1, <1>2, EmptySeq
  <2>2. Len(RemoveFirst(group, s)) = 0
    BY <1>1, <2>1, LenProperties
  <2>. QED  BY <1>1, <2>2, EmptySeq
<1>. QED  BY <1>2

LEMMA ReleaseDeath ==
  ASSUME Typed, DeathOK, NEW t \in Thread, ReleaseSession(t) \/ ReleaseFinish(t)
  PROVE  DeathOK'
<1>1. UNCHANGED <<alive, inFlight>>
  BY DEF ReleaseSession, ReleaseFinish, history
<1>2. CASE ReleaseSession(t)
  <2>1. /\ OnlyOf(t) /\ op[t].pc = "release" /\ UNCHANGED device
        /\ group' = group \/ group' = RemoveFirst(group, op[t].s)
    BY <1>2, ReleaseSessionType, SameGroup DEF Typed, ReleaseSession, At
  <2>2. /\ \A k \in Session : operator'[k].listed => operator[k].listed
        /\ \/ /\ op'[t].pc \in Closing \cup {"finish"}
              /\ op'[t].devs = op[t].devs /\ op'[t].next = op[t].next
           \/ Resumed(t, op[t], op'[t])
    BY <1>2, ReleaseSessionDoes DEF Closing
  <2>3. Fewer
    BY <2>1, <2>2, EmptyStays DEF Fewer
  <2>. QED  BY <1>1, <2>1, <2>2, <2>3, DeathOfThread DEF Closing
<1>3. CASE ReleaseFinish(t)
  <2>1. OnlyOf(t) /\ op[t].pc = "finish" /\ Resumed(t, op[t], op'[t]) /\ UNCHANGED group
    BY <1>3, ReleaseFinishType DEF Typed, ReleaseFinish, At
  <2>2. /\ \A d \in Device : device'[d].open = device[d].open
        /\ \A k \in Session : k # op[t].s => operator'[k] = operator[k]
        /\ operator'[op[t].s] = NoOperator
    BY <1>3, ReleaseFinishDoes
  <2>3. Fewer
    BY <2>1, <2>2, NoOperatorIs DEF Fewer
  <2>. QED  BY <1>1, <2>1, <2>3, DeathOfThread DEF Closing
<1>. QED  BY <1>2, <1>3

LEMMA ClosingDeath ==
  ASSUME Typed, DeathOK, NEW t \in Thread, CloseLock(t) \/ BeforeDeviceClose(t) \/ OperatorRelease(t)
  PROVE  DeathOK'
<1>1. UNCHANGED <<alive, inFlight, device, group>>
  BY DEF CloseLock, BeforeDeviceClose, OperatorRelease, history
<1>2. /\ OnlyOf(t) /\ SameBut(op[t], op'[t]) /\ op'[t].pc \in Closing /\ op[t].pc \in Closing
  BY CloseLockType, BeforeDeviceCloseType, OperatorReleaseType
     DEF Typed, CloseLock, BeforeDeviceClose, OperatorRelease, At, Closing
<1>3. \A k \in Session : operator'[k].listed => operator[k].listed
  <2>1. CASE OperatorRelease(t)
    BY <2>1, OperatorReleaseDoes
  <2>2. CASE CloseLock(t) \/ BeforeDeviceClose(t)
    BY <2>2 DEF CloseLock, BeforeDeviceClose
  <2>. QED  BY <2>1, <2>2
<1>4. Fewer
  BY <1>1, <1>3 DEF Fewer
<1>. QED  BY <1>1, <1>2, <1>4, DeathOfThread DEF SameBut, Closing

LEMMA HdiCloseDeath ==
  ASSUME Typed, DeathOK, NEW t \in Thread, HdiClose(t)
  PROVE  DeathOK'
<1>1. UNCHANGED <<alive, inFlight, group>> /\ OnlyOf(t) /\ op[t].pc = "hdiClose"
  BY HdiCloseType DEF HdiClose, history, Typed, At
<1>2. /\ \A e \in Device : device'[e].open = IF e = op[t].dev THEN FALSE ELSE device[e].open
      /\ \/ op'[t].pc = "finish" /\ SameBut(op[t], op'[t])
         \/ Resumed(t, op[t], op'[t])
      /\ \A k \in Session : operator'[k].listed = operator[k].listed
  BY HdiCloseDoes
<1>3. Fewer
  BY <1>1, <1>2 DEF Fewer
<1>. QED  BY <1>1, <1>2, <1>3, DeathOfThread DEF SameBut, Closing

LEMMA ReaperDeath ==
  ASSUME Typed, DeathOK, NEW t \in Thread, RemoveGroup(t) \/ ReleaseOperators(t)
  PROVE  DeathOK'
<1>1. UNCHANGED <<alive, inFlight, device>>
  BY DEF RemoveGroup, ReleaseOperators, history
<1>2. CASE RemoveGroup(t)
  <2>1. OnlyOf(t) /\ t = Reaper /\ group' = <<>>
    BY <1>2, RemoveGroupType DEF Typed, RemoveGroup
  <2>2. PICK o \in Doing : /\ Resumed(t, o, op'[t]) /\ o.todo = <<>> /\ o.next = "operators"
                           /\ \A d \in Device : device[d].open => d \in ToSet(o.devs)
    BY <1>2, RemoveGroupType DEF Typed
  <2>3. PICK r : r = op'[t]
    OBVIOUS
  <2>4. ReaperOK(r)'
    BY <1>1, <2>1, <2>2, <2>3, ReaperResumed
  <2>5. ReaperOK(op[Reaper])'
    BY <2>1, <2>3, <2>4 DEF ReaperOK
  <2>. QED  BY <1>1, <2>1, <2>5, DeathReaper
<1>3. CASE ReleaseOperators(t)
  <2>1. OnlyOf(t) /\ t = Reaper /\ group' = group /\ op[t].pc = "operators"
    BY <1>3, ReleaseOperatorsType DEF Typed, ReleaseOperators, At
  <2>2. PICK o \in Doing : Resumed(t, o, op'[t]) /\ o.todo = <<>> /\ o.next = "done"
    BY <1>3, ReleaseOperatorsType DEF Typed
  <2>3. PICK r : r = op'[t]
    OBVIOUS
  <2>4. \A s \in Session : ~ operator'[s].listed
    BY <1>3, ReleaseOperatorsDoes
  <2>5. ~ alive /\ ~ inFlight => ReaperOK(r)'
    <3>1. ~ alive /\ ~ inFlight => group' = <<>> /\ \A d \in Device : ~ device'[d].open
      BY <1>1, <2>1 DEF DeathOK, ReaperOK
    <3>. QED  BY <2>1, <2>2, <2>3, <2>4, <3>1, ReaperResumed
  <2>6. ~ alive /\ ~ inFlight => ReaperOK(op[Reaper])'
    BY <2>1, <2>3, <2>5 DEF ReaperOK
  <2>. QED  BY <1>1, <2>1, <2>6, DeathReaper
<1>. QED  BY <1>2, <1>3

LEMMA DieDeath ==
  ASSUME Typed, DeathOK, Die
  PROVE  DeathOK'
<1>1. /\ OnlyOf(Reaper) /\ inFlight' = \E t \in Client : op[t].pc # "idle"
      /\ UNCHANGED <<device, operator, group>>
  BY DieType DEF Typed, Die, At
<1>2. PICK o \in Doing : Resumed(Reaper, o, op'[Reaper]) /\ o.next = "removeGroup"
  BY DieType DEF Typed
<1>3. PICK r : r = op'[Reaper]
  OBVIOUS
<1>4. ReaperOK(r)'
  BY <1>2, <1>3, ReaperResumed
<1>5. ReaperOK(op[Reaper])'
  BY <1>3, <1>4 DEF ReaperOK
<1>6. ~ inFlight' => \A t \in Client : op'[t].pc = "idle"
  BY <1>1, ClientIs DEF OnlyOf
<1>. QED  BY <1>5, <1>6 DEF DeathOK

LEMMA DeathStep ==
  ASSUME Typed, DeathOK, [Next]_vars
  PROVE  DeathOK'
<1>1. ASSUME NEW t \in Client,
             \/ NewInstance(t)
             \/ \E s \in Session :
                  \/ \E call : Enter(t, s, call)
                  \/ \E x \in Stream : RemoveOutput(t, s, x)
                  \/ \E d \in Device : AddInput(t, s, d)
                  \/ RemoveInput(t, s) \/ CommitConfig(t, s) \/ Start(t, s) \/ Stop(t, s) \/ Release(t, s)
             \/ \E d \in Device : Open(t, d)
      PROVE  DeathOK'
  <2>1. alive /\ UNCHANGED <<alive, inFlight>>
    <3>1. ASSUME NEW s \in Session,
                 \/ \E call : Enter(t, s, call)
                 \/ \E x \in Stream : RemoveOutput(t, s, x)
                 \/ \E d \in Device : AddInput(t, s, d)
                 \/ RemoveInput(t, s)
          PROVE  alive /\ UNCHANGED <<alive, inFlight>>
      BY <3>1 DEF Enter, RemoveOutput, AddInput, RemoveInput, MayCall, history
    <3>2. ASSUME NEW s \in Session, CommitConfig(t, s) \/ Start(t, s)
          PROVE  alive /\ UNCHANGED <<alive, inFlight>>
      BY <3>2 DEF CommitConfig, Start, MayCall, history
    <3>3. ASSUME NEW s \in Session, Stop(t, s) \/ Release(t, s)
          PROVE  alive /\ UNCHANGED <<alive, inFlight>>
      BY <3>3 DEF Stop, Release, MayCall, history
    <3>4. ASSUME NewInstance(t) \/ \E d \in Device : Open(t, d)
          PROVE  alive /\ UNCHANGED <<alive, inFlight>>
      BY <3>4 DEF NewInstance, Open, MayCall, history
    <3>. QED  BY <1>1, <3>1, <3>2, <3>3, <3>4, Zenon
  <2>. QED  BY <2>1, DeathNot
<1>2. ASSUME NEW t \in Thread,
             \/ PreemptOverflowSessions(t) \/ BeginConfig(t) \/ CreateStreams(t) \/ StopPreempted(t)
             \/ \E x \in Stream : AddOutput(t, x) \/ LinkStream(t, x)
      PROVE  DeathOK'
  <2>1. /\ op[t].pc \in {"overflow", "begin", "create", "stop", "addOutput", "link"}
        /\ UNCHANGED <<alive, inFlight>>
    BY <1>2 DEF PreemptOverflowSessions, BeginConfig, CreateStreams, StopPreempted, AddOutput, LinkStream, At, history
  <2>2. alive \/ inFlight
    BY <2>1, DeadClient DEF Closing
  <2>. QED  BY <2>1, <2>2, DeathNot
<1>3. ASSUME NEW t \in Client, NEW s \in Session, DropProxy(t, s)
      PROVE  DeathOK'
  <2>1. UNCHANGED <<alive, inFlight, device, operator, group>>
    BY <1>3 DEF DropProxy, history
  <2>2. t \in Thread /\ t # Reaper /\ OnlyOf(t)
        /\ op'[t] = [Idle EXCEPT !.pc = "release", !.s = s, !.next = "dropped"]
    BY <1>3, DropProxyType, ClientIs DEF Typed
  <2>3. op'[t].next = "dropped"
    BY <2>2, IdleIs DEF Doing
  <2>. QED  BY <2>1, <2>2, <2>3, FewerBy, DeathKept
<1>4. ASSUME NEW t \in Thread, NEW d \in Device, Close(t, d)
      PROVE  DeathOK'
  <2>1. /\ UNCHANGED <<alive, inFlight, device, operator, group>>
        /\ t \in Client => alive
    BY <1>4, SessionsAssumption DEF Close, history
  <2>2. OnlyOf(t) /\ t # Reaper
    BY <1>4, CloseType DEF Typed
  <2>. QED  BY <2>1, <2>2, FewerBy, DeathKept
<1>5. ASSUME NEW s \in Session, HdiLetsGo(s)
      PROVE  DeathOK'
  BY <1>5, FewerBy, DeathStill DEF HdiLetsGo, history
<1>6. ASSUME NEW s \in Session, Destroy(s)
      PROVE  DeathOK'
  <2>1. UNCHANGED <<op, alive, inFlight, operator, group>>
    BY <1>6 DEF Destroy, history
  <2>2. \A d \in Device : device'[d].open = device[d].open
    BY <1>6, DestroyDoes
  <2>. QED  BY <2>1, <2>2, DeathStill DEF Fewer
<1>7. CASE UNCHANGED vars
  BY <1>7, FewerBy, DeathStill DEF vars, state, history
<1>8. CASE Next
  BY <1>8, Steps, <1>1, <1>2, <1>3, <1>4, <1>5, <1>6, ReleaseDeath, ClosingDeath, HdiCloseDeath, ReaperDeath,
     DieDeath, Zenon DEF Typed
<1>. QED  BY <1>7, <1>8

\* Once the client's death is dealt with nothing of it is left: no session in the group, no device
\* open, no operator in the map, unless a call was under way when it died
\* (DestroyStubObjectForPid, RemoveGroup, CloseCameraForDestroy).
THEOREM NothingIsLeft == Spec => []DeathLeavesNothing
<1>1. Init => Typed /\ DeathOK
  BY TypedInit DEF Init, DeathOK
<1>2. Typed /\ DeathOK /\ [Next]_vars => (Typed /\ DeathOK)'
  BY TypedStep, DeathStep
<1>3. Typed /\ DeathOK => DeathLeavesNothing
  <2>. SUFFICES ASSUME Typed, DeathOK, op[Reaper].pc = "done", ~ inFlight
                PROVE  /\ group = <<>>
                       /\ \A d \in Device : ~ device[d].open
                       /\ \A s \in Session : ~ operator[s].listed
    BY DEF DeathLeavesNothing, At
  <2>1. Fits(Reaper, op[Reaper], alive)
    BY DEF Typed, ThreadsOK, Thread
  <2>2. ~ alive
    BY <2>1 DEF Fits, FitsReaper
  <2>. QED  BY <2>2 DEF DeathOK, ReaperOK
<1>. QED  BY <1>1, <1>2, <1>3, PTL DEF Spec

-----------------------------------------------------------------------------
(***************************************************************************)
(* What a committed session outputs to is linked to its device.  The HDI   *)
(* operator a session keeps is of its own device, and open.  A close takes  *)
(* the operator away before it closes the device: unless the session got    *)
(* it in between (crossed), a thread that closes the device finds nothing   *)
(* to make stale.  A commit goes stream by stream without regard of closes: *)
(* what it has linked stays linked unless a close of the device is on its   *)
(* way, and then its end finds no HDI operator.                             *)
(***************************************************************************)
Leaving(s) == \E t \in Thread : op[t].pc = "operatorRelease" /\ device[op[t].dev].listener = s

LinksOf(o, s) ==
  o.s = s /\ o.pc \in {"link", "create"} =>
    \A x \in operator[s].outputs \ o.ways : linked[s][x] = operator[s].hdi

\* A session that ought to be linked.
Due(s) ==
  /\ session[s].st \in {"committed", "started"} /\ s \notin skipped \cup crossed
  /\ operator[s].listed /\ operator[s].outputs # {} /\ session[s].input \notin shared /\ ~ Leaving(s)

LinkOK(s) ==
  /\ operator[s].hdi \in Device /\ session[s].st # "gone" =>
       /\ session[s].input = operator[s].hdi /\ device[operator[s].hdi].open
       /\ operator[s].listed /\ s \notin crossed /\ operator[s].hdi \notin shared =>
            \A t \in Thread : op[t].pc = "hdiClose" => op[t].dev # operator[s].hdi
       /\ ~ Leaving(s) => \A t \in Thread : LinksOf(op[t], s)
  /\ Due(s) => /\ operator[s].hdi \in Device
               /\ \A x \in operator[s].outputs : linked[s][x] = operator[s].hdi

LinksOK == \A s \in Session : LinkOK(s)

\* No thread comes to close a device or to link s, and none leaves s.
Aside(s) ==
  \A x \in Thread : \/ op'[x] = op[x]
                    \/ /\ op[x].pc # "operatorRelease" /\ op'[x].pc # "hdiClose"
                       /\ ~ (op'[x].s = s /\ op'[x].pc \in {"link", "create"})

\* s keeps its device and its HDI operator.
Keeps(s) ==
  /\ session'[s].input = session[s].input /\ operator'[s].hdi = operator[s].hdi
  /\ operator'[s].listed => operator[s].listed
  /\ session[s].st = "gone" => session'[s].st = "gone"
  /\ operator[s].hdi \in Device /\ device[operator[s].hdi].open => device'[operator[s].hdi].open
  /\ shared \subseteq shared' /\ crossed \subseteq crossed'

\* Its outputs, too, and their links, and it is not committed now.
Steady(s) ==
  /\ Keeps(s) /\ operator'[s].outputs = operator[s].outputs
  /\ \A x \in operator[s].outputs :
       linked[s][x] = operator[s].hdi /\ operator[s].hdi \in Device => linked'[s][x] = linked[s][x]
  /\ session'[s].st \in {"committed", "started"} /\ s \notin skipped' =>
       session[s].st \in {"committed", "started"} /\ s \notin skipped
  /\ Leaving(s) => Leaving(s)'

LEMMA SteadyLinks ==
  ASSUME NEW s \in Session, LinkOK(s), Aside(s), Steady(s)
  PROVE  LinkOK(s)'
<1>1. Due(s)' => Due(s)
  BY DEF Steady, Keeps, Due
<1>2. ASSUME operator'[s].hdi \in Device, session'[s].st # "gone"
      PROVE  /\ session'[s].input = operator'[s].hdi /\ device'[operator'[s].hdi].open
             /\ operator'[s].listed /\ s \notin crossed' /\ operator'[s].hdi \notin shared' =>
                  \A t \in Thread : op'[t].pc = "hdiClose" => op'[t].dev # operator'[s].hdi
             /\ ~ Leaving(s)' => \A t \in Thread : LinksOf(op[t], s)'
  <2>1. operator[s].hdi \in Device /\ session[s].st # "gone" /\ operator'[s].hdi = operator[s].hdi
    BY <1>2 DEF Steady, Keeps
  <2>2. session'[s].input = operator'[s].hdi /\ device'[operator'[s].hdi].open
    BY <2>1 DEF LinkOK, Steady, Keeps
  <2>3. ASSUME operator'[s].listed, s \notin crossed', operator'[s].hdi \notin shared',
               NEW t \in Thread, op'[t].pc = "hdiClose"
        PROVE  op'[t].dev # operator'[s].hdi
    <3>1. operator[s].listed /\ s \notin crossed /\ operator[s].hdi \notin shared
      BY <2>1, <2>3 DEF Steady, Keeps
    <3>2. op'[t] = op[t]
      BY <2>3 DEF Aside
    <3>. QED  BY <2>1, <2>3, <3>1, <3>2 DEF LinkOK
  <2>4. ASSUME ~ Leaving(s)', NEW t \in Thread
        PROVE  LinksOf(op[t], s)'
    <3>1. LinksOf(op[t], s)
      BY <2>1, <2>4 DEF LinkOK, Steady
    <3>2. op'[t].s = s /\ op'[t].pc \in {"link", "create"} => op'[t] = op[t]
      BY DEF Aside
    <3>. QED  BY <2>1, <3>1, <3>2 DEF LinksOf, Steady
  <2>. QED  BY <2>2, <2>3, <2>4
<1>3. ASSUME Due(s)'
      PROVE  operator'[s].hdi \in Device /\ \A x \in operator'[s].outputs : linked'[s][x] = operator'[s].hdi
  BY <1>1, <1>3 DEF LinkOK, Steady, Keeps
<1>. QED  BY <1>2, <1>3 DEF LinkOK

\* Nothing is asked of the outputs of a session whose lock is free and which is not committed.
LEMMA FreeLinks ==
  ASSUME NEW s \in Session, LinkOK(s), Aside(s), Keeps(s), StateLockFree(s), ~ Due(s)'
  PROVE  LinkOK(s)'
<1>1. ASSUME operator'[s].hdi \in Device, session'[s].st # "gone"
      PROVE  /\ session'[s].input = operator'[s].hdi /\ device'[operator'[s].hdi].open
             /\ operator'[s].listed /\ s \notin crossed' /\ operator'[s].hdi \notin shared' =>
                  \A t \in Thread : op'[t].pc = "hdiClose" => op'[t].dev # operator'[s].hdi
             /\ ~ Leaving(s)' => \A t \in Thread : LinksOf(op[t], s)'
  <2>1. operator[s].hdi \in Device /\ session[s].st # "gone" /\ operator'[s].hdi = operator[s].hdi
    BY <1>1 DEF Keeps
  <2>2. session'[s].input = operator'[s].hdi /\ device'[operator'[s].hdi].open
    BY <2>1 DEF LinkOK, Keeps
  <2>3. ASSUME operator'[s].listed, s \notin crossed', operator'[s].hdi \notin shared',
               NEW t \in Thread, op'[t].pc = "hdiClose"
        PROVE  op'[t].dev # operator'[s].hdi
    <3>1. operator[s].listed /\ s \notin crossed /\ operator[s].hdi \notin shared
      BY <2>1, <2>3 DEF Keeps
    <3>2. op'[t] = op[t]
      BY <2>3 DEF Aside
    <3>. QED  BY <2>1, <2>3, <3>1, <3>2 DEF LinkOK
  <2>4. ASSUME NEW t \in Thread
        PROVE  LinksOf(op[t], s)'
    <3>1. ~ (op[t].s = s /\ op[t].pc \in {"link", "create"})
      BY DEF StateLockFree
    <3>2. ~ (op'[t].s = s /\ op'[t].pc \in {"link", "create"})
      BY <3>1 DEF Aside
    <3>. QED  BY <3>2 DEF LinksOf
  <2>. QED  BY <2>2, <2>3, <2>4
<1>. QED  BY <1>1 DEF LinkOK

\* Nor of a session without an HDI operator.
LEMMA BareLinks ==
  ASSUME NEW s \in Session, operator'[s].hdi \notin Device, ~ Due(s)'
  PROVE  LinkOK(s)'
BY DEF LinkOK

LEMMA LeavingStays ==
  ASSUME NEW s,
         \A x \in Thread : op[x].pc = "operatorRelease" =>
           op'[x] = op[x] /\ device'[op[x].dev].listener = device[op[x].dev].listener
  PROVE  Leaving(s) => Leaving(s)'
BY DEF Leaving

LEMMA AsideLeaving ==
  ASSUME NEW s, Aside(s), Typed, \A d \in Device : device'[d].listener = device[d].listener
  PROVE  Leaving(s) => Leaving(s)'
<1>1. \A x \in Thread : op[x].pc = "operatorRelease" => op[x].dev \in Device
  BY DEF Typed, ThreadsOK, Fits, Closing
<1>2. \A x \in Thread : op[x].pc = "operatorRelease" => op'[x] = op[x]
  BY DEF Aside
<1>. QED  BY <1>1, <1>2, LeavingStays

\* The steps that come to close no device, link no session and leave none.
LEMMA AsideBy ==
  ASSUME NEW t \in Thread, OnlyOf(t), op[t].pc # "operatorRelease", op'[t].pc # "hdiClose", NEW s,
         op'[t].s # s \/ op'[t].pc \notin {"link", "create"}
  PROVE  Aside(s)
BY DEF OnlyOf, Aside

LEMMA AsideResumed ==
  ASSUME NEW t \in Thread, OnlyOf(t), op[t].pc # "operatorRelease", NEW o \in Doing, Resumed(t, o, op'[t]), NEW s
  PROVE  Aside(s)
<1>1. op'[t].pc \notin {"hdiClose", "link", "create"}
  BY DoingNext DEF Resumed
<1>. QED  BY <1>1, AsideBy

LEMMA ThreadAside ==
  ASSUME Typed, NEW t \in Thread, NEW s,
         \/ PreemptOverflowSessions(t) \/ BeginConfig(t) \/ CreateStreams(t) \/ StopPreempted(t)
         \/ ReleaseSession(t) \/ ReleaseFinish(t) \/ CloseLock(t) \/ HdiClose(t) \/ RemoveGroup(t) \/ ReleaseOperators(t)
         \/ \E x \in Stream : AddOutput(t, x)
         \/ \E d \in Device : Close(t, d)
  PROVE  Aside(s)
<1>0. op[t].pc # "operatorRelease"
  BY DEF PreemptOverflowSessions, BeginConfig, CreateStreams, StopPreempted, ReleaseSession, ReleaseFinish, CloseLock,
         HdiClose, RemoveGroup, ReleaseOperators, AddOutput, Close, At
<1>1. CASE BeginConfig(t) \/ CreateStreams(t) \/ \E x \in Stream : AddOutput(t, x)
  <2>1. OnlyOf(t) /\ op'[t] = Idle
    BY <1>1, BeginConfigType, CreateStreamsType, AddOutputType DEF Typed
  <2>2. op'[t].pc = "idle"
    BY <2>1, IdleIs
  <2>. QED  BY <1>0, <2>1, <2>2, AsideBy
<1>2. CASE CloseLock(t) \/ StopPreempted(t)
  <2>1. OnlyOf(t) /\ op'[t].pc \in {"listener", "release"}
    BY <1>2, CloseLockType, StopPreemptedType DEF Typed
  <2>. QED  BY <1>0, <2>1, AsideBy
<1>3. CASE ReleaseFinish(t)
  BY <1>0, <1>3, ReleaseFinishType, OpType, AsideResumed DEF Typed
<1>4. CASE HdiClose(t)
  <2>1. OnlyOf(t) /\ (op'[t].pc = "finish" \/ Resumed(t, op[t], op'[t])) /\ op[t] \in Doing
    BY <1>4, HdiCloseType, OpType DEF Typed
  <2>. QED  BY <1>0, <2>1, AsideBy, AsideResumed
<1>5. CASE PreemptOverflowSessions(t)
  <2>1. OnlyOf(t) /\ \E o \in Doing : Resumed(t, o, op'[t])
    BY <1>5, PreemptType, Zenon DEF Typed
  <2>. QED  BY <1>0, <2>1, AsideResumed
<1>6. CASE RemoveGroup(t) \/ ReleaseOperators(t)
  <2>1. OnlyOf(t) /\ \E o \in Doing : Resumed(t, o, op'[t])
    BY <1>6, RemoveGroupType, ReleaseOperatorsType DEF Typed
  <2>. QED  BY <1>0, <2>1, AsideResumed
<1>7. CASE ReleaseSession(t)
  <2>1. OnlyOf(t) /\ (op'[t].pc \in {"finish", "closeLock"} \/ Resumed(t, op[t], op'[t])) /\ op[t] \in Doing
    BY <1>7, ReleaseSessionType, OpType DEF Typed, SessionsOK
  <2>. QED  BY <1>0, <2>1, AsideBy, AsideResumed
<1>8. CASE \E d \in Device : Close(t, d)
  <2>1. PICK d \in Device : Close(t, d)
    BY <1>8
  <2>2. OnlyOf(t) /\ op'[t] = [Idle EXCEPT !.pc = "listener", !.dev = d]
    BY <2>1, CloseType DEF Typed
  <2>3. op'[t].pc = "listener"
    BY <2>2, IdleIs DEF Doing
  <2>. QED  BY <1>0, <2>2, <2>3, AsideBy
<1>. QED  BY <1>1, <1>2, <1>3, <1>4, <1>5, <1>6, <1>7, <1>8

LEMMA CallAside ==
  ASSUME Typed, NEW t \in Client, NEW s,
         \/ NewInstance(t)
         \/ \E k \in Session :
              \/ \E call : Enter(t, k, call)
              \/ \E x \in Stream : RemoveOutput(t, k, x)
              \/ \E d \in Device : AddInput(t, k, d)
              \/ RemoveInput(t, k) \/ Start(t, k) \/ Stop(t, k) \/ Release(t, k) \/ DropProxy(t, k)
         \/ \E d \in Device : Open(t, d)
  PROVE  Aside(s)
<1>0. t \in Thread
  BY ClientIs
<1>1. CASE op' = op
  BY <1>1 DEF Aside
<1>2. CASE NewInstance(t)
  <2>1. OnlyOf(t) /\ op'[t] = [Idle EXCEPT !.pc = "overflow", !.next = "created"]
    BY <1>2, NewInstanceType DEF Typed
  <2>2. op'[t].pc = "overflow"
    BY <2>1, IdleIs DEF Doing
  <2>3. op[t].pc = "idle"
    BY <1>2 DEF NewInstance, At
  <2>. QED  BY <1>0, <2>1, <2>2, <2>3, AsideBy
<1>3. ASSUME NEW k \in Session, NEW call, Enter(t, k, call)
      PROVE  Aside(s)
  <2>1. OnlyOf(t) /\ op'[t] = [Idle EXCEPT !.pc = call, !.s = k] /\ call \in {"begin", "addOutput"}
    BY <1>3, EnterType DEF Typed
  <2>2. op'[t].pc \in {"begin", "addOutput"}
    BY <2>1, IdleIs DEF Doing
  <2>3. op[t].pc = "idle"
    BY <1>3 DEF Enter, MayCall, At
  <2>. QED  BY <1>0, <2>1, <2>2, <2>3, AsideBy
<1>4. ASSUME NEW k \in Session, Release(t, k)
      PROVE  Aside(s)
  <2>1. OnlyOf(t) /\ op'[t] = [Idle EXCEPT !.pc = "release", !.s = k]
    BY <1>4, ReleaseType DEF Typed
  <2>2. op'[t].pc = "release"
    BY <2>1, IdleIs DEF Doing
  <2>3. op[t].pc = "idle"
    BY <1>4 DEF Release, MayCall, At
  <2>. QED  BY <1>0, <2>1, <2>2, <2>3, AsideBy
<1>5. ASSUME NEW k \in Session, DropProxy(t, k)
      PROVE  Aside(s)
  <2>1. OnlyOf(t) /\ op'[t] = [Idle EXCEPT !.pc = "release", !.s = k, !.next = "dropped"]
    BY <1>5, DropProxyType DEF Typed
  <2>2. op'[t].pc = "release"
    BY <2>1, IdleIs DEF Doing
  <2>3. op[t].pc = "idle"
    BY <1>5 DEF DropProxy, At
  <2>. QED  BY <1>0, <2>1, <2>2, <2>3, AsideBy
<1>6. \A k \in Session : \/ \E x \in Stream : RemoveOutput(t, k, x)
                         \/ \E d \in Device : AddInput(t, k, d)
                         \/ RemoveInput(t, k) \/ Start(t, k) \/ Stop(t, k)
                         => op' = op
  BY DEF RemoveOutput, AddInput, RemoveInput, Start, Stop
<1>7. \A d \in Device : Open(t, d) => op' = op
  BY DEF Open
<1>. QED  BY <1>1, <1>2, <1>3, <1>4, <1>5, <1>6, <1>7

\* Steps that touch no session, operator, link or device.
LEMMA QuietLinks ==
  ASSUME Typed, NEW s \in Session, LinkOK(s), Aside(s), UNCHANGED <<session, operator, linked, device, shared, crossed, skipped>>
  PROVE  LinkOK(s)'
<1>1. Leaving(s) => Leaving(s)'
  BY AsideLeaving
<1>. HIDE DEF Leaving
<1>2. Steady(s)
  BY <1>1 DEF Steady, Keeps
<1>. QED  BY <1>2, SteadyLinks

\* Steps that change the state of sessions only.
LEMMA StateLinks ==
  ASSUME Typed, NEW s \in Session, LinkOK(s), Aside(s), UNCHANGED <<operator, linked, device, shared, crossed>>,
         session'[s].input = session[s].input, session[s].st = "gone" => session'[s].st = "gone",
         session'[s].st \in {"committed", "started"} /\ s \notin skipped' =>
           session[s].st \in {"committed", "started"} /\ s \notin skipped
  PROVE  LinkOK(s)'
<1>1. Leaving(s) => Leaving(s)'
  BY AsideLeaving
<1>. HIDE DEF Leaving
<1>2. Steady(s)
  BY <1>1 DEF Steady, Keeps
<1>. QED  BY <1>2, SteadyLinks

LEMMA StopLinks ==
  ASSUME Typed, NEW k \in Session, StopEffect(k), NEW s \in Session, LinkOK(s), Aside(s),
         UNCHANGED <<operator, linked, device, shared, crossed>>
  PROVE  LinkOK(s)'
<1>1. \/ UNCHANGED <<session, skipped>>
      \/ /\ session[k].st \in {"configuring", "started"}
         /\ session'[s].input = session[s].input
         /\ session'[s].st = IF s = k THEN "committed" ELSE session[s].st
         /\ skipped' = IF session[k].st = "configuring" THEN skipped \cup {k} ELSE skipped
  BY StopEffectDoes
<1>. QED  BY <1>1, StateLinks

LEMMA BeginConfigLinks ==
  ASSUME Typed, LinksOK, NEW t \in Thread, BeginConfig(t), NEW s \in Session
  PROVE  LinkOK(s)'
<1>1. LinkOK(s) /\ Aside(s)
  BY ThreadAside DEF LinksOK
<1>2. PICK b : b = op[t].s
  OBVIOUS
<1>3. /\ b \in Session /\ StateLockFree(b)
      /\ session'[s].input = session[s].input
      /\ s # b => session'[s].st = session[s].st /\ operator'[s] = operator[s]
      /\ operator'[b] = InitialOperator(b)
      /\ \/ /\ session[b].st \in {"init", "committed", "started"} /\ session'[b].st = "configuring"
            /\ linked' = [linked EXCEPT ![b] = Unlink(b, InitialOperator(b).outputs)]
         \/ session[b].st \notin {"init", "committed", "started"} /\ UNCHANGED <<session, linked>>
  BY <1>2, BeginConfigDoes
<1>4. /\ UNCHANGED <<device, shared, crossed>>
      /\ skipped' = IF session[b].st \in {"init", "committed", "started"} THEN skipped \ {b} ELSE skipped
  BY <1>2 DEF BeginConfig
<1>5. Leaving(s) => Leaving(s)'
  BY <1>1, <1>4, AsideLeaving
<1>. HIDE DEF Leaving
<1>6. CASE s # b
  <2>1. linked'[s] = linked[s]
    BY <1>3, <1>6, LinkedIs DEF Typed
  <2>2. Steady(s)
    BY <1>3, <1>4, <1>5, <1>6, <2>1 DEF Steady, Keeps
  <2>. QED  BY <1>1, <2>2, SteadyLinks
<1>7. CASE s = b /\ ~ HasOperator(b)
  <2>1. operator'[s].hdi = NoDevice /\ operator'[s].outputs = {}
    BY <1>3, <1>7, InitialOperatorType DEF Typed
  <2>. QED  BY <2>1, NotSessions, BareLinks DEF Due
<1>8. CASE s = b /\ HasOperator(b)
  <2>1. operator'[s] = operator[s]
    BY <1>3, <1>8, InitialOperatorType DEF Typed
  <2>2. CASE session'[b].st = "configuring" /\ session[b].st # "gone"
    <3>1. Keeps(s) /\ ~ Due(s)'
      BY <1>3, <1>4, <1>8, <2>1, <2>2 DEF Keeps, Due
    <3>. QED  BY <1>1, <1>3, <1>8, <3>1, FreeLinks
  <2>3. CASE session[b].st \notin {"init", "committed", "started"} /\ UNCHANGED <<session, linked>>
    <3>1. Steady(s)
      BY <1>3, <1>4, <1>5, <2>1, <2>3 DEF Steady, Keeps
    <3>. QED  BY <1>1, <3>1, SteadyLinks
  <2>. QED  BY <1>3, <2>2, <2>3
<1>. QED  BY <1>6, <1>7, <1>8

LEMMA AddOutputLinks ==
  ASSUME Typed, LinksOK, NEW t \in Thread, NEW x \in Stream, AddOutput(t, x), NEW s \in Session
  PROVE  LinkOK(s)'
<1>1. LinkOK(s) /\ Aside(s)
  BY ThreadAside DEF LinksOK
<1>2. PICK b : b = op[t].s
  OBVIOUS
<1>3. /\ b \in Session /\ StateLockFree(b)
      /\ s # b => operator'[s] = operator[s]
      /\ operator'[b].listed = InitialOperator(b).listed /\ operator'[b].hdi = InitialOperator(b).hdi
      /\ operator'[b].outputs = IF session[b].st = "configuring" THEN InitialOperator(b).outputs \cup {x}
                                                                 ELSE InitialOperator(b).outputs
      /\ UNCHANGED <<session, linked, device>>
  BY <1>2, AddOutputDoes
<1>4. UNCHANGED <<shared, crossed, skipped>>
  BY DEF AddOutput
<1>5. Leaving(s) => Leaving(s)'
  BY <1>1, <1>3, AsideLeaving
<1>. HIDE DEF Leaving
<1>6. CASE s # b
  <2>1. Steady(s)
    BY <1>3, <1>4, <1>5, <1>6 DEF Steady, Keeps
  <2>. QED  BY <1>1, <2>1, SteadyLinks
<1>7. CASE s = b /\ ~ HasOperator(b)
  <2>1. InitialOperator(b).hdi = NoDevice /\ InitialOperator(b).outputs = {}
    BY <1>3, <1>7, InitialOperatorType DEF Typed
  <2>2. operator'[s].hdi = NoDevice /\ (session'[s].st = "configuring" \/ operator'[s].outputs = {})
    BY <1>3, <1>7, <2>1
  <2>. QED  BY <2>2, NotSessions, BareLinks DEF Due
<1>8. CASE s = b /\ HasOperator(b)
  <2>1. InitialOperator(b) = operator[b]
    BY <1>3, <1>8, InitialOperatorType DEF Typed
  <2>2. CASE session[b].st = "configuring"
    <3>1. Keeps(s) /\ ~ Due(s)'
      BY <1>3, <1>4, <1>8, <2>1, <2>2 DEF Keeps, Due
    <3>. QED  BY <1>1, <1>3, <1>8, <3>1, FreeLinks
  <2>3. CASE session[b].st # "configuring"
    <3>1. Steady(s)
      BY <1>3, <1>4, <1>5, <1>8, <2>1, <2>3 DEF Steady, Keeps
    <3>. QED  BY <1>1, <3>1, SteadyLinks
  <2>. QED  BY <2>2, <2>3
<1>. QED  BY <1>6, <1>7, <1>8

LEMMA RemoveOutputLinks ==
  ASSUME Typed, LinksOK, NEW t \in Client, NEW b \in Session, NEW x \in Stream, RemoveOutput(t, b, x), NEW s \in Session
  PROVE  LinkOK(s)'
<1>1. LinkOK(s) /\ Aside(s)
  BY CallAside DEF LinksOK
<1>2. /\ session[b].st = "configuring" /\ StateLockFree(b)
      /\ operator'[s].listed = operator[s].listed /\ operator'[s].hdi = operator[s].hdi
      /\ s # b => operator'[s].outputs = operator[s].outputs
  <2>1. session[b].st = "configuring" /\ StateLockFree(b) /\ operator' = [operator EXCEPT ![b].outputs = @ \ {x}]
    BY DEF RemoveOutput
  <2>2. operator' = [operator EXCEPT ![b].outputs = operator[b].outputs \ {x}]
    BY <2>1
  <2>. QED  BY <2>1, <2>2, Parts DEF Typed, OperatorType
<1>3. UNCHANGED <<session, linked, device, shared, crossed, skipped>>
  BY DEF RemoveOutput, history
<1>4. Leaving(s) => Leaving(s)'
  BY <1>1, <1>3, AsideLeaving
<1>. HIDE DEF Leaving
<1>5. CASE s # b
  <2>1. Steady(s)
    BY <1>2, <1>3, <1>4, <1>5 DEF Steady, Keeps
  <2>. QED  BY <1>1, <2>1, SteadyLinks
<1>6. CASE s = b
  <2>1. Keeps(s) /\ ~ Due(s)'
    BY <1>2, <1>3, <1>6 DEF Keeps, Due
  <2>. QED  BY <1>1, <1>2, <1>6, <2>1, FreeLinks
<1>. QED  BY <1>5, <1>6

LEMMA AddInputLinks ==
  ASSUME Typed, LinksOK, NEW t \in Client, NEW b \in Session, NEW d \in Device, AddInput(t, b, d), NEW s \in Session
  PROVE  LinkOK(s)'
<1>1. LinkOK(s) /\ Aside(s)
  BY CallAside DEF LinksOK
<1>2. /\ session[b].st = "configuring" /\ session[b].input = NoDevice /\ ListenerLockFree(d)
      /\ session'[s].st = session[s].st /\ session'[s].input = IF s = b THEN d ELSE session[s].input
      /\ \A e \in Device : /\ device'[e].open = device[e].open
                           /\ device'[e].listener = IF e = d THEN b ELSE device[e].listener
      /\ shared' = IF \E k \in Session : session[k].input = d THEN shared \cup {d} ELSE shared
  BY AddInputDoes
<1>3. UNCHANGED <<op, operator, linked, crossed, skipped>> /\ shared \subseteq shared'
  BY <1>2 DEF AddInput
<1>4. Leaving(s) => Leaving(s)'
  <2>1. \A y \in Thread : op[y].pc = "operatorRelease" => op[y].dev \in Device /\ op[y].dev # d
    BY <1>2 DEF Typed, ThreadsOK, Fits, Closing, ListenerLockFree, At
  <2>. QED  BY <1>2, <1>3, <2>1, LeavingStays
<1>. HIDE DEF Leaving
<1>5. CASE s # b
  <2>1. Steady(s)
    BY <1>2, <1>3, <1>4, <1>5 DEF Steady, Keeps
  <2>. QED  BY <1>1, <2>1, SteadyLinks
<1>6. CASE s = b
  <2>1. operator'[s].hdi \notin Device /\ ~ Due(s)'
    BY <1>1, <1>2, <1>3, <1>6, NotSessions DEF Due, LinkOK
  <2>. QED  BY <2>1, BareLinks
<1>. QED  BY <1>5, <1>6

LEMMA RemoveInputLinks ==
  ASSUME Typed, LinksOK, NEW t \in Client, NEW b \in Session, RemoveInput(t, b), NEW s \in Session
  PROVE  LinkOK(s)'
<1>1. LinkOK(s) /\ Aside(s)
  BY CallAside DEF LinksOK
<1>2. PICK d : d = session[b].input
  OBVIOUS
<1>3. /\ session[b].st = "configuring" /\ ListenerLockFree(d)
      /\ session'[s].st = session[s].st /\ session'[s].input = IF s = b THEN NoDevice ELSE session[s].input
      /\ operator'[s].listed = operator[s].listed /\ operator'[s].outputs = operator[s].outputs
      /\ operator'[s].hdi = IF s = b THEN NoDevice ELSE operator[s].hdi
      /\ \A e \in Device : /\ device'[e].open = device[e].open
                           /\ device'[e].listener = IF e = d THEN None ELSE device[e].listener
  BY <1>2, RemoveInputDoes
<1>4. UNCHANGED <<op, linked, shared, crossed, skipped>>
  BY DEF RemoveInput, history
<1>5. Leaving(s) => Leaving(s)'
  <2>1. \A y \in Thread : op[y].pc = "operatorRelease" => op[y].dev \in Device /\ op[y].dev # d
    BY <1>3 DEF Typed, ThreadsOK, Fits, Closing, ListenerLockFree, At
  <2>. QED  BY <1>3, <1>4, <2>1, LeavingStays
<1>. HIDE DEF Leaving
<1>6. CASE s # b
  <2>1. Steady(s)
    BY <1>3, <1>4, <1>5, <1>6 DEF Steady, Keeps
  <2>. QED  BY <1>1, <2>1, SteadyLinks
<1>7. CASE s = b
  BY <1>3, <1>7, NotSessions, BareLinks DEF Due
<1>. QED  BY <1>6, <1>7

LEMMA CommitConfigLinks ==
  ASSUME Typed, LinksOK, NEW t \in Client, NEW b \in Session, CommitConfig(t, b), NEW s \in Session
  PROVE  LinkOK(s)'
<1>0. t \in Thread /\ LinkOK(s)
  BY ClientIs DEF LinksOK
<1>1. PICK d : d = session[b].input
  OBVIOUS
<1>2. /\ session[b].st \in {"configuring", "started"} /\ StateLockFree(b) /\ op[t].pc = "idle"
      /\ \/ /\ operator[b].hdi = NoDevice /\ d \in Device /\ device[d].open
            /\ \A k \in Session : /\ operator'[k].listed = operator[k].listed
                                  /\ operator'[k].outputs = operator[k].outputs
                                  /\ operator'[k].hdi = IF k = b THEN d ELSE operator[k].hdi
            /\ \A e \in Device : device'[e].open = device[e].open /\ device'[e].listener = device[e].listener
            /\ crossed' = IF \E k \in Thread : At(k, "hdiClose") /\ op[k].dev = d THEN crossed \cup {b} ELSE crossed
         \/ UNCHANGED <<operator, device, letGo, crossed>>
  <2>1. MayCall(t, b, "commit") /\ StateLockFree(b) /\ session[b].st \in {"configuring", "started"}
    BY DEF CommitConfig
  <2>2. op[t].pc = "idle"
    BY <2>1 DEF MayCall, At
  <2>3. CASE operator[b].hdi = NoDevice /\ d # NoDevice /\ device[d].open
    <3>1. /\ operator' = [operator EXCEPT ![b].hdi = d] /\ device' = [device EXCEPT ![d].callback = b]
          /\ crossed' = IF \E k \in Thread : At(k, "hdiClose") /\ op[k].dev = d THEN crossed \cup {b} ELSE crossed
      BY <1>1, <2>3 DEF CommitConfig
    <3>2. d \in Device
      BY <1>1, <2>3, Fields DEF Typed
    <3>3. \A k \in Session : /\ operator'[k].listed = operator[k].listed
                             /\ operator'[k].outputs = operator[k].outputs
                             /\ operator'[k].hdi = IF k = b THEN d ELSE operator[k].hdi
      BY <3>1, Parts DEF Typed, OperatorType
    <3>4. \A e \in Device : device'[e].open = device[e].open /\ device'[e].listener = device[e].listener
      BY <3>1, <3>2, Parts DEF Typed, DeviceType
    <3>. QED  BY <2>1, <2>2, <2>3, <3>1, <3>2, <3>3, <3>4
  <2>4. CASE ~ (operator[b].hdi = NoDevice /\ d # NoDevice /\ device[d].open)
    <3>1. UNCHANGED <<operator, device, letGo, crossed>>
      BY <1>1, <2>4 DEF CommitConfig
    <3>. QED  BY <2>1, <2>2, <3>1
  <2>. QED  BY <2>3, <2>4
<1>3. UNCHANGED <<session, linked, shared, skipped>>
  BY DEF CommitConfig
<1>4. \/ op' = op
      \/ OnlyOf(t) /\ op'[t].pc = "link" /\ op'[t].s = b /\ op'[t].ways = operator[b].outputs
  <2>1. \/ op' = op
        \/ OnlyOf(t) /\ op'[t] = [Idle EXCEPT !.pc = "link", !.s = b, !.ways = operator[b].outputs]
    BY CommitConfigType DEF Typed
  <2>. QED  BY <2>1, IdleIs DEF Doing
<1>5. Leaving(s) => Leaving(s)'
  <2>1. \A y \in Thread : op[y].pc = "operatorRelease" => op[y].dev \in Device /\ op'[y] = op[y]
    BY <1>2, <1>4 DEF Typed, ThreadsOK, Fits, Closing, OnlyOf
  <2>2. \A e \in Device : device'[e].listener = device[e].listener
    BY <1>2
  <2>. QED  BY <2>1, <2>2, LeavingStays
<1>6. CASE s # b
  <2>1. Aside(s)
    BY <1>0, <1>2, <1>4, <1>6, AsideBy DEF Aside
  <2>. HIDE DEF Leaving
  <2>2. operator'[s].hdi \in Device => device'[operator'[s].hdi].open = device[operator'[s].hdi].open
    BY <1>2
  <2>3. /\ operator'[s].listed = operator[s].listed /\ operator'[s].outputs = operator[s].outputs
        /\ operator'[s].hdi = operator[s].hdi /\ crossed \subseteq crossed'
    BY <1>2, <1>6
  <2>4. Steady(s)
    BY <1>3, <1>5, <2>2, <2>3 DEF Steady, Keeps
  <2>. QED  BY <1>0, <2>1, <2>4, SteadyLinks
<1>7. CASE s = b
  <2>1. ASSUME NEW y \in Thread
        PROVE  LinksOf(op[y], s)'
    <3>1. ~ (op[y].s = s /\ op[y].pc \in {"link", "create"})
      BY <1>2, <1>7 DEF StateLockFree
    <3>2. CASE op'[y] = op[y]
      BY <3>1, <3>2 DEF LinksOf
    <3>3. CASE op'[y] # op[y]
      <4>1. op'[y].ways = operator[b].outputs
        BY <1>4, <3>3 DEF OnlyOf
      <4>2. operator'[s].outputs = operator[b].outputs
        BY <1>2, <1>7
      <4>. QED  BY <4>1, <4>2 DEF LinksOf
    <3>. QED  BY <3>2, <3>3
  <2>2. \A y \in Thread : op'[y].pc = "hdiClose" => op'[y] = op[y]
    BY <1>4 DEF OnlyOf
  <2>. HIDE DEF Leaving, LinksOf
  <2>3. Due(s)' => Due(s)
    <3>1. crossed \subseteq crossed' /\ operator'[s].listed = operator[s].listed /\ operator'[s].outputs = operator[s].outputs
      BY <1>2
    <3>. QED  BY <1>3, <1>5, <3>1 DEF Due
  <2>4. CASE UNCHANGED <<operator, device, crossed>>
    <3>1. Due(s)' => /\ operator'[s].hdi \in Device
                     /\ \A x \in operator'[s].outputs : linked'[s][x] = operator'[s].hdi
      BY <1>0, <1>3, <2>3, <2>4 DEF LinkOK
    <3>. HIDE DEF Due
    <3>. QED  BY <1>0, <1>3, <2>1, <2>2, <2>4, <3>1 DEF LinkOK
  <2>5. CASE ~ UNCHANGED <<operator, device, crossed>>
    <3>1. /\ operator[b].hdi = NoDevice /\ d \in Device /\ device[d].open
          /\ operator'[s].hdi = d /\ device'[d].open
          /\ crossed' = IF \E k \in Thread : At(k, "hdiClose") /\ op[k].dev = d THEN crossed \cup {b} ELSE crossed
      BY <1>2, <1>7, <2>5
    <3>2. ~ Due(s)'
      BY <1>0, <1>7, <2>3, <3>1, NotSessions DEF LinkOK
    <3>3. s \notin crossed' => \A y \in Thread : op'[y].pc = "hdiClose" => op'[y].dev # d
      BY <1>7, <2>2, <3>1 DEF At
    <3>. HIDE DEF Due
    <3>. QED  BY <1>1, <1>3, <1>7, <2>1, <3>1, <3>2, <3>3 DEF LinkOK
  <2>. QED  BY <2>4, <2>5
<1>. QED  BY <1>6, <1>7

LEMMA LinkStreamLinks ==
  ASSUME Typed, LocksOK, LinksOK, NEW t \in Thread, NEW x \in Stream, LinkStream(t, x), NEW s \in Session
  PROVE  LinkOK(s)'
<1>1. LinkOK(s) /\ op[t].pc = "link" /\ UNCHANGED <<session, operator, device, shared, crossed, skipped>>
  BY DEF LinksOK, LinkStream, At, history
<1>2. PICK b : b = op[t].s
  OBVIOUS
<1>3. /\ OnlyOf(t) /\ b \in Session
      /\ \/ op'[t] = Idle /\ linked' = linked
         \/ /\ linked' = [linked EXCEPT ![b] = [linked[b] EXCEPT ![x] = operator[b].hdi]]
            /\ op'[t].s = b /\ op'[t].ways = op[t].ways \ {x} /\ op'[t].pc \in {"link", "create"}
  <2>1. /\ OnlyOf(t) /\ op[t].s \in Session
        /\ \/ op'[t] = Idle /\ linked' = linked
           \/ /\ linked' = [linked EXCEPT ![op[t].s][x] = operator[op[t].s].hdi]
              /\ op'[t].s = op[t].s /\ op'[t].ways = op[t].ways \ {x} /\ op'[t].pc \in {"link", "create"}
    BY LinkStreamType DEF Typed
  <2>. QED  BY <1>2, <2>1
<1>4. CASE op'[t] = Idle /\ linked' = linked
  <2>1. op'[t].pc = "idle"
    BY <1>4, IdleIs
  <2>2. Aside(s)
    BY <1>1, <1>3, <2>1, AsideBy
  <2>. QED  BY <1>1, <1>4, <2>2, QuietLinks
<1>5. CASE /\ linked' = [linked EXCEPT ![b] = [linked[b] EXCEPT ![x] = operator[b].hdi]]
           /\ op'[t].s = b /\ op'[t].ways = op[t].ways \ {x} /\ op'[t].pc \in {"link", "create"}
  <2>1. \A k \in Session : k # b => linked'[k] = linked[k]
    BY <1>3, <1>5, Parts DEF Typed
  <2>2. CASE s # b
    <3>1. Aside(s)
      BY <1>1, <1>3, <1>5, <2>2, AsideBy
    <3>2. linked'[s] = linked[s]
      BY <2>1, <2>2
    <3>3. Leaving(s) => Leaving(s)'
      BY <1>1, <3>1, AsideLeaving
    <3>. HIDE DEF Leaving
    <3>4. Steady(s)
      BY <1>1, <3>2, <3>3 DEF Steady, Keeps
    <3>. QED  BY <1>1, <3>1, <3>4, SteadyLinks
  <2>3. CASE s = b
    <3>1. \A y \in Stream : linked'[s][y] = IF y = x THEN operator[s].hdi ELSE linked[s][y]
      <4>1. linked \in [Session -> LinkType]
        BY Parts DEF Typed
      <4>. QED  BY <1>3, <1>5, <2>3, <4>1 DEF LinkType
    <3>2. operator[s].outputs \subseteq Stream
      BY Fields DEF Typed, OperatorType
    <3>3. Leaving(s)' => Leaving(s)
      BY <1>1, <1>3, <1>5 DEF Leaving, OnlyOf
    <3>4. Leaving(s) => Leaving(s)'
      BY <1>1, <1>3 DEF Leaving, OnlyOf
    <3>5. ASSUME NEW y \in Thread, LinksOf(op[y], s)
          PROVE  LinksOf(op[y], s)'
      <4>1. CASE y = t
        BY <1>1, <1>2, <1>5, <2>3, <3>1, <3>2, <3>5, <4>1 DEF LinksOf
      <4>2. CASE y # t
        <5>1. op'[y] = op[y]
          BY <1>3, <4>2 DEF OnlyOf
        <5>2. ~ (op[y].s = s /\ op[y].pc \in {"link", "create"})
          BY <1>1, <1>2, <2>3, <4>2 DEF LocksOK, Holds, Hold
        <5>. QED  BY <5>1, <5>2 DEF LinksOf
      <4>. QED  BY <4>1, <4>2
    <3>6. \A y \in Thread : op'[y].pc = "hdiClose" => op'[y] = op[y]
      BY <1>3, <1>5 DEF OnlyOf
    <3>. HIDE DEF Leaving, LinksOf
    <3>7. Due(s)' => /\ operator'[s].hdi \in Device
                     /\ \A y \in operator'[s].outputs : linked'[s][y] = operator'[s].hdi
      BY <1>1, <3>1, <3>2, <3>4 DEF Due, LinkOK
    <3>. HIDE DEF Due
    <3>. QED  BY <1>1, <3>4, <3>5, <3>6, <3>7 DEF LinkOK
  <2>. QED  BY <2>2, <2>3
<1>. QED  BY <1>3, <1>4, <1>5

LEMMA CreateStreamsLinks ==
  ASSUME Typed, LocksOK, LinksOK, NEW t \in Thread, CreateStreams(t), NEW s \in Session
  PROVE  LinkOK(s)'
<1>1. LinkOK(s) /\ Aside(s) /\ UNCHANGED <<operator, linked, device, shared, crossed, skipped>>
  BY ThreadAside DEF LinksOK, CreateStreams, history
<1>2. PICK b : b = op[t].s
  OBVIOUS
<1>3. /\ b \in Session /\ op[t].pc = "create"
      /\ session'[s].input = session[s].input
      /\ s # b => session'[s].st = session[s].st
      /\ session'[b].st = session[b].st \/ (session'[b].st = "committed" /\ operator[b].hdi \in Device)
  BY <1>2, CreateStreamsDoes DEF At
<1>4. CASE session'[s].st = session[s].st
  BY <1>1, <1>3, <1>4, StateLinks
<1>5. CASE session'[s].st # session[s].st
  <2>1. s = b /\ session'[s].st = "committed" /\ operator[s].hdi \in Device
    BY <1>3, <1>5
  <2>2. session[s].st \in {"configuring", "started"}
    BY <1>2, <1>3, <2>1 DEF LocksOK, Holds, Hold, Found
  <2>3. op[t].ways = {}
    BY <1>3 DEF Typed, ThreadsOK, Fits
  <2>4. LinksOf(op[t], s) => \A x \in operator[s].outputs : linked[s][x] = operator[s].hdi
    BY <1>2, <1>3, <2>1, <2>3 DEF LinksOf
  <2>5. Leaving(s) => Leaving(s)'
    BY <1>1, AsideLeaving
  <2>6. \A y \in Thread : /\ op'[y].pc = "hdiClose" => op'[y] = op[y]
                          /\ op'[y].s = s /\ op'[y].pc \in {"link", "create"} => op'[y] = op[y]
    BY <1>1 DEF Aside
  <2>7. \A y \in Thread : LinksOf(op[y], s) => LinksOf(op[y], s)'
    BY <1>1, <2>6 DEF LinksOf
  <2>. HIDE DEF Leaving, LinksOf
  <2>8. ~ Leaving(s) => \A x \in operator[s].outputs : linked[s][x] = operator[s].hdi
    BY <1>1, <2>1, <2>2, <2>4 DEF LinkOK
  <2>9. Due(s)' => /\ operator'[s].hdi \in Device
                   /\ \A y \in operator'[s].outputs : linked'[s][y] = operator'[s].hdi
    BY <1>1, <2>1, <2>5, <2>8 DEF Due
  <2>. HIDE DEF Due
  <2>. QED  BY <1>1, <1>3, <2>1, <2>2, <2>5, <2>6, <2>7, <2>9 DEF LinkOK
<1>. QED  BY <1>4, <1>5

LEMMA ReleaseSessionLinks ==
  ASSUME Typed, LinksOK, NEW t \in Thread, ReleaseSession(t), NEW s \in Session
  PROVE  LinkOK(s)'
<1>1. LinkOK(s) /\ Aside(s) /\ UNCHANGED <<session, device, shared, crossed, skipped>>
  BY ThreadAside DEF LinksOK, ReleaseSession
<1>2. PICK b : b = op[t].s
  OBVIOUS
<1>3. /\ b \in Session /\ StateLockFree(b)
      /\ \/ /\ linked' = [linked EXCEPT ![b] = Unlink(b, operator[b].outputs)]
            /\ operator'[s].listed = operator[s].listed /\ operator'[s].hdi = operator[s].hdi
            /\ operator'[s].outputs = IF s = b THEN {} ELSE operator[s].outputs
         \/ UNCHANGED <<linked, operator>>
  BY <1>2, ReleaseSessionDoes
<1>4. CASE UNCHANGED <<linked, operator>>
  BY <1>1, <1>4, QuietLinks
<1>5. CASE /\ linked' = [linked EXCEPT ![b] = Unlink(b, operator[b].outputs)]
           /\ operator'[s].listed = operator[s].listed /\ operator'[s].hdi = operator[s].hdi
           /\ operator'[s].outputs = IF s = b THEN {} ELSE operator[s].outputs
  <2>1. CASE s # b
    <3>1. linked'[s] = linked[s]
      BY <1>3, <1>5, <2>1, LinkedIs DEF Typed
    <3>2. Leaving(s) => Leaving(s)'
      BY <1>1, AsideLeaving
    <3>. HIDE DEF Leaving
    <3>3. Steady(s)
      BY <1>1, <1>5, <2>1, <3>1, <3>2 DEF Steady, Keeps
    <3>. QED  BY <1>1, <3>3, SteadyLinks
  <2>2. CASE s = b
    <3>1. Keeps(s) /\ ~ Due(s)'
      BY <1>1, <1>5, <2>2 DEF Keeps, Due
    <3>. QED  BY <1>1, <1>3, <2>2, <3>1, FreeLinks
  <2>. QED  BY <2>1, <2>2
<1>. QED  BY <1>3, <1>4, <1>5

LEMMA ReleaseFinishLinks ==
  ASSUME Typed, LinksOK, NEW t \in Thread, ReleaseFinish(t), NEW s \in Session
  PROVE  LinkOK(s)'
<1>1. LinkOK(s) /\ Aside(s) /\ UNCHANGED <<linked, shared, crossed, skipped>>
  BY ThreadAside DEF LinksOK, ReleaseFinish, history
<1>2. PICK b : b = op[t].s
  OBVIOUS
<1>3. PICK d : d = session[b].input
  OBVIOUS
<1>4. /\ b \in Session /\ (d \in Device => ListenerLockFree(d))
      /\ session'[s].st = IF s = b THEN "released" ELSE session[s].st
      /\ session'[s].input = IF s = b THEN NoDevice ELSE session[s].input
      /\ s # b => operator'[s] = operator[s]
      /\ operator'[b] = NoOperator
      /\ \A e \in Device : /\ device'[e].open = device[e].open
                           /\ device'[e].listener = IF e = d THEN None ELSE device[e].listener
  BY <1>2, <1>3, ReleaseFinishDoes
<1>5. Leaving(s) => Leaving(s)'
  <2>1. \A y \in Thread : op[y].pc = "operatorRelease" => op[y].dev \in Device /\ op[y].dev # d /\ op'[y] = op[y]
    BY <1>1, <1>4 DEF Typed, ThreadsOK, Fits, Closing, ListenerLockFree, At, Aside
  <2>. QED  BY <1>4, <2>1, LeavingStays
<1>. HIDE DEF Leaving
<1>6. CASE s # b
  <2>1. Steady(s)
    BY <1>1, <1>4, <1>5, <1>6 DEF Steady, Keeps
  <2>. QED  BY <1>1, <2>1, SteadyLinks
<1>7. CASE s = b
  BY <1>4, <1>7, NoOperatorIs, NotSessions, BareLinks DEF Due
<1>. QED  BY <1>6, <1>7

\* A thread that comes to close a device has taken its session's HDI operator, or found none.
LEMMA ClosesLinks ==
  ASSUME NEW s \in Session, LinkOK(s), NEW t \in Thread, OnlyOf(t), op'[t].pc = "hdiClose", Steady(s),
         operator[s].hdi = op'[t].dev /\ session[s].input = op'[t].dev /\ op'[t].dev \notin shared => ~ operator[s].listed
  PROVE  LinkOK(s)'
<1>1. Due(s)' => Due(s)
  BY DEF Steady, Keeps, Due
<1>2. ASSUME operator'[s].hdi \in Device, session'[s].st # "gone"
      PROVE  /\ session'[s].input = operator'[s].hdi /\ device'[operator'[s].hdi].open
             /\ operator'[s].listed /\ s \notin crossed' /\ operator'[s].hdi \notin shared' =>
                  \A y \in Thread : op'[y].pc = "hdiClose" => op'[y].dev # operator'[s].hdi
             /\ ~ Leaving(s)' => \A y \in Thread : LinksOf(op[y], s)'
  <2>1. operator[s].hdi \in Device /\ session[s].st # "gone" /\ operator'[s].hdi = operator[s].hdi
    BY <1>2 DEF Steady, Keeps
  <2>2. session'[s].input = operator'[s].hdi /\ device'[operator'[s].hdi].open
    BY <2>1 DEF LinkOK, Steady, Keeps
  <2>3. ASSUME operator'[s].listed, s \notin crossed', operator'[s].hdi \notin shared',
               NEW y \in Thread, op'[y].pc = "hdiClose"
        PROVE  op'[y].dev # operator'[s].hdi
    <3>1. operator[s].listed /\ s \notin crossed /\ operator[s].hdi \notin shared
      BY <2>1, <2>3 DEF Steady, Keeps
    <3>2. CASE y = t
      BY <2>1, <2>2, <3>1, <3>2 DEF Steady, Keeps
    <3>3. CASE y # t
      <4>1. op'[y] = op[y]
        BY <3>3 DEF OnlyOf
      <4>. QED  BY <2>1, <2>3, <3>1, <4>1 DEF LinkOK
    <3>. QED  BY <3>2, <3>3
  <2>4. ASSUME ~ Leaving(s)', NEW y \in Thread
        PROVE  LinksOf(op[y], s)'
    <3>1. LinksOf(op[y], s)
      BY <2>1, <2>4 DEF LinkOK, Steady
    <3>2. op'[y].s = s /\ op'[y].pc \in {"link", "create"} => op'[y] = op[y]
      BY DEF OnlyOf
    <3>. QED  BY <2>1, <3>1, <3>2 DEF LinksOf, Steady
  <2>. QED  BY <2>2, <2>3, <2>4
<1>3. ASSUME Due(s)'
      PROVE  operator'[s].hdi \in Device /\ \A x \in operator'[s].outputs : linked'[s][x] = operator'[s].hdi
  BY <1>1, <1>3 DEF LinkOK, Steady, Keeps
<1>. QED  BY <1>2, <1>3 DEF LinkOK

LEMMA BeforeDeviceCloseLinks ==
  ASSUME Typed, ListenersOK, LinksOK, NEW t \in Thread, BeforeDeviceClose(t), NEW s \in Session
  PROVE  LinkOK(s)'
<1>1. /\ LinkOK(s) /\ op[t].pc = "listener"
      /\ UNCHANGED <<session, operator, device, shared, crossed, skipped>>
  BY DEF LinksOK, BeforeDeviceClose, At, history
<1>2. PICK d : d = op[t].dev
  OBVIOUS
<1>3. PICK b : b = device[d].listener
  OBVIOUS
<1>4. /\ OnlyOf(t) /\ d \in Device /\ op'[t].dev = d
      /\ \/ op'[t].pc = "operatorRelease" /\ b \in Session
         \/ op'[t].pc = "hdiClose" /\ linked' = linked /\ (b # None => ~ HasOperator(b))
  BY <1>2, <1>3, BeforeDeviceCloseType DEF Typed, SameBut
<1>5. Leaving(s) => Leaving(s)'
  BY <1>1, <1>4 DEF Leaving, OnlyOf
<1>6. CASE op'[t].pc = "hdiClose" /\ linked' = linked /\ (b # None => ~ HasOperator(b))
  <2>1. session[s].input = d /\ d \notin shared => b = s
    BY <1>3, <1>4 DEF ListenersOK, ListenerOK
  <2>2. session[s].input = d /\ d \notin shared => ~ operator[s].listed
    BY <1>6, <2>1, NotSessions DEF HasOperator
  <2>. HIDE DEF Leaving
  <2>3. Steady(s)
    BY <1>1, <1>5, <1>6 DEF Steady, Keeps
  <2>. QED  BY <1>1, <1>4, <1>6, <2>2, <2>3, ClosesLinks
<1>7. CASE op'[t].pc = "operatorRelease" /\ b \in Session
  <2>1. linked' = [linked EXCEPT ![b] = Unlink(b, operator[b].outputs)]
    <3>1. op'[t].pc # "hdiClose"
      BY <1>7
    <3>2. \/ linked' = [linked EXCEPT ![b] = Unlink(b, operator[b].outputs)]
          \/ GoTo(t, "hdiClose")
      BY <1>2, <1>3 DEF BeforeDeviceClose
    <3>3. GoTo(t, "hdiClose") => op'[t].pc = "hdiClose"
      BY OpType DEF Typed, GoTo, Doing
    <3>. QED  BY <3>1, <3>2, <3>3
  <2>2. CASE s # b
    <3>1. Aside(s)
      BY <1>1, <1>4, <1>7, AsideBy
    <3>2. linked'[s] = linked[s]
      BY <1>7, <2>1, <2>2, LinkedIs DEF Typed
    <3>. HIDE DEF Leaving
    <3>3. Steady(s)
      BY <1>1, <1>5, <3>2 DEF Steady, Keeps
    <3>. QED  BY <1>1, <3>1, <3>3, SteadyLinks
  <2>3. CASE s = b
    <3>1. Leaving(s)'
      BY <1>1, <1>3, <1>4, <1>7, <2>3 DEF Leaving
    <3>2. \A y \in Thread : op'[y].pc = "hdiClose" => op'[y] = op[y]
      BY <1>4, <1>7 DEF OnlyOf
    <3>3. ~ Due(s)'
      BY <3>1 DEF Due
    <3>. HIDE DEF Leaving, Due
    <3>. QED  BY <1>1, <3>1, <3>2, <3>3 DEF LinkOK
  <2>. QED  BY <2>2, <2>3
<1>. QED  BY <1>4, <1>6, <1>7

LEMMA OperatorReleaseLinks ==
  ASSUME Typed, ListenersOK, LinksOK, NEW t \in Thread, OperatorRelease(t), NEW s \in Session
  PROVE  LinkOK(s)'
<1>1. /\ LinkOK(s) /\ op[t].pc = "operatorRelease"
      /\ UNCHANGED <<session, linked, device, shared, crossed, skipped>>
  BY DEF LinksOK, OperatorRelease, At, history
<1>2. PICK d : d = op[t].dev
  OBVIOUS
<1>3. PICK b : b = device[d].listener
  OBVIOUS
<1>4. OnlyOf(t) /\ d \in Device /\ op'[t].pc = "hdiClose" /\ op'[t].dev = d
  BY <1>2, OperatorReleaseType DEF Typed, SameBut
<1>5. /\ s # b => operator'[s] = operator[s]
      /\ s = b => ~ operator'[s].listed /\ operator'[s].hdi = NoDevice
  BY <1>2, <1>3, OperatorReleaseDoes
<1>6. CASE s = b
  BY <1>5, <1>6, NotSessions, BareLinks DEF Due
<1>7. CASE s # b
  <2>1. ~ (session[s].input = d /\ d \notin shared)
    BY <1>3, <1>4, <1>7 DEF ListenersOK, ListenerOK
  <2>2. Leaving(s) => Leaving(s)'
    BY <1>1, <1>2, <1>3, <1>4, <1>7 DEF Leaving, OnlyOf
  <2>. HIDE DEF Leaving
  <2>3. Steady(s)
    BY <1>1, <1>5, <1>7, <2>2 DEF Steady, Keeps
  <2>. QED  BY <1>1, <1>4, <2>1, <2>3, ClosesLinks
<1>. QED  BY <1>6, <1>7

\* The close makes an HDI operator stale only for a session that is not due to be linked.
LEMMA HdiCloseLinks ==
  ASSUME Typed, LinksOK, NEW t \in Thread, HdiClose(t), NEW s \in Session
  PROVE  LinkOK(s)'
<1>1. LinkOK(s) /\ Aside(s) /\ op[t].pc = "hdiClose" /\ UNCHANGED <<session, shared, crossed, skipped>>
  BY ThreadAside DEF LinksOK, HdiClose, At, history
<1>2. PICK d : d = op[t].dev
  OBVIOUS
<1>3. /\ d \in Device
      /\ \A e \in Device : /\ device'[e].open = IF e = d THEN FALSE ELSE device[e].open
                           /\ device'[e].listener = device[e].listener
      /\ \/ /\ operator'[s].listed = operator[s].listed
            /\ operator'[s].outputs = operator[s].outputs
            /\ operator'[s].hdi = IF operator[s].hdi = d THEN Stale ELSE operator[s].hdi
            /\ \A x \in Stream : linked'[s][x] = IF linked[s][x] = d THEN Stale ELSE linked[s][x]
         \/ UNCHANGED <<operator, linked, device>>
  <2>1. /\ d \in Device
        /\ \A e \in Device : /\ device'[e].open = IF e = d THEN FALSE ELSE device[e].open
                             /\ device'[e].listener = device[e].listener
        /\ \/ \A k \in Session :
                /\ operator'[k].listed = operator[k].listed
                /\ operator'[k].outputs = operator[k].outputs
                /\ operator'[k].hdi = IF operator[k].hdi = d THEN Stale ELSE operator[k].hdi
                /\ \A x \in Stream : linked'[k][x] = IF linked[k][x] = d THEN Stale ELSE linked[k][x]
           \/ UNCHANGED <<operator, linked, device>>
    <3>1. /\ op[t].dev \in Device
          /\ \A e \in Device : /\ device'[e].open = IF e = op[t].dev THEN FALSE ELSE device[e].open
                               /\ device'[e].listener = device[e].listener
      BY HdiCloseDoes
    <3>2. \/ ~ device[op[t].dev].open /\ UNCHANGED <<device, letGo, operator, linked>>
          \/ \A k \in Session :
                /\ operator'[k].listed = operator[k].listed
                /\ operator'[k].outputs = operator[k].outputs
                /\ operator'[k].hdi = IF operator[k].hdi = op[t].dev THEN Stale ELSE operator[k].hdi
                /\ \A x \in Stream : linked'[k][x] = IF linked[k][x] = op[t].dev THEN Stale ELSE linked[k][x]
      BY HdiCloseDoes
    <3>. QED  BY <1>2, <3>1, <3>2
  <2>. QED  BY <2>1
<1>4. Leaving(s) => Leaving(s)'
  BY <1>1, <1>3, AsideLeaving
<1>5. operator[s].outputs \subseteq Stream /\ operator[s].hdi \in Device \cup {NoDevice, Stale}
  BY Fields DEF Typed, OperatorType
<1>. HIDE DEF Leaving
<1>6. CASE UNCHANGED <<operator, linked, device>>
  BY <1>1, <1>6, QuietLinks
<1>7. CASE ~ UNCHANGED <<operator, linked, device>> /\ operator[s].hdi = d
  <2>1. operator'[s].hdi = Stale
    BY <1>3, <1>7
  <2>2. Due(s)' => Due(s)
    BY <1>1, <1>3, <1>4, <1>7 DEF Due
  <2>3. ~ Due(s)
    <3>1. SUFFICES ASSUME Due(s)
                   PROVE  FALSE
      OBVIOUS
    <3>2. /\ operator[s].hdi \in Device /\ session[s].st # "gone" /\ operator[s].listed /\ s \notin crossed
          /\ session[s].input \notin shared
      BY <3>1, <1>3, <1>7 DEF Due
    <3>3. op[t].dev # operator[s].hdi
      BY <1>1, <3>2 DEF LinkOK
    <3>. QED  BY <1>2, <1>7, <3>3
  <2>. HIDE DEF Due
  <2>. QED  BY <2>1, <2>2, <2>3, NotSessions, BareLinks
<1>8. CASE ~ UNCHANGED <<operator, linked, device>> /\ operator[s].hdi # d
  <2>1. /\ operator'[s].listed = operator[s].listed /\ operator'[s].outputs = operator[s].outputs
        /\ operator'[s].hdi = operator[s].hdi
        /\ \A x \in Stream : linked'[s][x] = IF linked[s][x] = d THEN Stale ELSE linked[s][x]
    BY <1>3, <1>8
  <2>2. operator[s].hdi \in Device => device'[operator[s].hdi].open = device[operator[s].hdi].open
    BY <1>3, <1>8
  <2>3. Steady(s)
    BY <1>1, <1>4, <1>5, <1>8, <2>1, <2>2 DEF Steady, Keeps
  <2>. QED  BY <1>1, <2>3, SteadyLinks
<1>. QED  BY <1>6, <1>7, <1>8

LEMMA ReleaseOperatorsLinks ==
  ASSUME Typed, LinksOK, NEW t \in Thread, ReleaseOperators(t), NEW s \in Session
  PROVE  LinkOK(s)'
<1>1. LinkOK(s) /\ Aside(s) /\ UNCHANGED <<session, linked, device, shared, crossed, skipped>>
  BY ThreadAside DEF LinksOK, ReleaseOperators, history
<1>2. /\ operator'[s].listed = FALSE /\ operator'[s].outputs = operator[s].outputs
      /\ operator'[s].hdi = IF operator[s].listed THEN NoDevice ELSE operator[s].hdi
  BY ReleaseOperatorsDoes
<1>3. CASE operator[s].listed
  BY <1>2, <1>3, NotSessions, BareLinks DEF Due
<1>4. CASE ~ operator[s].listed
  <2>1. Leaving(s) => Leaving(s)'
    BY <1>1, AsideLeaving
  <2>. HIDE DEF Leaving
  <2>2. Steady(s)
    BY <1>1, <1>2, <1>4, <2>1 DEF Steady, Keeps
  <2>. QED  BY <1>1, <2>2, SteadyLinks
<1>. QED  BY <1>3, <1>4

LEMMA DestroyLinks ==
  ASSUME Typed, LinksOK, NEW b \in Session, Destroy(b), NEW s \in Session
  PROVE  LinkOK(s)'
<1>1. LinkOK(s) /\ UNCHANGED <<op, operator, linked, shared, crossed, skipped>>
  BY DEF LinksOK, Destroy, history
<1>2. /\ \A y \in Thread : At(y, "operatorRelease") => device[op[y].dev].listener # b
      /\ session'[s].st = IF s = b THEN "gone" ELSE session[s].st
      /\ session'[s].input = IF s = b THEN NoDevice ELSE session[s].input
      /\ \A e \in Device : /\ device'[e].open = device[e].open
                           /\ device'[e].listener = IF device[e].listener = b THEN None ELSE device[e].listener
  BY DestroyDoes
<1>3. CASE s = b
  BY <1>2, <1>3 DEF LinkOK, Due
<1>4. CASE s # b
  <2>1. Leaving(s) => Leaving(s)'
    <3>1. \A y \in Thread : op[y].pc = "operatorRelease" => op[y].dev \in Device
      BY DEF Typed, ThreadsOK, Fits, Closing
    <3>. QED  BY <1>1, <1>2, <3>1, LeavingStays DEF At
  <2>2. Aside(s)
    BY <1>1 DEF Aside
  <2>. HIDE DEF Leaving
  <2>3. Steady(s)
    BY <1>1, <1>2, <1>4, <2>1 DEF Steady, Keeps
  <2>. QED  BY <1>1, <2>2, <2>3, SteadyLinks
<1>. QED  BY <1>3, <1>4

LEMMA NewInstanceLinks ==
  ASSUME Typed, LinksOK, NEW t \in Client, NewInstance(t), NEW s \in Session
  PROVE  LinkOK(s)'
<1>1. LinkOK(s) /\ Aside(s) /\ UNCHANGED <<linked, device, shared, crossed, skipped>>
  BY CallAside DEF LinksOK, NewInstance, history
<1>2. PICK b \in Session :
        /\ \A k \in Session : k # b => session'[k] = session[k] /\ operator'[k] = operator[k]
        /\ operator'[b].hdi = NoDevice /\ operator'[b].outputs = {}
  BY NewInstanceDoes
<1>3. CASE s = b
  BY <1>2, <1>3, NotSessions, BareLinks DEF Due
<1>4. CASE s # b
  <2>1. Leaving(s) => Leaving(s)'
    BY <1>1, AsideLeaving
  <2>. HIDE DEF Leaving
  <2>2. Steady(s)
    BY <1>1, <1>2, <1>4, <2>1 DEF Steady, Keeps
  <2>. QED  BY <1>1, <2>2, SteadyLinks
<1>. QED  BY <1>3, <1>4

LEMMA OpenLinks ==
  ASSUME Typed, LinksOK, NEW t \in Client, NEW d \in Device, Open(t, d), NEW s \in Session
  PROVE  LinkOK(s)'
<1>1. LinkOK(s) /\ Aside(s) /\ UNCHANGED <<session, operator, linked, shared, crossed, skipped>>
  BY CallAside DEF LinksOK, Open, history
<1>2. \A e \in Device : /\ device'[e].open = IF e = d THEN TRUE ELSE device[e].open
                        /\ device'[e].listener = device[e].listener
  BY OpenDoes
<1>3. Leaving(s) => Leaving(s)'
  BY <1>1, <1>2, AsideLeaving
<1>. HIDE DEF Leaving
<1>4. Steady(s)
  BY <1>1, <1>2, <1>3 DEF Steady, Keeps
<1>. QED  BY <1>1, <1>4, SteadyLinks

LEMMA LinksStep ==
  ASSUME Typed, LocksOK, ListenersOK, LinksOK, [Next]_vars
  PROVE  LinksOK'
<1>. SUFFICES ASSUME NEW s \in Session
              PROVE  LinkOK(s)'
  BY DEF LinksOK
<1>0. LinkOK(s)
  BY DEF LinksOK
<1>1. ASSUME NEW t \in Thread,
             \/ PreemptOverflowSessions(t) \/ CloseLock(t) \/ RemoveGroup(t)
             \/ \E d \in Device : Close(t, d)
      PROVE  LinkOK(s)'
  <2>1. UNCHANGED <<session, operator, linked, device, shared, crossed, skipped>>
    BY <1>1 DEF PreemptOverflowSessions, CloseLock, RemoveGroup, Close, history
  <2>2. Aside(s)
    BY <1>1, ThreadAside
  <2>. QED  BY <1>0, <2>1, <2>2, QuietLinks
<1>2. ASSUME NEW t \in Client, NEW k \in Session, \E call : Enter(t, k, call)
      PROVE  LinkOK(s)'
  <2>1. UNCHANGED <<session, operator, linked, device, shared, crossed, skipped>>
    BY <1>2 DEF Enter, history
  <2>2. Aside(s)
    BY <1>2, CallAside
  <2>. QED  BY <1>0, <2>1, <2>2, QuietLinks
<1>3. ASSUME NEW k \in Session, HdiLetsGo(k)
      PROVE  LinkOK(s)'
  <2>1. UNCHANGED <<op, session, operator, linked, device, shared, crossed, skipped>>
    BY <1>3 DEF HdiLetsGo, history
  <2>2. Aside(s)
    BY <2>1 DEF Aside
  <2>. QED  BY <1>0, <2>1, <2>2, QuietLinks
<1>4. ASSUME Die
      PROVE  LinkOK(s)'
  <2>1. UNCHANGED <<session, operator, linked, device, shared, crossed, skipped>>
    BY <1>4 DEF Die
  <2>2. /\ Reaper \in Thread /\ OnlyOf(Reaper) /\ op[Reaper].pc # "operatorRelease"
        /\ \E o \in Doing : Resumed(Reaper, o, op'[Reaper])
    BY <1>4, DieType, IdleIs DEF Typed, Thread
  <2>3. Aside(s)
    BY <2>2, AsideResumed
  <2>. QED  BY <1>0, <2>1, <2>3, QuietLinks
<1>5. ASSUME NEW t \in Thread, StopPreempted(t)
      PROVE  LinkOK(s)'
  <2>1. StopEffect(op[t].s) /\ op[t].s \in Session /\ UNCHANGED <<operator, linked, device, shared, crossed>>
    BY <1>5, StopPreemptedType DEF StopPreempted, Typed
  <2>2. Aside(s)
    BY <1>5, ThreadAside
  <2>. QED  BY <1>0, <2>1, <2>2, StopLinks
<1>6. ASSUME NEW t \in Client, NEW k \in Session, Stop(t, k) \/ Release(t, k)
      PROVE  LinkOK(s)'
  <2>1. StopEffect(k) /\ UNCHANGED <<operator, linked, device, shared, crossed>>
    BY <1>6 DEF Stop, Release
  <2>2. Aside(s)
    BY <1>6, CallAside
  <2>. QED  BY <1>0, <2>1, <2>2, StopLinks
<1>7. ASSUME NEW t \in Client, NEW k \in Session, Start(t, k)
      PROVE  LinkOK(s)'
  <2>1. UNCHANGED <<operator, linked, device, shared, crossed, skipped>>
    BY <1>7 DEF Start, history
  <2>2. /\ session[k].st = "committed" /\ session'[s].input = session[s].input
        /\ session'[s].st = IF s = k THEN "started" ELSE session[s].st
    BY <1>7, StartDoes
  <2>3. Aside(s)
    BY <1>7, CallAside
  <2>. QED  BY <1>0, <2>1, <2>2, <2>3, StateLinks
<1>8. ASSUME NEW t \in Client, NEW k \in Session, DropProxy(t, k)
      PROVE  LinkOK(s)'
  <2>1. UNCHANGED <<operator, linked, device, shared, crossed, skipped>>
    BY <1>8 DEF DropProxy, history
  <2>2. session'[s].st = session[s].st /\ session'[s].input = session[s].input
    BY <1>8, DropProxyDoes
  <2>3. Aside(s)
    BY <1>8, CallAside
  <2>. QED  BY <1>0, <2>1, <2>2, <2>3, StateLinks
<1>9. CASE UNCHANGED vars
  <2>1. UNCHANGED <<op, session, operator, linked, device, shared, crossed, skipped>>
    BY <1>9 DEF vars, state, history
  <2>2. Aside(s)
    BY <2>1 DEF Aside
  <2>. QED  BY <1>0, <2>1, <2>2, QuietLinks
<1>10. CASE Next
  BY <1>10, Steps, <1>1, <1>2, <1>3, <1>4, <1>5, <1>6, <1>7, <1>8, BeginConfigLinks, AddOutputLinks, RemoveOutputLinks,
     AddInputLinks, RemoveInputLinks, CommitConfigLinks, LinkStreamLinks, CreateStreamsLinks, ReleaseSessionLinks,
     ReleaseFinishLinks, BeforeDeviceCloseLinks, OperatorReleaseLinks, HdiCloseLinks, ReleaseOperatorsLinks,
     DestroyLinks, NewInstanceLinks, OpenLinks, Zenon DEF Typed
<1>. QED  BY <1>9, <1>10

LEMMA LinksInit == Init => LinksOK
<1>. SUFFICES ASSUME Init, NEW s \in Session
              PROVE  LinkOK(s)
  BY DEF LinksOK
<1>1. operator[s] = NoOperator /\ session[s].st = "none"
  BY DEF Init
<1>. QED  BY <1>1, NoOperatorIs, NotSessions DEF LinkOK, Due

\* What a committed session outputs to is linked to its device, and that is open, until its
\* operator is released by the close of the device, whatever closes met the commit, and unless
\* Stop committed what was never linked (HCaptureSession::CommitConfig, LinkInputAndOutputs,
\* BeforeDeviceClose, Stop).
THEOREM CommittedStaysLinked == Spec => []CommittedIsLinked
<1>1. Init => Typed /\ LocksOK /\ ListenersOK /\ LinksOK
  BY TypedInit, LocksInit, ListenersInit, LinksInit
<1>2. Typed /\ LocksOK /\ ListenersOK /\ LinksOK /\ [Next]_vars => (Typed /\ LocksOK /\ ListenersOK /\ LinksOK)'
  BY TypedStep, LocksStep, ListenersStep, LinksStep
<1>3. Typed /\ LinksOK => CommittedIsLinked
  <2>. SUFFICES ASSUME Typed, NEW s \in Session, LinkOK(s),
                       session[s].st \in {"committed", "started"}, s \notin skipped \cup crossed,
                       operator[s].listed, operator[s].outputs # {}, session[s].input \notin shared,
                       \A t \in Thread : ~ At(t, "operatorRelease") /\ op[t].s # s
                PROVE  /\ session[s].input # NoDevice /\ device[session[s].input].open
                       /\ \A x \in operator[s].outputs : linked[s][x] = session[s].input
    BY DEF CommittedIsLinked, LinksOK
  <2>1. ~ Leaving(s)
    BY DEF Leaving, At
  <2>2. Due(s)
    BY <2>1 DEF Due
  <2>. QED  BY <2>2, NotSessions DEF LinkOK
<1>. QED  BY <1>1, <1>2, <1>3, PTL DEF Spec
=====
