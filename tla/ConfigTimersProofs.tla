------------------------- MODULE ConfigTimersProofs -------------------------
(* For any number of slots, any intervals and any limits: the two lists of   *)
(* timers hold the used ones, once each and in order, and none is overdue;   *)
(* the root answers every PREQ it holds (a slot that is taken has its timer, *)
(* or its handler is the next call of the Hello_Rann thread, or a menu       *)
(* removed it); who arms a timer from outside that thread finds its handler  *)
(* set; and after the end of the configuration nothing is announced and      *)
(* nothing measured.                                                         *)
EXTENDS ConfigTimers, FiniteSetTheorems, SequenceTheorems, WellFoundedInduction, TLAPS

\* A set of indices that is not empty has a first.
LEMMA FirstOf ==
    ASSUME NEW S \in SUBSET Nat, S # {}
    PROVE  \E i \in S : \A j \in S : i <= j
<1> DEFINE R == {p \in Nat \X Nat : p[1] < p[2]}
<1>1. IsWellFoundedOn(R, Nat)
  BY NatLessThanWellFounded DEF OpToRel
<1>2. PICK i \in S : \A j \in S : ~ (<<j, i>> \in R)
  <2> HIDE DEF R
  <2> QED  BY <1>1, WFMin
<1>3. \A j \in S : ~(j < i)
  BY <1>2
<1> QED  BY <1>3

\* Nth numbers the members of a finite set from the smallest on.
LEMMA UpToCounts ==
    ASSUME NEW K \in SUBSET Nat, IsFiniteSet(K), NEW i \in K
    PROVE  IsFiniteSet(UpTo(K, i)) /\ Cardinality(UpTo(K, i)) \in 1 .. Cardinality(K)
<1>1. UpTo(K, i) \subseteq K /\ i \in UpTo(K, i)
  BY DEF UpTo
<1>2. /\ IsFiniteSet(UpTo(K, i)) /\ Cardinality(UpTo(K, i)) \in Nat
      /\ Cardinality(UpTo(K, i)) <= Cardinality(K) /\ Cardinality(K) \in Nat
  BY <1>1, FS_Subset, FS_CardinalityType
<1>3. Cardinality(UpTo(K, i)) # 0
  BY <1>1, <1>2, FS_EmptySet
<1> QED BY <1>2, <1>3

LEMMA UpToGrows ==
    ASSUME NEW K \in SUBSET Nat, IsFiniteSet(K), NEW i \in K, NEW j \in K, i < j
    PROVE  Cardinality(UpTo(K, i)) < Cardinality(UpTo(K, j))
<1>0. i \in Int /\ j \in Int /\ \A n \in K : n \in Int
  OBVIOUS
<1>1. UpTo(K, i) \subseteq UpTo(K, j) /\ j \in UpTo(K, j) /\ j \notin UpTo(K, i)
  <2>1. \A n \in K : n <= i => n <= j
    BY <1>0
  <2>2. j <= j /\ ~ (j <= i)
    BY <1>0
  <2> QED BY <2>1, <2>2, Zenon DEF UpTo
<1>2. /\ IsFiniteSet(UpTo(K, j)) /\ Cardinality(UpTo(K, i)) \in Nat
      /\ Cardinality(UpTo(K, j)) \in Nat
  BY UpToCounts, FS_CardinalityType
<1>3. /\ Cardinality(UpTo(K, i)) <= Cardinality(UpTo(K, j))
      /\ Cardinality(UpTo(K, i)) # Cardinality(UpTo(K, j))
  BY <1>1, <1>2, FS_Subset
<1> QED BY <1>2, <1>3

LEMMA NthSpec ==
    ASSUME NEW K \in SUBSET Nat, IsFiniteSet(K)
    PROVE  /\ \A k \in 1 .. Cardinality(K) : Nth(K, k) \in K
           /\ \A k, l \in 1 .. Cardinality(K) : k < l => Nth(K, k) < Nth(K, l)
           /\ \A i \in K : \E k \in 1 .. Cardinality(K) : Nth(K, k) = i
<1> DEFINE c == Cardinality(K)
           rank == [i \in K |-> Cardinality(UpTo(K, i))]
<1>1. c \in Nat /\ IsFiniteSet(1 .. c) /\ Cardinality(1 .. c) = c
  BY FS_CardinalityType, FS_Interval
<1>2. \A i \in K : i \in Nat /\ rank[i] \in 1 .. c /\ rank[i] = Cardinality(UpTo(K, i))
  BY UpToCounts
<1>3. \A i, j \in K : i < j => rank[i] < rank[j]
  BY UpToGrows
<1>4. rank \in [K -> 1 .. c]
  BY <1>2
<1> HIDE DEF rank, c
<1>5. rank \in Surjection(K, 1 .. c)
  <2>1. \A i, j \in K : rank[i] = rank[j] => i = j
    BY <1>1, <1>2, <1>3
  <2>2. rank \in Injection(K, 1 .. c)
    BY <1>4, <2>1 DEF Injection, IsInjective
  <2> QED BY <1>1, <2>2, FS_Injection DEF c
<1>6. \A k \in 1 .. c : Nth(K, k) \in K /\ rank[Nth(K, k)] = k
  <2>1. \A k \in 1 .. c : \E i \in K : Cardinality(UpTo(K, i)) = k
    BY <1>2, <1>5 DEF Surjection
  <2> QED BY <1>2, <2>1 DEF Nth
<1>7. \A i, j \in K : i < j \/ j < i \/ i = j
  BY <1>2
<1>8. ASSUME NEW k \in 1 .. c, NEW l \in 1 .. c, k < l
      PROVE  Nth(K, k) < Nth(K, l)
  <2>1. Nth(K, k) \in K /\ Nth(K, l) \in K /\ rank[Nth(K, k)] < rank[Nth(K, l)]
    BY <1>6, <1>8
  <2>2. ~ (rank[Nth(K, l)] < rank[Nth(K, k)]) /\ Nth(K, k) # Nth(K, l)
    BY <1>1, <1>6, <1>8
  <2> QED BY <1>3, <1>7, <2>1, <2>2
<1>9. ASSUME NEW i \in K
      PROVE  rank[i] \in 1 .. c /\ Nth(K, rank[i]) = i
  <2>1. Nth(K, rank[i]) \in K /\ rank[Nth(K, rank[i])] = rank[i] /\ rank[i] \in Int
    BY <1>1, <1>2, <1>6
  <2>2. ~ (rank[Nth(K, rank[i])] < rank[i]) /\ ~ (rank[i] < rank[Nth(K, rank[i])])
    BY <2>1
  <2> QED BY <1>2, <1>3, <1>7, <2>1, <2>2
<1> QED BY <1>6, <1>8, <1>9 DEF c

\* What remains of a sequence keeps its order, and nothing else is lost.
Remains(w, seq, T, pos) ==
    /\ \A k \in 1 .. Len(w) :
          pos[k] \in 1 .. Len(seq) /\ w[k] = seq[pos[k]] /\ w[k] \notin T
    /\ \A k, l \in 1 .. Len(w) : k < l => pos[k] < pos[l]
    /\ \A i \in 1 .. Len(seq) : seq[i] \notin T => \E k \in 1 .. Len(w) : w[k] = seq[i]

LEMMA WithoutSpec ==
    ASSUME NEW S, NEW seq \in Seq(S), NEW T
    PROVE  /\ Without(seq, T) \in Seq(S)
           /\ \E pos : Remains(Without(seq, T), seq, T, pos)
<1> DEFINE K == {i \in 1 .. Len(seq) : seq[i] \notin T}
           c == Cardinality(K)
           pos == [k \in 1 .. c |-> Nth(K, k)]
           w == [k \in 1 .. c |-> seq[Nth(K, k)]]
<1>1. K \in SUBSET Nat /\ IsFiniteSet(K) /\ c \in Nat
  <2>1. IsFiniteSet(1 .. Len(seq)) /\ 1 .. Len(seq) \subseteq Nat
    BY FS_Interval
  <2>2. K \subseteq 1 .. Len(seq)
    OBVIOUS
  <2> HIDE DEF K
  <2> QED BY <2>1, <2>2, FS_Subset, FS_CardinalityType
<1>2. Without(seq, T) = w
  BY DEF Without
<1>3. \A i : i \in K <=> i \in 1 .. Len(seq) /\ seq[i] \notin T
  OBVIOUS
<1> HIDE DEF K
<1>4. /\ \A k \in 1 .. c : Nth(K, k) \in K
      /\ \A k, l \in 1 .. c : k < l => Nth(K, k) < Nth(K, l)
      /\ \A i \in K : \E k \in 1 .. c : Nth(K, k) = i
  BY <1>1, NthSpec
<1> HIDE DEF c
<1>5. w \in Seq(S) /\ Len(w) = c
  BY <1>1, <1>3, <1>4
<1>6. \A k \in 1 .. c : w[k] = seq[pos[k]] /\ pos[k] \in K /\ pos[k] = Nth(K, k)
  BY <1>4
<1>7. \A i \in K : \E k \in 1 .. c : w[k] = seq[i]
  BY <1>4
<1> HIDE DEF w, pos
<1>8. \A k, l \in 1 .. c : k < l => pos[k] < pos[l]
  BY <1>4, <1>6
<1>9. \A k \in 1 .. c : pos[k] \in 1 .. Len(seq) /\ w[k] = seq[pos[k]] /\ w[k] \notin T
  BY <1>3, <1>6
<1>10. Remains(w, seq, T, pos)
  BY <1>3, <1>5, <1>7, <1>8, <1>9 DEF Remains
<1> QED BY <1>2, <1>5, <1>10
-----------------------------------------------------------------------------
\* What the calls on the timer list keep.

In(t, seq) == \E i \in 1 .. Len(seq) : seq[i] = t

Distinct(seq) == \A i, j \in 1 .. Len(seq) : seq[i] = seq[j] => i = j

Sorted(seq, left) == \A i, j \in 1 .. Len(seq) : i < j => left[seq[i]] <= left[seq[j]]

\* The two lists hold the used timers, each once and in one of them.
ListOK(L) ==
    /\ L.tq \in Seq(Timer) /\ L.exp \in Seq(Timer)
    /\ L.used \in [Timer -> BOOLEAN] /\ L.left \in [Timer -> Int]
    /\ Distinct(L.tq) /\ Distinct(L.exp)
    /\ \A t \in Timer : L.used[t] <=> In(t, L.tq) \/ In(t, L.exp)
    /\ \A t \in Timer : ~ (In(t, L.tq) /\ In(t, L.exp))
    /\ Sorted(L.tq, L.left)
    /\ \A t \in Timer : 0 <= L.left[t] /\ L.left[t] <= Interval[t]

\* A part of a list in the same order has what the list has of these.
LEMMA RemainsKeep ==
    ASSUME NEW S, NEW seq \in Seq(S), NEW w \in Seq(S), NEW T, NEW pos,
           Remains(w, seq, T, pos)
    PROVE  /\ \A t : In(t, w) <=> In(t, seq) /\ t \notin T
           /\ Distinct(seq) => Distinct(w)
           /\ \A left : Sorted(seq, left) => Sorted(w, left)
<1>1. \A k \in 1 .. Len(w) :
         pos[k] \in 1 .. Len(seq) /\ w[k] = seq[pos[k]] /\ w[k] \notin T
  BY DEF Remains
<1>2. \A k, l \in 1 .. Len(w) : k < l => pos[k] < pos[l]
  BY DEF Remains
<1>3. \A t : In(t, w) <=> In(t, seq) /\ t \notin T
  <2>1. \A t : In(t, w) => In(t, seq) /\ t \notin T
    BY <1>1 DEF In
  <2>2. \A i \in 1 .. Len(seq) : seq[i] \notin T => \E k \in 1 .. Len(w) : w[k] = seq[i]
    BY DEF Remains
  <2>3. \A t : In(t, seq) /\ t \notin T => In(t, w)
    BY <2>2, Zenon DEF In
  <2> QED BY <2>1, <2>3
<1>4. \A k, l \in 1 .. Len(w) : pos[k] = pos[l] => k = l
  <2>1. \A k, l \in 1 .. Len(w) : k < l \/ l < k \/ k = l
    OBVIOUS
  <2>2. \A k \in 1 .. Len(w) : pos[k] \in Int
    BY <1>1
  <2> SUFFICES ASSUME NEW k \in 1 .. Len(w), NEW l \in 1 .. Len(w), pos[k] = pos[l]
               PROVE  k = l
    OBVIOUS
  <2>3. ~ (pos[k] < pos[l]) /\ ~ (pos[l] < pos[k])
    BY <2>2
  <2> QED BY <1>2, <2>1, <2>3
<1>5. ASSUME Distinct(seq) PROVE Distinct(w)
  <2> SUFFICES ASSUME NEW k \in 1 .. Len(w), NEW l \in 1 .. Len(w), w[k] = w[l]
               PROVE  k = l
    BY DEF Distinct
  <2>1. pos[k] = pos[l]
    BY <1>1, <1>5 DEF Distinct
  <2> QED BY <1>4, <2>1
<1>6. ASSUME NEW left, Sorted(seq, left) PROVE Sorted(w, left)
  BY <1>1, <1>2, <1>6 DEF Sorted
<1> QED BY <1>3, <1>5, <1>6

LEMMA WithoutKeeps ==
    ASSUME NEW S, NEW seq \in Seq(S), NEW T
    PROVE  /\ Without(seq, T) \in Seq(S)
           /\ \A t : In(t, Without(seq, T)) <=> In(t, seq) /\ t \notin T
           /\ Distinct(seq) => Distinct(Without(seq, T))
           /\ \A left : Sorted(seq, left) => Sorted(Without(seq, T), left)
<1>1. Without(seq, T) \in Seq(S) /\ \E pos : Remains(Without(seq, T), seq, T, pos)
  BY WithoutSpec
<1> QED BY <1>1, RemainsKeep

\* Only the times of the timers in a list matter to its order.
LEMMA SortedSame ==
    ASSUME NEW seq, NEW left, NEW more, Sorted(seq, left),
           \A t : In(t, seq) => more[t] = left[t]
    PROVE  Sorted(seq, more)
<1>1. \A i \in 1 .. Len(seq) : more[seq[i]] = left[seq[i]]
  BY DEF In
<1> QED BY <1>1 DEF Sorted

LEMMA RemoveOK ==
    ASSUME NEW L, ListOK(L), NEW T
    PROVE  /\ ListOK(Timer_remove(L, T))
           /\ \A t \in Timer : Timer_remove(L, T).used[t] <=> L.used[t] /\ t \notin T
<1> DEFINE M == Timer_remove(L, T)
<1>1. /\ M.tq = Without(L.tq, T) /\ M.exp = Without(L.exp, T)
      /\ M.used = [t \in Timer |-> L.used[t] /\ t \notin T]
      /\ M.left = [t \in Timer |-> IF t \in T THEN 0 ELSE L.left[t]]
  BY DEF Timer_remove
<1> HIDE DEF M
<1>2. /\ M.tq \in Seq(Timer) /\ M.exp \in Seq(Timer)
      /\ Distinct(M.tq) /\ Distinct(M.exp) /\ Sorted(M.tq, L.left)
      /\ \A t : In(t, M.tq) <=> In(t, L.tq) /\ t \notin T
      /\ \A t : In(t, M.exp) <=> In(t, L.exp) /\ t \notin T
  BY <1>1, WithoutKeeps DEF ListOK
<1>3. M.used \in [Timer -> BOOLEAN] /\ \A t \in Timer : M.used[t] <=> L.used[t] /\ t \notin T
  BY <1>1 DEF ListOK
<1>4. /\ M.left \in [Timer -> Int]
      /\ \A t \in Timer : 0 <= M.left[t] /\ M.left[t] <= Interval[t]
  BY <1>1, IntervalAssumption DEF ListOK
<1>5. Sorted(M.tq, M.left)
  <2>1. \A t : In(t, M.tq) => t \in Timer
    BY <1>2 DEF In
  <2>2. \A t : In(t, M.tq) => M.left[t] = L.left[t]
    BY <1>1, <1>2, <2>1
  <2> QED BY <1>2, <2>2, SortedSame
<1>6. ListOK(M)
  BY <1>2, <1>3, <1>4, <1>5 DEF ListOK
<1> QED BY <1>3, <1>6 DEF M

\* The place Timer_add looks for is there, and what is before it is not later.
LEMMA PlaceSpec ==
    ASSUME NEW L, L.tq \in Seq(Timer), L.left \in [Timer -> Int], Sorted(L.tq, L.left),
           NEW d \in Int
    PROVE  /\ Place(L, d) \in 1 .. Len(L.tq) + 1
           /\ \A i \in 1 .. Len(L.tq) : i < Place(L, d) => L.left[L.tq[i]] <= d
           /\ \A i \in 1 .. Len(L.tq) : i >= Place(L, d) => d <= L.left[L.tq[i]]
<1> DEFINE n == Len(L.tq)
           Fits(i) == /\ i <= Len(L.tq) => d < L.left[L.tq[i]]
                      /\ \A j \in 1 .. i - 1 : ~ (d < L.left[L.tq[j]])
           later == {i \in 1 .. n : d < L.left[L.tq[i]]}
<1>0. n \in Nat /\ \A i \in 1 .. n : L.left[L.tq[i]] \in Int
  OBVIOUS
<1>later. \A i : i \in later <=> i \in 1 .. n /\ d < L.left[L.tq[i]]
  OBVIOUS
<1> HIDE DEF later
<1>1. \E i \in 1 .. n + 1 : Fits(i)
  <2>1. CASE later = {}
    <3>1. n + 1 \in 1 .. n + 1 /\ (n + 1) - 1 = n /\ ~ (n + 1 <= n)
      BY <1>0
    <3>2. Fits(n + 1)
      BY <1>later, <2>1, <3>1
    <3> QED BY <3>1, <3>2
  <2>2. CASE later # {}
    <3>1. later \in SUBSET Nat
      BY <1>0, <1>later
    <3>2. PICK i \in later : \A j \in later : i <= j
      BY <2>2, <3>1, FirstOf
    <3>3. i \in 1 .. n + 1 /\ i \in 1 .. n /\ d < L.left[L.tq[i]]
      BY <1>0, <1>later, <3>2
    <3>4. \A j \in 1 .. i - 1 : j \in 1 .. n /\ ~ (i <= j)
      BY <1>0, <3>3
    <3>5. \A j \in 1 .. i - 1 : ~ (d < L.left[L.tq[j]])
      BY <1>later, <3>2, <3>4
    <3> QED BY <3>3, <3>5
  <2> QED BY <2>1, <2>2
<1> DEFINE p == Place(L, d)
<1>2. p \in 1 .. n + 1 /\ Fits(p)
  BY <1>1 DEF Place
<1> HIDE DEF p
<1>3. \A i \in 1 .. n : i < p => L.left[L.tq[i]] <= d
  BY <1>0, <1>2
<1>4. ASSUME NEW i \in 1 .. n, i >= p
      PROVE  d <= L.left[L.tq[i]]
  <2>1. p \in 1 .. n /\ p <= n /\ (p < i \/ p = i)
    BY <1>0, <1>2, <1>4
  <2>2. d < L.left[L.tq[p]]
    BY <1>2, <2>1
  <2>3. L.left[L.tq[p]] <= L.left[L.tq[i]]
    BY <1>0, <2>1 DEF Sorted
  <2>4. L.left[L.tq[p]] \in Int /\ L.left[L.tq[i]] \in Int
    BY <1>0, <2>1
  <2> QED BY <2>2, <2>3, <2>4
<1> QED BY <1>2, <1>3, <1>4 DEF p

\* A sequence with one more at place p, index by index.
LEMMA InsertSpec ==
    ASSUME NEW S, NEW seq \in Seq(S), NEW e \in S, NEW p \in 1 .. Len(seq) + 1
    PROVE  /\ InsertAt(seq, p, e) \in Seq(S)
           /\ Len(InsertAt(seq, p, e)) = Len(seq) + 1
           /\ \A i \in 1 .. p - 1 : InsertAt(seq, p, e)[i] = seq[i]
           /\ InsertAt(seq, p, e)[p] = e
           /\ \A i \in p + 1 .. Len(seq) + 1 : InsertAt(seq, p, e)[i] = seq[i - 1]
<1> DEFINE a == SubSeq(seq, 1, p - 1)
           b == <<e>>
           c == SubSeq(seq, p, Len(seq))
           n == Len(seq)
<1>0. n \in Nat /\ p \in Nat
  OBVIOUS
<1>1. a \in Seq(S) /\ Len(a) = p - 1 /\ \A i \in 1 .. p - 1 : a[i] = seq[i]
  BY SubSeqProperties
<1>2. c \in Seq(S) /\ Len(c) = n - p + 1 /\ \A i \in 1 .. n - p + 1 : c[i] = seq[p + i - 1]
  BY SubSeqProperties
<1>3. b \in Seq(S) /\ Len(b) = 1 /\ b[1] = e
  OBVIOUS
<1> HIDE DEF a, b, c
<1> DEFINE ab == a \o b
           abc == ab \o c
<1>4. /\ ab \in Seq(S) /\ Len(ab) = p
      /\ \A i \in 1 .. Len(a) + Len(b) : ab[i] = IF i <= Len(a) THEN a[i] ELSE b[i - Len(a)]
  <2>1. /\ ab \in Seq(S) /\ Len(ab) = Len(a) + Len(b)
        /\ \A i \in 1 .. Len(a) + Len(b) : ab[i] = IF i <= Len(a) THEN a[i] ELSE b[i - Len(a)]
    BY <1>1, <1>3, ConcatProperties
  <2> HIDE DEF ab
  <2>2. Len(ab) = p
    BY <1>0, <1>1, <1>3, <2>1
  <2> QED BY <2>1, <2>2
<1>5. \A i \in 1 .. p - 1 : ab[i] = seq[i]
  BY <1>0, <1>1, <1>3, <1>4
<1>6. ab[p] = e
  <2>1. p \in 1 .. Len(a) + Len(b) /\ ~ (p <= Len(a)) /\ p - Len(a) = 1
    BY <1>0, <1>1, <1>3
  <2> QED BY <1>3, <1>4, <2>1
<1> HIDE DEF ab
<1>7. /\ abc \in Seq(S) /\ Len(abc) = Len(ab) + Len(c)
      /\ \A i \in 1 .. Len(ab) + Len(c) :
            abc[i] = IF i <= Len(ab) THEN ab[i] ELSE c[i - Len(ab)]
  BY <1>2, <1>4, ConcatProperties
<1> HIDE DEF abc
<1>8. Len(abc) = n + 1
  BY <1>0, <1>2, <1>4, <1>7
<1>9. \A i \in 1 .. p : abc[i] = ab[i]
  BY <1>0, <1>2, <1>4, <1>7
<1>10. ASSUME NEW i \in p + 1 .. n + 1
       PROVE  abc[i] = seq[i - 1]
  <2>1. i \in 1 .. Len(ab) + Len(c) /\ ~ (i <= Len(ab)) /\ i - Len(ab) = i - p
    BY <1>0, <1>2, <1>4
  <2>2. i - p \in 1 .. n - p + 1 /\ p + (i - p) - 1 = i - 1
    BY <1>0
  <2>3. abc[i] = c[i - p]
    BY <1>7, <2>1
  <2> QED BY <1>2, <2>2, <2>3
<1>11. InsertAt(seq, p, e) = abc
  BY DEF InsertAt, a, b, c, ab, abc
<1>12. /\ \A i \in 1 .. p - 1 : abc[i] = seq[i]
       /\ abc[p] = e
  BY <1>0, <1>5, <1>6, <1>9
<1> QED BY <1>7, <1>8, <1>10, <1>11, <1>12

LEMMA AddOK ==
    ASSUME NEW L, ListOK(L), NEW t \in Timer, ~ L.used[t],
           NEW d \in Int, 0 <= d, d <= Interval[t]
    PROVE  /\ ListOK(Timer_add(L, t, d))
           /\ \A u \in Timer : Timer_add(L, t, d).used[u] <=> L.used[u] \/ u = t
<1> DEFINE M == Timer_add(L, t, d)
           p == Place(L, d)
           n == Len(L.tq)
<1>1. /\ M.tq = InsertAt(L.tq, p, t) /\ M.exp = L.exp
      /\ M.used = [L.used EXCEPT ![t] = TRUE] /\ M.left = [L.left EXCEPT ![t] = d]
  BY DEF Timer_add
<1>2. /\ p \in 1 .. n + 1 /\ n \in Nat
      /\ \A i \in 1 .. n : i < p => L.left[L.tq[i]] <= d
      /\ \A i \in 1 .. n : i >= p => d <= L.left[L.tq[i]]
  <2>1. L.tq \in Seq(Timer) /\ L.left \in [Timer -> Int] /\ Sorted(L.tq, L.left)
    BY DEF ListOK
  <2>2. n \in Nat
    BY <2>1
  <2> QED BY <2>1, <2>2, PlaceSpec
<1> HIDE DEF M, p
<1>3. /\ M.tq \in Seq(Timer) /\ Len(M.tq) = n + 1
      /\ \A i \in 1 .. p - 1 : M.tq[i] = L.tq[i]
      /\ M.tq[p] = t
      /\ \A i \in p + 1 .. n + 1 : M.tq[i] = L.tq[i - 1]
  <2> DEFINE seq == L.tq
             ins == InsertAt(seq, p, t)
  <2>1. seq \in Seq(Timer) /\ p \in 1 .. Len(seq) + 1
    BY <1>2 DEF ListOK
  <2> HIDE DEF seq
  <2>2. /\ ins \in Seq(Timer) /\ Len(ins) = Len(seq) + 1
        /\ \A i \in 1 .. p - 1 : ins[i] = seq[i]
        /\ ins[p] = t
        /\ \A i \in p + 1 .. Len(seq) + 1 : ins[i] = seq[i - 1]
    BY <2>1, InsertSpec
  <2> HIDE DEF ins
  <2> QED BY <1>1, <2>2 DEF seq, ins
<1>4. ~ In(t, L.tq) /\ ~ In(t, L.exp)
  BY DEF ListOK
<1>5. \A u : In(u, M.tq) <=> In(u, L.tq) \/ u = t
  <2> SUFFICES ASSUME NEW u PROVE In(u, M.tq) <=> In(u, L.tq) \/ u = t
    OBVIOUS
  <2>0. n \in Int /\ p \in Int /\ p >= 1 /\ p <= n + 1
    BY <1>2
  <2>1. ASSUME NEW i \in 1 .. n + 1, M.tq[i] = u
        PROVE  In(u, L.tq) \/ u = t
    <3>1. CASE i \in 1 .. p - 1
      <4>1. i \in 1 .. n
        BY <2>0, <3>1
      <4> QED BY <1>3, <2>1, <3>1, <4>1 DEF In
    <3>2. CASE i = p
      BY <1>3, <2>1, <3>2
    <3>3. CASE i \in p + 1 .. n + 1
      <4>1. i - 1 \in 1 .. n
        BY <2>0, <3>3
      <4> QED BY <1>3, <2>1, <3>3, <4>1 DEF In
    <3> QED BY <2>0, <3>1, <3>2, <3>3
  <2>2. ASSUME NEW i \in 1 .. n, L.tq[i] = u
        PROVE  In(u, M.tq)
    <3>1. CASE i < p
      <4>1. i \in 1 .. p - 1 /\ i \in 1 .. n + 1
        BY <2>0, <3>1
      <4> QED BY <1>3, <2>2, <4>1 DEF In
    <3>2. CASE i >= p
      <4>1. i + 1 \in p + 1 .. n + 1 /\ i + 1 \in 1 .. n + 1 /\ (i + 1) - 1 = i
        BY <2>0, <3>2
      <4> QED BY <1>3, <2>2, <4>1 DEF In
    <3> QED BY <2>0, <3>1, <3>2
  <2>3. In(t, M.tq)
    <3>1. p \in 1 .. n + 1
      BY <2>0
    <3> QED BY <1>3, <3>1 DEF In
  <2>4. In(u, M.tq) => \E i \in 1 .. n + 1 : M.tq[i] = u
    BY <1>3 DEF In
  <2>5. In(u, L.tq) => \E i \in 1 .. n : L.tq[i] = u
    BY DEF In
  <2> QED BY <2>1, <2>2, <2>3, <2>4, <2>5
<1>6. Distinct(M.tq)
  <2>1. \A i \in 1 .. n : L.tq[i] # t
    BY <1>4 DEF In
  <2>2. \A i, j \in 1 .. n : L.tq[i] = L.tq[j] => i = j
    BY DEF ListOK, Distinct
  <2>3. \A i, j \in 1 .. n + 1 : i < j => M.tq[i] # M.tq[j]
    <3> SUFFICES ASSUME NEW i \in 1 .. n + 1, NEW j \in 1 .. n + 1, i < j
                 PROVE  M.tq[i] # M.tq[j]
      OBVIOUS
    <3>0. i \in Int /\ j \in Int /\ p \in Int /\ n \in Int
      BY <1>2
    <3>1. CASE j < p
      <4>1. /\ i \in 1 .. n /\ j \in 1 .. n /\ i # j
            /\ i \in 1 .. p - 1 /\ j \in 1 .. p - 1
        BY <1>2, <3>0, <3>1
      <4> QED BY <1>3, <2>2, <4>1
    <3>2. CASE j = p
      <4>1. i \in 1 .. n /\ i \in 1 .. p - 1
        BY <1>2, <3>0, <3>2
      <4> QED BY <1>3, <2>1, <3>2, <4>1
    <3>3. CASE j > p /\ i = p
      <4>1. j - 1 \in 1 .. n /\ j \in p + 1 .. n + 1
        BY <1>2, <3>0, <3>3
      <4> QED BY <1>3, <2>1, <3>3, <4>1
    <3>4. CASE j > p /\ i < p
      <4>1. /\ i \in 1 .. n /\ j - 1 \in 1 .. n /\ i # j - 1
            /\ i \in 1 .. p - 1 /\ j \in p + 1 .. n + 1
        BY <1>2, <3>0, <3>4
      <4> QED BY <1>3, <2>2, <4>1
    <3>5. CASE j > p /\ i > p
      <4>1. /\ i - 1 \in 1 .. n /\ j - 1 \in 1 .. n /\ i - 1 # j - 1
            /\ i \in p + 1 .. n + 1 /\ j \in p + 1 .. n + 1
        BY <1>2, <3>0, <3>5
      <4> QED BY <1>3, <2>2, <4>1
    <3> QED BY <3>0, <3>1, <3>2, <3>3, <3>4, <3>5
  <2>4. \A i, j \in 1 .. n + 1 : i < j \/ j < i \/ i = j
    OBVIOUS
  <2> QED BY <1>3, <2>3, <2>4 DEF Distinct
<1>7. M.left \in [Timer -> Int] /\ M.left[t] = d
      /\ \A u \in Timer : u # t => M.left[u] = L.left[u]
  BY <1>1 DEF ListOK
<1>8. Sorted(M.tq, M.left)
  <2>1. \A i \in 1 .. n : L.tq[i] # t /\ L.tq[i] \in Timer /\ L.left[L.tq[i]] \in Int
    BY <1>4 DEF In, ListOK
  <2>2. \A i \in 1 .. n + 1 :
           M.left[M.tq[i]] = IF i < p THEN L.left[L.tq[i]] ELSE
                             IF i = p THEN d ELSE L.left[L.tq[i - 1]]
    <3> SUFFICES ASSUME NEW i \in 1 .. n + 1
                 PROVE  M.left[M.tq[i]] = IF i < p THEN L.left[L.tq[i]] ELSE
                                          IF i = p THEN d ELSE L.left[L.tq[i - 1]]
      OBVIOUS
    <3>0. i \in Int /\ p \in Int /\ n \in Int
      BY <1>2
    <3>1. CASE i < p
      <4>1. i \in 1 .. n /\ i \in 1 .. p - 1
        BY <1>2, <3>0, <3>1
      <4> QED BY <1>3, <1>7, <2>1, <3>1, <4>1
    <3>2. CASE i = p
      BY <1>3, <1>7, <3>0, <3>2
    <3>3. CASE i > p
      <4>1. i - 1 \in 1 .. n /\ i \in p + 1 .. n + 1 /\ i # p /\ ~ (i < p)
        BY <1>2, <3>0, <3>3
      <4> QED BY <1>3, <1>7, <2>1, <4>1
    <3> QED BY <3>0, <3>1, <3>2, <3>3
  <2>3. \A i, j \in 1 .. n : i < j => L.left[L.tq[i]] <= L.left[L.tq[j]]
    BY DEF ListOK, Sorted
  <2> SUFFICES ASSUME NEW i \in 1 .. n + 1, NEW j \in 1 .. n + 1, i < j
               PROVE  M.left[M.tq[i]] <= M.left[M.tq[j]]
    BY <1>3 DEF Sorted
  <2>0. i \in Int /\ j \in Int /\ p \in Int /\ n \in Int
    BY <1>2
  <2>4. CASE j < p
    <3>1. i < p /\ i \in 1 .. n /\ j \in 1 .. n
      BY <1>2, <2>0, <2>4
    <3>2. M.left[M.tq[i]] = L.left[L.tq[i]] /\ M.left[M.tq[j]] = L.left[L.tq[j]]
      BY <2>2, <2>4, <3>1
    <3> QED BY <2>3, <3>1, <3>2
  <2>5. CASE j = p
    <3>1. i < p /\ i \in 1 .. n
      BY <1>2, <2>0, <2>5
    <3>2. M.left[M.tq[i]] = L.left[L.tq[i]] /\ M.left[M.tq[j]] = d
      BY <2>0, <2>2, <2>5, <3>1
    <3> QED BY <1>2, <3>1, <3>2
  <2>6. CASE j > p /\ i = p
    <3>1. j - 1 \in 1 .. n /\ j - 1 >= p /\ ~ (j < p) /\ j # p
      BY <1>2, <2>0, <2>6
    <3>2. M.left[M.tq[i]] = d /\ M.left[M.tq[j]] = L.left[L.tq[j - 1]]
      BY <2>0, <2>2, <2>6, <3>1
    <3> QED BY <1>2, <3>1, <3>2
  <2>7. CASE j > p /\ i < p
    <3>1. i \in 1 .. n /\ j - 1 \in 1 .. n /\ j - 1 >= p
      BY <1>2, <2>7
    <3>2. L.left[L.tq[i]] <= d /\ d <= L.left[L.tq[j - 1]]
      BY <1>2, <2>7, <3>1
    <3>3. L.left[L.tq[i]] \in Int /\ L.left[L.tq[j - 1]] \in Int
      BY <2>1, <3>1
    <3>4. i \in Int /\ j \in Int /\ p \in Int
      BY <1>2
    <3>5. M.left[M.tq[i]] = L.left[L.tq[i]] /\ M.left[M.tq[j]] = L.left[L.tq[j - 1]]
      BY <2>2, <2>7, <3>4
    <3>6. L.left[L.tq[i]] <= L.left[L.tq[j - 1]]
      BY <3>2, <3>3
    <3> QED BY <3>5, <3>6
  <2>8. CASE j > p /\ i > p
    <3>1. i - 1 \in 1 .. n /\ j - 1 \in 1 .. n /\ i - 1 < j - 1
      BY <1>2, <2>8
    <3>2. i \in Int /\ j \in Int /\ p \in Int
      BY <1>2
    <3>3. /\ M.left[M.tq[i]] = L.left[L.tq[i - 1]]
          /\ M.left[M.tq[j]] = L.left[L.tq[j - 1]]
      BY <2>2, <2>8, <3>2
    <3> QED BY <2>3, <3>1, <3>3
  <2> QED BY <1>2, <2>4, <2>5, <2>6, <2>7, <2>8
<1>9. M.used \in [Timer -> BOOLEAN] /\ \A u \in Timer : M.used[u] <=> L.used[u] \/ u = t
  BY <1>1 DEF ListOK
<1>10. \A u \in Timer : 0 <= M.left[u] /\ M.left[u] <= Interval[u]
  BY <1>7 DEF ListOK
<1>11. ListOK(M)
  BY <1>1, <1>3, <1>4, <1>5, <1>6, <1>7, <1>8, <1>9, <1>10 DEF ListOK
<1> QED BY <1>9, <1>11 DEF M

LEMMA SetOK ==
    ASSUME NEW L, ListOK(L), NEW t \in Timer
    PROVE  /\ ListOK(Timer_set_timeout(L, t))
           /\ \A u \in Timer : Timer_set_timeout(L, t).used[u] <=> L.used[u] \/ u = t
<1> DEFINE M == Timer_remove(L, {t})
<1>1. ListOK(M) /\ \A u \in Timer : M.used[u] <=> L.used[u] /\ u # t
  BY RemoveOK
<1>2. Interval[t] \in Int /\ 0 <= Interval[t] /\ Interval[t] <= Interval[t]
  BY IntervalAssumption
<1> HIDE DEF M
<1>3. /\ ListOK(Timer_add(M, t, Interval[t]))
      /\ \A u \in Timer : Timer_add(M, t, Interval[t]).used[u] <=> M.used[u] \/ u = t
  BY <1>1, <1>2, AddOK
<1> QED BY <1>1, <1>3 DEF Timer_set_timeout, M

\* The timers Timer_timeout takes out are those with no time left.
LEMMA ExpiredSpec ==
    ASSUME NEW L, L.tq \in Seq(Timer), L.left \in [Timer -> Int]
    PROVE  /\ Expired(L) \in 0 .. Len(L.tq)
           /\ \A i \in 1 .. Expired(L) : L.left[L.tq[i]] <= 0
<1> DEFINE n == Len(L.tq)
           Stops(k) == /\ \A i \in 1 .. k : L.left[L.tq[i]] <= 0
                       /\ k < n => L.left[L.tq[k + 1]] > 0
           more == {i \in 1 .. n : L.left[L.tq[i]] > 0}
<1>0. n \in Nat /\ \A i \in 1 .. n : L.left[L.tq[i]] \in Int
  OBVIOUS
<1>more. \A i : i \in more <=> i \in 1 .. n /\ L.left[L.tq[i]] > 0
  OBVIOUS
<1> HIDE DEF more
<1>1. \E k \in 0 .. n : Stops(k)
  <2>1. CASE more = {}
    <3>1. n \in 0 .. n /\ ~ (n < n)
      BY <1>0
    <3>2. \A i \in 1 .. n : L.left[L.tq[i]] <= 0
      BY <1>0, <1>more, <2>1
    <3> QED BY <3>1, <3>2
  <2>2. CASE more # {}
    <3>1. more \in SUBSET Nat
      BY <1>0, <1>more
    <3>2. PICK i \in more : \A j \in more : i <= j
      BY <2>2, <3>1, FirstOf
    <3>3. i \in 1 .. n /\ L.left[L.tq[i]] > 0
      BY <1>more, <3>2
    <3>6. i - 1 \in 0 .. n /\ (i - 1) + 1 = i
      BY <1>0, <3>3
    <3>7. \A j \in 1 .. i - 1 : j \in 1 .. n /\ ~ (i <= j)
      BY <1>0, <3>3
    <3>4. \A j \in 1 .. i - 1 : L.left[L.tq[j]] <= 0
      BY <1>0, <1>more, <3>2, <3>7
    <3>5. Stops(i - 1)
      BY <3>3, <3>4, <3>6
    <3> QED BY <3>5, <3>6
  <2> QED BY <2>1, <2>2
<1> QED BY <1>1 DEF Expired

LEMMA MovedOK ==
    ASSUME NEW L, ListOK(L), L.exp = <<>>
    PROVE  ListOK(Moved(L))
<1> DEFINE M == Moved(L)
           k == Expired(L)
           n == Len(L.tq)
<1>1. /\ M.tq = SubSeq(L.tq, k + 1, n) /\ M.exp = SubSeq(L.tq, 1, k)
      /\ M.used = L.used /\ M.left = L.left
  BY DEF Moved
<1>2. L.tq \in Seq(Timer) /\ n \in Nat /\ \A i \in 1 .. n : L.tq[i] \in Timer
  BY DEF ListOK
<1>3. k \in 0 .. n
  BY ExpiredSpec DEF ListOK
<1> HIDE DEF M, k
<1>4. /\ M.tq \in Seq(Timer) /\ Len(M.tq) = n - k
      /\ \A i \in 1 .. n - k : M.tq[i] = L.tq[k + i]
  <2>1. k + 1 \in Int /\ n \in Int /\ \A i \in k + 1 .. n : L.tq[i] \in Timer
    BY <1>2, <1>3
  <2>2. n - (k + 1) + 1 = n - k /\ \A i \in Int : (k + 1) + i - 1 = k + i
    BY <1>2, <1>3
  <2>3. /\ M.tq \in Seq(Timer)
        /\ Len(M.tq) = IF k + 1 <= n THEN n - (k + 1) + 1 ELSE 0
        /\ \A i \in 1 .. n - (k + 1) + 1 : M.tq[i] = L.tq[(k + 1) + i - 1]
    BY <1>1, <2>1, SubSeqProperties
  <2>4. Len(M.tq) = n - k
    BY <1>2, <1>3, <2>3
  <2>5. \A i \in 1 .. n - k : i \in Int
    OBVIOUS
  <2> QED BY <2>2, <2>3, <2>4, <2>5
<1>5. /\ M.exp \in Seq(Timer) /\ Len(M.exp) = k
      /\ \A i \in 1 .. k : M.exp[i] = L.tq[i]
  <2>1. k \in Int /\ \A i \in 1 .. k : L.tq[i] \in Timer
    BY <1>2, <1>3
  <2> QED BY <1>1, <1>3, <2>1, SubSeqProperties
<1>6. \A i, j \in 1 .. n : L.tq[i] = L.tq[j] => i = j
  BY DEF ListOK, Distinct
<1>7. Distinct(M.tq)
  <2>1. \A i \in 1 .. n - k : k + i \in 1 .. n
    BY <1>2, <1>3
  <2>2. \A i, j \in 1 .. n - k : k + i = k + j => i = j
    BY <1>2, <1>3
  <2> QED BY <1>4, <1>6, <2>1, <2>2 DEF Distinct
<1>8. Distinct(M.exp)
  <2>1. \A i \in 1 .. k : i \in 1 .. n
    BY <1>2, <1>3
  <2> QED BY <1>5, <1>6, <2>1 DEF Distinct
<1>9. \A t \in Timer : In(t, L.tq) <=> In(t, M.tq) \/ In(t, M.exp)
  <2> SUFFICES ASSUME NEW t \in Timer
               PROVE  In(t, L.tq) <=> In(t, M.tq) \/ In(t, M.exp)
    OBVIOUS
  <2>1. ASSUME NEW i \in 1 .. n, L.tq[i] = t PROVE In(t, M.tq) \/ In(t, M.exp)
    <3>1. CASE i <= k
      <4>1. i \in 1 .. k
        BY <1>3, <3>1
      <4> QED BY <1>5, <2>1, <4>1 DEF In
    <3>2. CASE i > k
      <4>1. i - k \in 1 .. n - k /\ k + (i - k) = i
        BY <1>2, <1>3, <3>2
      <4>2. M.tq[i - k] = t
        BY <1>4, <2>1, <4>1
      <4> QED BY <1>4, <4>1, <4>2 DEF In
    <3> QED BY <1>3, <3>1, <3>2
  <2>2. ASSUME NEW i \in 1 .. n - k, M.tq[i] = t PROVE In(t, L.tq)
    <3>1. k + i \in 1 .. n
      BY <1>2, <1>3
    <3> QED BY <1>4, <2>2, <3>1 DEF In
  <2>3. ASSUME NEW i \in 1 .. k, M.exp[i] = t PROVE In(t, L.tq)
    <3>1. i \in 1 .. n
      BY <1>2, <1>3
    <3> QED BY <1>5, <2>3, <3>1 DEF In
  <2> QED BY <1>4, <1>5, <2>1, <2>2, <2>3 DEF In
<1>10. \A t \in Timer : ~ (In(t, M.tq) /\ In(t, M.exp))
  <2> SUFFICES ASSUME NEW i \in 1 .. n - k, NEW j \in 1 .. k, M.tq[i] = M.exp[j]
               PROVE  FALSE
    BY <1>4, <1>5 DEF In
  <2>1. k + i \in 1 .. n /\ j \in 1 .. n /\ k + i # j
    BY <1>2, <1>3
  <2> QED BY <1>4, <1>5, <1>6, <2>1
<1>11. Sorted(M.tq, M.left)
  <2>1. \A i \in 1 .. n - k : k + i \in 1 .. n
    BY <1>2, <1>3
  <2>2. \A i, j \in 1 .. n - k : i < j => k + i < k + j
    BY <1>2, <1>3
  <2>3. \A i, j \in 1 .. n : i < j => L.left[L.tq[i]] <= L.left[L.tq[j]]
    BY DEF ListOK, Sorted
  <2>4. \A i, j \in 1 .. n - k : i < j => L.left[L.tq[k + i]] <= L.left[L.tq[k + j]]
    BY <2>1, <2>2, <2>3
  <2>5. \A i \in 1 .. n - k : M.left[M.tq[i]] = L.left[L.tq[k + i]]
    BY <1>1, <1>4
  <2>6. 1 .. Len(M.tq) = 1 .. n - k
    BY <1>4
  <2> SUFFICES ASSUME NEW i \in 1 .. n - k, NEW j \in 1 .. n - k, i < j
               PROVE  M.left[M.tq[i]] <= M.left[M.tq[j]]
    BY <2>6 DEF Sorted
  <2> QED BY <2>4, <2>5
<1>12. \A t : ~ In(t, L.exp)
  BY DEF In
<1>13. \A t \in Timer : M.used[t] <=> In(t, M.tq) \/ In(t, M.exp)
  BY <1>1, <1>9, <1>12 DEF ListOK
<1>14. ListOK(M)
  BY <1>1, <1>4, <1>5, <1>7, <1>8, <1>10, <1>11, <1>13 DEF ListOK
<1> QED BY <1>14 DEF M

LEMMA OlderOK ==
    ASSUME NEW L, ListOK(L), L.exp = <<>>, L.tq # <<>>, L.left[Head(L.tq)] > 0
    PROVE  ListOK(Older(L))
<1> DEFINE M == Older(L)
           n == Len(L.tq)
<1>1. /\ M.tq = L.tq /\ M.exp = L.exp /\ M.used = L.used
      /\ M.left = [t \in Timer |-> IF L.used[t] THEN L.left[t] - 1 ELSE L.left[t]]
  BY DEF Older
<1> HIDE DEF M
<1>2. /\ L.tq \in Seq(Timer) /\ n \in Nat /\ n >= 1 /\ Head(L.tq) = L.tq[1]
      /\ \A i \in 1 .. n : L.tq[i] \in Timer
  BY DEF ListOK
<1>3. L.left \in [Timer -> Int] /\ M.left \in [Timer -> Int]
  BY <1>1 DEF ListOK
<1>4. \A i \in 1 .. n : L.left[L.tq[1]] <= L.left[L.tq[i]]
  <2>1. \A i, j \in 1 .. n : i < j => L.left[L.tq[i]] <= L.left[L.tq[j]]
    BY DEF ListOK, Sorted
  <2>2. 1 \in 1 .. n /\ L.left[L.tq[1]] \in Int
    BY <1>2, <1>3
  <2>3. \A i \in 1 .. n : i = 1 \/ 1 < i
    BY <1>2
  <2> QED BY <2>1, <2>2, <2>3
<1>5. \A t \in Timer : L.used[t] => L.left[t] > 0
  <2>1. \A t \in Timer : L.used[t] => \E i \in 1 .. n : L.tq[i] = t
    BY DEF ListOK, In
  <2>2. \A i \in 1 .. n : L.left[L.tq[i]] > 0
    BY <1>2, <1>3, <1>4
  <2> QED BY <2>1, <2>2
<1>6. \A t \in Timer : 0 <= M.left[t] /\ M.left[t] <= Interval[t]
  BY <1>1, <1>3, <1>5, IntervalAssumption DEF ListOK
<1>7. Sorted(M.tq, M.left)
  <2>1. \A i \in 1 .. n : M.left[L.tq[i]] = L.left[L.tq[i]] - 1
    <3>1. \A i \in 1 .. n : L.used[L.tq[i]]
      BY <1>2 DEF ListOK, In
    <3> QED BY <1>1, <1>2, <3>1
  <2>2. \A i \in 1 .. n : L.left[L.tq[i]] \in Int
    BY <1>2, <1>3
  <2>3. \A i, j \in 1 .. n : i < j => L.left[L.tq[i]] <= L.left[L.tq[j]]
    BY DEF ListOK, Sorted
  <2> QED BY <1>1, <2>1, <2>2, <2>3 DEF Sorted
<1>8. ListOK(M)
  BY <1>1, <1>3, <1>6, <1>7 DEF ListOK
<1> QED BY <1>8 DEF M
-----------------------------------------------------------------------------
\* TypeOK and OnTime as one invariant.
ListInv ==
    /\ ListOK(timers)
    /\ handlers \subseteq Timer /\ timer_cnt \in Nat
    /\ <<config_end, main_state, RootNode, exited, late_end>> \in
          BOOLEAN \X BOOLEAN \X BOOLEAN \X BOOLEAN \X BOOLEAN
    /\ tmp_preq \subseteq Slot /\ cut \subseteq Slot
    /\ chosen \in {0, 1, 3} /\ stimuli \in 0 .. MaxStimulus

LEMMA ListInvTypes == ListInv => TypeOK /\ OnTime
<1> SUFFICES ASSUME ListInv PROVE TypeOK /\ OnTime
  OBVIOUS
<1> DEFINE tq == timers.tq
           exp == timers.exp
           both == tq \o exp
<1>1. /\ tq \in Seq(Timer) /\ exp \in Seq(Timer)
      /\ timers.used \in [Timer -> BOOLEAN] /\ timers.left \in [Timer -> Int]
      /\ Distinct(tq) /\ Distinct(exp)
      /\ \A t \in Timer : timers.used[t] <=> In(t, tq) \/ In(t, exp)
      /\ \A t \in Timer : ~ (In(t, tq) /\ In(t, exp))
      /\ Sorted(tq, timers.left)
      /\ \A t \in Timer : 0 <= timers.left[t] /\ timers.left[t] <= Interval[t]
  BY DEF ListInv, ListOK
<1> HIDE DEF tq, exp
<1>2. Len(tq) \in Nat /\ Len(exp) \in Nat
  BY <1>1
<1>3. ToSet(tq) \cup ToSet(exp) = {t \in Timer : timers.used[t]}
  <2>1. \A t : t \in ToSet(tq) <=> t \in Timer /\ In(t, tq)
    BY <1>1 DEF ToSet, In
  <2>2. \A t : t \in ToSet(exp) <=> t \in Timer /\ In(t, exp)
    BY <1>1 DEF ToSet, In
  <2> QED BY <1>1, <2>1, <2>2
<1>4. IsInjective(both)
  <2>1. /\ both \in Seq(Timer) /\ Len(both) = Len(tq) + Len(exp)
        /\ \A i \in 1 .. Len(tq) + Len(exp) :
              both[i] = IF i <= Len(tq) THEN tq[i] ELSE exp[i - Len(tq)]
    BY <1>1, ConcatProperties
  <2> HIDE DEF both
  <2>2. \A i, j \in 1 .. Len(tq) + Len(exp) : both[i] = both[j] => i = j
    <3> SUFFICES ASSUME NEW i \in 1 .. Len(tq) + Len(exp), NEW j \in 1 .. Len(tq) + Len(exp),
                        both[i] = both[j]
                 PROVE  i = j
      OBVIOUS
    <3>1. CASE i <= Len(tq) /\ j <= Len(tq)
      <4>1. i \in 1 .. Len(tq) /\ j \in 1 .. Len(tq) /\ tq[i] = tq[j]
        BY <1>2, <2>1, <3>1
      <4> QED BY <1>1, <4>1 DEF Distinct
    <3>2. CASE i > Len(tq) /\ j > Len(tq)
      <4>1. i - Len(tq) \in 1 .. Len(exp) /\ j - Len(tq) \in 1 .. Len(exp)
        BY <1>2, <3>2
      <4>2. exp[i - Len(tq)] = exp[j - Len(tq)]
        BY <1>2, <2>1, <3>2
      <4>3. i - Len(tq) = j - Len(tq)
        BY <1>1, <4>1, <4>2 DEF Distinct
      <4> QED BY <1>2, <4>3
    <3>3. \A k, l \in 1 .. Len(tq) + Len(exp) :
             k <= Len(tq) /\ l > Len(tq) => both[k] # both[l]
      <4> SUFFICES ASSUME NEW k \in 1 .. Len(tq) + Len(exp), NEW l \in 1 .. Len(tq) + Len(exp),
                          k <= Len(tq), l > Len(tq)
                   PROVE  both[k] # both[l]
        OBVIOUS
      <4>1. k \in 1 .. Len(tq) /\ l - Len(tq) \in 1 .. Len(exp)
        BY <1>2
      <4>2. both[k] = tq[k] /\ both[l] = exp[l - Len(tq)]
        BY <1>2, <2>1
      <4>3. tq[k] \in Timer /\ In(tq[k], tq)
        BY <1>1, <4>1 DEF In
      <4>4. In(exp[l - Len(tq)], exp)
        BY <4>1 DEF In
      <4> QED BY <1>1, <4>2, <4>3, <4>4
    <3> QED BY <1>2, <3>1, <3>2, <3>3
  <2> QED BY <2>1, <2>2 DEF IsInjective
<1>5. \A i, j \in 1 .. Len(tq) : i < j => timers.left[tq[i]] <= timers.left[tq[j]]
  BY <1>1 DEF Sorted
<1>6. OnTime
  BY <1>1 DEF OnTime
<1> QED BY <1>1, <1>3, <1>4, <1>5, <1>6 DEF TypeOK, ListInv, tq, exp

LEMMA ListInvInit == Init => ListInv
<1> SUFFICES ASSUME Init PROVE ListInv
  OBVIOUS
<1>1. /\ timers.tq = <<>> /\ timers.exp = <<>>
      /\ timers.used = [t \in Timer |-> FALSE] /\ timers.left = [t \in Timer |-> 0]
  BY DEF Init
<1>2. ListOK(timers)
  BY <1>1, IntervalAssumption DEF ListOK, Distinct, Sorted, In
<1>3. 0 \in 0 .. MaxStimulus
  BY LimitAssumption
<1>4. /\ handlers = {} /\ timer_cnt = 0 /\ ~ config_end /\ main_state /\ RootNode \in BOOLEAN
      /\ tmp_preq = {} /\ ~ exited /\ cut = {} /\ ~ late_end /\ chosen = 1 /\ stimuli = 0
      /\ <<config_end, main_state, RootNode, exited, late_end>> \in
            BOOLEAN \X BOOLEAN \X BOOLEAN \X BOOLEAN \X BOOLEAN
  BY DEF Init
<1> QED BY <1>2, <1>3, <1>4 DEF ListInv

\* A step keeps the invariant if the list it leaves is in order and the counts
\* and histories it changes keep their types.
LEMMA ListStep ==
    ASSUME ListInv, ListOK(timers'), handlers' \subseteq Timer, timer_cnt' \in Nat,
           config_end' \in BOOLEAN, late_end' \in BOOLEAN,
           tmp_preq' \subseteq Slot, cut' \subseteq Slot,
           main_state' \in BOOLEAN, RootNode' = RootNode, exited' \in BOOLEAN,
           chosen' \in {0, 1, 3}, stimuli' \in 0 .. MaxStimulus
    PROVE  ListInv'
BY DEF ListInv

LEMMA ListCalls ==
    ASSUME ListInv, NEW th \in {"loop", "menu"}, ThreadStep(th)
    PROVE  ListInv'
<1> USE DEF control, counts, replies
<1>0. ListOK(timers) /\ Named \subseteq Timer /\ Slot \subseteq Timer /\ Periodic \subseteq Named
  BY DEF ListInv, Timer, Named
<1>1. ASSUME NEW t \in Timer PROVE ListOK(Timer_set_timeout(timers, t))
  BY <1>0, SetOK
<1>2. ASSUME NEW T PROVE ListOK(Timer_remove(timers, T))
  BY <1>0, RemoveOK
<1>3. ASSUME NEW name, NEW t \in Timer, RestartCount(th, name, t) PROVE ListInv'
  BY <1>3, <1>2 DEF RestartCount, ListInv
<1>4. ASSUME NEW name, NEW T \in SUBSET Timer, NEW calls, Start(th, name, T, calls)
      PROVE  ListInv'
  BY <1>4 DEF Start, ListInv
<1>5. CASE Hello_start(th) \/ SCH_Hello_start(th)
  BY <1>0, <1>3, <1>5 DEF Hello_start, SCH_Hello_start, Named
<1>6. CASE Hello_timeout_start(th)
  BY <1>0, <1>4, <1>6 DEF Hello_timeout_start, Named
<1>7. CASE alm_start(th)
  BY <1>0, <1>4, <1>7 DEF alm_start, Named, Periodic
<1>8. CASE Rann_start(th)
  BY <1>0, <1>4, <1>8 DEF Rann_start, Named, Periodic
<1>9. CASE API_reset_timer_start(th) \/ API_reset_process(th)
  BY <1>0, <1>9 DEF API_reset_timer_start, API_reset_process, ListInv, Named
<1>10. CASE Hello_send(th)
  BY <1>0, <1>1, <1>10 DEF Hello_send, ListInv, Named
<1>11. CASE Hello_end(th)
  BY <1>0, <1>2, <1>11 DEF Hello_end, ListInv, Named, Periodic, HelloGoesOnAt
<1>12. CASE SCH_Hello_send(th)
  BY <1>0, <1>1, <1>12 DEF SCH_Hello_send, ListInv, Named
<1>13. CASE Hello_timeout_process(th)
  BY <1>0, <1>1, <1>13 DEF Hello_timeout_process, Empties, ListInv, Named
<1>14. ASSUME NEW t \in Periodic, Rearms(th, t) PROVE ListInv'
  BY <1>0, <1>1, <1>14 DEF Rearms, ListInv
<1>15. ASSUME NEW s \in Slot, Prep_send(th, s) PROVE ListInv'
  BY <1>15 DEF Prep_send, Empties, ListInv
<1>16. CASE Timer_Reset(th)
  BY <1>2, <1>16 DEF Timer_Reset, ListInv
<1>17. CASE rt_table_empty(th)
  BY <1>17 DEF rt_table_empty, Empties, ListInv
<1> QED BY <1>5, <1>6, <1>7, <1>8, <1>9, <1>10, <1>11, <1>12, <1>13, <1>14, <1>15, <1>16,
           <1>17 DEF ThreadStep

LEMMA ListInvNext == ListInv /\ [Next]_vars => ListInv'
<1> SUFFICES ASSUME ListInv, [Next]_vars PROVE ListInv'
  OBVIOUS
<1> USE DEF control, counts, replies
<1>0. ListOK(timers) /\ stimuli \in 0 .. MaxStimulus /\ MaxStimulus \in Nat
  BY LimitAssumption DEF ListInv
<1>1. ASSUME NEW t \in Timer PROVE ListOK(Timer_set_timeout(timers, t))
  BY <1>0, SetOK
<1>2. ASSUME NEW th \in {"loop", "menu"}, ThreadStep(th) PROVE ListInv'
  BY <1>2, ListCalls
<1>3. CASE Timer_timeout
  <2>1. ListOK(timers')
    BY <1>0, <1>3, MovedOK DEF Timer_timeout, Idle
  <2> QED BY <1>3, <2>1 DEF Timer_timeout, ListInv
<1>4. CASE CallHandler
  <2>1. ListOK(timers')
    BY <1>0, <1>4, RemoveOK DEF CallHandler
  <2> QED BY <1>4, <2>1 DEF CallHandler, ListInv
<1>5. CASE Tick
  <2>1. ListOK(timers')
    BY <1>0, <1>5, OlderOK DEF Tick, Idle
  <2> QED BY <1>5, <2>1 DEF Tick, ListInv
<1>6. ASSUME Stimulus PROVE stimuli' \in 0 .. MaxStimulus
  BY <1>0, <1>6 DEF Stimulus
<1>7. ASSUME NEW choice \in {0, 1, 3}, Menu(choice) PROVE ListInv'
  BY <1>6, <1>7 DEF Menu, ListInv
<1>8. ASSUME NEW s \in Slot, DeleteEntry(s) PROVE ListInv'
  BY <1>6, <1>8 DEF DeleteEntry, Empties, ListInv
<1>9. ASSUME NEW s \in Slot, Preq_process(s) PROVE ListInv'
  <2>1. ListOK(timers') /\ s \in Timer
    BY <1>0, <1>1, <1>9 DEF Preq_process, Timer
  <2> QED BY <1>6, <1>9, <2>1 DEF Preq_process, ListInv
<1>10. ASSUME NEW t \in Named, Arms(t) PROVE ListInv'
  <2>1. ListOK(timers')
    BY <1>0, <1>1, <1>10 DEF Arms, Timer
  <2> QED BY <1>6, <1>10, <2>1 DEF Arms, ListInv
<1>11. CASE Rann_process \/ nms_control_msg_process
  BY <1>10, <1>11 DEF Rann_process, nms_control_msg_process, Named, Periodic
<1>12. CASE UNCHANGED vars
  BY <1>12 DEF vars, ListInv
<1> QED BY <1>2, <1>3, <1>4, <1>5, <1>7, <1>8, <1>9, <1>11, <1>12 DEF Next

\* However many timers, calls, menus and messages there are, and in whatever order
\* the threads make them: a used timer is in one of the two lists, once, the list
\* of those that wait is sorted by the time left, and none has more than its
\* interval.
THEOREM ListsInOrder == Spec => []TypeOK
BY ListInvTypes, ListInvInit, ListInvNext, PTL DEF Spec

\* Timer_timeout looks at the head of TQ only, and yet no timer is overdue while the
\* loop waits for one: nothing in the list has less time than its head.
THEOREM NeverOverdue == Spec => []OnTime
BY ListInvTypes, ListInvInit, ListInvNext, PTL DEF Spec
-----------------------------------------------------------------------------
USE DEF Timer

\* What the calls on the list do to the flag used of a timer.
LEMMA UsedAfterRemove ==
    ASSUME NEW L, NEW T, NEW t \in Timer, t \notin T, L.used[t]
    PROVE  Timer_remove(L, T).used[t]
BY DEF Timer_remove

LEMMA UsedAfterSet ==
    ASSUME NEW L, NEW u \in Timer, NEW t \in Timer, L.used[t] \in BOOLEAN
    PROVE  Timer_set_timeout(L, u).used[t] = (t = u \/ L.used[t])
BY DEF Timer_set_timeout, Timer_add, Timer_remove

LEMMA UsedAfterMove ==
    ASSUME NEW L
    PROVE  Moved(L).used = L.used /\ Older(L).used = L.used
BY DEF Moved, Older

-----------------------------------------------------------------------------
\* ReplyHasTimer with what its steps need of the types of the variables.
SlotInv ==
    /\ tmp_preq \subseteq Slot
    /\ timers.used \in [Timer -> BOOLEAN]
    /\ DOMAIN todo = {"loop", "menu"}
    /\ ReplyHasTimer

\* No call on the list changes the type of used.
LEMMA UsedType ==
    ASSUME SlotInv, NEW t \in Timer, NEW T
    PROVE  /\ Timer_remove(timers, T).used \in [Timer -> BOOLEAN]
           /\ Timer_set_timeout(timers, t).used \in [Timer -> BOOLEAN]
BY DEF SlotInv, Timer_remove, Timer_set_timeout, Timer_add

\* A call other than a slot's handler leaves the loop's next call alone where it
\* is the handler of a slot.
LEMMA OtherCall ==
    ASSUME SlotInv, NEW th \in {"loop", "menu"}, NEW name, name \notin Slot, NEW rest,
           Calls(th, name, rest)
    PROVE  /\ DOMAIN todo' = {"loop", "menu"}
           /\ \A s \in Slot : todo.loop = <<s>> => todo'.loop = <<s>>
BY DEF SlotInv, Calls

LEMMA NamesNoSlot == (Named \cup Call) \cap Slot = {}
BY SlotAssumption

\* Initially no slot is taken.
LEMMA SlotInvInit == Init => SlotInv
BY DEF Init, SlotInv, ReplyHasTimer

\* What is left to show of a step that takes no slot: a timer that is gone was
\* called or cut, and what was cut or called stays so.
LEMMA KeepsReplies ==
    ASSUME SlotInv,
           tmp_preq' \subseteq tmp_preq,
           timers'.used \in [Timer -> BOOLEAN],
           DOMAIN todo' = {"loop", "menu"},
           \A s \in tmp_preq' :
               /\ timers.used[s] => timers'.used[s] \/ todo'.loop = <<s>> \/ s \in cut'
               /\ todo.loop = <<s>> => todo'.loop = <<s>>
               /\ s \in cut => s \in cut'
    PROVE  SlotInv'
BY DEF SlotInv, ReplyHasTimer

\* Every call of a thread keeps the invariant.
LEMMA CallKeeps ==
    ASSUME SlotInv, NEW th \in {"loop", "menu"}, ThreadStep(th)
    PROVE  SlotInv'
<1> USE NamesNoSlot DEF SlotInv, Named, Periodic, Call
<1>1. ASSUME NEW name, NEW t, name \notin Slot, RestartCount(th, name, t)
      PROVE  SlotInv'
  <2>1. DOMAIN todo' = {"loop", "menu"} /\ \A s \in Slot : todo.loop = <<s>> => todo'.loop = <<s>>
    BY <1>1, OtherCall DEF RestartCount
  <2>2. \A s \in Slot : timers.used[s] => timers'.used[s]
    BY <1>1, UsedAfterRemove DEF RestartCount
  <2>3. timers'.used \in [Timer -> BOOLEAN]
    BY <1>1, UsedType DEF RestartCount
  <2> QED BY <1>1, <2>1, <2>2, <2>3, KeepsReplies DEF RestartCount, replies
<1>2. ASSUME NEW name, NEW T, NEW calls, name \notin Slot, Start(th, name, T, calls)
      PROVE  SlotInv'
  <2>1. DOMAIN todo' = {"loop", "menu"} /\ \A s \in Slot : todo.loop = <<s>> => todo'.loop = <<s>>
    BY <1>2, OtherCall DEF Start
  <2> QED BY <1>2, <2>1, KeepsReplies DEF Start, replies
<1>3. ASSUME NEW name, NEW rest, NEW t \in Timer, name \notin Slot,
             Calls(th, name, rest), UNCHANGED replies,
             \/ timers' = Timer_set_timeout(timers, t) \/ UNCHANGED timers
      PROVE  SlotInv'
  <2>1. DOMAIN todo' = {"loop", "menu"} /\ \A s \in Slot : todo.loop = <<s>> => todo'.loop = <<s>>
    BY <1>3, OtherCall
  <2>2. timers'.used \in [Timer -> BOOLEAN] /\ \A s \in Slot : timers.used[s] => timers'.used[s]
    BY <1>3, UsedType, UsedAfterSet
  <2> QED BY <1>3, <2>1, <2>2, KeepsReplies DEF replies
<1>4. CASE Hello_end(th)
  <2>1. DOMAIN todo' = {"loop", "menu"} /\ \A s \in Slot : todo.loop = <<s>> => todo'.loop = <<s>>
    BY <1>4, OtherCall DEF Hello_end
  <2>2. \A s \in Slot : timers.used[s] => timers'.used[s]
    BY <1>4, UsedAfterRemove DEF Hello_end, EndTimers
  <2>3. timers'.used \in [Timer -> BOOLEAN]
    BY <1>4, UsedType DEF Hello_end
  <2> QED BY <1>4, <2>1, <2>2, <2>3, KeepsReplies DEF Hello_end, replies
<1>5. CASE Hello_timeout_process(th)
  <2>1. DOMAIN todo' = {"loop", "menu"} /\ \A s \in Slot : todo.loop = <<s>> => todo'.loop = <<s>>
    BY <1>5, OtherCall DEF Hello_timeout_process
  <2>2. timers'.used \in [Timer -> BOOLEAN] /\ \A s \in Slot : timers.used[s] => timers'.used[s]
    BY <1>5, UsedType, UsedAfterSet DEF Hello_timeout_process
  <2>3. PICK S \in SUBSET tmp_preq : Empties(S)
    BY <1>5 DEF Hello_timeout_process
  <2> QED BY <2>1, <2>2, <2>3, KeepsReplies DEF Empties
<1>6. ASSUME NEW s \in Slot, Prep_send(th, s)
      PROVE  SlotInv'
  <2>1. DOMAIN todo' = {"loop", "menu"}
    BY <1>6 DEF Prep_send, Calls
  <2>2. \A r \in Slot \ {s} : todo.loop = <<r>> => todo'.loop = <<r>>
    BY <1>6 DEF Prep_send, Calls
  <2> QED BY <1>6, <2>1, <2>2, KeepsReplies DEF Prep_send, Empties
<1>7. CASE Timer_Reset(th)
  <2>1. DOMAIN todo' = {"loop", "menu"} /\ \A s \in Slot : todo.loop = <<s>> => todo'.loop = <<s>>
    BY <1>7, OtherCall DEF Timer_Reset
  <2>2. timers'.used \in [Timer -> BOOLEAN]
    BY <1>7, UsedType DEF Timer_Reset
  <2> QED BY <1>7, <2>1, <2>2, KeepsReplies DEF Timer_Reset
<1>8. CASE rt_table_empty(th)
  <2>1. DOMAIN todo' = {"loop", "menu"}
    BY <1>8, OtherCall DEF rt_table_empty
  <2>2. tmp_preq' = {}
    BY <1>8 DEF rt_table_empty, Empties
  <2> QED BY <1>8, <2>1, <2>2, KeepsReplies DEF rt_table_empty
<1>9. CASE API_reset_timer_start(th) \/ API_reset_process(th)
  BY <1>9, <1>3 DEF API_reset_timer_start, API_reset_process
<1>10. CASE Hello_send(th) \/ SCH_Hello_send(th)
  <2>1. CASE Hello_send(th)
    BY <2>1, <1>3 DEF Hello_send
  <2>2. CASE SCH_Hello_send(th)
    BY <2>2, <1>3 DEF SCH_Hello_send
  <2> QED BY <1>10, <2>1, <2>2
<1>11. ASSUME NEW t \in Periodic, Rearms(th, t)
       PROVE  SlotInv'
  BY <1>11, <1>3 DEF Rearms
<1>12. CASE Hello_start(th) \/ SCH_Hello_start(th)
  BY <1>12, <1>1 DEF Hello_start, SCH_Hello_start
<1>13. CASE Hello_timeout_start(th) \/ alm_start(th) \/ Rann_start(th)
  BY <1>13, <1>2 DEF Hello_timeout_start, alm_start, Rann_start
<1> QED BY <1>4, <1>5, <1>6, <1>7, <1>8, <1>9, <1>10, <1>11, <1>12, <1>13 DEF ThreadStep

\* Every step of the loop itself, of the other threads and of time keeps it.
LEMMA SlotInvNext == SlotInv /\ [Next]_vars => SlotInv'
<1> SUFFICES ASSUME SlotInv, [Next]_vars
             PROVE  SlotInv'
  OBVIOUS
<1>1. ASSUME NEW th \in {"loop", "menu"}, ThreadStep(th)
      PROVE  SlotInv'
  BY <1>1, CallKeeps
<1>2. CASE Timer_timeout
  BY <1>2, UsedAfterMove, KeepsReplies DEF Timer_timeout, SlotInv, replies
<1>3. CASE CallHandler
  <2> DEFINE u == Head(timers.exp)
  <2>1. timers'.used \in [Timer -> BOOLEAN]
    BY <1>3 DEF CallHandler, Timer_remove, SlotInv
  <2>2. DOMAIN todo' = {"loop", "menu"} /\ todo'.loop = <<u>>
    BY <1>3 DEF CallHandler, SlotInv
  <2>3. \A s \in Slot : s # u /\ timers.used[s] => timers'.used[s]
    BY <1>3, UsedAfterRemove DEF CallHandler, SlotInv
  <2>4. \A s \in Slot : todo.loop # <<s>>
    BY <1>3 DEF CallHandler
  <2>5. UNCHANGED replies
    BY <1>3 DEF CallHandler
  <2> QED BY <2>1, <2>2, <2>3, <2>4, <2>5, KeepsReplies DEF SlotInv, replies
<1>4. CASE Tick
  BY <1>4, UsedAfterMove, KeepsReplies DEF Tick, SlotInv, replies
<1>5. ASSUME NEW choice \in {0, 1, 3}, Menu(choice)
      PROVE  SlotInv'
  BY <1>5, KeepsReplies DEF Menu, SlotInv, replies
<1>6. ASSUME NEW s \in Slot, DeleteEntry(s)
      PROVE  SlotInv'
  BY <1>6, KeepsReplies DEF DeleteEntry, Empties, SlotInv
<1>7. ASSUME NEW s \in Slot, Preq_process(s)
      PROVE  SlotInv'
  <2>1. timers'.used \in [Timer -> BOOLEAN]
    BY <1>7, UsedType DEF Preq_process, SlotInv
  <2>2. \A r \in Slot : timers'.used[r] = (r = s \/ timers.used[r])
    BY <1>7, UsedAfterSet DEF Preq_process, SlotInv
  <2>3. tmp_preq' = tmp_preq \cup {s} /\ UNCHANGED <<todo, cut>>
    BY <1>7 DEF Preq_process
  <2> QED BY <2>1, <2>2, <2>3 DEF SlotInv, ReplyHasTimer
<1>8. ASSUME NEW t \in Named, Arms(t)
      PROVE  SlotInv'
  <2>1. timers'.used \in [Timer -> BOOLEAN]
    BY <1>8, UsedType DEF Arms, SlotInv
  <2>2. \A s \in Slot : timers.used[s] => timers'.used[s]
    BY <1>8, UsedAfterSet DEF Arms, SlotInv
  <2> QED BY <1>8, <2>1, <2>2, KeepsReplies DEF Arms, SlotInv, replies
<1>9. CASE Rann_process \/ nms_control_msg_process
  BY <1>9, <1>8 DEF Rann_process, nms_control_msg_process, Named, Periodic
<1>10. CASE UNCHANGED vars
  BY <1>10 DEF vars, SlotInv, ReplyHasTimer
<1> QED BY <1>1, <1>2, <1>3, <1>4, <1>5, <1>6, <1>7, <1>9, <1>10 DEF Next

\* A reply slot of the root that is taken is freed: its timer runs, or Prep_send
\* is about to free it, or the user removed the timer with a menu.  It holds for
\* any number of slots and whatever the menus, messages and commands do.
THEOREM EveryReplyHasTimer == Spec => []ReplyHasTimer
<1>1. SlotInv => ReplyHasTimer
  BY DEF SlotInv
<1> QED BY <1>1, SlotInvInit, SlotInvNext, PTL DEF Spec
-----------------------------------------------------------------------------
Waits(name) == \E k \in DOMAIN todo.loop : todo.loop[k] = name

\* NullOnlyAtStart with what makes it inductive: who arms a timer from outside
\* finds its handler, or the call that sets it is still to be made.
StartInv ==
    /\ DOMAIN todo = {"loop", "menu"}
    /\ \E S : todo.loop \in Seq(S)
    /\ "api" \in handlers \/ Waits("API_reset_timer_start")
    /\ RootNode => "rann" \in handlers \/ Waits("Rann_start")
    /\ NullOnlyAtStart

\* A start calls its handler or nothing.
LEMMA StartsType ==
    ASSUME NEW t, NEW S, t \in S
    PROVE  Starts(t) \in Seq(S)
<1>1. CASE timers.used[t]
  <2>1. Starts(t) = <<>>
    BY <1>1 DEF Starts
  <2> QED BY <2>1
<1>2. CASE ~ timers.used[t]
  <2>1. Starts(t) = <<t>>
    BY <1>2 DEF Starts
  <2> QED BY <2>1
<1> QED BY <1>1, <1>2

\* A call that is not the next one still waits when the next one was made.
LEMMA StillWaits ==
    ASSUME NEW S, NEW seq \in Seq(S), seq # <<>>, NEW R, NEW rest \in Seq(R),
           NEW i \in DOMAIN seq, seq[i] # Head(seq)
    PROVE  \E k \in DOMAIN (rest \o Tail(seq)) : (rest \o Tail(seq))[k] = seq[i]
<1>1. i \in 2 .. Len(seq)
  OBVIOUS
<1>2. /\ Tail(seq) \in Seq(S) /\ Len(Tail(seq)) = Len(seq) - 1
      /\ Tail(seq)[i - 1] = seq[i]
  BY <1>1
<1>3. rest \in Seq(S \cup R) /\ Tail(seq) \in Seq(S \cup R)
  BY <1>2
<1>4. (rest \o Tail(seq))[Len(rest) + (i - 1)] = seq[i]
  BY <1>1, <1>2, <1>3
<1>5. Len(rest) + (i - 1) \in DOMAIN (rest \o Tail(seq))
  BY <1>1, <1>2, <1>3
<1> QED BY <1>4, <1>5

\* A call keeps StartInv if the two starts that are waited for set their handlers.
LEMMA CallWaits ==
    ASSUME StartInv, NEW th \in {"loop", "menu"}, NEW name, NEW R, NEW rest \in Seq(R),
           Calls(th, name, rest), UNCHANGED <<RootNode, exited>>,
           handlers \subseteq handlers',
           name = "API_reset_timer_start" => "api" \in handlers',
           name = "Rann_start" => "rann" \in handlers'
    PROVE  StartInv'
<1>1. DOMAIN todo' = {"loop", "menu"} /\ ~ exited'
  BY DEF StartInv, Calls
<1>2. CASE th = "menu"
  <2>1. todo'.loop = todo.loop
    BY <1>2 DEF StartInv, Calls
  <2> QED BY <1>1, <2>1 DEF StartInv, Waits, NullOnlyAtStart
<1>3. CASE th = "loop"
  <2>1. /\ todo'.loop = rest \o Tail(todo.loop)
        /\ todo.loop # <<>> /\ Head(todo.loop) = name
    BY <1>3 DEF StartInv, Calls
  <2>2. PICK S : todo.loop \in Seq(S)
    BY DEF StartInv
  <2>3. todo'.loop \in Seq(S \cup R)
    <3>1. rest \in Seq(S \cup R) /\ Tail(todo.loop) \in Seq(S \cup R)
      BY <2>1, <2>2
    <3> QED BY <2>1, <3>1
  <2>4. ASSUME NEW x, Waits(x), x # name
        PROVE  Waits(x)'
    <3> DEFINE seq == todo.loop
    <3>1. x # Head(seq) /\ seq # <<>> /\ seq \in Seq(S)
      BY <2>1, <2>2, <2>4
    <3>2. PICK i \in DOMAIN seq : seq[i] = x
      BY <2>4 DEF Waits
    <3> HIDE DEF seq
    <3>3. \E k \in DOMAIN (rest \o Tail(seq)) : (rest \o Tail(seq))[k] = seq[i]
      BY <3>1, <3>2, StillWaits
    <3> QED BY <2>1, <3>2, <3>3 DEF Waits, seq
  <2> QED BY <1>1, <2>3, <2>4 DEF StartInv, NullOnlyAtStart
<1> QED BY <1>2, <1>3

\* What a step that makes no call keeps of StartInv.
LEMMA NoCallWaits ==
    ASSUME StartInv, DOMAIN todo' = {"loop", "menu"}, todo'.loop = todo.loop,
           UNCHANGED <<RootNode, exited>>, handlers \subseteq handlers'
    PROVE  StartInv'
BY DEF StartInv, Waits, NullOnlyAtStart

\* Every call of a thread keeps it.
LEMMA ThreadWaits ==
    ASSUME StartInv, NEW th \in {"loop", "menu"}, ThreadStep(th)
    PROVE  StartInv'
<1> USE DEF control, counts, replies
<1>1. ASSUME NEW name, NEW t, RestartCount(th, name, t),
             name \notin {"API_reset_timer_start", "Rann_start"}
      PROVE  StartInv'
  <2>1. Starts(t) \in Seq({t})
    BY StartsType
  <2> QED BY <1>1, <2>1, CallWaits DEF RestartCount
<1>2. CASE Hello_start(th) \/ SCH_Hello_start(th)
  BY <1>1, <1>2 DEF Hello_start, SCH_Hello_start
<1>3. ASSUME NEW name, NEW T, NEW R, NEW calls \in Seq(R), Start(th, name, T, calls),
             name # "API_reset_timer_start",
             name = "Rann_start" => "rann" \in T
      PROVE  StartInv'
  BY <1>3, CallWaits DEF Start
<1>4. CASE Hello_timeout_start(th) \/ Rann_start(th)
  <2>1. Starts("scan") \in Seq({"scan"}) /\ Starts("rann") \in Seq({"rann"})
    BY StartsType
  <2> QED BY <1>3, <1>4, <2>1 DEF Hello_timeout_start, Rann_start
<1>5. CASE alm_start(th)
  <2> DEFINE S == {"check", "alm", "nms"}
             N == IF RootNode THEN Starts("nms") ELSE <<>>
             C == Starts("check")
             A == Starts("alm")
  <2>1. C \in Seq(S) /\ A \in Seq(S) /\ Starts("nms") \in Seq(S) /\ <<>> \in Seq(S)
    BY StartsType
  <2>2. N \in Seq(S)
    BY <2>1
  <2>3. PICK T : Start(th, "alm_start", T, C \o A \o N)
    BY <1>5 DEF alm_start
  <2> HIDE DEF N, C, A, S
  <2>4. C \o A \o N \in Seq(S)
    BY <2>1, <2>2
  <2> DEFINE calls == C \o A \o N
  <2> HIDE DEF calls
  <2>5. calls \in Seq(S) /\ Start(th, "alm_start", T, calls)
    BY <2>3, <2>4 DEF calls
  <2> QED BY <1>3, <2>5
<1>6. CASE API_reset_timer_start(th)
  BY <1>6, CallWaits, <<>> \in Seq({}) DEF API_reset_timer_start
<1>7. CASE Hello_send(th)
  <2>1. <<>> \in Seq({"Hello_end"}) /\ <<"Hello_end">> \in Seq({"Hello_end"})
    OBVIOUS
  <2> QED BY <1>7, <2>1, CallWaits DEF Hello_send
<1>8. CASE Hello_end(th)
  BY <1>8, CallWaits, <<"data">> \in Seq({"data"}) DEF Hello_end
<1>9. CASE SCH_Hello_send(th) \/ Hello_timeout_process(th) \/ API_reset_process(th)
  BY <1>9, CallWaits, <<>> \in Seq({})
     DEF SCH_Hello_send, Hello_timeout_process, API_reset_process
<1>10. ASSUME NEW t \in Periodic, Rearms(th, t)
       PROVE  StartInv'
  BY <1>10, CallWaits, <<>> \in Seq({}) DEF Rearms, Periodic
<1>11. ASSUME NEW s \in Slot, Prep_send(th, s)
       PROVE  StartInv'
  BY <1>11, CallWaits, NamesNoSlot, <<>> \in Seq({}) DEF Prep_send, Call
<1>12. CASE Timer_Reset(th) \/ rt_table_empty(th)
  BY <1>12, CallWaits, <<>> \in Seq({}) DEF Timer_Reset, rt_table_empty
<1> QED BY <1>2, <1>4, <1>5, <1>6, <1>7, <1>8, <1>9, <1>10, <1>11, <1>12
     DEF ThreadStep

\* What is in either part of a sequence is in the whole.
LEMMA InFirst ==
    ASSUME NEW S, NEW seq \in Seq(S), NEW rest \in Seq(S), NEW i \in DOMAIN seq
    PROVE  \E k \in DOMAIN (seq \o rest) : (seq \o rest)[k] = seq[i]
<1>1. i \in DOMAIN (seq \o rest) /\ (seq \o rest)[i] = seq[i]
  OBVIOUS
<1> QED BY <1>1

LEMMA InSecond ==
    ASSUME NEW S, NEW seq \in Seq(S), NEW rest \in Seq(S), NEW i \in DOMAIN rest
    PROVE  \E k \in DOMAIN (seq \o rest) : (seq \o rest)[k] = rest[i]
<1>1. /\ Len(seq) + i \in DOMAIN (seq \o rest)
      /\ (seq \o rest)[Len(seq) + i] = rest[i]
  OBVIOUS
<1> QED BY <1>1

\* Initially the starts wait in the order wsm_mesh_hello_rann makes them.
LEMMA StartInvInit == Init => StartInv
<1> SUFFICES ASSUME Init
             PROVE  StartInv
  OBVIOUS
<1> DEFINE Five == <<"Hello_start", "Hello_timeout_start", "SCH_Hello_start",
                     "alm_start", "API_reset_timer_start">>
           Rest == IF RootNode THEN <<"Rann_start">> ELSE <<>>
           S == {"Hello_start", "Hello_timeout_start", "SCH_Hello_start",
                 "alm_start", "API_reset_timer_start", "Rann_start"}
<1>1. DOMAIN todo = {"loop", "menu"} /\ ~ exited /\ todo.loop = Five \o Rest
  BY DEF Init
<1>2. Five \in Seq(S) /\ 5 \in DOMAIN Five /\ Five[5] = "API_reset_timer_start"
  OBVIOUS
<1>3. Rest \in Seq(S) /\ (RootNode => 1 \in DOMAIN Rest /\ Rest[1] = "Rann_start")
  <2>1. CASE RootNode
    <3>1. Rest = <<"Rann_start">>
      BY <2>1
    <3> HIDE DEF Rest
    <3>2. Rest \in Seq(S)
      BY <3>1
    <3> QED BY <3>1, <3>2
  <2>2. CASE ~ RootNode
    BY <2>2
  <2> QED BY <2>1, <2>2
<1> HIDE DEF Five, Rest, S
<1>4. Five \in Seq(S) /\ Rest \in Seq(S)
  BY <1>2, <1>3
<1>5. todo.loop \in Seq(S)
  <2>1. Five \o Rest \in Seq(S)
    BY <1>2, <1>3
  <2> QED BY <1>1, <2>1
<1>6. Waits("API_reset_timer_start")
  <2>1. PICK i \in DOMAIN Five : Five[i] = "API_reset_timer_start"
    BY <1>2
  <2>2. \E k \in DOMAIN (Five \o Rest) : (Five \o Rest)[k] = Five[i]
    BY <1>4, InFirst
  <2> QED BY <1>1, <2>1, <2>2 DEF Waits
<1>7. ASSUME RootNode
      PROVE  Waits("Rann_start")
  <2>1. PICK i \in DOMAIN Rest : Rest[i] = "Rann_start"
    BY <1>3, <1>7
  <2>2. \E k \in DOMAIN (Five \o Rest) : (Five \o Rest)[k] = Rest[i]
    BY <1>4, InSecond
  <2> QED BY <1>1, <2>1, <2>2 DEF Waits
<1> QED BY <1>1, <1>5, <1>6, <1>7 DEF StartInv, NullOnlyAtStart

\* A timer armed from outside, without a look at used.
LEMMA ArmsWaits ==
    ASSUME StartInv, NEW t, Arms(t),
           \/ t = "api"
           \/ t = "rann" /\ RootNode
    PROVE  StartInv'
<1>1. UNCHANGED <<todo, handlers, RootNode>> /\ exited' = (t \notin handlers)
  BY DEF Arms
<1>2. t \notin handlers => Waits("API_reset_timer_start") \/ Waits("Rann_start")
  BY DEF StartInv
<1>3. NullOnlyAtStart'
  BY <1>1, <1>2 DEF NullOnlyAtStart, Waits
<1> QED BY <1>1, <1>3 DEF StartInv, Waits

LEMMA StartInvNext == StartInv /\ [Next]_vars => StartInv'
<1> SUFFICES ASSUME StartInv, [Next]_vars
             PROVE  StartInv'
  OBVIOUS
<1> USE DEF control, counts, replies
<1>1. ASSUME NEW th \in {"loop", "menu"}, ThreadStep(th)
      PROVE  StartInv'
  BY <1>1, ThreadWaits
<1>2. CASE Timer_timeout \/ Tick
  BY <1>2, NoCallWaits DEF Timer_timeout, Tick, StartInv
<1>3. CASE CallHandler
  <2>1. DOMAIN todo' = {"loop", "menu"} /\ todo'.loop = <<Head(timers.exp)>>
    BY <1>3 DEF CallHandler, StartInv
  <2>2. todo'.loop \in Seq({Head(timers.exp)})
    BY <2>1
  <2>3. \A x : ~ Waits(x)
    BY <1>3 DEF CallHandler, Waits
  <2>4. UNCHANGED <<handlers, RootNode, exited>> /\ ~ exited
    BY <1>3 DEF CallHandler
  <2> QED BY <2>1, <2>2, <2>3, <2>4 DEF StartInv, NullOnlyAtStart
<1>4. ASSUME NEW choice \in {0, 1, 3}, Menu(choice)
      PROVE  StartInv'
  <2>1. DOMAIN todo' = {"loop", "menu"} /\ todo'.loop = todo.loop
    BY <1>4 DEF Menu, StartInv
  <2> QED BY <1>4, <2>1, NoCallWaits DEF Menu
<1>5. ASSUME NEW s \in Slot, DeleteEntry(s) \/ Preq_process(s)
      PROVE  StartInv'
  BY <1>5, NoCallWaits DEF DeleteEntry, Preq_process, StartInv
<1>6. CASE Rann_process \/ nms_control_msg_process
  BY <1>6, ArmsWaits DEF Rann_process, nms_control_msg_process
<1>7. CASE UNCHANGED vars
  BY <1>7, NoCallWaits DEF vars, StartInv
<1> QED BY <1>1, <1>2, <1>3, <1>4, <1>5, <1>6, <1>7 DEF Next

\* No message and no command of the NMS ends the program with "NULL handler!!!"
\* once the Hello_Rann thread has made the starts it begins with, whatever the
\* menus remove and however many slots there are.
THEOREM HandlersAreSet == Spec => []NullOnlyAtStart
<1>1. StartInv => NullOnlyAtStart
  BY DEF StartInv
<1> QED BY <1>1, StartInvInit, StartInvNext, PTL DEF Spec

-----------------------------------------------------------------------------
\* QuietAfterEnd.  What makes it inductive: which calls a thread may still have
\* to make, and that the handlers due while the menu is about to send the first
\* Hello of a restarted phase cannot count to its end.

Counters == {"hello", "sch", "scan"}
Measures == {"hello", "sch", "check", "alm"}

\* A handler that counts can run before time passes.
Ready(t) == IF In(t, todo.loop) \/ (timers.used[t] /\ timers.left[t] <= 0) THEN 1 ELSE 0

ExpDue == \A t \in Timer : In(t, timers.exp) => timers.left[t] <= 0
DueOnce == \A t \in Counters : In(t, todo.loop) /\ timers.used[t] => timers.left[t] > 0

\* What is left of the starts of wsm_mesh_hello_rann after each of them.
RannStart == IF RootNode THEN <<"Rann_start">> ELSE <<>>
AfterAlm == <<"API_reset_timer_start">> \o RannStart
AfterSch == <<"alm_start">> \o AfterAlm
AfterScan == <<"SCH_Hello_start">> \o AfterSch
AfterHello == <<"Hello_timeout_start">> \o AfterScan

Booting ==
    \/ todo.loop = <<"Hello_start">> \o AfterHello
    \/ todo.loop = <<"hello">> \o AfterHello /\ timer_cnt = 0
    \/ todo.loop = AfterHello
    \/ todo.loop = <<"scan">> \o AfterScan
    \/ todo.loop = AfterScan
    \/ todo.loop = <<"sch">> \o AfterSch
    \/ todo.loop = AfterSch
    \/ \E pre \in Seq({"check", "alm", "nms"}) : todo.loop = pre \o AfterAlm
    \/ todo.loop = <<"Rann_start">> /\ RootNode /\ "api" \in handlers

LoopShape ==
    IF Started
    THEN todo.loop = <<>> \/ \E c \in Timer \cup {"Hello_end"} : todo.loop = <<c>>
    ELSE /\ todo.menu = <<>> /\ ~ config_end
         /\ RootNode => "rann" \notin handlers
         /\ Booting

MenuRests ==
    {<<>>, <<"Timer_Reset", "rt_table_empty", "Hello_start">>,
     <<"rt_table_empty", "Hello_start">>, <<"Hello_start">>, <<"hello">>,
     <<"Timer_Reset", "Hello_timeout_start">>, <<"Hello_timeout_start">>, <<"scan">>,
     <<"Timer_Reset">>}

Budget ==
    todo.menu = <<"hello">> => timer_cnt + Ready("hello") + Ready("sch") + Ready("scan") <= 3

EndInv ==
    /\ DOMAIN todo = {"loop", "menu"}
    /\ ExpDue /\ DueOnce /\ LoopShape /\ todo.menu \in MenuRests /\ Budget
    /\ QuietAfterEnd

\* A change of the list that makes no timer due.
Gentle(M, L) ==
    \A t \in Timer : /\ In(t, M.exp) => In(t, L.exp) /\ M.left[t] = L.left[t]
                     /\ M.used[t] /\ M.left[t] <= 0 => L.used[t] /\ L.left[t] <= 0

LEMMA RemoveGentle ==
    ASSUME NEW L, ListOK(L), NEW T
    PROVE  Gentle(Timer_remove(L, T), L)
<1>1. \A t : In(t, Without(L.exp, T)) <=> In(t, L.exp) /\ t \notin T
  BY WithoutKeeps DEF ListOK
<1> QED BY <1>1 DEF Gentle, Timer_remove

LEMMA SetGentle ==
    ASSUME NEW L, ListOK(L), NEW u \in Timer
    PROVE  Gentle(Timer_set_timeout(L, u), L)
<1> DEFINE M == Timer_set_timeout(L, u)
<1>1. /\ M.exp = Without(L.exp, {u})
      /\ M.used = [[t \in Timer |-> L.used[t] /\ t \notin {u}] EXCEPT ![u] = TRUE]
      /\ M.left = [[t \in Timer |-> IF t \in {u} THEN 0 ELSE L.left[t]] EXCEPT ![u] = Interval[u]]
  BY DEF Timer_set_timeout, Timer_add, Timer_remove
<1>2. \A t : In(t, M.exp) <=> In(t, L.exp) /\ t # u
  BY <1>1, WithoutKeeps DEF ListOK
<1> HIDE DEF M
<1>3. /\ M.left[u] = Interval[u] /\ Interval[u] \in Nat \ {0}
      /\ \A t \in Timer : t # u => M.left[t] = L.left[t] /\ (M.used[t] <=> L.used[t])
  BY <1>1, IntervalAssumption
<1>4. ~ (M.left[u] <= 0)
  BY <1>3
<1> QED BY <1>2, <1>3, <1>4 DEF Gentle, M

\* Sequences by their first.
LEMMA FirstThen ==
    ASSUME NEW S, NEW x \in S, NEW s \in Seq(S)
    PROVE  /\ <<x>> \o s \in Seq(S) /\ <<x>> \o s # <<>>
           /\ Head(<<x>> \o s) = x /\ Tail(<<x>> \o s) = s
           /\ <<>> \o s = s /\ s \o <<>> = s
<1>1. <<x>> \in Seq(S) /\ Len(<<x>>) = 1 /\ <<x>>[1] = x
  OBVIOUS
<1> DEFINE w == <<x>> \o s
<1>2. /\ w \in Seq(S) /\ Len(w) = 1 + Len(s) /\ w[1] = x
      /\ \A i \in 1 .. Len(s) : w[i + 1] = s[i]
  BY <1>1
<1> HIDE DEF w
<1>3. w # <<>> /\ Head(w) = x
  BY <1>2
<1>4. Tail(w) = s
  BY <1>2, <1>3, HeadTailProperties, SeqEqual
<1>5. <<>> \o s = s /\ s \o <<>> = s
  BY ConcatEmptySeq
<1> QED BY <1>2, <1>3, <1>4, <1>5 DEF w

LEMMA One ==
    ASSUME NEW x
    PROVE  /\ <<x>> # <<>> /\ Head(<<x>>) = x /\ Tail(<<x>>) = <<>>
           /\ \A t : In(t, <<x>>) <=> t = x
           /\ ToSet(<<x>>) = {x} /\ ToSet(<<>>) = {} /\ \A t : ~ In(t, <<>>)
BY DEF In, ToSet

LEMMA InToSet == \A m \in MenuRests : \A t : t \in ToSet(m) => In(t, m)
<1>1. \A m \in MenuRests : DOMAIN m = 1 .. Len(m)
  BY DEF MenuRests
<1> QED BY <1>1 DEF In, ToSet

LEMMA MenuTable ==
    ASSUME NEW m \in MenuRests, m # <<>>
    PROVE  \/ Head(m) = "Timer_Reset" /\ Tail(m) \in {<<"rt_table_empty", "Hello_start">>,
                                                       <<"Hello_timeout_start">>, <<>>}
           \/ Head(m) = "rt_table_empty" /\ Tail(m) = <<"Hello_start">>
           \/ Head(m) \in {"Hello_start", "hello", "Hello_timeout_start", "scan"} /\ Tail(m) = <<>>
<1>1. \A x : Head(<<x>>) = x /\ Tail(<<x>>) = <<>>
  OBVIOUS
<1>2. \A x, y : Head(<<x, y>>) = x /\ Tail(<<x, y>>) = <<y>>
  OBVIOUS
<1>3. \A x, y, z : Head(<<x, y, z>>) = x /\ Tail(<<x, y, z>>) = <<y, z>>
  OBVIOUS
<1>4. CASE m \in {<<"Timer_Reset", "rt_table_empty", "Hello_start">>}
  BY <1>3, <1>4
<1>5. CASE m \in {<<"rt_table_empty", "Hello_start">>, <<"Timer_Reset", "Hello_timeout_start">>}
  BY <1>2, <1>5
<1>6. CASE m \in {<<"Hello_start">>, <<"hello">>, <<"Hello_timeout_start">>, <<"scan">>,
                  <<"Timer_Reset">>}
  BY <1>1, <1>6
<1> QED BY <1>4, <1>5, <1>6 DEF MenuRests

LEMMA MenuMeasures ==
    ASSUME NEW m \in MenuRests, NEW t \in Measures, In(t, m)
    PROVE  t = "hello" /\ m = <<"hello">>
BY DEF MenuRests, Measures, In

LEMMA GoesOn == \A n \in Int : n <= 4 => HelloGoesOnAt(n)
<1>1. config_time \in Int /\ HelloFactor \in Int
  BY LimitAssumption DEF config_time
<1> DEFINE lim == config_time * HelloFactor
<1>2. lim \in Int /\ lim >= 4
  BY <1>1, CountAssumption
<1> HIDE DEF lim
<1>3. \A n \in Int : n <= 4 => n <= lim
  BY <1>2
<1> QED BY <1>3 DEF HelloGoesOnAt, lim

\* What the calls and the other threads keep of the parts that are about the list.
LEMMA ListParts ==
    ASSUME ListInv, ListInv', EndInv, Gentle(timers', timers),
           \A t \in Counters : In(t, todo'.loop) => In(t, todo.loop) \/ ~ timers.used[t]
    PROVE  /\ ExpDue' /\ DueOnce'
           /\ \A t \in Counters : (In(t, todo'.loop) => In(t, todo.loop))
                 => Ready(t)' \in {0, 1} /\ Ready(t) \in {0, 1} /\ Ready(t)' <= Ready(t)
<1>0. Counters \subseteq Timer
  BY DEF Counters, Named
<1>1. \A t \in Timer : timers.left[t] \in Int /\ timers'.left[t] \in Int
  BY DEF ListInv, ListOK
<1>2. ExpDue'
  BY <1>1 DEF ExpDue, Gentle, EndInv
<1>3. DueOnce'
  BY <1>0, <1>1 DEF DueOnce, Gentle, EndInv
<1>4. ASSUME NEW t \in Counters, In(t, todo'.loop) => In(t, todo.loop)
      PROVE  Ready(t)' \in {0, 1} /\ Ready(t) \in {0, 1} /\ Ready(t)' <= Ready(t)
  BY <1>0, <1>1, <1>4 DEF Ready, Gentle
<1> QED BY <1>2, <1>3, <1>4

\* A handler that was called and is gone cannot be ready.
LEMMA CountedOnce ==
    ASSUME ListInv, ListInv', EndInv, Gentle(timers', timers), NEW t \in Counters,
           In(t, todo.loop), ~ In(t, todo'.loop)
    PROVE  Ready(t) = 1 /\ Ready(t)' = 0
<1>0. t \in Timer
  BY DEF Counters, Named
<1>1. timers.left[t] \in Int /\ timers'.left[t] \in Int
  BY <1>0 DEF ListInv, ListOK
<1> QED BY <1>0, <1>1 DEF Ready, Gentle, EndInv, DueOnce

\* Budget when the loop makes a call: what it counts was ready before and is not
\* ready any more.
LEMMA BudgetKept ==
    ASSUME ListInv, ListInv', EndInv, Gentle(timers', timers),
           todo'.menu = todo.menu,
           \A t \in Counters : In(t, todo'.loop) => In(t, todo.loop),
           \/ timer_cnt' <= timer_cnt
           \/ /\ timer_cnt' = timer_cnt + 1
              /\ \E t \in Counters : In(t, todo.loop) /\ ~ In(t, todo'.loop)
    PROVE  Budget'
<1>1. \A t \in Counters : /\ Ready(t)' \in {0, 1} /\ Ready(t) \in {0, 1}
                          /\ Ready(t)' <= Ready(t)
  BY ListParts
<1>2. timer_cnt \in Nat /\ timer_cnt' \in Nat
  BY DEF ListInv
<1> DEFINE sum == Ready("hello") + Ready("sch") + Ready("scan")
           sumN == Ready("hello")' + Ready("sch")' + Ready("scan")'
<1>3. sumN <= sum /\ sum \in Int /\ sumN \in Int
  BY <1>1 DEF Counters
<1>4. CASE timer_cnt' <= timer_cnt
  BY <1>1, <1>2, <1>3, <1>4 DEF Budget, EndInv, Counters
<1>5. CASE /\ timer_cnt' = timer_cnt + 1
           /\ \E t \in Counters : In(t, todo.loop) /\ ~ In(t, todo'.loop)
  <2>1. PICK t \in Counters : In(t, todo.loop) /\ ~ In(t, todo'.loop)
    BY <1>5
  <2>2. Ready(t) = 1 /\ Ready(t)' = 0
    BY <2>1, CountedOnce
  <2>3. sumN + 1 <= sum
    BY <1>1, <2>2 DEF Counters
  <2> QED BY <1>1, <1>2, <1>5, <2>3 DEF Budget, EndInv, Counters
<1> QED BY <1>4, <1>5

\* Quiet when no timer that measures is armed and no call of one is added.
LEMMA QuietKept ==
    ASSUME EndInv, config_end' => config_end, late_end => late_end',
           DOMAIN todo' = {"loop", "menu"},
           config_end /\ ~ late_end =>
              \A t \in Measures :
                 /\ timers'.used[t] => timers.used[t] \/ \E th \in {"loop", "menu"} : t \in ToSet(todo[th])
                 /\ \A th \in {"loop", "menu"} : t \in ToSet(todo'[th]) => t \in ToSet(todo[th])
    PROVE  QuietAfterEnd'
BY DEF QuietAfterEnd, EndInv, Measures

\* What a call does to the lists of calls.
LEMMA CallShape ==
    ASSUME EndInv, NEW th \in {"loop", "menu"}, NEW name, NEW rest, Calls(th, name, rest)
    PROVE  /\ DOMAIN todo' = {"loop", "menu"}
           /\ todo[th] # <<>> /\ Head(todo[th]) = name /\ todo'[th] = rest \o Tail(todo[th])
           /\ \A other \in {"loop", "menu"} : other # th => todo'[other] = todo[other]
BY DEF EndInv, Calls

\* The thread's loop has started: it calls one handler, or ends the phase.
LEMMA LoopCall ==
    ASSUME ListInv, ListInv', EndInv, Started, NEW name, NEW rest, Calls("loop", name, rest),
           rest \in {<<>>, <<"Hello_end">>, <<"data">>}, Gentle(timers', timers),
           handlers \subseteq handlers', RootNode' = RootNode,
           \/ timer_cnt' <= timer_cnt
           \/ timer_cnt' = timer_cnt + 1 /\ name \in Counters
    PROVE  /\ name \in Timer \cup {"Hello_end"} /\ todo.loop = <<name>> /\ todo'.loop = rest
           /\ DOMAIN todo' = {"loop", "menu"} /\ todo'.menu = todo.menu
           /\ ExpDue' /\ DueOnce' /\ LoopShape' /\ todo'.menu \in MenuRests /\ Budget'
<1>1. /\ DOMAIN todo' = {"loop", "menu"} /\ todo'.menu = todo.menu
      /\ todo.loop # <<>> /\ Head(todo.loop) = name /\ todo'.loop = rest \o Tail(todo.loop)
  BY CallShape
<1>2. PICK c \in Timer \cup {"Hello_end"} : todo.loop = <<c>>
  BY <1>1 DEF EndInv, LoopShape
<1>3. c = name /\ todo.loop = <<name>> /\ Tail(todo.loop) = <<>>
  BY <1>1, <1>2, One
<1>4. todo'.loop = rest
  <2>1. \A x \in {"Hello_end", "data"} : <<x>> \in Seq({"Hello_end", "data"})
    OBVIOUS
  <2>2. <<>> \in Seq({"Hello_end", "data"})
    OBVIOUS
  <2>3. rest \in Seq({"Hello_end", "data"})
    BY <2>1, <2>2
  <2> QED BY <1>1, <1>3, <2>3, ConcatEmptySeq
<1>5. /\ \A t \in Counters : ~ In(t, todo'.loop)
      /\ \A t : In(t, todo.loop) <=> t = name
  BY <1>3, <1>4, One DEF Counters
<1>6. ExpDue' /\ DueOnce'
  BY <1>5, ListParts
<1>7. Budget'
  BY <1>1, <1>5, BudgetKept
<1>8. LoopShape'
  <2>1. Started'
    BY DEF Started
  <2>2. todo'.loop = <<>> \/ todo'.loop = <<"Hello_end">> \/ todo'.loop = <<"data">>
    BY <1>4
  <2> QED BY <2>1, <2>2 DEF LoopShape, Named, Periodic
<1>9. todo'.menu \in MenuRests
  BY <1>1 DEF EndInv
<1> QED BY <1>1, <1>2, <1>3, <1>4, <1>6, <1>7, <1>8, <1>9

\* A call of the menu.
LEMMA MenuCall ==
    ASSUME ListInv, ListInv', EndInv, NEW name, NEW rest, Calls("menu", name, rest),
           Gentle(timers', timers), handlers \subseteq handlers', RootNode' = RootNode,
           rest \o Tail(todo.menu) \in MenuRests,
           rest \o Tail(todo.menu) = <<"hello">> => timer_cnt' = 0
    PROVE  /\ Started /\ name = Head(todo.menu) /\ todo'.menu = rest \o Tail(todo.menu)
           /\ DOMAIN todo' = {"loop", "menu"} /\ todo'.loop = todo.loop
           /\ ExpDue' /\ DueOnce' /\ LoopShape' /\ todo'.menu \in MenuRests /\ Budget'
<1>1. /\ DOMAIN todo' = {"loop", "menu"} /\ todo'.loop = todo.loop
      /\ todo.menu # <<>> /\ Head(todo.menu) = name /\ todo'.menu = rest \o Tail(todo.menu)
  BY CallShape
<1>2. Started
  BY <1>1 DEF EndInv, LoopShape
<1>3. ExpDue' /\ DueOnce' /\ \A t \in Counters : Ready(t)' \in {0, 1} /\ Ready(t)' <= Ready(t)
  BY <1>1, ListParts
<1>4. Budget'
  <2>1. CASE todo'.menu = <<"hello">>
    <3>1. timer_cnt' = 0
      BY <1>1, <2>1
    <3>2. /\ Ready("hello")' \in {0, 1} /\ Ready("sch")' \in {0, 1}
          /\ Ready("scan")' \in {0, 1}
      BY <1>3 DEF Counters
    <3>3. 0 + Ready("hello")' + Ready("sch")' + Ready("scan")' <= 3
      BY <3>2
    <3> QED BY <3>1, <3>3 DEF Budget
  <2> QED BY <2>1 DEF Budget
<1>5. LoopShape'
  <2>1. Started'
    BY <1>2 DEF Started
  <2> QED BY <1>1, <1>2, <2>1 DEF EndInv, LoopShape
<1> QED BY <1>1, <1>2, <1>3, <1>4, <1>5

-----------------------------------------------------------------------------
\* Every call of the loop once it has started.
LEMMA StartedLoop ==
    ASSUME ListInv, ListInv', EndInv, Started, ThreadStep("loop")
    PROVE  EndInv'
<1> USE DEF control, counts, replies
<1>0. /\ ListOK(timers) /\ Gentle(timers, timers)
      /\ \A T : Gentle(Timer_remove(timers, T), timers)
      /\ \A t \in Timer : Gentle(Timer_set_timeout(timers, t), timers)
  BY RemoveGentle, SetGentle DEF ListInv, Gentle
<1>1. ASSUME NEW name, NEW rest, Calls("loop", name, rest),
             rest \in {<<>>, <<"Hello_end">>}, handlers \subseteq handlers', RootNode' = RootNode,
             \/ timer_cnt' <= timer_cnt
             \/ timer_cnt' = timer_cnt + 1 /\ name \in Counters,
             UNCHANGED <<config_end, late_end>>,
             \/ UNCHANGED timers
             \/ name \in Timer /\ timers' = Timer_set_timeout(timers, name)
      PROVE  EndInv'
  <2>1. Gentle(timers', timers)
    BY <1>0, <1>1
  <2>2. /\ name \in Timer \cup {"Hello_end"} /\ todo.loop = <<name>> /\ todo'.loop = rest
        /\ DOMAIN todo' = {"loop", "menu"} /\ todo'.menu = todo.menu
        /\ ExpDue' /\ DueOnce' /\ LoopShape' /\ todo'.menu \in MenuRests /\ Budget'
    BY <1>1, <2>1, LoopCall
  <2>3. ToSet(todo.loop) = {name} /\ ToSet(todo'.loop) \subseteq {"Hello_end"}
    BY <1>1, <2>2, One
  <2>4. ASSUME NEW t \in Timer PROVE timers'.used[t] => timers.used[t] \/ t = name
    <3>1. timers.used[t] \in BOOLEAN
      BY DEF ListInv, ListOK
    <3>2. name \in Timer => Timer_set_timeout(timers, name).used[t] = (t = name \/ timers.used[t])
      BY <3>1, UsedAfterSet
    <3> QED BY <1>1, <3>2
  <2>5. QuietAfterEnd'
    BY <1>1, <2>2, <2>3, <2>4, QuietKept DEF Measures, Named, Periodic
  <2> QED BY <2>2, <2>5 DEF EndInv
<1>2. ASSUME NEW name, name \in Call \ {"Hello_end"}, NEW rest, Calls("loop", name, rest)
      PROVE  FALSE
  <2>1. PICK c \in Timer \cup {"Hello_end"} : todo.loop = <<c>>
    BY <1>2, CallShape DEF EndInv, LoopShape
  <2>2. name = c
    BY <1>2, <2>1, CallShape, One
  <2> QED BY <1>2, <2>1, <2>2, SlotAssumption DEF Call, Named, Periodic
<1>3. CASE Hello_send("loop")
  <2>1. \/ UNCHANGED timers
        \/ timers' = Timer_set_timeout(timers, "hello")
    BY <1>3 DEF Hello_send
  <2> QED BY <1>1, <1>3, <2>1 DEF Hello_send, Counters, Named
<1>4. CASE SCH_Hello_send("loop")
  BY <1>1, <1>4 DEF SCH_Hello_send, Counters, Named
<1>5. CASE Hello_timeout_process("loop")
  <2>1. timer_cnt \in Nat
    BY DEF ListInv
  <2>2. \/ timer_cnt' <= timer_cnt
        \/ timer_cnt' = timer_cnt + 1
    BY <1>5, <2>1 DEF Hello_timeout_process
  <2> QED BY <1>1, <1>5, <2>2 DEF Hello_timeout_process, Counters, Named
<1>6. ASSUME NEW t \in Periodic, Rearms("loop", t) PROVE EndInv'
  <2>1. timer_cnt' <= timer_cnt
    BY <1>6 DEF Rearms, ListInv
  <2> QED BY <1>1, <1>6, <2>1 DEF Rearms, Named
<1>7. CASE API_reset_process("loop")
  <2>1. timer_cnt' <= timer_cnt
    BY <1>7 DEF API_reset_process, ListInv
  <2> QED BY <1>1, <1>7, <2>1 DEF API_reset_process
<1>8. ASSUME NEW s \in Slot, Prep_send("loop", s) PROVE EndInv'
  <2>1. timer_cnt' <= timer_cnt
    BY <1>8 DEF Prep_send, ListInv
  <2> QED BY <1>1, <1>8, <2>1 DEF Prep_send
<1>9. CASE Hello_end("loop")
  <2>1. /\ Calls("loop", "Hello_end", <<"data">>) /\ timers' = Timer_remove(timers, EndTimers)
        /\ handlers' = handlers \cup {"data"} /\ config_end'
        /\ late_end' = (late_end \/ HelloGoesOnAt(timer_cnt))
        /\ timer_cnt' = timer_cnt /\ RootNode' = RootNode
    BY <1>9 DEF Hello_end
  <2>2. timer_cnt' <= timer_cnt /\ timer_cnt \in Nat
    BY <2>1 DEF ListInv
  <2>3. Gentle(timers', timers)
    BY <1>0, <2>1
  <2>4. /\ todo'.loop = <<"data">> /\ DOMAIN todo' = {"loop", "menu"} /\ todo'.menu = todo.menu
        /\ ExpDue' /\ DueOnce' /\ LoopShape' /\ todo'.menu \in MenuRests /\ Budget'
    BY <2>1, <2>2, <2>3, LoopCall
  <2>5. \A t \in Measures : ~ timers'.used[t] /\ t \notin ToSet(todo'.loop)
    <3>1. ToSet(todo'.loop) = {"data"}
      BY <2>4, One
    <3>2. \A t \in Timer : timers'.used[t] <=> timers.used[t] /\ t \notin EndTimers
      BY <1>0, <2>1, RemoveOK
    <3> QED BY <3>1, <3>2 DEF Measures, EndTimers, Named, Periodic
  <2>6. CASE todo.menu = <<"hello">>
    <3>1. \A t \in Counters : Ready(t) \in {0, 1}
      BY DEF Ready
    <3>2. timer_cnt + Ready("hello") + Ready("sch") + Ready("scan") <= 3
      BY <2>6 DEF EndInv, Budget
    <3>3. timer_cnt <= 4
      <4>1. /\ Ready("hello") \in {0, 1} /\ Ready("sch") \in {0, 1}
            /\ Ready("scan") \in {0, 1}
        BY <3>1 DEF Counters
      <4> QED BY <2>2, <3>2, <4>1
    <3>4. late_end'
      <4>1. HelloGoesOnAt(timer_cnt)
        BY <2>2, <3>3, GoesOn
      <4> QED BY <2>1, <4>1, Zenon
    <3>5. QuietAfterEnd'
      BY <3>4 DEF QuietAfterEnd
    <3> QED BY <2>4, <3>5 DEF EndInv
  <2>7. CASE todo.menu # <<"hello">>
    <3>1. \A t \in Measures : t \notin ToSet(todo'.menu)
      <4>1. \A t \in Measures : ~ In(t, todo.menu)
        BY <2>7, MenuMeasures DEF EndInv
      <4> QED BY <2>4, <4>1, InToSet
    <3> QED BY <2>4, <2>5, <3>1 DEF EndInv, QuietAfterEnd, Measures
  <2> QED BY <2>6, <2>7
<1>10. CASE \/ Hello_start("loop") \/ SCH_Hello_start("loop") \/ Hello_timeout_start("loop")
            \/ alm_start("loop") \/ Rann_start("loop") \/ API_reset_timer_start("loop")
            \/ Timer_Reset("loop") \/ rt_table_empty("loop")
  BY <1>2, <1>10 DEF Hello_start, SCH_Hello_start, RestartCount, Hello_timeout_start, alm_start,
        Rann_start, Start, API_reset_timer_start, Timer_Reset, rt_table_empty, Call
<1> QED BY <1>3, <1>4, <1>5, <1>6, <1>7, <1>8, <1>9, <1>10 DEF ThreadStep

\* Every call of the menu.
LEMMA MenuStep ==
    ASSUME ListInv, ListInv', EndInv, ThreadStep("menu")
    PROVE  EndInv'
<1> USE DEF control, counts, replies
<1>0. /\ Gentle(timers, timers)
      /\ \A T : Gentle(Timer_remove(timers, T), timers)
      /\ \A t \in Timer : Gentle(Timer_set_timeout(timers, t), timers)
  BY RemoveGentle, SetGentle DEF ListInv, Gentle
<1>1. ASSUME NEW name, NEW rest, Calls("menu", name, rest)
      PROVE  \/ name = "Timer_Reset" /\ Tail(todo.menu) \in {<<"rt_table_empty", "Hello_start">>,
                                                              <<"Hello_timeout_start">>, <<>>}
             \/ name = "rt_table_empty" /\ Tail(todo.menu) = <<"Hello_start">>
             \/ name = "hello" /\ todo.menu = <<"hello">> /\ Tail(todo.menu) = <<>>
             \/ name \in {"Hello_start", "Hello_timeout_start", "scan"} /\ Tail(todo.menu) = <<>>
  <2>1. todo.menu # <<>> /\ Head(todo.menu) = name /\ todo.menu \in MenuRests
    BY <1>1, CallShape DEF EndInv
  <2>2. Head(todo.menu) = "hello" => todo.menu = <<"hello">>
    BY <2>1 DEF MenuRests
  <2> QED BY <2>1, <2>2, MenuTable
<1>2. ASSUME NEW name, name \notin {"Timer_Reset", "rt_table_empty", "Hello_start", "hello",
                                    "Hello_timeout_start", "scan"},
             NEW rest, Calls("menu", name, rest)
      PROVE  FALSE
  BY <1>1, <1>2
<1>3. /\ \A w \in {<<>>, <<"hello">>, <<"scan">>} : w \o <<>> = w
      /\ \A w \in {<<"rt_table_empty", "Hello_start">>, <<"Hello_timeout_start">>,
                   <<"Hello_start">>, <<>>} : <<>> \o w = w
  <2> DEFINE S == {"hello", "scan", "rt_table_empty", "Hello_start", "Hello_timeout_start"}
  <2>1. /\ <<>> \in Seq(S) /\ <<"hello">> \in Seq(S) /\ <<"scan">> \in Seq(S)
        /\ <<"rt_table_empty", "Hello_start">> \in Seq(S)
        /\ <<"Hello_timeout_start">> \in Seq(S) /\ <<"Hello_start">> \in Seq(S)
    OBVIOUS
  <2> QED BY <2>1, ConcatEmptySeq
<1>4. \A t : Starts(t) = <<>> \/ Starts(t) = <<t>>
  BY DEF Starts
<1>5. ASSUME NEW name, NEW rest, Calls("menu", name, rest), handlers \subseteq handlers',
             RootNode' = RootNode, UNCHANGED <<config_end, late_end>>,
             rest \o Tail(todo.menu) \in MenuRests, rest \o Tail(todo.menu) # <<"hello">>,
             Gentle(timers', timers),
             \A t \in Measures : timers'.used[t] => timers.used[t] \/ t = name
      PROVE  EndInv'
  <2>1. /\ name = Head(todo.menu) /\ todo'.menu = rest \o Tail(todo.menu)
        /\ DOMAIN todo' = {"loop", "menu"} /\ todo'.loop = todo.loop
        /\ ExpDue' /\ DueOnce' /\ LoopShape' /\ todo'.menu \in MenuRests /\ Budget'
    BY <1>5, MenuCall
  <2>2. \A t \in Measures : t \notin ToSet(todo'.menu)
    <3>1. \A t \in Measures : ~ In(t, todo'.menu)
      BY <1>5, <2>1, MenuMeasures
    <3> QED BY <2>1, <3>1, InToSet
  <2>3. name \in ToSet(todo.menu)
    <3>1. todo.menu \in MenuRests /\ todo.menu # <<>>
      BY <1>5, CallShape DEF EndInv
    <3>2. \A m \in MenuRests : m # <<>> => Head(m) = m[1] /\ 1 \in DOMAIN m
      BY DEF MenuRests
    <3> QED BY <2>1, <3>1, <3>2 DEF ToSet
  <2>4. QuietAfterEnd'
    BY <1>5, <2>1, <2>2, <2>3, QuietKept
  <2> QED BY <2>1, <2>4 DEF EndInv
<1>6. CASE Hello_start("menu")
  <2>1. /\ Calls("menu", "Hello_start", Starts("hello")) /\ timer_cnt' = 0
        /\ ~ config_end' /\ Gentle(timers', timers)
        /\ handlers \subseteq handlers' /\ RootNode' = RootNode
    BY <1>0, <1>6 DEF Hello_start, RestartCount
  <2>2. Tail(todo.menu) = <<>>
    BY <1>1, <2>1
  <2>3. Starts("hello") \o Tail(todo.menu) \in MenuRests
    BY <1>3, <1>4, <2>2 DEF MenuRests
  <2>4. /\ DOMAIN todo' = {"loop", "menu"}
        /\ ExpDue' /\ DueOnce' /\ LoopShape' /\ todo'.menu \in MenuRests /\ Budget'
    BY <2>1, <2>3, MenuCall
  <2> QED BY <2>1, <2>4 DEF EndInv, QuietAfterEnd
<1>7. CASE Hello_send("menu")
  <2>1. todo.menu = <<"hello">> /\ Tail(todo.menu) = <<>>
    BY <1>1, <1>7 DEF Hello_send
  <2>2. HelloGoesOnAt(timer_cnt + 1)
    <3>1. /\ Ready("hello") \in {0, 1} /\ Ready("sch") \in {0, 1} /\ Ready("scan") \in {0, 1}
      BY DEF Ready
    <3>2. timer_cnt + Ready("hello") + Ready("sch") + Ready("scan") <= 3 /\ timer_cnt \in Nat
      BY <2>1 DEF EndInv, Budget, ListInv
    <3>3. timer_cnt + 1 \in Int /\ timer_cnt + 1 <= 4
      BY <3>1, <3>2
    <3> QED BY <3>3, GoesOn
  <2>3. Calls("menu", "hello", <<>>) /\ timers' = Timer_set_timeout(timers, "hello")
    BY <1>7, <2>2 DEF Hello_send
  <2>4. Gentle(timers', timers)
    BY <1>0, <2>3 DEF Named
  <2>5. \A t \in Measures : timers'.used[t] => timers.used[t] \/ t = "hello"
    BY <2>3, UsedAfterSet DEF Measures, Named, Periodic, ListInv, ListOK
  <2>6. <<>> \o Tail(todo.menu) \in MenuRests /\ <<>> \o Tail(todo.menu) # <<"hello">>
    BY <1>3, <2>1 DEF MenuRests
  <2> QED BY <1>5, <1>7, <2>3, <2>4, <2>5, <2>6 DEF Hello_send
<1>8. CASE Hello_timeout_start("menu")
  <2>1. Calls("menu", "Hello_timeout_start", Starts("scan"))
    BY <1>8 DEF Hello_timeout_start, Start
  <2>2. Tail(todo.menu) = <<>>
    BY <1>1, <2>1
  <2>3. Starts("scan") \o Tail(todo.menu) = <<>> \/ Starts("scan") \o Tail(todo.menu) = <<"scan">>
    BY <1>3, <1>4, <2>2
  <2>4. Starts("scan") \o Tail(todo.menu) \in MenuRests /\ Starts("scan") \o Tail(todo.menu) # <<"hello">>
    BY <2>3 DEF MenuRests
  <2> QED BY <1>0, <1>5, <1>8, <2>1, <2>4 DEF Hello_timeout_start, Start
<1>9. CASE Hello_timeout_process("menu")
  <2>1. Calls("menu", "scan", <<>>)
    BY <1>9 DEF Hello_timeout_process
  <2>2. <<>> \o Tail(todo.menu) \in MenuRests /\ <<>> \o Tail(todo.menu) # <<"hello">>
    BY <1>1, <1>3, <2>1 DEF MenuRests
  <2>3. timers' = timers \/ timers' = Timer_set_timeout(timers, "scan")
    BY <1>9 DEF Hello_timeout_process
  <2>4. Gentle(timers', timers)
    BY <1>0, <2>3 DEF Named
  <2>5. ASSUME NEW t \in Measures PROVE timers'.used[t] => timers.used[t] \/ t = "scan"
    <3>1. t \in Timer /\ "scan" \in Timer
      BY DEF Measures, Named, Periodic
    <3>2. timers.used[t] \in BOOLEAN
      BY <3>1 DEF ListInv, ListOK
    <3>3. Timer_set_timeout(timers, "scan").used[t] = (t = "scan" \/ timers.used[t])
      BY <3>1, <3>2, UsedAfterSet
    <3> QED BY <2>3, <3>3
  <2> QED BY <1>5, <1>9, <2>1, <2>2, <2>4, <2>5 DEF Hello_timeout_process
<1>10. CASE Timer_Reset("menu")
  <2>1. Calls("menu", "Timer_Reset", <<>>) /\ timers' = Timer_remove(timers, ResetTimers)
    BY <1>10 DEF Timer_Reset
  <2>2. <<>> \o Tail(todo.menu) \in MenuRests /\ <<>> \o Tail(todo.menu) # <<"hello">>
    BY <1>1, <1>3, <2>1 DEF MenuRests
  <2>3. Gentle(timers', timers) /\ \A t \in Measures : timers'.used[t] => timers.used[t]
    BY <1>0, <2>1, RemoveOK DEF Measures, Named, Periodic, ListInv
  <2> QED BY <1>5, <1>10, <2>1, <2>2, <2>3 DEF Timer_Reset
<1>11. CASE rt_table_empty("menu")
  <2>1. Calls("menu", "rt_table_empty", <<>>)
    BY <1>11 DEF rt_table_empty
  <2>2. <<>> \o Tail(todo.menu) \in MenuRests /\ <<>> \o Tail(todo.menu) # <<"hello">>
    BY <1>1, <1>3, <2>1 DEF MenuRests
  <2> QED BY <1>0, <1>5, <1>11, <2>1, <2>2 DEF rt_table_empty
<1>12. CASE \/ SCH_Hello_start("menu") \/ alm_start("menu") \/ Rann_start("menu")
            \/ API_reset_timer_start("menu") \/ Hello_end("menu") \/ SCH_Hello_send("menu")
            \/ API_reset_process("menu")
  BY <1>2, <1>12 DEF SCH_Hello_start, RestartCount, alm_start, Rann_start, Start,
        API_reset_timer_start, Hello_end, SCH_Hello_send, API_reset_process
<1>13. ASSUME NEW t \in Periodic, Rearms("menu", t) PROVE FALSE
  BY <1>2, <1>13 DEF Rearms, Periodic
<1>14. ASSUME NEW s \in Slot, Prep_send("menu", s) PROVE FALSE
  BY <1>2, <1>14, SlotAssumption DEF Prep_send, Named, Call
<1> QED BY <1>6, <1>7, <1>8, <1>9, <1>10, <1>11, <1>12, <1>13, <1>14 DEF ThreadStep

\* The starts of the loop, and the handlers they call at once.

LEMMA InJoin ==
    ASSUME NEW S, NEW a \in Seq(S), NEW b \in Seq(S), NEW t
    PROVE  In(t, a \o b) <=> In(t, a) \/ In(t, b)
<1> DEFINE w == a \o b
<1>1. /\ Len(w) = Len(a) + Len(b) /\ Len(a) \in Nat /\ Len(b) \in Nat
      /\ \A i \in 1 .. Len(a) + Len(b) : w[i] = IF i <= Len(a) THEN a[i] ELSE b[i - Len(a)]
  BY ConcatProperties
<1> HIDE DEF w
<1>2. ASSUME NEW i \in 1 .. Len(w), w[i] = t PROVE In(t, a) \/ In(t, b)
  <2>1. CASE i <= Len(a)
    <3>1. i \in 1 .. Len(a) /\ a[i] = t
      BY <1>1, <1>2, <2>1
    <3> QED BY <3>1 DEF In
  <2>2. CASE i > Len(a)
    <3>1. i - Len(a) \in 1 .. Len(b) /\ b[i - Len(a)] = t
      BY <1>1, <1>2, <2>2
    <3> QED BY <3>1 DEF In
  <2> QED BY <1>1, <2>1, <2>2
<1>3. ASSUME NEW i \in 1 .. Len(a), a[i] = t PROVE In(t, w)
  <2>1. i \in 1 .. Len(w) /\ w[i] = t
    BY <1>1, <1>3
  <2> QED BY <2>1 DEF In
<1>4. ASSUME NEW i \in 1 .. Len(b), b[i] = t PROVE In(t, w)
  <2>1. /\ Len(a) + i \in 1 .. Len(w) /\ ~ (Len(a) + i <= Len(a))
        /\ (Len(a) + i) - Len(a) = i
    BY <1>1, <1>4
  <2>2. w[Len(a) + i] = t
    BY <1>1, <1>4, <2>1
  <2> QED BY <2>1, <2>2 DEF In
<1> QED BY <1>2, <1>3, <1>4 DEF In, w

LEMMA FirstOfJoin ==
    ASSUME NEW S, NEW a \in Seq(S), a # <<>>, NEW b \in Seq(S)
    PROVE  Head(a \o b) = Head(a) /\ Tail(a \o b) = Tail(a) \o b
<1> DEFINE w == a \o b
           r == Tail(a)
           v == r \o b
<1>1. /\ w \in Seq(S) /\ Len(w) = Len(a) + Len(b) /\ Len(a) \in Nat /\ Len(b) \in Nat
      /\ \A i \in 1 .. Len(a) + Len(b) : w[i] = IF i <= Len(a) THEN a[i] ELSE b[i - Len(a)]
  BY ConcatProperties
<1>2. Len(a) >= 1
  BY <1>1
<1>3. w # <<>>
  BY <1>1, <1>2
<1>4. /\ r \in Seq(S) /\ Len(r) = Len(a) - 1 /\ Head(a) = a[1]
      /\ \A i \in 1 .. Len(a) - 1 : r[i] = a[i + 1]
  BY HeadTailProperties
<1>5. /\ Tail(w) \in Seq(S) /\ Len(Tail(w)) = Len(w) - 1 /\ Head(w) = w[1]
      /\ \A i \in 1 .. Len(w) - 1 : Tail(w)[i] = w[i + 1]
  <2> HIDE DEF w
  <2> QED BY <1>1, <1>3, HeadTailProperties
<1> HIDE DEF w, r
<1>6. /\ v \in Seq(S) /\ Len(v) = Len(r) + Len(b)
      /\ \A i \in 1 .. Len(r) + Len(b) : v[i] = IF i <= Len(r) THEN r[i] ELSE b[i - Len(r)]
  BY <1>4, ConcatProperties
<1> HIDE DEF v
<1>7. Head(w) = Head(a)
  BY <1>1, <1>2, <1>4, <1>5
<1>8. Len(Tail(w)) = Len(v)
  BY <1>1, <1>2, <1>4, <1>5, <1>6
<1>9. ASSUME NEW i \in 1 .. Len(v) PROVE Tail(w)[i] = v[i]
  <2>0. i \in Int /\ i >= 1 /\ i <= Len(a) - 1 + Len(b)
    BY <1>1, <1>4, <1>6
  <2>1. Tail(w)[i] = w[i + 1]
    BY <1>1, <1>5, <2>0
  <2>2. CASE i <= Len(r)
    <3>1. i + 1 <= Len(a) /\ i + 1 \in 1 .. Len(a) + Len(b) /\ i \in 1 .. Len(a) - 1
      BY <1>1, <1>4, <2>0, <2>2
    <3> QED BY <1>1, <1>4, <1>6, <2>1, <2>2, <3>1
  <2>3. CASE i > Len(r)
    <3>1. /\ ~ (i + 1 <= Len(a)) /\ i + 1 \in 1 .. Len(a) + Len(b) /\ ~ (i <= Len(r))
          /\ (i + 1) - Len(a) = i - Len(r)
      BY <1>1, <1>4, <2>0, <2>3
    <3> QED BY <1>1, <1>6, <2>1, <3>1
  <2> QED BY <1>1, <1>4, <2>0, <2>2, <2>3
<1>10. Tail(w) = v
  BY <1>5, <1>6, <1>8, <1>9, SeqEqual
<1> QED BY <1>7, <1>10 DEF w, v, r

Alarms == {"check", "alm", "nms"}
Names == Named \cup Call

LEMMA AfterTypes ==
    /\ RannStart \in Seq(Names) /\ AfterAlm \in Seq(Names) /\ AfterSch \in Seq(Names)
    /\ AfterScan \in Seq(Names) /\ AfterHello \in Seq(Names)
    /\ \A t \in Counters : /\ ~ In(t, RannStart) /\ ~ In(t, AfterAlm) /\ ~ In(t, AfterSch)
                           /\ ~ In(t, AfterScan) /\ ~ In(t, AfterHello)
<1>1. RannStart = <<>> \/ RannStart = <<"Rann_start">>
  BY DEF RannStart
<1>2. RannStart \in Seq(Names) /\ \A t \in Counters : ~ In(t, RannStart)
  <2>1. <<>> \in Seq(Names) /\ <<"Rann_start">> \in Seq(Names)
    BY DEF Names, Call
  <2>2. \A t \in Counters : ~ In(t, <<>>) /\ ~ In(t, <<"Rann_start">>)
    BY One DEF Counters
  <2> QED BY <1>1, <2>1, <2>2
<1>3. ASSUME NEW x \in Names \ Counters, NEW w \in Seq(Names), \A t \in Counters : ~ In(t, w)
      PROVE  <<x>> \o w \in Seq(Names) /\ \A t \in Counters : ~ In(t, <<x>> \o w)
  <2>1. <<x>> \in Seq(Names) /\ <<x>> \o w \in Seq(Names)
    BY <1>3, FirstThen
  <2>2. \A t \in Counters : ~ In(t, <<x>>)
    BY <1>3, One
  <2> QED BY <1>3, <2>1, <2>2, InJoin
<1>4. {"API_reset_timer_start", "alm_start", "SCH_Hello_start", "Hello_timeout_start"}
         \subseteq Names \ Counters
  BY DEF Names, Call, Counters
<1>5. AfterAlm \in Seq(Names) /\ \A t \in Counters : ~ In(t, AfterAlm)
  BY <1>2, <1>3, <1>4 DEF AfterAlm
<1>6. AfterSch \in Seq(Names) /\ \A t \in Counters : ~ In(t, AfterSch)
  BY <1>3, <1>4, <1>5 DEF AfterSch
<1>7. AfterScan \in Seq(Names) /\ \A t \in Counters : ~ In(t, AfterScan)
  BY <1>3, <1>4, <1>6 DEF AfterScan
<1>8. AfterHello \in Seq(Names) /\ \A t \in Counters : ~ In(t, AfterHello)
  BY <1>3, <1>4, <1>7 DEF AfterHello
<1> QED BY <1>2, <1>5, <1>6, <1>7, <1>8

LEMMA AlarmsThen ==
    ASSUME NEW pre \in Seq(Alarms)
    PROVE  /\ pre \o AfterAlm \in Seq(Names)
           /\ \A t \in Counters : ~ In(t, pre \o AfterAlm)
           /\ pre # <<>> => /\ Head(pre \o AfterAlm) \in Alarms
                            /\ Tail(pre) \in Seq(Alarms)
                            /\ Tail(pre \o AfterAlm) = Tail(pre) \o AfterAlm
           /\ pre = <<>> => pre \o AfterAlm = AfterAlm
<1>1. AfterAlm \in Seq(Names) /\ \A t \in Counters : ~ In(t, AfterAlm)
  BY AfterTypes
<1>2. Alarms \subseteq Names /\ Alarms \cap Counters = {}
  BY DEF Alarms, Names, Named, Periodic, Counters
<1>3. pre \in Seq(Names) /\ \A t \in Counters : ~ In(t, pre)
  BY <1>2 DEF In
<1>4. pre \o AfterAlm \in Seq(Names) /\ \A t \in Counters : ~ In(t, pre \o AfterAlm)
  BY <1>1, <1>3, InJoin
<1>5. ASSUME pre # <<>>
      PROVE  /\ Head(pre \o AfterAlm) \in Alarms
             /\ Tail(pre) \in Seq(Alarms)
             /\ Tail(pre \o AfterAlm) = Tail(pre) \o AfterAlm
  <2>1. Head(pre) \in Alarms /\ Tail(pre) \in Seq(Alarms)
    BY <1>5
  <2>2. Head(pre \o AfterAlm) = Head(pre) /\ Tail(pre \o AfterAlm) = Tail(pre) \o AfterAlm
    BY <1>1, <1>3, <1>5, FirstOfJoin
  <2> QED BY <2>1, <2>2
<1>6. pre = <<>> => pre \o AfterAlm = AfterAlm
  BY <1>1, ConcatEmptySeq
<1> QED BY <1>4, <1>5, <1>6

\* The call a node that is starting makes, and what is left to do then.
LEMMA BootTable ==
    ASSUME EndInv, ~ Started, NEW n, NEW rest, Calls("loop", n, rest)
    PROVE  /\ Tail(todo.loop) \in Seq(Names)
           /\ \A t \in Counters : ~ In(t, Tail(todo.loop))
           /\ \/ n = "Hello_start" /\ Tail(todo.loop) = AfterHello
              \/ n = "hello" /\ Tail(todo.loop) = AfterHello /\ timer_cnt = 0
              \/ n = "Hello_timeout_start" /\ Tail(todo.loop) = AfterScan
              \/ n = "scan" /\ Tail(todo.loop) = AfterScan
              \/ n = "SCH_Hello_start" /\ Tail(todo.loop) = AfterSch
              \/ n = "sch" /\ Tail(todo.loop) = AfterSch
              \/ n = "alm_start" /\ Tail(todo.loop) = AfterAlm
              \/ n \in Alarms /\ \E pre \in Seq(Alarms) : Tail(todo.loop) = pre \o AfterAlm
              \/ n = "API_reset_timer_start" /\ Tail(todo.loop) = RannStart
              \/ n = "Rann_start" /\ Tail(todo.loop) = <<>> /\ RootNode /\ "api" \in handlers
<1>1. todo.loop # <<>> /\ Head(todo.loop) = n
  BY CallShape
<1>2. Booting
  BY DEF EndInv, LoopShape
<1>3. ASSUME NEW x \in Names, NEW w \in Seq(Names), todo.loop = <<x>> \o w
      PROVE  n = x /\ Tail(todo.loop) = w
  BY <1>1, <1>3, FirstThen
<1>4. {"Hello_start", "hello", "Hello_timeout_start", "scan", "SCH_Hello_start", "sch",
       "alm_start", "API_reset_timer_start", "Rann_start"} \subseteq Names
  BY DEF Names, Named, Call
<1>5. CASE todo.loop = <<"Hello_start">> \o AfterHello
  <2>1. todo.loop = <<"Hello_start">> \o AfterHello /\ "Hello_start" \in Names
    BY <1>4, <1>5
  <2>2. n = "Hello_start" /\ Tail(todo.loop) = AfterHello
    BY <1>3, <2>1, AfterTypes
  <2> QED BY <1>5, <2>2, AfterTypes
<1>6. CASE todo.loop = <<"hello">> \o AfterHello /\ timer_cnt = 0
  <2>1. todo.loop = <<"hello">> \o AfterHello /\ "hello" \in Names
    BY <1>4, <1>6
  <2>2. n = "hello" /\ Tail(todo.loop) = AfterHello
    BY <1>3, <2>1, AfterTypes
  <2> QED BY <1>6, <2>2, AfterTypes
<1>7. CASE todo.loop = AfterHello
  <2>1. todo.loop = <<"Hello_timeout_start">> \o AfterScan /\ "Hello_timeout_start" \in Names
    BY <1>4, <1>7 DEF AfterHello
  <2>2. n = "Hello_timeout_start" /\ Tail(todo.loop) = AfterScan
    BY <1>3, <2>1, AfterTypes
  <2> QED BY <1>7, <2>2, AfterTypes
<1>8. CASE todo.loop = <<"scan">> \o AfterScan
  <2>1. todo.loop = <<"scan">> \o AfterScan /\ "scan" \in Names
    BY <1>4, <1>8
  <2>2. n = "scan" /\ Tail(todo.loop) = AfterScan
    BY <1>3, <2>1, AfterTypes
  <2> QED BY <1>8, <2>2, AfterTypes
<1>9. CASE todo.loop = AfterScan
  <2>1. todo.loop = <<"SCH_Hello_start">> \o AfterSch /\ "SCH_Hello_start" \in Names
    BY <1>4, <1>9 DEF AfterScan
  <2>2. n = "SCH_Hello_start" /\ Tail(todo.loop) = AfterSch
    BY <1>3, <2>1, AfterTypes
  <2> QED BY <1>9, <2>2, AfterTypes
<1>10. CASE todo.loop = <<"sch">> \o AfterSch
  <2>1. todo.loop = <<"sch">> \o AfterSch /\ "sch" \in Names
    BY <1>4, <1>10
  <2>2. n = "sch" /\ Tail(todo.loop) = AfterSch
    BY <1>3, <2>1, AfterTypes
  <2> QED BY <1>10, <2>2, AfterTypes
<1>11. CASE todo.loop = AfterSch
  <2>1. todo.loop = <<"alm_start">> \o AfterAlm /\ "alm_start" \in Names
    BY <1>4, <1>11 DEF AfterSch
  <2>2. n = "alm_start" /\ Tail(todo.loop) = AfterAlm
    BY <1>3, <2>1, AfterTypes
  <2> QED BY <1>11, <2>2, AfterTypes
<1>12. ASSUME NEW pre \in Seq(Alarms), todo.loop = pre \o AfterAlm
       PROVE  /\ Tail(todo.loop) \in Seq(Names)
              /\ \A t \in Counters : ~ In(t, Tail(todo.loop))
              /\ \/ n \in Alarms /\ \E more \in Seq(Alarms) : Tail(todo.loop) = more \o AfterAlm
                 \/ n = "API_reset_timer_start" /\ Tail(todo.loop) = RannStart
  <2>1. CASE pre = <<>>
    <3>1. todo.loop = <<"API_reset_timer_start">> \o RannStart
      BY <1>12, <2>1, AlarmsThen DEF AfterAlm
    <3>2. n = "API_reset_timer_start" /\ Tail(todo.loop) = RannStart
      BY <1>3, <1>4, <3>1, AfterTypes
    <3> QED BY <3>2, AfterTypes
  <2>2. CASE pre # <<>>
    <3>1. /\ n \in Alarms /\ Tail(pre) \in Seq(Alarms)
          /\ Tail(todo.loop) = Tail(pre) \o AfterAlm
      BY <1>1, <1>12, <2>2, AlarmsThen
    <3>2. /\ Tail(todo.loop) \in Seq(Names)
          /\ \A t \in Counters : ~ In(t, Tail(todo.loop))
      BY <3>1, AlarmsThen
    <3> QED BY <3>1, <3>2
  <2> QED BY <2>1, <2>2
<1>13. CASE todo.loop = <<"Rann_start">> /\ RootNode /\ "api" \in handlers
  <2>1. n = "Rann_start" /\ Tail(todo.loop) = <<>>
    BY <1>1, <1>13, One
  <2>2. \A t \in Counters : ~ In(t, <<>>)
    BY One
  <2>3. <<>> \in Seq(Names)
    OBVIOUS
  <2> QED BY <1>13, <2>1, <2>2, <2>3
<1> QED BY <1>2, <1>5, <1>6, <1>7, <1>8, <1>9, <1>10, <1>11, <1>12, <1>13 DEF Booting, Alarms

\* What remains to be shown of a call of a node that is starting.
LEMMA BootCall ==
    ASSUME ListInv, ListInv', EndInv, ~ Started, NEW n, NEW rest \in Seq(Names),
           Calls("loop", n, rest), Gentle(timers', timers),
           \A t \in Counters : In(t, rest) => ~ timers.used[t],
           RootNode' = RootNode, ~ config_end'
    PROVE  /\ todo'.loop = rest \o Tail(todo.loop) /\ todo'.menu = <<>>
           /\ UNCHANGED <<AfterHello, AfterScan, AfterSch, AfterAlm, RannStart>>
           /\ LoopShape' => EndInv'
<1>1. /\ DOMAIN todo' = {"loop", "menu"} /\ todo'.menu = todo.menu
      /\ todo'.loop = rest \o Tail(todo.loop)
  BY CallShape
<1>2. todo.menu = <<>>
  BY DEF EndInv, LoopShape
<1>3. UNCHANGED <<AfterHello, AfterScan, AfterSch, AfterAlm, RannStart>>
  BY DEF AfterHello, AfterScan, AfterSch, AfterAlm, RannStart
<1>4. \A t \in Counters : In(t, todo'.loop) => In(t, rest)
  <2>1. Tail(todo.loop) \in Seq(Names) /\ \A t \in Counters : ~ In(t, Tail(todo.loop))
    BY BootTable
  <2> DEFINE w == Tail(todo.loop)
  <2> HIDE DEF w
  <2>2. todo'.loop = rest \o w /\ w \in Seq(Names) /\ \A t \in Counters : ~ In(t, w)
    BY <1>1, <2>1 DEF w
  <2>3. \A t \in Counters : In(t, rest \o w) <=> In(t, rest) \/ In(t, w)
    BY <2>2, InJoin
  <2> QED BY <2>2, <2>3
<1>5. ExpDue' /\ DueOnce'
  BY <1>4, ListParts
<1>6. todo'.menu \in MenuRests /\ Budget'
  BY <1>1, <1>2 DEF EndInv, Budget
<1>7. QuietAfterEnd'
  BY DEF QuietAfterEnd
<1> QED BY <1>1, <1>2, <1>3, <1>5, <1>6, <1>7 DEF EndInv

LEMMA StartsNames ==
    ASSUME NEW t \in Named
    PROVE  /\ Starts(t) \in Seq(Names) /\ (Starts(t) = <<>> \/ Starts(t) = <<t>>)
           /\ \A u : In(u, Starts(t)) => u = t /\ ~ timers.used[u]
<1>1. CASE timers.used[t]
  <2>1. Starts(t) = <<>>
    BY <1>1 DEF Starts
  <2>2. \A u : ~ In(u, <<>>)
    BY One
  <2>3. <<>> \in Seq(Names)
    OBVIOUS
  <2> QED BY <2>1, <2>2, <2>3
<1>2. CASE ~ timers.used[t]
  <2>1. Starts(t) = <<t>> /\ t \in Names
    BY <1>2 DEF Starts, Names
  <2> QED BY <1>2, <2>1, One
<1> QED BY <1>1, <1>2

\* Every call of the loop of a node that is starting.
LEMMA BootStep ==
    ASSUME ListInv, ListInv', EndInv, ~ Started, ThreadStep("loop")
    PROVE  EndInv'
<1> USE DEF control, counts, replies
<1>l. ListOK(timers)
  BY DEF ListInv
<1>0. Gentle(timers, timers)
  BY DEF Gentle
<1>r. \A T : Gentle(Timer_remove(timers, T), timers)
  BY <1>l, RemoveGentle
<1>s. \A t \in Timer : Gentle(Timer_set_timeout(timers, t), timers)
  BY <1>l, SetGentle
<1>q. ~ config_end /\ (RootNode => "rann" \notin handlers) /\ todo.menu = <<>>
  BY DEF EndInv, LoopShape
<1>m. \A u : ~ In(u, <<>>)
  BY One
<1>n. <<>> \in Seq(Names) /\ \A u : ~ In(u, <<>>)
  BY <1>m
<1>e. \A w \in Seq(Names) : <<>> \o w = w /\ w \o <<>> = w
  BY ConcatEmptySeq
<1>f. Alarms \cap {"Hello_start", "hello", "Hello_timeout_start", "scan", "SCH_Hello_start",
                   "sch"} = {}
  BY DEF Alarms
<1>1. ASSUME handlers' \ handlers \subseteq Timer \ {"api", "rann"}, RootNode' = RootNode,
             ~ config_end', todo'.menu = <<>>, Booting'
      PROVE  LoopShape'
  <2>1. ~ Started'
    BY <1>1 DEF Started
  <2>2. RootNode' => "rann" \notin handlers'
    BY <1>0, <1>r, <1>s, <1>q, <1>1
  <2> QED BY <1>1, <2>1, <2>2 DEF LoopShape
<1>2. ASSUME NEW n, NEW rest, Calls("loop", n, rest),
             n \notin {"Hello_start", "hello", "Hello_timeout_start", "scan", "SCH_Hello_start",
                       "sch", "alm_start", "check", "alm", "nms", "API_reset_timer_start",
                       "Rann_start"}
      PROVE  FALSE
  BY <1>2, BootTable DEF Alarms
<1>3. CASE Hello_start("loop")
  <2>1. /\ Calls("loop", "Hello_start", Starts("hello")) /\ timer_cnt' = 0 /\ ~ config_end'
        /\ Gentle(timers', timers) /\ RootNode' = RootNode /\ handlers' = handlers \cup {"hello"}
    BY <1>0, <1>r, <1>s, <1>q, <1>3 DEF Hello_start, RestartCount
  <2>2. Tail(todo.loop) = AfterHello
    BY <1>f, <2>1, BootTable
  <2>3. /\ todo'.loop = Starts("hello") \o AfterHello /\ todo'.menu = <<>>
        /\ UNCHANGED AfterHello /\ (LoopShape' => EndInv')
    BY <2>1, <2>2, BootCall, StartsNames DEF Named
  <2>4. Booting'
    <3>1. todo'.loop = AfterHello \/ todo'.loop = <<"hello">> \o AfterHello
      BY <1>e, <2>3, AfterTypes DEF Starts
    <3> QED BY <2>1, <2>3, <3>1 DEF Booting
  <2>5. LoopShape'
    BY <1>1, <2>1, <2>3, <2>4 DEF Named
  <2> QED BY <2>3, <2>5
<1>4. CASE Hello_send("loop")
  <2>1. Calls("loop", "hello", IF HelloGoesOnAt(timer_cnt + 1) THEN <<>> ELSE <<"Hello_end">>)
    BY <1>4 DEF Hello_send
  <2>2. Tail(todo.loop) = AfterHello /\ timer_cnt = 0
    BY <1>f, <2>1, BootTable
  <2>3. HelloGoesOnAt(timer_cnt + 1)
    BY <2>2, GoesOn
  <2>4. /\ Calls("loop", "hello", <<>>) /\ Gentle(timers', timers)
        /\ RootNode' = RootNode /\ ~ config_end' /\ handlers' = handlers
    BY <1>0, <1>r, <1>s, <1>q, <1>4, <2>3 DEF Hello_send, Named
  <2>5. /\ todo'.loop = <<>> \o AfterHello /\ todo'.menu = <<>>
        /\ UNCHANGED AfterHello /\ (LoopShape' => EndInv')
    BY <1>n, <2>2, <2>4, BootCall
  <2>6. Booting'
    BY <1>e, <2>5, AfterTypes DEF Booting
  <2> QED BY <1>1, <2>4, <2>5, <2>6
<1>5. CASE Hello_timeout_start("loop")
  <2>1. /\ Calls("loop", "Hello_timeout_start", Starts("scan")) /\ ~ config_end'
        /\ Gentle(timers', timers) /\ RootNode' = RootNode /\ handlers' = handlers \cup {"scan"}
    BY <1>0, <1>r, <1>s, <1>q, <1>5 DEF Hello_timeout_start, Start
  <2>2. Tail(todo.loop) = AfterScan
    BY <1>f, <2>1, BootTable
  <2>3. /\ todo'.loop = Starts("scan") \o AfterScan /\ todo'.menu = <<>>
        /\ UNCHANGED AfterScan /\ (LoopShape' => EndInv')
    BY <2>1, <2>2, BootCall, StartsNames DEF Named
  <2>4. Booting'
    <3>1. todo'.loop = AfterScan \/ todo'.loop = <<"scan">> \o AfterScan
      BY <1>e, <2>3, AfterTypes DEF Starts
    <3> QED BY <2>3, <3>1 DEF Booting
  <2>5. LoopShape'
    BY <1>1, <2>1, <2>3, <2>4 DEF Named
  <2> QED BY <2>3, <2>5
<1>6. CASE Hello_timeout_process("loop")
  <2>1. /\ Calls("loop", "scan", <<>>) /\ Gentle(timers', timers)
        /\ RootNode' = RootNode /\ ~ config_end' /\ handlers' = handlers
    BY <1>0, <1>r, <1>s, <1>q, <1>6 DEF Hello_timeout_process, Named
  <2>2. Tail(todo.loop) = AfterScan
    BY <1>f, <2>1, BootTable
  <2>3. /\ todo'.loop = <<>> \o AfterScan /\ todo'.menu = <<>>
        /\ UNCHANGED AfterScan /\ (LoopShape' => EndInv')
    BY <1>n, <2>1, <2>2, BootCall
  <2>4. Booting'
    BY <1>e, <2>3, AfterTypes DEF Booting
  <2> QED BY <1>1, <2>1, <2>3, <2>4
<1>7. CASE SCH_Hello_start("loop")
  <2>1. /\ Calls("loop", "SCH_Hello_start", Starts("sch")) /\ ~ config_end'
        /\ Gentle(timers', timers) /\ RootNode' = RootNode /\ handlers' = handlers \cup {"sch"}
    BY <1>0, <1>r, <1>s, <1>q, <1>7 DEF SCH_Hello_start, RestartCount
  <2>2. Tail(todo.loop) = AfterSch
    BY <1>f, <2>1, BootTable
  <2>3. /\ todo'.loop = Starts("sch") \o AfterSch /\ todo'.menu = <<>>
        /\ UNCHANGED AfterSch /\ (LoopShape' => EndInv')
    BY <2>1, <2>2, BootCall, StartsNames DEF Named
  <2>4. Booting'
    <3>1. todo'.loop = AfterSch \/ todo'.loop = <<"sch">> \o AfterSch
      BY <1>e, <2>3, AfterTypes DEF Starts
    <3> QED BY <2>3, <3>1 DEF Booting
  <2>5. LoopShape'
    BY <1>1, <2>1, <2>3, <2>4 DEF Named
  <2> QED BY <2>3, <2>5
<1>8. CASE SCH_Hello_send("loop")
  <2>1. /\ Calls("loop", "sch", <<>>) /\ Gentle(timers', timers)
        /\ RootNode' = RootNode /\ ~ config_end' /\ handlers' = handlers
    BY <1>0, <1>r, <1>s, <1>q, <1>8 DEF SCH_Hello_send, Named
  <2>2. Tail(todo.loop) = AfterSch
    BY <1>f, <2>1, BootTable
  <2>3. /\ todo'.loop = <<>> \o AfterSch /\ todo'.menu = <<>>
        /\ UNCHANGED AfterSch /\ (LoopShape' => EndInv')
    BY <1>n, <2>1, <2>2, BootCall
  <2>4. Booting'
    BY <1>e, <2>3, AfterTypes DEF Booting
  <2> QED BY <1>1, <2>1, <2>3, <2>4
<1>9. CASE alm_start("loop")
  <2> DEFINE N == IF RootNode THEN Starts("nms") ELSE <<>>
             C == Starts("check")
             A == Starts("alm")
             pre == C \o A \o N
  <2>1. \A t \in Alarms : Starts(t) \in Seq(Alarms)
    <3>1. \A t \in Alarms : <<t>> \in Seq(Alarms)
      OBVIOUS
    <3>2. <<>> \in Seq(Alarms)
      OBVIOUS
    <3> QED BY <3>1, <3>2 DEF Starts
  <2>2. C \in Seq(Alarms) /\ A \in Seq(Alarms) /\ N \in Seq(Alarms)
    <3>1. <<>> \in Seq(Alarms)
      OBVIOUS
    <3> QED BY <2>1, <3>1 DEF Alarms
  <2>3. /\ Calls("loop", "alm_start", pre) /\ ~ config_end' /\ Gentle(timers', timers)
        /\ RootNode' = RootNode
        /\ handlers' \ handlers \subseteq {"check", "alm", "nms"}
    BY <1>0, <1>r, <1>s, <1>q, <1>9 DEF alm_start, Start
  <2> HIDE DEF N, C, A
  <2>4. pre \in Seq(Alarms)
    BY <2>2
  <2> HIDE DEF pre
  <2>5. pre \in Seq(Names) /\ \A t \in Counters : ~ In(t, pre)
    <3>1. Alarms \subseteq Names /\ Alarms \cap Counters = {}
      BY DEF Alarms, Names, Named, Periodic, Counters
    <3> QED BY <2>4, <3>1 DEF In
  <2>6. Tail(todo.loop) = AfterAlm
    BY <2>3, BootTable DEF Alarms
  <2>7. /\ todo'.loop = pre \o AfterAlm /\ todo'.menu = <<>>
        /\ UNCHANGED AfterAlm /\ (LoopShape' => EndInv')
    BY <2>3, <2>5, <2>6, BootCall
  <2>8. Booting'
    BY <2>4, <2>7 DEF Booting, Alarms
  <2>9. LoopShape'
    BY <1>1, <2>3, <2>7, <2>8 DEF Named, Periodic
  <2> QED BY <2>7, <2>9
<1>10. ASSUME NEW t \in Periodic, Rearms("loop", t) PROVE EndInv'
  <2>1. /\ Calls("loop", t, <<>>) /\ Gentle(timers', timers)
        /\ RootNode' = RootNode /\ ~ config_end' /\ handlers' = handlers
    BY <1>0, <1>r, <1>s, <1>q, <1>10 DEF Rearms, Named
  <2>2. t \in Alarms
    BY <1>2, <2>1 DEF Periodic, Alarms
  <2>3. PICK pre \in Seq(Alarms) : Tail(todo.loop) = pre \o AfterAlm
    BY <2>1, <2>2, BootTable DEF Alarms
  <2>4. /\ todo'.loop = <<>> \o (pre \o AfterAlm) /\ todo'.menu = <<>>
        /\ UNCHANGED AfterAlm /\ (LoopShape' => EndInv')
    BY <1>n, <2>1, <2>3, BootCall
  <2>5. todo'.loop = pre \o AfterAlm
    BY <1>e, <2>4, AlarmsThen
  <2>6. Booting'
    BY <2>4, <2>5 DEF Booting, Alarms
  <2> QED BY <1>1, <2>1, <2>4, <2>6
<1>11. CASE API_reset_timer_start("loop")
  <2>1. /\ Calls("loop", "API_reset_timer_start", <<>>) /\ Gentle(timers', timers)
        /\ RootNode' = RootNode /\ ~ config_end' /\ handlers' = handlers \cup {"api"}
    BY <1>0, <1>r, <1>s, <1>q, <1>11 DEF API_reset_timer_start
  <2>2. Tail(todo.loop) = RannStart
    BY <2>1, BootTable DEF Alarms
  <2>3. /\ todo'.loop = <<>> \o RannStart /\ todo'.menu = <<>> /\ (LoopShape' => EndInv')
    BY <1>n, <2>1, <2>2, BootCall
  <2>4. todo'.loop = IF RootNode THEN <<"Rann_start">> ELSE <<>>
    BY <1>e, <2>3, AfterTypes DEF RannStart
  <2>5. CASE RootNode
    <3>1. "rann" \notin handlers' /\ "api" \in handlers'
      BY <1>0, <1>r, <1>s, <1>q, <2>1, <2>5
    <3>2. ~ Started'
      BY <2>1, <2>5, <3>1 DEF Started
    <3>3. Booting'
      BY <2>1, <2>4, <2>5, <3>1 DEF Booting
    <3> QED BY <2>1, <2>3, <3>1, <3>2, <3>3 DEF LoopShape
  <2>6. CASE ~ RootNode
    <3>1. Started'
      BY <2>1, <2>6 DEF Started
    <3> QED BY <2>3, <2>4, <2>6, <3>1 DEF LoopShape
  <2> QED BY <2>5, <2>6
<1>12. CASE Rann_start("loop")
  <2>1. /\ Calls("loop", "Rann_start", Starts("rann")) /\ Gentle(timers', timers)
        /\ RootNode' = RootNode /\ ~ config_end' /\ handlers' = handlers \cup {"rann"}
    BY <1>0, <1>r, <1>s, <1>q, <1>12 DEF Rann_start, Start
  <2>2. Tail(todo.loop) = <<>> /\ RootNode /\ "api" \in handlers
    BY <2>1, BootTable DEF Alarms
  <2>3. \A t \in Counters : ~ In(t, Starts("rann"))
    BY StartsNames DEF Named, Periodic, Counters
  <2>4. /\ todo'.loop = Starts("rann") \o <<>> /\ todo'.menu = <<>> /\ (LoopShape' => EndInv')
    BY <2>1, <2>2, <2>3, BootCall, StartsNames DEF Named, Periodic
  <2>5. todo'.loop = <<>> \/ todo'.loop = <<"rann">>
    BY <1>e, <2>4, StartsNames DEF Named, Periodic
  <2>6. Started'
    BY <2>1, <2>2 DEF Started
  <2> QED BY <2>4, <2>5, <2>6 DEF LoopShape, Named, Periodic
<1>13. CASE \/ Hello_end("loop") \/ API_reset_process("loop") \/ Timer_Reset("loop")
            \/ rt_table_empty("loop")
  BY <1>2, <1>13 DEF Hello_end, API_reset_process, Timer_Reset, rt_table_empty
<1>14. ASSUME NEW s \in Slot, Prep_send("loop", s) PROVE FALSE
  BY <1>2, <1>14, SlotAssumption DEF Prep_send, Named, Call, Periodic
<1> QED BY <1>3, <1>4, <1>5, <1>6, <1>7, <1>8, <1>9, <1>10, <1>11, <1>12, <1>13, <1>14
        DEF ThreadStep

\* A step that makes no call and arms no timer that measures.
LEMMA NoCall ==
    ASSUME ListInv, ListInv', EndInv, Gentle(timers', timers), todo' = todo,
           handlers \subseteq handlers', (handlers' \ handlers) \cap {"api", "rann"} = {},
           UNCHANGED <<RootNode, config_end, late_end, timer_cnt>>,
           \A t \in Measures : timers'.used[t] => timers.used[t]
    PROVE  EndInv'
<1>1. /\ ExpDue' /\ DueOnce'
      /\ \A t \in Counters : Ready(t)' \in {0, 1} /\ Ready(t) \in {0, 1} /\ Ready(t)' <= Ready(t)
  BY ListParts
<1>2. Budget'
  <2>1. timer_cnt' <= timer_cnt /\ todo'.menu = todo.menu
    BY DEF ListInv
  <2> QED BY <2>1, BudgetKept
<1>3. Started' <=> Started
  BY DEF Started
<1>4. UNCHANGED <<AfterHello, AfterScan, AfterSch, AfterAlm, RannStart>>
  BY DEF AfterHello, AfterScan, AfterSch, AfterAlm, RannStart
<1>5. Booting => Booting'
  BY <1>4 DEF Booting
<1>6. LoopShape'
  BY <1>3, <1>5 DEF EndInv, LoopShape
<1>7. QuietAfterEnd'
  BY QuietKept DEF EndInv
<1> QED BY <1>1, <1>2, <1>6, <1>7 DEF EndInv

LEMMA BootBusy == ASSUME EndInv, todo.loop = <<>> PROVE Started
<1>1. \A x \in Names : \A w \in Seq(Names) : <<x>> \o w # <<>>
  BY FirstThen
<1>2. AfterHello # <<>> /\ AfterScan # <<>> /\ AfterSch # <<>> /\ AfterAlm # <<>>
  <2>1. {"Hello_timeout_start", "SCH_Hello_start", "alm_start", "API_reset_timer_start"}
            \subseteq Names
    BY DEF Names, Call
  <2>2. AfterHello # <<>>
    BY <1>1, <2>1, AfterTypes DEF AfterHello
  <2>3. AfterScan # <<>>
    BY <1>1, <2>1, AfterTypes DEF AfterScan
  <2>4. AfterSch # <<>>
    BY <1>1, <2>1, AfterTypes DEF AfterSch
  <2>5. AfterAlm # <<>>
    BY <1>1, <2>1, AfterTypes DEF AfterAlm
  <2> QED BY <2>2, <2>3, <2>4, <2>5
<1>3. {"Hello_start", "hello", "scan", "sch"} \subseteq Names
  BY DEF Names, Call, Named
<1>4. /\ <<"Hello_start">> \o AfterHello # <<>> /\ <<"hello">> \o AfterHello # <<>>
      /\ <<"scan">> \o AfterScan # <<>> /\ <<"sch">> \o AfterSch # <<>>
      /\ <<"Rann_start">> # <<>>
  BY <1>1, <1>3, AfterTypes
<1>5. \A pre \in Seq({"check", "alm", "nms"}) : pre \o AfterAlm # <<>>
  <2> SUFFICES ASSUME NEW pre \in Seq(Alarms) PROVE pre \o AfterAlm # <<>>
    BY DEF Alarms
  <2>1. pre \in Seq(Names) /\ AfterAlm \in Seq(Names)
    <3>1. Alarms \subseteq Names
      BY DEF Alarms, Names, Named, Periodic
    <3> QED BY <3>1, AfterTypes
  <2> QED BY <1>2, <2>1, ConcatEqualIffEmpty
<1>6. ~ Booting
  BY <1>2, <1>4, <1>5 DEF Booting
<1> QED BY <1>6 DEF EndInv, LoopShape

\* The timers Timer_timeout takes out have no time left.
LEMMA MovedDue ==
    ASSUME NEW L, ListOK(L), NEW t, In(t, Moved(L).exp)
    PROVE  L.left[t] <= 0
<1> DEFINE k == Expired(L)
           w == SubSeq(L.tq, 1, k)
<1>1. k \in 0 .. Len(L.tq) /\ \A i \in 1 .. k : L.left[L.tq[i]] <= 0
  BY ExpiredSpec DEF ListOK
<1> HIDE DEF k
<1>2. L.tq \in Seq(Timer) /\ \A i \in 1 .. k : L.tq[i] \in Timer
  BY <1>1 DEF ListOK
<1>3. Len(w) = k /\ \A i \in 1 .. k : w[i] = L.tq[i]
  BY <1>1, <1>2, SubSeqProperties
<1>4. Moved(L).exp = w
  BY DEF Moved, k
<1> HIDE DEF w
<1> QED BY <1>1, <1>3, <1>4 DEF In

LEMMA EndInvNext == ListInv /\ ListInv' /\ EndInv /\ [Next]_vars => EndInv'
<1> SUFFICES ASSUME ListInv, ListInv', EndInv, [Next]_vars PROVE EndInv'
  OBVIOUS
<1> USE DEF control, counts, replies
<1>0. Gentle(timers, timers) /\ \A t \in Timer : Gentle(Timer_set_timeout(timers, t), timers)
  <2>1. ListOK(timers)
    BY DEF ListInv
  <2>2. Gentle(timers, timers)
    BY DEF Gentle
  <2> QED BY <2>1, <2>2, SetGentle
<1>1. ASSUME NEW th \in {"loop", "menu"}, ThreadStep(th) PROVE EndInv'
  BY <1>1, StartedLoop, BootStep, MenuStep
<1>2. CASE Timer_timeout
  <2>1. /\ timers' = Moved(timers) /\ todo' = todo /\ handlers' = handlers
        /\ UNCHANGED <<RootNode, config_end, late_end, timer_cnt>> /\ todo.loop = <<>>
    BY <1>2 DEF Timer_timeout, Idle
  <2>2. timers'.used = timers.used /\ timers'.left = timers.left
    BY <2>1 DEF Moved
  <2>3. ExpDue'
    BY <2>1, <2>2, MovedDue DEF ExpDue, ListInv
  <2>4. DueOnce' /\ \A t : Ready(t)' = Ready(t)
    BY <2>1, <2>2 DEF DueOnce, Ready, EndInv
  <2>5. Budget'
    BY <2>1, <2>4 DEF Budget, EndInv
  <2>6. Started
    BY <2>1, BootBusy
  <2>7. LoopShape'
    BY <2>1, <2>6 DEF LoopShape, Started
  <2>8. QuietAfterEnd'
    BY <2>1, <2>2 DEF QuietAfterEnd, EndInv
  <2> QED BY <2>1, <2>3, <2>4, <2>5, <2>7, <2>8 DEF EndInv
<1>3. CASE CallHandler
  <2> DEFINE x == Head(timers.exp)
  <2>1. /\ timers' = Timer_remove(timers, {x}) /\ todo' = [todo EXCEPT !.loop = <<x>>]
        /\ handlers' = handlers /\ todo.loop = <<>> /\ timers.exp # <<>>
        /\ UNCHANGED <<RootNode, config_end, late_end, timer_cnt>>
    BY <1>3 DEF CallHandler
  <2>2. x \in Timer /\ In(x, timers.exp)
    <3>1. timers.exp \in Seq(Timer) /\ timers.exp # <<>>
      BY <2>1 DEF ListInv, ListOK
    <3>2. 1 \in 1 .. Len(timers.exp) /\ x = timers.exp[1] /\ x \in Timer
      BY <3>1
    <3> QED BY <3>2 DEF In
  <2>3. timers.used[x] /\ timers.left[x] <= 0
    BY <2>2 DEF ListInv, ListOK, EndInv, ExpDue
  <2> HIDE DEF x
  <2>4. Gentle(timers', timers) /\ \A t \in Timer : timers'.used[t] <=> timers.used[t] /\ t # x
    BY <2>1, RemoveGentle, RemoveOK DEF ListInv
  <2>5. /\ DOMAIN todo' = {"loop", "menu"} /\ todo'.loop = <<x>> /\ todo'.menu = todo.menu
        /\ \A t : In(t, todo'.loop) <=> t = x
        /\ ToSet(todo'.loop) = {x}
    BY <2>1, One DEF EndInv
  <2>6. \A t \in Counters : t \in Timer
    BY DEF Counters, Named
  <2>7. ExpDue' /\ DueOnce'
    <3>1. ExpDue'
      BY <2>4 DEF ExpDue, Gentle, EndInv
    <3>2. DueOnce'
      BY <2>4, <2>5, <2>6 DEF DueOnce
    <3> QED BY <3>1, <3>2
  <2>8. \A t \in Counters : Ready(t)' \in {0, 1} /\ Ready(t) \in {0, 1} /\ Ready(t)' <= Ready(t)
    <3> SUFFICES ASSUME NEW t \in Counters
                 PROVE  Ready(t)' \in {0, 1} /\ Ready(t) \in {0, 1} /\ Ready(t)' <= Ready(t)
      OBVIOUS
    <3>1. CASE t = x
      BY <2>3, <3>1 DEF Ready
    <3>2. CASE t # x
      BY <2>4, <2>5, <2>6, <3>2 DEF Ready, Gentle
    <3> QED BY <3>1, <3>2
  <2>9. Budget'
    <3>1. CASE todo.menu = <<"hello">>
      <4> DEFINE sum == Ready("hello") + Ready("sch") + Ready("scan")
                 sumN == Ready("hello")' + Ready("sch")' + Ready("scan")'
      <4>1. timer_cnt + Ready("hello") + Ready("sch") + Ready("scan") <= 3 /\ timer_cnt \in Nat
        BY <3>1 DEF EndInv, Budget, ListInv
      <4>2. timer_cnt + Ready("hello")' + Ready("sch")' + Ready("scan")' <= 3
        BY <2>8, <4>1 DEF Counters
      <4> QED BY <2>1, <4>2 DEF Budget
    <3> QED BY <2>5, <3>1 DEF Budget
  <2>10. LoopShape'
    <3>1. Started
      BY <2>1, BootBusy
    <3>2. Started'
      BY <2>1, <3>1 DEF Started
    <3> QED BY <2>2, <2>5, <3>2 DEF LoopShape
  <2>11. QuietAfterEnd'
    <3> SUFFICES ASSUME config_end, ~ late_end, NEW t \in Measures
                 PROVE  ~ timers'.used[t] /\ \A th \in {"loop", "menu"} : t \notin ToSet(todo'[th])
      BY <2>1 DEF QuietAfterEnd, Measures
    <3>1. ~ timers.used[t] /\ t \notin ToSet(todo.menu)
      BY DEF EndInv, QuietAfterEnd, Measures
    <3>2. t # x /\ t \in Timer
      BY <2>3, <3>1 DEF Measures, Named, Periodic
    <3> QED BY <2>4, <2>5, <3>1, <3>2
  <2> QED BY <2>5, <2>7, <2>9, <2>10, <2>11 DEF EndInv
<1>4. CASE Tick
  <2>1. /\ timers' = Older(timers) /\ todo' = todo /\ handlers' = handlers
        /\ todo.loop = <<>> /\ todo.menu = <<>> /\ timers.exp = <<>>
        /\ UNCHANGED <<RootNode, config_end, late_end, timer_cnt>>
    BY <1>4 DEF Tick, Idle
  <2>2. timers'.used = timers.used /\ timers'.exp = <<>>
    BY <2>1 DEF Older
  <2>3. ExpDue' /\ DueOnce'
    BY <2>1, <2>2, One DEF ExpDue, DueOnce
  <2>4. Budget'
    BY <2>1 DEF Budget
  <2>5. Started
    BY <2>1, BootBusy
  <2>6. LoopShape'
    BY <2>1, <2>5 DEF LoopShape, Started
  <2>7. QuietAfterEnd'
    BY <2>1, <2>2 DEF QuietAfterEnd, EndInv
  <2> QED BY <2>1, <2>3, <2>4, <2>6, <2>7 DEF EndInv
<1>5. ASSUME NEW choice \in {0, 1, 3}, Menu(choice) PROVE EndInv'
  <2>1. /\ timers' = timers /\ todo' = [todo EXCEPT !.menu = MenuCalls(choice)]
        /\ handlers' = handlers /\ Started
        /\ UNCHANGED <<RootNode, config_end, late_end, timer_cnt>>
    BY <1>5 DEF Menu
  <2>2. /\ DOMAIN todo' = {"loop", "menu"} /\ todo'.loop = todo.loop
        /\ todo'.menu = MenuCalls(choice)
    BY <2>1 DEF EndInv
  <2>3. MenuCalls(choice) \in MenuRests /\ MenuCalls(choice) # <<"hello">>
    <3>1. CASE choice = 1
      BY <3>1 DEF MenuCalls, MenuRests
    <3>2. CASE choice = 3
      BY <3>2 DEF MenuCalls, MenuRests
    <3>3. CASE choice = 0
      BY <3>3 DEF MenuCalls, MenuRests
    <3> QED BY <3>1, <3>2, <3>3
  <2>4. ExpDue' /\ DueOnce'
    BY <2>1, <2>2 DEF ExpDue, DueOnce, EndInv
  <2>5. Budget'
    BY <2>2, <2>3 DEF Budget
  <2>6. LoopShape'
    BY <2>1, <2>2 DEF LoopShape, Started, EndInv
  <2>7. \A t \in Measures : t \notin ToSet(todo'.menu)
    <3>1. \A t \in Measures : ~ In(t, todo'.menu)
      BY <2>2, <2>3, MenuMeasures
    <3> QED BY <2>2, <2>3, <3>1, InToSet
  <2>8. QuietAfterEnd'
    BY <2>1, <2>2, <2>7 DEF QuietAfterEnd, EndInv, Measures
  <2> QED BY <2>2, <2>3, <2>4, <2>5, <2>6, <2>8 DEF EndInv
<1>6. ASSUME NEW s \in Slot, DeleteEntry(s) PROVE EndInv'
  BY <1>0, <1>6, NoCall DEF DeleteEntry
<1>7. ASSUME NEW s \in Slot, Preq_process(s) PROVE EndInv'
  <2>1. s \notin Named /\ s \in Timer
    BY SlotAssumption
  <2>2. \/ timers' = timers
        \/ timers' = Timer_set_timeout(timers, s)
    BY <1>7 DEF Preq_process
  <2>3. Gentle(timers', timers)
    BY <1>0, <2>1, <2>2
  <2>6. ASSUME NEW t \in Measures PROVE timers'.used[t] => timers.used[t]
    <3>1. t # s /\ t \in Timer
      BY <2>1 DEF Measures, Named, Periodic
    <3>2. timers.used[t] \in BOOLEAN
      BY <3>1 DEF ListInv, ListOK
    <3>3. Timer_set_timeout(timers, s).used[t] = (t = s \/ timers.used[t])
      BY <2>1, <3>1, <3>2, UsedAfterSet
    <3> QED BY <2>2, <3>1, <3>3
  <2>4. /\ todo' = todo /\ handlers' = handlers \cup {s}
        /\ UNCHANGED <<RootNode, config_end, late_end, timer_cnt>>
    BY <1>7 DEF Preq_process
  <2>5. (handlers' \ handlers) \cap {"api", "rann"} = {}
    BY <2>1, <2>4 DEF Named, Periodic
  <2> QED BY <2>3, <2>4, <2>5, <2>6, NoCall
<1>8. ASSUME NEW t \in {"api", "rann"}, Arms(t) PROVE EndInv'
  <2>1. t \in Timer /\ t \notin Measures
    BY DEF Measures, Named, Periodic
  <2>2. \/ timers' = timers
        \/ timers' = Timer_set_timeout(timers, t)
    BY <1>8 DEF Arms
  <2>3. Gentle(timers', timers)
    BY <1>0, <2>1, <2>2
  <2>6. ASSUME NEW u \in Measures PROVE timers'.used[u] => timers.used[u]
    <3>1. u # t /\ u \in Timer
      BY <2>1 DEF Measures, Named, Periodic
    <3>2. timers.used[u] \in BOOLEAN
      BY <3>1 DEF ListInv, ListOK
    <3>3. Timer_set_timeout(timers, t).used[u] = (u = t \/ timers.used[u])
      BY <2>1, <3>1, <3>2, UsedAfterSet
    <3> QED BY <2>2, <3>1, <3>3
  <2>4. UNCHANGED <<todo, handlers, RootNode, config_end, late_end, timer_cnt>>
    BY <1>8 DEF Arms
  <2> QED BY <2>3, <2>4, <2>6, NoCall
<1>9. CASE Rann_process \/ nms_control_msg_process
  BY <1>8, <1>9 DEF Rann_process, nms_control_msg_process
<1>10. CASE UNCHANGED vars
  BY <1>0, <1>10, NoCall DEF vars
<1> QED BY <1>1, <1>2, <1>3, <1>4, <1>5, <1>6, <1>7, <1>9, <1>10 DEF Next

LEMMA EndInvInit == Init => EndInv
<1> SUFFICES ASSUME Init PROVE EndInv
  OBVIOUS
<1> DEFINE Five == <<"Hello_start", "Hello_timeout_start", "SCH_Hello_start",
                     "alm_start", "API_reset_timer_start">>
<1>1. /\ DOMAIN todo = {"loop", "menu"} /\ todo.menu = <<>> /\ todo.loop = Five \o RannStart
      /\ ~ config_end /\ handlers = {} /\ timers.exp = <<>>
      /\ timers.used = [t \in Timer |-> FALSE]
  BY DEF Init, RannStart
<1>2. todo.loop = <<"Hello_start">> \o AfterHello
  <2>1. /\ \A x \in Names : <<x>> \in Seq(Names)
        /\ RannStart \in Seq(Names) /\ Call \subseteq Names
    BY AfterTypes DEF Names
  <2> DEFINE S4 == <<"Hello_timeout_start", "SCH_Hello_start", "alm_start",
                     "API_reset_timer_start">>
             S3 == <<"SCH_Hello_start", "alm_start", "API_reset_timer_start">>
             S2 == <<"alm_start", "API_reset_timer_start">>
             S1 == <<"API_reset_timer_start">>
  <2>2. /\ Five = <<"Hello_start">> \o S4 /\ S4 = <<"Hello_timeout_start">> \o S3
        /\ S3 = <<"SCH_Hello_start">> \o S2 /\ S2 = <<"alm_start">> \o S1
    OBVIOUS
  <2>3. /\ S4 \in Seq(Names) /\ S3 \in Seq(Names) /\ S2 \in Seq(Names) /\ S1 \in Seq(Names)
        /\ <<"Hello_start">> \in Seq(Names) /\ <<"Hello_timeout_start">> \in Seq(Names)
        /\ <<"SCH_Hello_start">> \in Seq(Names) /\ <<"alm_start">> \in Seq(Names)
    BY DEF Names, Call
  <2> HIDE DEF S4, S3, S2, Five
  <2>a. \A x \in Names : \A r \in Seq(Names) :
          (<<x>> \o r) \o RannStart = <<x>> \o (r \o RannStart)
    BY <2>1, ConcatAssociative
  <2>b. {"Hello_start", "Hello_timeout_start", "SCH_Hello_start", "alm_start"} \subseteq Names
    BY DEF Names, Call
  <2>4. S2 \o RannStart = AfterSch
    <3>1. S1 \o RannStart = AfterAlm
      BY DEF S1, AfterAlm
    <3>2. (<<"alm_start">> \o S1) \o RannStart = <<"alm_start">> \o (S1 \o RannStart)
      BY <2>3, <2>a, <2>b
    <3> QED BY <2>2, <3>1, <3>2 DEF AfterSch
  <2>5. S3 \o RannStart = AfterScan
    <3>1. (<<"SCH_Hello_start">> \o S2) \o RannStart = <<"SCH_Hello_start">> \o (S2 \o RannStart)
      BY <2>3, <2>a, <2>b
    <3> QED BY <2>2, <2>4, <3>1 DEF AfterScan
  <2>6. S4 \o RannStart = AfterHello
    <3>1. (<<"Hello_timeout_start">> \o S3) \o RannStart
          = <<"Hello_timeout_start">> \o (S3 \o RannStart)
      BY <2>3, <2>a, <2>b
    <3> QED BY <2>2, <2>5, <3>1 DEF AfterHello
  <2>7. Five \o RannStart = <<"Hello_start">> \o AfterHello
    <3>1. (<<"Hello_start">> \o S4) \o RannStart = <<"Hello_start">> \o (S4 \o RannStart)
      BY <2>3, <2>a, <2>b
    <3> QED BY <2>2, <2>6, <3>1
  <2> QED BY <1>1, <2>7
<1>3. ~ Started /\ Booting
  BY <1>1, <1>2 DEF Started, Booting
<1>4. LoopShape
  <2>1. todo.menu = <<>> /\ ~ config_end /\ (RootNode => "rann" \notin handlers)
    BY <1>1
  <2> HIDE DEF Five
  <2> QED BY <2>1, <1>3, Zenon DEF LoopShape
<1>5. ExpDue /\ DueOnce
  <2> HIDE DEF Five
  <2>e. timers.exp = <<>>
    BY <1>1
  <2>1. \A u : ~ In(u, timers.exp)
    BY <2>e DEF In
  <2>2. \A t \in Counters : ~ timers.used[t]
    <3>1. timers.used = [t \in Timer |-> FALSE]
      BY <1>1
    <3>2. Counters \subseteq Timer
      BY DEF Counters, Timer, Named
    <3>3. \A t \in Timer : ~ timers.used[t]
      BY <3>1
    <3> QED BY <3>2, <3>3
  <2>3. ExpDue
    BY <2>1 DEF ExpDue
  <2>4. DueOnce
    BY <2>1, <2>2 DEF DueOnce
  <2> QED BY <2>3, <2>4
<1>6. Budget /\ todo.menu \in MenuRests /\ QuietAfterEnd
  BY <1>1 DEF Budget, MenuRests, QuietAfterEnd
<1> QED BY <1>1, <1>4, <1>5, <1>6 DEF EndInv

\* After CONFIG END no Hello is sent and no link is measured, whatever the menus,
\* messages and commands do between the calls, unless the end met a phase that
\* had just been restarted: the handlers that are due when the menu has set
\* timer_cnt to 0 cannot count to the limit before its first Hello.
THEOREM EndIsQuiet == Spec => []QuietAfterEnd
<1>1. EndInv => QuietAfterEnd
  BY DEF EndInv
<1> QED BY <1>1, ListInvInit, ListInvNext, EndInvInit, EndInvNext, PTL DEF Spec
=============================================================================
