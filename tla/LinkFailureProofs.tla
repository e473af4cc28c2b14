-------------------------- MODULE LinkFailureProofs --------------------------
(* Proofs about link failure, for every topology, every order in which the   *)
(* mesh converged and any number of deaths.                                  *)
EXTENDS LinkFailure, FiniteSetTheorems, SequenceTheorems, WellFoundedInduction, TLAPS

-----------------------------------------------------------------------------
\* What the lookups and insertions of a route table return, for every size.

\* A set of slots that is not empty has a first one.
LEMMA FirstExists ==
    ASSUME NEW S \in SUBSET TableSlots, S # {}
    PROVE  \E i \in S : \A j \in S : i <= j
<1> DEFINE R == {p \in Nat \X Nat : p[1] < p[2]}
<1>1. IsWellFoundedOn(R, Nat)
  BY NatLessThanWellFounded DEF OpToRel
<1>2. S \subseteq Nat
  BY TableAssumption DEF TableSlots
<1>3. PICK i \in S : \A j \in S : ~ (<<j, i>> \in R)
  <2> HIDE DEF R
  <2> QED  BY <1>1, <1>2, WFMin
<1>4. \A j \in S : ~(j < i)
  BY <1>2, <1>3
<1> QED  BY <1>2, <1>4

\* FirstSlot picks a member, and NoSlot is never a slot.
LEMMA First ==
    ASSUME NEW S \in SUBSET TableSlots
    PROVE  /\ S = {} => FirstSlot(S) = NoSlot
           /\ S # {} => FirstSlot(S) \in S
           /\ NoSlot \notin TableSlots
<1>1. S # {} => FirstSlot(S) \in S
  BY FirstExists DEF FirstSlot
<1>2. NoSlot \notin TableSlots
  BY TableAssumption DEF NoSlot, TableSlots
<1> QED  BY <1>1, <1>2 DEF FirstSlot

\* rt_table_find: a matching entry, or NULL and then there is none.
LEMMA FindSpec ==
    ASSUME NEW t, NEW dest
    PROVE  LET i == rt_table_find(t, dest) IN
           /\ i = NoSlot => \A j \in InUse(t) : t[j].dest # dest
           /\ i # NoSlot => i \in InUse(t) /\ t[i].dest = dest
<1> DEFINE S == {j \in InUse(t) : t[j].dest = dest}
<1>1. S \in SUBSET TableSlots
  BY DEF InUse
<1>2. /\ S = {} => FirstSlot(S) = NoSlot
      /\ S # {} => FirstSlot(S) \in S
      /\ NoSlot \notin TableSlots
  <2> HIDE DEF S
  <2> QED  BY <1>1, First
<1> QED  BY <1>1, <1>2 DEF rt_table_find

\* rt_table_find with source_consider set.
LEMMA FindFromSpec ==
    ASSUME NEW t, NEW dest, NEW source
    PROVE  LET i == rt_table_find_from(t, dest, source) IN
           /\ i = NoSlot =>
                 \A j \in InUse(t) : ~(t[j].dest = dest /\ t[j].source = source)
           /\ i # NoSlot => i \in InUse(t) /\ t[i].dest = dest /\ t[i].source = source
<1> DEFINE S == {j \in InUse(t) : t[j].dest = dest /\ t[j].source = source}
<1>1. S \in SUBSET TableSlots
  BY DEF InUse
<1>2. /\ S = {} => FirstSlot(S) = NoSlot
      /\ S # {} => FirstSlot(S) \in S
      /\ NoSlot \notin TableSlots
  <2> HIDE DEF S
  <2> QED  BY <1>1, First
<1> QED  BY <1>1, <1>2 DEF rt_table_find_from

\* The slot an insertion fills was free.
LEMMA FreeSlotSpec ==
    ASSUME NEW t
    PROVE  FreeSlot(t) # NoSlot => FreeSlot(t) \in TableSlots /\ FreeSlot(t) \notin InUse(t)
<1> DEFINE S == TableSlots \ InUse(t)
<1>1. /\ S = {} => FirstSlot(S) = NoSlot
      /\ S # {} => FirstSlot(S) \in S
  <2>1. S \in SUBSET TableSlots
    OBVIOUS
  <2> HIDE DEF S
  <2> QED  BY <2>1, First
<1> QED  BY <1>1 DEF FreeSlot
-----------------------------------------------------------------------------
\* The types of entries, tables and frames, and what builds them.

EntrySet ==
    [state : {1}, dest : Node, next : Node \cup {Garbage}, source : Node,
     prev : Node \cup {NoAddr}, hello : {"never", "recent", "old"}]
TableSet == [TableSlots -> EntrySet \cup {FreeEntry}]
PerrSet == [type : {"PERR"}, timeout : Node, dest : Node]
PerrUniSet == [type : {"PERR_UNI"}, timeout : Node, orig : Node, next : Node]
FrameSet == PerrSet \cup PerrUniSet

\* Is slot i of t a route to the root?
ToRoot(t, i) == i \in InUse(t) /\ t[i].dest = Root

\* Entry builds an entry.
LEMMA EntryType ==
    ASSUME NEW dest \in Node, NEW next \in Node \cup {Garbage}, NEW source \in Node,
           NEW prev \in Node \cup {NoAddr}, NEW hello \in {"never", "recent", "old"}
    PROVE  Entry(dest, next, source, prev, hello) \in EntrySet
BY DEF Entry, EntrySet

\* What a table holds in a slot in use is an entry.
LEMMA InUseType ==
    ASSUME NEW t \in TableSet
    PROVE  /\ InUse(t) \subseteq TableSlots
           /\ \A i \in InUse(t) : t[i] \in EntrySet
BY DEF TableSet, InUse, FreeEntry

\* An insertion keeps what is there, and finds a place if there is one.
LEMMA InsertSpec ==
    ASSUME NEW t \in TableSet, NEW e \in EntrySet
    PROVE  LET u == rt_table_insert(t, e) IN
           /\ u \in TableSet
           /\ InUse(t) \subseteq InUse(u)
           /\ \A i \in InUse(u) : IF i \in InUse(t) THEN u[i] = t[i] ELSE u[i] = e
           /\ FreeSlot(t) # NoSlot => \E i \in InUse(u) : u[i] = e
<1>1. FreeSlot(t) # NoSlot => FreeSlot(t) \in TableSlots /\ FreeSlot(t) \notin InUse(t)
  BY FreeSlotSpec
<1>2. e.state = 1
  BY DEF EntrySet
<1>3. CASE FreeSlot(t) = NoSlot
  BY <1>3 DEF rt_table_insert
<1>4. CASE FreeSlot(t) # NoSlot
  BY <1>1, <1>2, <1>4 DEF rt_table_insert, TableSet, InUse
<1> QED  BY <1>3, <1>4

\* Slots that are emptied: the others are as they were.
LEMMA WithoutSpec ==
    ASSUME NEW t \in TableSet, NEW S
    PROVE  /\ Without(t, S) \in TableSet
           /\ InUse(Without(t, S)) = InUse(t) \ S
           /\ \A i \in InUse(t) \ S : Without(t, S)[i] = t[i]
BY DEF Without, TableSet, InUse, FreeEntry, EntrySet

SameRoute(a, b) ==
    /\ a.dest = b.dest /\ a.next = b.next /\ a.source = b.source /\ a.prev = b.prev

\* A Hello is counted in the first entry of its sender, or becomes an entry.
LEMMA HelloSpec ==
    ASSUME NEW t \in TableSet, NEW n \in Node, NEW m \in Node
    PROVE  LET u == Hello_process(t, n, m) IN
           /\ u \in TableSet
           /\ InUse(t) \subseteq InUse(u)
           /\ \A i \in InUse(t) :
                 /\ SameRoute(u[i], t[i])
                 /\ u[i].hello = t[i].hello \/ u[i].hello = "recent"
           /\ \A i \in InUse(u) \ InUse(t) :
                 /\ u[i] = Entry(m, m, n, NoAddr, "recent")
                 /\ \A j \in InUse(t) : t[j].dest # m
<1> DEFINE u == Hello_process(t, n, m)
           x == rt_table_find(t, m)
           e == Entry(m, m, n, NoAddr, "recent")
<1>1. CASE x = NoSlot
  <2>1. e \in EntrySet
    BY EntryType
  <2>2. u = rt_table_insert(t, e)
    BY <1>1 DEF Hello_process
  <2>3. \A j \in InUse(t) : t[j].dest # m
    BY <1>1, FindSpec
  <2> HIDE DEF u, e, x
  <2>4. /\ u \in TableSet /\ InUse(t) \subseteq InUse(u)
        /\ \A i \in InUse(u) : IF i \in InUse(t) THEN u[i] = t[i] ELSE u[i] = e
    BY <2>1, <2>2, InsertSpec
  <2> QED  BY <2>3, <2>4 DEF SameRoute, u, e
<1>2. CASE x # NoSlot
  <2>1. x \in InUse(t) /\ x \in TableSlots /\ t[x] \in EntrySet
    BY <1>2, FindSpec, InUseType
  <2>2. u = [t EXCEPT ![x].hello = "recent"]
    BY <1>2 DEF Hello_process
  <2> HIDE DEF x
  <2> DEFINE f == [t[x] EXCEPT !.hello = "recent"]
  <2>3. /\ f \in EntrySet /\ SameRoute(f, t[x]) /\ f.hello = "recent" /\ f.state = 1
    BY <2>1 DEF EntrySet, SameRoute
  <2>4. u = [t EXCEPT ![x] = f]
    BY <2>2
  <2> HIDE DEF f, u
  <2>5. u \in TableSet /\ InUse(u) = InUse(t)
    BY <2>1, <2>3, <2>4 DEF TableSet, InUse
  <2>6. \A i \in InUse(t) : IF i = x THEN u[i] = f ELSE u[i] = t[i]
    BY <2>1, <2>4 DEF TableSet, InUse
  <2> QED  BY <2>3, <2>5, <2>6 DEF SameRoute, u
<1> QED  BY <1>1, <1>2

-----------------------------------------------------------------------------
\* What a PREQ and its PREP leave behind.

\* The members of a path are different nodes, and each hears its hop.
LEMMA PathFacts ==
    ASSUME NEW p \in Path
    PROVE  /\ Len(p) \in Nat /\ Len(p) >= 1
           /\ \A k \in 1 .. Len(p) :
                 /\ p[k] \in Node /\ p[k] # Root
                 /\ Hop(p, k) \in Node /\ <<Hop(p, k), p[k]>> \in Link
           /\ \A j, k \in 1 .. Len(p) : p[j] = p[k] => j = k
<1>1. /\ p \in Seq(Node \ {Root}) /\ p # << >> /\ IsInjective(p)
      /\ \A k \in 1 .. Len(p) : {<<p[k], Hop(p, k)>>, <<Hop(p, k), p[k]>>} \subseteq Link
  BY PathAssumption
<1>2. Len(p) \in Nat /\ Len(p) >= 1 /\ DOMAIN p = 1 .. Len(p)
  BY <1>1
<1>3. \A k \in 1 .. Len(p) : p[k] \in Node \ {Root}
  BY <1>1
<1>4. \A k \in 1 .. Len(p) : <<Hop(p, k), p[k]>> \in Link
  BY <1>1
<1>5. \A k \in 1 .. Len(p) : Hop(p, k) \in Node
  BY <1>4, LinkAssumption
<1>6. \A j, k \in 1 .. Len(p) : p[j] = p[k] => j = k
  BY <1>1, <1>2 DEF IsInjective
<1> QED  BY <1>2, <1>3, <1>4, <1>5, <1>6

UpEntry(p, k) ==
    Entry(Root, Hop(p, k), p[1], IF k > 1 THEN p[k - 1] ELSE NoAddr, "never")

DownEntry(p, k) ==
    Entry(p[1], IF k = 2 THEN p[1] ELSE Garbage, Root, Hop(p, k), "never")

\* No two entries for the same purpose: one per destination, and per source
\* those to the root.
Distinct(t) ==
    /\ \A i \in InUse(t) : t[i].dest = Root => t[i].source # Root
    /\ \A i, j \in InUse(t) :
          /\ t[i].dest = t[j].dest
          /\ t[i].dest = Root => t[i].source = t[j].source
          => i = j

NoRouteFor(t, s) == \A i \in InUse(t) : ~(t[i].dest = Root /\ t[i].source = s)

\* An insertion for a new purpose keeps a table distinct.
LEMMA DistinctInsert ==
    ASSUME NEW t \in TableSet, Distinct(t), NEW e \in EntrySet,
           e.dest = Root => e.source # Root /\ NoRouteFor(t, e.source),
           e.dest # Root => \A i \in InUse(t) : t[i].dest # e.dest
    PROVE  Distinct(rt_table_insert(t, e))
<1> DEFINE u == rt_table_insert(t, e)
<1>1. /\ InUse(t) \subseteq InUse(u)
      /\ \A i \in InUse(u) : IF i \in InUse(t) THEN u[i] = t[i] ELSE u[i] = e
  BY InsertSpec
<1>2. \A i, j \in InUse(u) \ InUse(t) : i = j
  BY DEF rt_table_insert, InUse, TableSet
<1> HIDE DEF u
<1>3. \A i \in InUse(u) : u[i].dest = Root => u[i].source # Root
  BY <1>1 DEF Distinct
<1>4. ASSUME NEW i \in InUse(u), NEW j \in InUse(u), u[i].dest = u[j].dest,
             u[i].dest = Root => u[i].source = u[j].source
      PROVE  i = j
  <2>1. CASE i \in InUse(t) /\ j \in InUse(t)
    BY <1>1, <1>4, <2>1 DEF Distinct
  <2>2. CASE i \notin InUse(t) /\ j \in InUse(t)
    BY <1>1, <1>4, <2>2 DEF NoRouteFor
  <2>3. CASE i \in InUse(t) /\ j \notin InUse(t)
    BY <1>1, <1>4, <2>3 DEF NoRouteFor
  <2>4. CASE i \notin InUse(t) /\ j \notin InUse(t)
    BY <1>2, <2>4
  <2> QED  BY <2>1, <2>2, <2>3, <2>4
<1> QED  BY <1>3, <1>4 DEF Distinct, u

\* What StoreRoute adds: an uplink and no more for a node of the path, and
\* nothing that leads to the root for the others.
LEMMA RouteSpec ==
    ASSUME NEW t \in TableSet, NEW n \in Node, NEW p \in Path
    PROVE  LET u == StoreRoute(t, n, p) IN
           /\ u \in TableSet
           /\ InUse(t) \subseteq InUse(u)
           /\ \A i \in InUse(t) : u[i] = t[i]
           /\ \A i \in InUse(u) \ InUse(t) :
                 /\ u[i].hello = "never"
                 /\ u[i].dest = Root =>
                       \E k \in 1 .. Len(p) : p[k] = n /\ u[i] = UpEntry(p, k)
           /\ NoRouteFor(t, p[1]) =>
                 /\ n # Root /\ Distinct(t) => Distinct(u)
                 /\ \A k \in 1 .. Len(p) : p[k] = n /\ FreeSlot(t) # NoSlot =>
                       \E i \in InUse(u) : u[i] = UpEntry(p, k)
<1> DEFINE u == StoreRoute(t, n, p)
<1>a. Len(p) \in Nat /\ Len(p) >= 1 /\ p[1] \in Node /\ p[1] # Root /\ p[Len(p)] \in Node
  <2>1. Len(p) \in Nat /\ Len(p) >= 1
    BY PathFacts
  <2>2. 1 \in 1 .. Len(p) /\ Len(p) \in 1 .. Len(p)
    BY <2>1
  <2> QED  BY <2>1, <2>2, PathFacts
<1>b. Root \in Node /\ DOMAIN p = 1 .. Len(p)
  BY NodeAssumption, PathAssumption
<1>1. CASE n = Root
  <2> DEFINE e == Entry(p[1], p[Len(p)], Root, NoAddr, "never")
  <2>1. e \in EntrySet /\ e.dest # Root /\ e.hello = "never"
    BY <1>a, <1>b, EntryType DEF Entry
  <2>2. u = rt_table_insert(t, e)
    BY <1>1 DEF StoreRoute
  <2>3. \A k \in 1 .. Len(p) : p[k] # n
    BY <1>1, PathFacts
  <2> HIDE DEF u, e
  <2>4. /\ u \in TableSet /\ InUse(t) \subseteq InUse(u)
        /\ \A i \in InUse(u) : IF i \in InUse(t) THEN u[i] = t[i] ELSE u[i] = e
    BY <2>1, <2>2, InsertSpec
  <2> QED  BY <1>1, <2>1, <2>3, <2>4 DEF u
<1>2. CASE n # Root /\ n \notin ToSet(p)
  <2>1. u = t
    BY <1>2 DEF StoreRoute
  <2>2. \A k \in 1 .. Len(p) : p[k] # n
    BY <1>2, <1>b DEF ToSet
  <2> HIDE DEF u
  <2> QED  BY <2>1, <2>2 DEF u
<1>3. CASE n # Root /\ n \in ToSet(p)
  <2> DEFINE k == CHOOSE j \in 1 .. Len(p) : p[j] = n
  <2>1. k \in 1 .. Len(p) /\ p[k] = n /\ \A j \in 1 .. Len(p) : p[j] = n => j = k
    <3>1. \E j \in 1 .. Len(p) : p[j] = n
      BY <1>3, <1>b DEF ToSet
    <3> QED  BY <3>1, PathFacts
  <2> DEFINE up == UpEntry(p, k)
             down == DownEntry(p, k)
             v == IF rt_table_find_from(t, Root, p[1]) = NoSlot
                  THEN rt_table_insert(t, up) ELSE t
  <2>2. u = IF k = 1 THEN v
            ELSE IF rt_table_find(v, p[1]) = NoSlot THEN rt_table_insert(v, down) ELSE v
    BY <1>3 DEF StoreRoute, UpEntry, DownEntry
  <2> HIDE DEF k
  <2>3. /\ up \in EntrySet /\ up.dest = Root /\ up.source = p[1] /\ up.hello = "never"
        /\ down \in EntrySet /\ down.dest = p[1] /\ down.hello = "never"
    <3>1. Hop(p, k) \in Node /\ (k > 1 => p[k - 1] \in Node)
      <4>1. k > 1 => k - 1 \in 1 .. Len(p)
        BY <2>1, <1>a
      <4> QED  BY <2>1, <4>1, PathFacts
    <3> DEFINE prev == IF k > 1 THEN p[k - 1] ELSE NoAddr
               next == IF k = 2 THEN p[1] ELSE Garbage
    <3>2. prev \in Node \cup {NoAddr} /\ next \in Node \cup {Garbage}
      BY <3>1, <1>a
    <3>3. up = Entry(Root, Hop(p, k), p[1], prev, "never")
          /\ down = Entry(p[1], next, Root, Hop(p, k), "never")
      BY DEF UpEntry, DownEntry
    <3> HIDE DEF prev, next, up, down
    <3>4. up \in EntrySet /\ down \in EntrySet
      BY <3>1, <3>2, <3>3, <1>a, <1>b, EntryType
    <3> QED  BY <3>3, <3>4 DEF Entry
  <2> HIDE DEF up, down, u
  <2>4. /\ v \in TableSet /\ InUse(t) \subseteq InUse(v)
        /\ \A i \in InUse(v) : IF i \in InUse(t) THEN v[i] = t[i] ELSE v[i] = up
        /\ NoRouteFor(t, p[1]) =>
              /\ Distinct(t) => Distinct(v)
              /\ FreeSlot(t) # NoSlot => \E i \in InUse(v) : v[i] = up
    <3>1. CASE rt_table_find_from(t, Root, p[1]) = NoSlot
      BY <3>1, <2>3, <1>a, InsertSpec, DistinctInsert
    <3>2. CASE rt_table_find_from(t, Root, p[1]) # NoSlot
      <4>1. ~NoRouteFor(t, p[1])
        BY <3>2, FindFromSpec DEF NoRouteFor
      <4> QED  BY <3>2, <4>1
    <3> QED  BY <3>1, <3>2
  <2> HIDE DEF v
  <2>5. /\ u \in TableSet /\ InUse(v) \subseteq InUse(u)
        /\ \A i \in InUse(u) : IF i \in InUse(v) THEN u[i] = v[i] ELSE u[i] = down
        /\ Distinct(v) => Distinct(u)
    <3>1. CASE k # 1 /\ rt_table_find(v, p[1]) = NoSlot
      <4>1. \A i \in InUse(v) : v[i].dest # p[1]
        BY <3>1, FindSpec
      <4> QED  BY <3>1, <4>1, <2>2, <2>3, <2>4, <1>a, InsertSpec, DistinctInsert
    <3>2. CASE k = 1 \/ rt_table_find(v, p[1]) # NoSlot
      BY <3>2, <2>2, <2>4
    <3> QED  BY <3>1, <3>2
  <2>6. \A i \in InUse(t) : u[i] = t[i]
    BY <2>4, <2>5
  <2>7. \A i \in InUse(u) \ InUse(t) : u[i] = up \/ u[i] = down
    BY <2>4, <2>5
  <2>8. (\E i \in InUse(v) : v[i] = up) => \E i \in InUse(u) : u[i] = up
    BY <2>5
  <2>9. \A j \in 1 .. Len(p) : p[j] = n => UpEntry(p, j) = up
    BY <2>1 DEF up
  <2> QED  BY <1>a, <2>1, <2>3, <2>4, <2>5, <2>6, <2>7, <2>8, <2>9 DEF u
<1> QED  BY <1>1, <1>2, <1>3

\* Slots whose entries differ in a field that takes its values from T.
LEMMA ManySlots ==
    ASSUME NEW S, NEW T, IsFiniteSet(T), NEW f \in [S -> T],
           \A i, j \in S : f[i] = f[j] => i = j
    PROVE  IsFiniteSet(S) /\ Cardinality(S) <= Cardinality(T)
<1>1. f \in Injection(S, T)
  BY DEF Injection, IsInjective
<1> QED BY <1>1, FS_Injection

\* There is one node less without the root.
LEMMA OtherNodes ==
    /\ IsFiniteSet(Node \ {Root}) /\ Cardinality(Node) \in Nat
    /\ Cardinality(Node \ {Root}) = Cardinality(Node) - 1
BY FS_RemoveElement, FS_CardinalityType, RoomAssumption, NodeAssumption

\* At most one entry per destination but the root, and at most one per source
\* for the root.
LEMMA CountedTable ==
    ASSUME NEW t \in TableSet, Distinct(t), NEW T, IsFiniteSet(T),
           \A i \in InUse(t) : t[i].dest = Root => t[i].source \in T
    PROVE  Cardinality(InUse(t)) <= Cardinality(Node) - 1 + Cardinality(T)
<1> DEFINE A == {i \in InUse(t) : t[i].dest # Root}
           B == {i \in InUse(t) : t[i].dest = Root}
<1>1. \A i \in InUse(t) : t[i].dest \in Node
  BY InUseType DEF EntrySet
<1>2. IsFiniteSet(A) /\ Cardinality(A) <= Cardinality(Node) - 1
  <2> DEFINE f == [i \in A |-> t[i].dest]
  <2>1. f \in [A -> Node \ {Root}] /\ \A i, j \in A : f[i] = f[j] => i = j
    BY <1>1 DEF Distinct
  <2> HIDE DEF f, A
  <2>2. IsFiniteSet(A) /\ Cardinality(A) <= Cardinality(Node \ {Root})
    BY <2>1, OtherNodes, ManySlots
  <2> QED BY <2>2, OtherNodes
<1>3. IsFiniteSet(B) /\ Cardinality(B) <= Cardinality(T)
  <2> DEFINE f == [i \in B |-> t[i].source]
  <2>1. f \in [B -> T] /\ \A i, j \in B : f[i] = f[j] => i = j
    BY DEF Distinct
  <2> HIDE DEF f, B
  <2> QED BY <2>1, ManySlots
<1>4. InUse(t) = A \cup B
  OBVIOUS
<1> HIDE DEF A, B
<1>5. /\ Cardinality(A \cup B) = Cardinality(A) + Cardinality(B) - Cardinality(A \cap B)
      /\ Cardinality(A) \in Nat /\ Cardinality(B) \in Nat
      /\ Cardinality(A \cap B) \in Nat
  <2>1. IsFiniteSet(A \cap B)
    BY <1>2, FS_Subset
  <2> QED BY <1>2, <1>3, <2>1, FS_Union, FS_CardinalityType
<1>6. Cardinality(Node) \in Nat /\ Cardinality(T) \in Nat
  BY OtherNodes, FS_CardinalityType
<1> QED BY <1>2, <1>3, <1>4, <1>5, <1>6

\* So that an uplink always finds a free slot.
LEMMA RoomForUplink ==
    ASSUME NEW t \in TableSet, Distinct(t), NEW s \in Node \ {Root},
           NoRouteFor(t, s)
    PROVE  FreeSlot(t) # NoSlot
<1> SUFFICES ASSUME FreeSlot(t) = NoSlot
             PROVE  FALSE
  OBVIOUS
<1>1. InUse(t) = TableSlots
  <2> DEFINE S == TableSlots \ InUse(t)
  <2>1. S \in SUBSET TableSlots /\ FirstSlot(S) = NoSlot
    BY DEF FreeSlot
  <2> HIDE DEF S
  <2>2. S = {}
    BY <2>1, First
  <2> QED BY <2>2 DEF S, InUse
<1>2. Cardinality(TableSlots) = RT_SIZE
  BY TableAssumption, FS_Interval DEF TableSlots
<1> DEFINE T == (Node \ {Root}) \ {s}
<1>3. IsFiniteSet(T) /\ Cardinality(T) = Cardinality(Node) - 2
  <2> DEFINE N == Node \ {Root}
  <2>1. IsFiniteSet(N) /\ s \in N /\ Cardinality(N) = Cardinality(Node) - 1
        /\ Cardinality(Node) \in Nat
    BY OtherNodes
  <2> HIDE DEF N
  <2>2. IsFiniteSet(N \ {s}) /\ Cardinality(N \ {s}) = Cardinality(N) - 1
    BY <2>1, FS_RemoveElement
  <2> QED BY <2>1, <2>2 DEF N
<1>4. \A i \in InUse(t) : t[i].dest = Root => t[i].source \in T
  BY InUseType DEF EntrySet, Distinct, NoRouteFor
<1> HIDE DEF T
<1>5. Cardinality(InUse(t)) <= Cardinality(Node) - 1 + Cardinality(T)
  BY <1>3, <1>4, CountedTable
<1> QED BY <1>1, <1>2, <1>3, <1>5, OtherNodes, RoomAssumption, TableAssumption

-----------------------------------------------------------------------------
\* The inductive invariant.

Types ==
    /\ rt \in [Node -> TableSet]
    /\ tq \in [Node -> Seq(FrameSet)]
    /\ air \subseteq [from : Node, to : Node, frame : FrameSet]
    /\ dead \subseteq Node
    /\ todo \in Seq(Event)

\* Nodes die when the set-up is over.
SetUpFirst == todo # << >> => dead = {}

OldIsDead ==
    \A n \in Node : \A i \in InUse(rt[n]) : rt[n][i].hello = "old" => rt[n][i].dest \in dead

NamesDead(f) == f.type = "PERR" => f.timeout \in dead

PerrsNameTheDead ==
    /\ \A n \in Node : \A k \in 1 .. Len(tq[n]) : NamesDead(tq[n][k])
    /\ \A d \in air : NamesDead(d.frame)

\* While the mesh converges no table has two entries for one purpose, so that
\* none is full, and a source that has no uplink has left no route.
Keyed == todo # << >> => \A n \in Node \ {Root} : Distinct(rt[n])

Fresh ==
    todo # << >> =>
        \A n \in Node, i \in TableSlots :
            ToRoot(rt[n], i) => Uplink(rt[n][i].source, rt[n][i].source) # NoSlot

\* A next hop to the root is heard.
Linked == \A n \in Node, i \in TableSlots : ToRoot(rt[n], i) => <<rt[n][i].next, n>> \in Link

\* The next hop of n knows n as the one before it.
Back ==
    \A n, k \in Node, i, j \in TableSlots :
        /\ ToRoot(rt[n], i) /\ rt[n][i].next = k /\ k # Root
        /\ ToRoot(rt[k], j) /\ rt[k][j].source = rt[n][i].source
        => rt[k][j].prev \in {n, NoAddr}

\* A PERR of k that makes its receivers delete what leads to the root over k.
Kills(f, k) ==
    f.type = "PERR" /\ ((f.dest = k /\ f.timeout # k) \/ f.timeout = Root)

Coming(k, n) ==
    \/ \E j \in 1 .. Len(tq[k]) : Kills(tq[k][j], k)
    \/ \E d \in air : d.from = k /\ d.to = n /\ Kills(d.frame, k)

\* The next hop has an uplink for the source, or was silent, or its PERR is
\* under way to n.
Chained ==
    \A n, k \in Live, i \in TableSlots :
        /\ ToRoot(rt[n], i) /\ rt[n][i].next = k /\ k # Root
        /\ rt[n][i].source \in Live
        => Uplink(k, rt[n][i].source) # NoSlot \/ k \in silent \/ Coming(k, n)

\* A dead next hop will be noticed, unless its Hellos are not counted.
Noticed ==
    \A n \in Live, i \in TableSlots :
        ToRoot(rt[n], i) /\ rt[n][i].next \in dead
        => <<n, rt[n][i].next>> \in unheard \/ Counts(rt[n], rt[n][i].next)

IInv ==
    /\ Types /\ SetUpFirst /\ OldIsDead /\ PerrsNameTheDead /\ Keyed /\ Fresh
    /\ Linked /\ Back /\ Chained /\ Noticed

-----------------------------------------------------------------------------
\* What the steps have in common.

HasRoute(t, s) == \E j \in TableSlots : ToRoot(t, j) /\ t[j].source = s

\* A lookup finds an uplink exactly when there is one.
LEMMA UplinkFound ==
    ASSUME NEW t, NEW s
    PROVE  /\ rt_table_find_from(t, Root, s) # NoSlot <=> HasRoute(t, s)
           /\ NoRouteFor(t, s) <=> ~HasRoute(t, s)
BY FindFromSpec DEF HasRoute, ToRoot, NoRouteFor, InUse

\* Every route to the root in u was one in t, or is the new neighbour root.
Inherits(n, t, u) ==
    \A i \in TableSlots : ToRoot(u, i) =>
        \/ ToRoot(t, i) /\ SameRoute(u[i], t[i])
        \/ u[i].next = Root /\ u[i].prev = NoAddr /\ <<Root, n>> \in Link

\* A table inherits from itself,
LEMMA SameInherits ==
    ASSUME NEW n, NEW t
    PROVE  Inherits(n, t, t)
BY DEF Inherits, SameRoute

\* from a table of which it lacks slots,
LEMMA WithoutInherits ==
    ASSUME NEW n, NEW t \in TableSet, NEW S
    PROVE  Inherits(n, t, Without(t, S))
BY WithoutSpec DEF Inherits, SameRoute, ToRoot

\* and from the table before a Hello.
LEMMA HelloInherits ==
    ASSUME NEW n \in Node, NEW m \in Node, <<m, n>> \in Link, NEW t \in TableSet
    PROVE  Inherits(n, t, Hello_process(t, n, m))
<1> DEFINE u == Hello_process(t, n, m)
<1>1. /\ \A i \in InUse(t) : SameRoute(u[i], t[i])
      /\ \A i \in InUse(u) \ InUse(t) : u[i] = Entry(m, m, n, NoAddr, "recent")
  BY HelloSpec
<1> HIDE DEF u
<1>2. Inherits(n, t, u)
  BY <1>1 DEF Inherits, ToRoot, SameRoute, Entry
<1> QED  BY <1>2 DEF u

\* Links and predecessors are kept by deletions and Hellos.
LEMMA TablesInherit ==
    ASSUME Linked, Back, \A n \in Node : Inherits(n, rt[n], rt'[n])
    PROVE  Linked' /\ Back'
<1>1. ASSUME NEW n \in Node, NEW i \in TableSlots, ToRoot(rt'[n], i)
      PROVE  <<rt'[n][i].next, n>> \in Link
  BY <1>1 DEF Inherits, Linked, SameRoute
<1>2. ASSUME NEW n \in Node, NEW k \in Node, NEW i \in TableSlots, NEW j \in TableSlots,
             ToRoot(rt'[n], i), rt'[n][i].next = k, k # Root,
             ToRoot(rt'[k], j), rt'[k][j].source = rt'[n][i].source
      PROVE  rt'[k][j].prev \in {n, NoAddr}
  <2>1. ToRoot(rt[n], i) /\ SameRoute(rt'[n][i], rt[n][i])
    BY <1>2 DEF Inherits
  <2>2. CASE ToRoot(rt[k], j) /\ SameRoute(rt'[k][j], rt[k][j])
    BY <1>2, <2>1, <2>2 DEF Back, SameRoute
  <2>3. CASE rt'[k][j].prev = NoAddr
    BY <2>3
  <2> QED  BY <1>2, <2>2, <2>3 DEF Inherits
<1> QED  BY <1>1, <1>2 DEF Linked, Back

\* What is left to show of a step for the chains.
LEMMA ChainedStep ==
    ASSUME Types, Chained, \A n \in Node : Inherits(n, rt[n], rt'[n]),
           Live' \subseteq Live, silent \subseteq silent',
           \A n, k \in Live', i \in TableSlots :
              /\ ToRoot(rt'[n], i) /\ ToRoot(rt[n], i) /\ SameRoute(rt'[n][i], rt[n][i])
              /\ rt[n][i].next = k /\ k # Root /\ rt[n][i].source \in Live'
              /\ HasRoute(rt[k], rt[n][i].source) \/ Coming(k, n)
              => \/ HasRoute(rt'[k], rt[n][i].source)
                 \/ k \in silent'
                 \/ Coming(k, n)'
    PROVE  Chained'
<1> SUFFICES ASSUME NEW n \in Live', NEW k \in Live', NEW i \in TableSlots,
                    ToRoot(rt'[n], i), rt'[n][i].next = k, k # Root,
                    rt'[n][i].source \in Live'
             PROVE  \/ rt_table_find_from(rt'[k], Root, rt'[n][i].source) # NoSlot
                    \/ k \in silent' \/ Coming(k, n)'
  BY DEF Chained, Uplink
<1>1. ToRoot(rt[n], i) /\ SameRoute(rt'[n][i], rt[n][i])
  BY DEF Inherits, Live
<1>2. rt[n][i].next = k /\ rt[n][i].source = rt'[n][i].source
  BY <1>1 DEF SameRoute
<1>3. n \in Live /\ k \in Live /\ rt[n][i].source \in Live
  BY <1>2
<1>4. Uplink(k, rt[n][i].source) # NoSlot \/ k \in silent \/ Coming(k, n)
  BY <1>1, <1>2, <1>3 DEF Chained
<1>5. Uplink(k, rt[n][i].source) # NoSlot => HasRoute(rt[k], rt[n][i].source)
  BY UplinkFound DEF Uplink
<1>6. HasRoute(rt'[k], rt[n][i].source) \/ k \in silent' \/ Coming(k, n)'
  BY <1>1, <1>2, <1>4, <1>5
<1>7. HasRoute(rt'[k], rt[n][i].source)
      => rt_table_find_from(rt'[k], Root, rt'[n][i].source) # NoSlot
  BY <1>2, UplinkFound
<1> QED  BY <1>2, <1>6, <1>7

\* Frames are added at the end of a queue.
LEMMA QueueGrows ==
    ASSUME NEW F, NEW q \in Seq(F), NEW r \in Seq(F)
    PROVE  /\ q \o r \in Seq(F)
           /\ \A j \in 1 .. Len(q) : j \in 1 .. Len(q \o r) /\ (q \o r)[j] = q[j]
           /\ \A j \in 1 .. Len(r) :
                 Len(q) + j \in 1 .. Len(q \o r) /\ (q \o r)[Len(q) + j] = r[j]
           /\ \A j \in 1 .. Len(q \o r) :
                 \/ j \in 1 .. Len(q) /\ (q \o r)[j] = q[j]
                 \/ j - Len(q) \in 1 .. Len(r) /\ (q \o r)[j] = r[j - Len(q)]
<1>1. q \o r \in Seq(F) /\ Len(q \o r) = Len(q) + Len(r) /\ Len(q) \in Nat /\ Len(r) \in Nat
  OBVIOUS
<1>2. \A j \in 1 .. Len(q) : (q \o r)[j] = q[j]
  OBVIOUS
<1>3. \A j \in 1 .. Len(r) : (q \o r)[Len(q) + j] = r[j]
  OBVIOUS
<1>4. \A j \in 1 .. Len(q) + Len(r) : j \in 1 .. Len(q) \/ j - Len(q) \in 1 .. Len(r)
  BY <1>1
<1>5. \A j \in 1 .. Len(r) : Len(q) + j \in 1 .. Len(q) + Len(r)
  BY <1>1
<1>6. \A j \in 1 .. Len(q) + Len(r) : j - Len(q) \in 1 .. Len(r) => Len(q) + (j - Len(q)) = j
  BY <1>1
<1>7. \A j \in 1 .. Len(q) + Len(r) :
         j - Len(q) \in 1 .. Len(r) => (q \o r)[j] = r[j - Len(q)]
  BY <1>3, <1>6
<1> QED  BY <1>1, <1>2, <1>3, <1>4, <1>5, <1>7

\* What is said of the set-up holds when it is over.
LEMMA AfterSetUp ==
    ASSUME todo' = << >>
    PROVE  SetUpFirst' /\ Keyed' /\ Fresh'
BY DEF SetUpFirst, Keyed, Fresh

\* Steps that leave the tables alone.
LEMMA SameTables ==
    ASSUME Keyed, Fresh, Linked, Back, rt' = rt, todo' = todo
    PROVE  Keyed' /\ Fresh' /\ Linked' /\ Back'
BY DEF Keyed, Fresh, Linked, Back, Uplink

-----------------------------------------------------------------------------
\* One lemma per action.

\* A node dies: what the others do not count of its Hellos is noted.
LEMMA StepDie ==
    ASSUME IInv, NEW x \in Node, Die(x)
    PROVE  IInv'
<1>1. /\ todo = << >> /\ todo' = todo /\ dead' = dead \cup {x}
      /\ air' = {d \in air : d.to # x}
      /\ unheard' = unheard \cup {<<k, x>> : k \in {j \in Node : ~Counts(rt[j], x)}}
      /\ rt' = rt /\ tq' = tq /\ silent' = silent
  BY DEF Die
<1>2. Types' /\ OldIsDead' /\ PerrsNameTheDead'
  BY <1>1 DEF IInv, Types, OldIsDead, PerrsNameTheDead, NamesDead
<1>3. SetUpFirst' /\ Keyed' /\ Fresh'
  BY <1>1, AfterSetUp
<1>4. Linked' /\ Back'
  BY <1>1, SameTables DEF IInv
<1>5. Chained'
  <2>1. \A n \in Node : Inherits(n, rt[n], rt'[n])
    BY <1>1, SameInherits
  <2>2. Live' \subseteq Live /\ silent \subseteq silent' /\ x \notin Live'
    BY <1>1 DEF Live
  <2>3. \A n, k \in Live' : Coming(k, n) => Coming(k, n)'
    BY <1>1, <2>2 DEF Coming
  <2> QED  BY <1>1, <2>1, <2>2, <2>3, ChainedStep DEF IInv
<1>6. Noticed'
  <2> SUFFICES ASSUME NEW n \in Live', NEW i \in TableSlots, ToRoot(rt[n], i),
                      rt[n][i].next \in dead'
               PROVE  <<n, rt[n][i].next>> \in unheard' \/ Counts(rt[n], rt[n][i].next)
    BY <1>1 DEF Noticed
  <2>1. n \in Live /\ n \in Node
    BY <1>1 DEF Live
  <2>2. CASE rt[n][i].next \in dead
    BY <1>1, <2>1, <2>2 DEF IInv, Noticed
  <2>3. CASE rt[n][i].next = x
    BY <1>1, <2>1, <2>3
  <2> QED  BY <1>1, <2>2, <2>3
<1> QED  BY <1>2, <1>3, <1>4, <1>5, <1>6 DEF IInv

\* The time since the last Hello of a dead neighbour is up.
LEMMA StepHelloMissed ==
    ASSUME IInv, NEW x \in Node, NEW m \in Node, HelloMissed(x, m)
    PROVE  IInv'
<1>1. PICK y \in InUse(rt[x]) :
         /\ rt[x][y].dest = m /\ rt[x][y].hello = "recent"
         /\ rt' = [rt EXCEPT ![x][y].hello = "old"]
  BY DEF HelloMissed
<1>2. /\ m \in dead /\ dead' = dead /\ todo' = todo /\ air' = air /\ tq' = tq
      /\ silent' = silent /\ unheard' = unheard
  BY DEF HelloMissed
<1>3. todo' = << >>
  BY <1>2 DEF IInv, SetUpFirst
<1>4. rt \in [Node -> TableSet] /\ rt[x] \in TableSet /\ y \in TableSlots /\ rt[x][y] \in EntrySet
  BY InUseType DEF IInv, Types
<1> DEFINE e == [rt[x][y] EXCEPT !.hello = "old"]
           t == [rt[x] EXCEPT ![y] = e]
<1>5. /\ e \in EntrySet /\ SameRoute(e, rt[x][y]) /\ e.hello = "old" /\ e.state = 1
      /\ e.dest = m
  BY <1>1, <1>4 DEF EntrySet, SameRoute
<1>6. rt' = [rt EXCEPT ![x] = t]
  BY <1>1, <1>4 DEF TableSet
<1> HIDE DEF e
<1>7. /\ t \in TableSet /\ InUse(t) = InUse(rt[x]) /\ t[y] = e
      /\ \A i \in TableSlots : i # y => t[i] = rt[x][i]
  BY <1>1, <1>4, <1>5 DEF TableSet, InUse
<1> HIDE DEF t
<1>8. /\ rt' \in [Node -> TableSet] /\ rt'[x] = t
      /\ \A n \in Node : n # x => rt'[n] = rt[n]
  BY <1>4, <1>6, <1>7
<1>9. \A n \in Node : /\ InUse(rt'[n]) = InUse(rt[n])
                      /\ \A i \in InUse(rt[n]) : SameRoute(rt'[n][i], rt[n][i])
  <2>1. \A i \in InUse(rt[x]) : i \in TableSlots /\ SameRoute(t[i], rt[x][i])
    BY <1>5, <1>7 DEF SameRoute, InUse
  <2> QED  BY <1>7, <1>8, <2>1 DEF SameRoute
<1>10. Types' /\ SetUpFirst' /\ Keyed' /\ Fresh' /\ PerrsNameTheDead'
  BY <1>2, <1>3, <1>8, AfterSetUp DEF IInv, Types, PerrsNameTheDead, NamesDead
<1>11. OldIsDead'
  <2> SUFFICES ASSUME NEW n \in Node, NEW i \in InUse(rt'[n]), rt'[n][i].hello = "old"
               PROVE  rt'[n][i].dest \in dead
    BY <1>2 DEF OldIsDead
  <2>1. CASE n = x /\ i = y
    BY <1>2, <1>5, <1>7, <1>8, <2>1
  <2>2. CASE ~(n = x /\ i = y)
    <3>1. i \in InUse(rt[n]) /\ i \in TableSlots
      BY <1>9 DEF InUse
    <3>2. rt'[n][i] = rt[n][i]
      BY <1>7, <1>8, <2>2, <3>1
    <3> QED  BY <3>1, <3>2 DEF IInv, OldIsDead
  <2> QED  BY <2>1, <2>2
<1>12. \A n \in Node : Inherits(n, rt[n], rt'[n])
  BY <1>9 DEF Inherits, ToRoot, SameRoute
<1>13. Linked' /\ Back'
  BY <1>12, TablesInherit DEF IInv
<1>14. Chained'
  <2>1. Live' \subseteq Live /\ silent \subseteq silent' /\ Live' \subseteq Node
    BY <1>2 DEF Live
  <2>2. \A k \in Node : \A s : HasRoute(rt[k], s) => HasRoute(rt'[k], s)
    BY <1>9 DEF HasRoute, ToRoot, SameRoute
  <2>3. \A n, k \in Live' : Coming(k, n) => Coming(k, n)'
    BY <1>2 DEF Coming
  <2> QED  BY <1>12, <2>1, <2>2, <2>3, ChainedStep DEF IInv
<1>15. Noticed'
  <2> SUFFICES ASSUME NEW n \in Live, NEW i \in TableSlots, ToRoot(rt'[n], i),
                      rt'[n][i].next \in dead
               PROVE  <<n, rt'[n][i].next>> \in unheard \/ Counts(rt'[n], rt'[n][i].next)
    BY <1>2 DEF Noticed, Live
  <2>1. n \in Node /\ ToRoot(rt[n], i) /\ rt[n][i].next = rt'[n][i].next
    BY <1>9 DEF Live, ToRoot, SameRoute
  <2>2. ASSUME NEW z, Counts(rt[n], z) PROVE Counts(rt'[n], z)
    <3>1. PICK j \in InUse(rt[n]) : rt[n][j].dest = z /\ rt[n][j].hello # "never"
      BY <2>2 DEF Counts
    <3>2. j \in InUse(rt'[n]) /\ rt'[n][j].dest = z
      BY <1>9, <2>1, <3>1 DEF SameRoute
    <3>3. rt'[n][j].hello # "never"
      BY <1>5, <1>7, <1>8, <2>1, <3>1 DEF InUse
    <3> QED  BY <3>2, <3>3 DEF Counts
  <2> QED  BY <2>1, <2>2 DEF IInv, Noticed
<1> QED  BY <1>10, <1>11, <1>13, <1>14, <1>15 DEF IInv

\* A Hello is heard: in the set-up or later.
LEMMA HelloEffect ==
    ASSUME IInv, NEW m \in Node, NEW x \in Node, <<m, x>> \in Link,
           rt' = [rt EXCEPT ![x] = Hello_process(@, x, m)],
           dead' = dead, silent' = silent, unheard' = unheard, air' = air, tq' = tq,
           m \notin dead
    PROVE  /\ rt' \in [Node -> TableSet]
           /\ \A n \in Node : Inherits(n, rt[n], rt'[n])
           /\ OldIsDead' /\ Linked' /\ Back' /\ Chained' /\ Noticed'
<1> DEFINE u == Hello_process(rt[x], x, m)
<1>1. rt \in [Node -> TableSet]
  BY DEF IInv, Types
<1>2. /\ u \in TableSet /\ InUse(rt[x]) \subseteq InUse(u)
      /\ \A i \in InUse(rt[x]) :
            /\ SameRoute(u[i], rt[x][i])
            /\ u[i].hello = rt[x][i].hello \/ u[i].hello = "recent"
      /\ \A i \in InUse(u) \ InUse(rt[x]) : u[i] = Entry(m, m, x, NoAddr, "recent")
  BY <1>1, HelloSpec
<1>3. Inherits(x, rt[x], u)
  BY <1>1, HelloInherits
<1>4. rt' = [rt EXCEPT ![x] = u]
  OBVIOUS
<1> HIDE DEF u
<1>5. rt' \in [Node -> TableSet] /\ rt'[x] = u /\ \A n \in Node : n # x => rt'[n] = rt[n]
  BY <1>1, <1>2, <1>4
<1>6. \A n \in Node : Inherits(n, rt[n], rt'[n])
  BY <1>3, <1>5, SameInherits
<1>7. OldIsDead'
  <2> SUFFICES ASSUME NEW n \in Node, NEW i \in InUse(rt'[n]), rt'[n][i].hello = "old"
               PROVE  rt'[n][i].dest \in dead
    BY DEF OldIsDead
  <2>1. CASE n # x
    BY <1>5, <2>1 DEF IInv, OldIsDead
  <2>2. CASE n = x
    <3>1. i \in InUse(rt[x]) /\ rt[x][i].hello = "old"
      BY <1>2, <1>5, <2>2 DEF Entry
    <3> QED  BY <1>2, <1>5, <2>2, <3>1 DEF IInv, OldIsDead, SameRoute
  <2> QED  BY <2>1, <2>2
<1>8. Linked' /\ Back'
  BY <1>6, TablesInherit DEF IInv
<1>9. Chained'
  <2>1. Live' \subseteq Live /\ silent \subseteq silent' /\ Live' \subseteq Node
    BY DEF Live
  <2>2. \A s : HasRoute(rt[x], s) => HasRoute(u, s)
    BY <1>2 DEF HasRoute, ToRoot, SameRoute
  <2>3. \A k \in Node : \A s : HasRoute(rt[k], s) => HasRoute(rt'[k], s)
    BY <1>5, <2>2
  <2>4. \A n, k \in Live' : Coming(k, n) => Coming(k, n)'
    BY DEF Coming
  <2> QED  BY <1>6, <2>1, <2>3, <2>4, ChainedStep DEF IInv
<1>10. Noticed'
  <2> SUFFICES ASSUME NEW n \in Live, NEW i \in TableSlots, ToRoot(rt'[n], i),
                      rt'[n][i].next \in dead
               PROVE  <<n, rt'[n][i].next>> \in unheard \/ Counts(rt'[n], rt'[n][i].next)
    BY DEF Noticed, Live
  <2>1. n \in Node
    BY DEF Live
  <2>2. CASE n # x
    BY <1>5, <2>1, <2>2 DEF IInv, Noticed
  <2>3. CASE n = x
    <3>1. i \in InUse(rt[x])
      <4>1. i \notin InUse(rt[x]) => rt'[n][i] = Entry(m, m, x, NoAddr, "recent")
        BY <1>2, <1>5, <2>3 DEF ToRoot
      <4> QED  BY <4>1 DEF Entry
    <3>2. ToRoot(rt[x], i) /\ rt[x][i].next = rt'[n][i].next
      BY <1>2, <1>5, <2>3, <3>1 DEF ToRoot, SameRoute
    <3>3. ASSUME NEW z, Counts(rt[x], z) PROVE Counts(u, z)
      BY <1>2, <3>3 DEF Counts, SameRoute
    <3> QED  BY <1>5, <2>3, <3>2, <3>3 DEF IInv, Noticed
  <2> QED  BY <2>2, <2>3
<1> QED  BY <1>5, <1>6, <1>7, <1>8, <1>9, <1>10

\* A Hello after the set-up.
LEMMA StepHelloHeard ==
    ASSUME IInv, NEW m \in Node, NEW x \in Node, HelloHeard(m, x)
    PROVE  IInv'
<1>1. /\ todo = << >> /\ todo' = todo /\ <<m, x>> \in Link /\ m \notin dead
      /\ rt' = [rt EXCEPT ![x] = Hello_process(@, x, m)]
      /\ dead' = dead /\ silent' = silent /\ unheard' = unheard /\ air' = air /\ tq' = tq
  BY DEF HelloHeard
<1>2. /\ rt' \in [Node -> TableSet]
      /\ OldIsDead' /\ Linked' /\ Back' /\ Chained' /\ Noticed'
  BY <1>1, HelloEffect
<1>3. SetUpFirst' /\ Keyed' /\ Fresh'
  BY <1>1, AfterSetUp
<1>4. Types' /\ PerrsNameTheDead'
  BY <1>1, <1>2 DEF IInv, Types, PerrsNameTheDead, NamesDead
<1> QED  BY <1>2, <1>3, <1>4 DEF IInv

\* The head and the rest of a queue.
LEMMA TailSpec ==
    ASSUME NEW F, NEW q \in Seq(F), q # << >>
    PROVE  /\ Tail(q) \in Seq(F) /\ Head(q) \in F
           /\ 1 \in 1 .. Len(q) /\ Head(q) = q[1]
           /\ \A j \in 1 .. Len(Tail(q)) : j + 1 \in 1 .. Len(q) /\ Tail(q)[j] = q[j + 1]
           /\ \A j \in 1 .. Len(q) :
                 j # 1 => j - 1 \in 1 .. Len(Tail(q)) /\ Tail(q)[j - 1] = q[j]
<1>1. Len(q) \in Nat /\ Len(q) >= 1 /\ Tail(q) \in Seq(F) /\ Len(Tail(q)) = Len(q) - 1
  OBVIOUS
<1>2. Head(q) \in F /\ Head(q) = q[1]
  OBVIOUS
<1>3. \A j \in 1 .. Len(q) - 1 : Tail(q)[j] = q[j + 1]
  OBVIOUS
<1>4. \A j \in 1 .. Len(q) - 1 : j + 1 \in 1 .. Len(q)
  BY <1>1
<1>5. ASSUME NEW j \in 1 .. Len(q), j # 1
      PROVE  j - 1 \in 1 .. Len(q) - 1 /\ Tail(q)[j - 1] = q[j]
  <2>1. j - 1 \in 1 .. Len(q) - 1 /\ (j - 1) + 1 = j
    BY <1>1, <1>5
  <2> QED  BY <1>3, <2>1
<1> QED  BY <1>1, <1>2, <1>3, <1>4, <1>5

\* The head of a queue goes on the air: a PERR to everyone in range.
LEMMA StepTransmit ==
    ASSUME IInv, NEW x \in Node, Transmit(x)
    PROVE  IInv'
<1> DEFINE f == Head(tq[x])
           To == {k \in Node \ dead : /\ <<x, k>> \in Link
                                      /\ Unicast(x, f) => dest_mac[x] = k}
<1>1. /\ tq[x] # << >> /\ air = {}
      /\ tq' = [tq EXCEPT ![x] = Tail(@)]
      /\ air' = {[from |-> x, to |-> m, frame |-> f] : m \in To}
      /\ rt' = rt /\ dead' = dead /\ todo' = todo /\ silent' = silent /\ unheard' = unheard
  BY DEF Transmit
<1>2. tq \in [Node -> Seq(FrameSet)] /\ tq[x] \in Seq(FrameSet)
  BY DEF IInv, Types
<1>3. /\ Tail(tq[x]) \in Seq(FrameSet) /\ f \in FrameSet
      /\ 1 \in 1 .. Len(tq[x]) /\ f = tq[x][1]
      /\ \A j \in 1 .. Len(Tail(tq[x])) :
            j + 1 \in 1 .. Len(tq[x]) /\ Tail(tq[x])[j] = tq[x][j + 1]
      /\ \A j \in 1 .. Len(tq[x]) : j # 1 =>
            j - 1 \in 1 .. Len(Tail(tq[x])) /\ Tail(tq[x])[j - 1] = tq[x][j]
  BY <1>1, <1>2, TailSpec
<1>4. /\ tq' \in [Node -> Seq(FrameSet)] /\ tq'[x] = Tail(tq[x])
      /\ \A n \in Node : n # x => tq'[n] = tq[n]
  BY <1>1, <1>2, <1>3
<1>5. To \subseteq Node /\ \A m \in To : [from |-> x, to |-> m, frame |-> f] \in air'
  BY <1>1
<1>6. \A k \in Node \ dead : <<x, k>> \in Link /\ f.type = "PERR" => k \in To
  BY DEF Unicast
<1>7. Types'
  <2>1. air' \subseteq [from : Node, to : Node, frame : FrameSet]
    <3>1. ASSUME NEW m \in To
          PROVE  [from |-> x, to |-> m, frame |-> f] \in [from : Node, to : Node, frame : FrameSet]
      BY <1>3, <1>5
    <3> QED  BY <1>1, <3>1
  <2> QED  BY <1>1, <1>4, <2>1 DEF IInv, Types
<1> HIDE DEF f, To
<1>8. PerrsNameTheDead'
  <2>1. \A n \in Node : \A k \in 1 .. Len(tq[n]) : tq[n][k].type = "PERR" => tq[n][k].timeout \in dead
    BY DEF IInv, PerrsNameTheDead, NamesDead
  <2>2. \A d \in air' : d.frame = f
    BY <1>1
  <2>3. \A n \in Node : \A k \in 1 .. Len(tq'[n]) : tq'[n][k].type = "PERR" => tq'[n][k].timeout \in dead
    <3>1. \A k \in 1 .. Len(Tail(tq[x])) :
             Tail(tq[x])[k].type = "PERR" => Tail(tq[x])[k].timeout \in dead
      BY <1>3, <2>1
    <3> QED  BY <1>4, <2>1, <3>1
  <2>4. f.type = "PERR" => f.timeout \in dead
    BY <1>3, <2>1
  <2> QED  BY <1>1, <2>2, <2>3, <2>4 DEF PerrsNameTheDead, NamesDead
<1>9. SetUpFirst' /\ OldIsDead' /\ Noticed'
  BY <1>1 DEF IInv, SetUpFirst, OldIsDead, Noticed, Live, Counts
<1>10. Keyed' /\ Fresh' /\ Linked' /\ Back'
  BY <1>1, SameTables DEF IInv
<1>11. Chained'
  <2>1. \A n \in Node : Inherits(n, rt[n], rt'[n])
    BY <1>1, SameInherits
  <2>2. Live' = Live /\ Live \subseteq Node /\ silent \subseteq silent' /\ Live = Node \ dead
    BY <1>1 DEF Live
  <2>3. ASSUME NEW n \in Live, NEW k \in Live, NEW i \in TableSlots, ToRoot(rt[n], i),
               rt[n][i].next = k, Coming(k, n)
        PROVE  Coming(k, n)'
    <3>1. PICK j \in 1 .. Len(tq[k]) : Kills(tq[k][j], k)
      BY <1>1, <2>3 DEF Coming
    <3>2. CASE k # x
      BY <1>4, <2>2, <3>1, <3>2 DEF Coming
    <3>3. CASE k = x /\ j # 1
      <4>1. j - 1 \in 1 .. Len(Tail(tq[x])) /\ Tail(tq[x])[j - 1] = tq[x][j]
        BY <1>3, <3>1, <3>3
      <4>2. j - 1 \in 1 .. Len(tq'[k]) /\ Kills(tq'[k][j - 1], k)
        BY <1>4, <3>1, <3>3, <4>1
      <4> QED  BY <4>2 DEF Coming
    <3>4. CASE k = x /\ j = 1
      <4>1. <<x, n>> \in Link /\ Kills(f, k) /\ f.type = "PERR"
        BY <1>3, <2>2, <2>3, <3>1, <3>4 DEF IInv, Linked, Kills
      <4> DEFINE d == [from |-> x, to |-> n, frame |-> f]
      <4>2. d \in air' /\ d.from = k /\ d.to = n /\ d.frame = f
        BY <1>5, <1>6, <2>2, <3>4, <4>1
      <4> HIDE DEF d
      <4> QED  BY <4>1, <4>2 DEF Coming
    <3> QED  BY <3>2, <3>3, <3>4
  <2> QED  BY <1>1, <2>1, <2>2, <2>3, ChainedStep DEF IInv
<1> QED  BY <1>7, <1>8, <1>9, <1>10, <1>11 DEF IInv

\* The next hop of a route to the root is a node.
LEMMA NextIsNode ==
    ASSUME Linked, NEW n \in Node, NEW i \in TableSlots, ToRoot(rt[n], i)
    PROVE  rt[n][i].next \in Node
BY LinkAssumption DEF Linked

\* What the lookup of an uplink returns.
LEMMA UplinkIsRoute ==
    ASSUME NEW t, NEW s, rt_table_find_from(t, Root, s) # NoSlot
    PROVE  LET u == rt_table_find_from(t, Root, s)
           IN  u \in TableSlots /\ ToRoot(t, u) /\ t[u].source = s
BY FindFromSpec DEF ToRoot, InUse

\* A frame's type tells its fields.
LEMMA FrameTypes ==
    /\ \A f \in FrameSet : f.type = "PERR" => f \in PerrSet
    /\ \A f \in FrameSet : f.type = "PERR_UNI" => f \in PerrUniSet
    /\ \A a, b \in Node : Perr(a, b) \in FrameSet
    /\ \A a, b, c \in Node : PerrUni(a, b, c) \in FrameSet
BY DEF FrameSet, PerrSet, PerrUniSet, Perr, PerrUni

\* Frames are added to a queue, and others leave the air.
LEMMA FramesMove ==
    ASSUME Types, PerrsNameTheDead, NEW x \in Node, NEW r \in Seq(FrameSet),
           tq' = [tq EXCEPT ![x] = @ \o r], dead \subseteq dead',
           \A j \in 1 .. Len(r) : r[j].type = "PERR" => r[j].timeout \in dead',
           air' \subseteq air
    PROVE  /\ tq' \in [Node -> Seq(FrameSet)]
           /\ PerrsNameTheDead'
           /\ \A k, n \in Node : Coming(k, n) /\ (\A a \in air \ air' :
                 ~(a.from = k /\ a.to = n /\ Kills(a.frame, k))) => Coming(k, n)'
           /\ \A n \in Node : \A j \in 1 .. Len(r) : Kills(r[j], x) => Coming(x, n)'
<1>1. tq \in [Node -> Seq(FrameSet)] /\ tq[x] \in Seq(FrameSet)
  BY DEF Types
<1> DEFINE q == tq[x] \o r
<1>2. /\ q \in Seq(FrameSet)
      /\ \A j \in 1 .. Len(tq[x]) : j \in 1 .. Len(q) /\ q[j] = tq[x][j]
      /\ \A j \in 1 .. Len(r) : Len(tq[x]) + j \in 1 .. Len(q) /\ q[Len(tq[x]) + j] = r[j]
      /\ \A j \in 1 .. Len(q) :
            \/ j \in 1 .. Len(tq[x]) /\ q[j] = tq[x][j]
            \/ j - Len(tq[x]) \in 1 .. Len(r) /\ q[j] = r[j - Len(tq[x])]
  BY <1>1, QueueGrows
<1>3. tq' = [tq EXCEPT ![x] = q]
  OBVIOUS
<1> HIDE DEF q
<1>4. /\ tq' \in [Node -> Seq(FrameSet)] /\ tq'[x] = q
      /\ \A n \in Node : n # x => tq'[n] = tq[n]
  BY <1>1, <1>2, <1>3
<1>5. PerrsNameTheDead'
  <2>1. \A n \in Node : \A k \in 1 .. Len(tq[n]) :
           tq[n][k].type = "PERR" => tq[n][k].timeout \in dead'
    BY DEF PerrsNameTheDead, NamesDead
  <2>2. ASSUME NEW k \in 1 .. Len(q), q[k].type = "PERR" PROVE q[k].timeout \in dead'
    <3>1. CASE k \in 1 .. Len(tq[x]) /\ q[k] = tq[x][k]
      BY <2>1, <2>2, <3>1
    <3>2. CASE k - Len(tq[x]) \in 1 .. Len(r) /\ q[k] = r[k - Len(tq[x])]
      BY <2>2, <3>2
    <3> QED  BY <1>2, <3>1, <3>2
  <2>3. \A a \in air' : a.frame.type = "PERR" => a.frame.timeout \in dead'
    BY DEF PerrsNameTheDead, NamesDead
  <2> QED  BY <1>4, <2>1, <2>2, <2>3 DEF PerrsNameTheDead, NamesDead
<1>6. ASSUME NEW k \in Node, NEW n \in Node, Coming(k, n),
             \A a \in air \ air' : ~(a.from = k /\ a.to = n /\ Kills(a.frame, k))
      PROVE  Coming(k, n)'
  <2>1. CASE \E j \in 1 .. Len(tq[k]) : Kills(tq[k][j], k)
    <3>1. \E j \in 1 .. Len(tq'[k]) : Kills(tq'[k][j], k)
      BY <1>2, <1>4, <2>1
    <3> QED  BY <3>1 DEF Coming
  <2>2. CASE \E a \in air : a.from = k /\ a.to = n /\ Kills(a.frame, k)
    BY <1>6, <2>2 DEF Coming
  <2> QED  BY <1>6, <2>1, <2>2 DEF Coming
<1>7. ASSUME NEW n \in Node, NEW j \in 1 .. Len(r), Kills(r[j], x)
      PROVE  Coming(x, n)'
  <2>1. \E i \in 1 .. Len(tq'[x]) : Kills(tq'[x][i], x)
    BY <1>2, <1>4, <1>7
  <2> QED  BY <2>1 DEF Coming
<1> QED  BY <1>4, <1>5, <1>6, <1>7

\* Append is the concatenation of one frame.
LEMMA OneFrameMore ==
    ASSUME NEW F, NEW q \in Seq(F), NEW e \in F
    PROVE  Append(q, e) = q \o <<e>> /\ <<e>> \in Seq(F) /\ q \o << >> = q
OBVIOUS

\* A PERR_UNI is forwarded along an uplink or ends: nothing else depends on it.
LEMMA StepPerrUni ==
    ASSUME IInv, NEW d \in air, Perr_unicast_process(d.to, d)
    PROVE  IInv'
<1> DEFINE x == d.to
           f == d.frame
           u == Uplink(x, f.orig)
           e == PerrUni(f.timeout, f.orig, rt[x][u].next)
<1>1. /\ f.type = "PERR_UNI" /\ air' = air \ {d}
      /\ IF x # Root /\ u # NoSlot THEN tq' = [tq EXCEPT ![x] = Append(@, e)] ELSE tq' = tq
      /\ rt' = rt /\ dead' = dead /\ todo' = todo /\ silent' = silent /\ unheard' = unheard
  BY DEF Perr_unicast_process
<1>2. /\ x \in Node /\ f \in FrameSet /\ f \in PerrUniSet
      /\ tq \in [Node -> Seq(FrameSet)] /\ tq[x] \in Seq(FrameSet)
  BY <1>1, FrameTypes DEF IInv, Types
<1>3. u # NoSlot => e \in FrameSet /\ e.type = "PERR_UNI"
  <2> SUFFICES ASSUME u # NoSlot
               PROVE  e \in FrameSet /\ e.type = "PERR_UNI"
    OBVIOUS
  <2>1. u \in TableSlots /\ ToRoot(rt[x], u)
    BY UplinkIsRoute DEF Uplink
  <2>2. rt[x][u].next \in Node
    BY <1>2, <2>1, NextIsNode DEF IInv
  <2>3. f.timeout \in Node /\ f.orig \in Node
    BY <1>2 DEF PerrUniSet
  <2> QED  BY <2>2, <2>3, FrameTypes DEF PerrUni
<1> HIDE DEF x, f, u, e
<1>4. \E r \in Seq(FrameSet) : /\ tq' = [tq EXCEPT ![x] = @ \o r]
                               /\ \A j \in 1 .. Len(r) : r[j].type # "PERR"
  <2>1. CASE x # Root /\ u # NoSlot
    <3>1. Append(tq[x], e) = tq[x] \o <<e>> /\ <<e>> \in Seq(FrameSet)
      BY <1>2, <1>3, <2>1, OneFrameMore
    <3>2. tq' = [tq EXCEPT ![x] = @ \o <<e>>]
      BY <1>1, <2>1, <3>1
    <3>3. \A j \in 1 .. Len(<<e>>) : <<e>>[j].type # "PERR"
      BY <1>3, <2>1
    <3> QED  BY <3>1, <3>2, <3>3
  <2>2. CASE ~(x # Root /\ u # NoSlot)
    <3>1. tq[x] \o << >> = tq[x]
      BY <1>2
    <3>2. tq' = [tq EXCEPT ![x] = @ \o << >>]
      BY <1>1, <1>2, <2>2, <3>1
    <3> DEFINE none == << >>
    <3>3. none \in Seq(FrameSet) /\ \A j \in 1 .. Len(none) : none[j].type # "PERR"
      OBVIOUS
    <3>4. tq' = [tq EXCEPT ![x] = @ \o none]
      BY <3>2
    <3> HIDE DEF none
    <3> QED  BY <3>3, <3>4
  <2> QED  BY <2>1, <2>2
<1>5. PICK r \in Seq(FrameSet) : /\ tq' = [tq EXCEPT ![x] = @ \o r]
                                 /\ \A j \in 1 .. Len(r) : r[j].type # "PERR"
  BY <1>4
<1>6. /\ tq' \in [Node -> Seq(FrameSet)]
      /\ PerrsNameTheDead'
      /\ \A k, n \in Node : Coming(k, n) /\ (\A a \in air \ air' :
            ~(a.from = k /\ a.to = n /\ Kills(a.frame, k))) => Coming(k, n)'
  BY <1>1, <1>2, <1>5, FramesMove DEF IInv
<1>7. Types' /\ SetUpFirst' /\ OldIsDead' /\ Noticed'
  BY <1>1, <1>6 DEF IInv, Types, SetUpFirst, OldIsDead, Noticed, Live, Counts
<1>8. Keyed' /\ Fresh' /\ Linked' /\ Back'
  BY <1>1, SameTables DEF IInv
<1>9. Chained'
  <2>1. \A n \in Node : Inherits(n, rt[n], rt'[n])
    BY <1>1, SameInherits
  <2>2. Live' \subseteq Live /\ Live' \subseteq Node /\ silent \subseteq silent'
    BY <1>1 DEF Live
  <2>3. \A a \in air \ air' : \A k : ~Kills(a.frame, k)
    BY <1>1 DEF Kills, f
  <2>4. \A n, k \in Live' : Coming(k, n) => Coming(k, n)'
    BY <1>6, <2>2, <2>3
  <2> QED  BY <1>1, <2>1, <2>2, <2>4, ChainedStep DEF IInv
<1> QED  BY <1>6, <1>7, <1>8, <1>9 DEF IInv

\* Entries S of x are deleted because z is dead, and with them all that lead to
\* the root over z.
LEMMA Deletion ==
    ASSUME IInv, NEW x \in Node, NEW S, NEW z,
           rt' = [rt EXCEPT ![x] = Without(rt[x], S)],
           unheard' = unheard \cup ({x} \X Forgotten(rt[x], Without(rt[x], S), z)),
           dead' = dead, todo = << >>, todo' = todo,
           \A i \in TableSlots : ToRoot(rt[x], i) /\ rt[x][i].next = z => i \in S
    PROVE  /\ rt' \in [Node -> TableSet]
           /\ rt'[x] = Without(rt[x], S) /\ \A n \in Node : n # x => rt'[n] = rt[n]
           /\ \A i \in TableSlots : ToRoot(rt'[x], i) => i \notin S
           /\ \A n \in Node : Inherits(n, rt[n], rt'[n])
           /\ OldIsDead' /\ SetUpFirst' /\ Keyed' /\ Fresh' /\ Linked' /\ Back' /\ Noticed'
<1> DEFINE t == rt[x]
           u == Without(t, S)
<1>1. rt \in [Node -> TableSet] /\ t \in TableSet
  BY DEF IInv, Types
<1>2. u \in TableSet /\ InUse(u) = InUse(t) \ S /\ \A i \in InUse(t) \ S : u[i] = t[i]
  BY <1>1, WithoutSpec
<1>3. Inherits(x, t, u)
  BY <1>1, WithoutInherits
<1>4. /\ rt' = [rt EXCEPT ![x] = u] /\ unheard' = unheard \cup ({x} \X Forgotten(t, u, z))
      /\ t = rt[x]
  OBVIOUS
<1> HIDE DEF u, t
<1>5. rt' \in [Node -> TableSet] /\ rt'[x] = u /\ \A n \in Node : n # x => rt'[n] = rt[n]
  BY <1>1, <1>2, <1>4
<1>6. \A n \in Node : Inherits(n, rt[n], rt'[n])
  BY <1>3, <1>4, <1>5, SameInherits
<1>7. \A i \in TableSlots : ToRoot(rt'[x], i) => i \notin S
  BY <1>2, <1>5 DEF ToRoot
<1>8. OldIsDead'
  BY <1>2, <1>4, <1>5 DEF IInv, OldIsDead
<1>9. SetUpFirst' /\ Keyed' /\ Fresh'
  BY AfterSetUp
<1>10. Linked' /\ Back'
  BY <1>6, TablesInherit DEF IInv
<1>11. Noticed'
  <2> SUFFICES ASSUME NEW n \in Live, NEW i \in TableSlots, ToRoot(rt'[n], i),
                      rt'[n][i].next \in dead
               PROVE  <<n, rt'[n][i].next>> \in unheard' \/ Counts(rt'[n], rt'[n][i].next)
    BY DEF Noticed, Live
  <2>1. n \in Node
    BY DEF Live
  <2>2. CASE n # x
    BY <1>4, <1>5, <2>1, <2>2 DEF IInv, Noticed
  <2>3. CASE n = x
    <3>1. i \notin S /\ ToRoot(t, i) /\ u[i] = t[i]
      BY <1>2, <1>5, <2>3 DEF ToRoot
    <3> DEFINE m == t[i].next
    <3>2. rt'[n][i].next = m /\ m \in dead /\ m # z
      BY <1>4, <1>5, <2>3, <3>1
    <3>3. <<x, m>> \in unheard \/ Counts(t, m)
      BY <1>4, <2>3, <3>1, <3>2 DEF IInv, Noticed
    <3> HIDE DEF m
    <3>4. Counts(t, m) /\ ~Counts(u, m) => m \in Forgotten(t, u, z)
      BY <3>2 DEF Forgotten
    <3> QED  BY <1>4, <1>5, <2>3, <3>2, <3>3, <3>4
  <2> QED  BY <2>2, <2>3
<1> QED  BY <1>5, <1>6, <1>7, <1>8, <1>9, <1>10, <1>11 DEF u, t

\* The PERRs of a scan, and the PERR_UNI behind them.
LEMMA PerrsOfScan ==
    ASSUME NEW F, NEW a \in F, NEW b \in F, NEW c \in F, NEW L \in BOOLEAN
    PROVE  LET p == <<a>> \o (IF L THEN <<b>> ELSE << >>) IN
           \A r \in {p, Append(p, c)} :
              /\ r \in Seq(F) /\ 1 \in 1 .. Len(r) /\ r[1] = a
              /\ L => 2 \in 1 .. Len(r) /\ r[2] = b
              /\ \A j \in 1 .. Len(r) : r[j] \in {a, b, c}
<1> DEFINE one == <<a>>
           q == IF L THEN <<b>> ELSE << >>
           p == one \o q
<1>1. q \in Seq(F) /\ (L => Len(q) = 1 /\ q[1] = b) /\ \A j \in 1 .. Len(q) : q[j] = b
  OBVIOUS
<1>2. one \in Seq(F) /\ Len(one) = 1 /\ one[1] = a /\ \A j \in 1 .. Len(one) : one[j] = a
  OBVIOUS
<1> HIDE DEF one, q
<1>3. /\ p \in Seq(F) /\ 1 \in 1 .. Len(p) /\ p[1] = a
      /\ L => 2 \in 1 .. Len(p) /\ p[2] = b
      /\ \A j \in 1 .. Len(p) : p[j] \in {a, b, c}
  <2>1. /\ p \in Seq(F)
        /\ \A j \in 1 .. Len(one) : j \in 1 .. Len(p) /\ p[j] = one[j]
        /\ \A j \in 1 .. Len(q) : Len(one) + j \in 1 .. Len(p) /\ p[Len(one) + j] = q[j]
        /\ \A j \in 1 .. Len(p) :
              \/ j \in 1 .. Len(one) /\ p[j] = one[j]
              \/ j - Len(one) \in 1 .. Len(q) /\ p[j] = q[j - Len(one)]
    BY <1>1, <1>2, QueueGrows
  <2> HIDE DEF p
  <2>2. \A j \in 1 .. Len(p) : p[j] = a \/ p[j] = b
    BY <1>1, <1>2, <2>1
  <2>3. L => 1 \in 1 .. Len(q) /\ q[1] = b
    BY <1>1
  <2> QED  BY <1>2, <2>1, <2>2, <2>3
<1> HIDE DEF p
<1>4. /\ Append(p, c) \in Seq(F) /\ Len(Append(p, c)) = Len(p) + 1 /\ Len(p) \in Nat
      /\ \A j \in 1 .. Len(p) : Append(p, c)[j] = p[j]
      /\ Append(p, c)[Len(p) + 1] = c
  BY <1>3
<1>5. \A j \in 1 .. Len(Append(p, c)) : j \in 1 .. Len(p) \/ j = Len(p) + 1
  BY <1>4
<1>6. \A j \in 1 .. Len(p) : j \in 1 .. Len(Append(p, c))
  BY <1>4
<1>7. \A r \in {p, Append(p, c)} :
         /\ r \in Seq(F) /\ 1 \in 1 .. Len(r) /\ r[1] = a
         /\ L => 2 \in 1 .. Len(r) /\ r[2] = b
         /\ \A j \in 1 .. Len(r) : r[j] \in {a, b, c}
  BY <1>3, <1>4, <1>5, <1>6
<1> QED  BY <1>7 DEF p, one, q

\* The scan deletes what leads over the dead neighbour and queues the PERRs.
LEMMA StepScan ==
    ASSUME IInv, NEW x \in Node, NEW y \in TableSlots, Hello_timeout_process(x, y)
    PROVE  IInv'
<1> DEFINE t == rt[x]
           m == t[y].dest
           S == {y} \cup {j \in InUse(t) : Names(t[j], m)}
           rest == Without(t, S)
           L == Lost(t, x, y, m)
           perrs == <<Perr(m, m)>> \o (IF L THEN <<Perr(m, x)>> ELSE << >>)
           up == rt_table_find_from(rest, Root, x)
           uni == PerrUni(m, x, NextHop(rest, up))
           ends == x = Root \/ up = NoSlot
           r == IF ends THEN perrs ELSE Append(perrs, uni)
<1>1. /\ x \notin dead /\ y \in InUse(t) /\ t[y].hello = "old"
      /\ rt' = [rt EXCEPT ![x] = rest]
      /\ unheard' = unheard \cup ({x} \X Forgotten(t, rest, m))
      /\ air' = air /\ dead' = dead /\ todo' = todo /\ silent' = silent
      /\ tq' = [tq EXCEPT ![x] = @ \o r]
  BY DEF Hello_timeout_process
<1>2. /\ rt \in [Node -> TableSet] /\ t \in TableSet /\ t[y] \in EntrySet
      /\ dead \subseteq Node /\ m \in dead /\ m \in Node
  BY <1>1, InUseType DEF IInv, Types, OldIsDead
<1>3. todo = << >>
  BY <1>2 DEF IInv, SetUpFirst
<1>4. \A i \in TableSlots : ToRoot(t, i) /\ t[i].next = m => i \in S
  BY DEF ToRoot, Names
<1>5. /\ rt' \in [Node -> TableSet]
      /\ rt'[x] = rest /\ \A n \in Node : n # x => rt'[n] = rt[n]
      /\ \A n \in Node : Inherits(n, rt[n], rt'[n])
      /\ OldIsDead' /\ SetUpFirst' /\ Keyed' /\ Fresh' /\ Linked' /\ Back' /\ Noticed'
  <2> DEFINE T == S
             z == m
             w == x
  <2>1. /\ rt' = [rt EXCEPT ![w] = Without(rt[w], T)]
        /\ unheard' = unheard \cup ({w} \X Forgotten(rt[w], Without(rt[w], T), z))
        /\ \A i \in TableSlots : ToRoot(rt[w], i) /\ rt[w][i].next = z => i \in T
        /\ w \in Node
        /\ dead' = dead /\ todo = << >> /\ todo' = todo
    BY <1>1, <1>3, <1>4
  <2>2. Without(rt[w], T) = rest /\ w = x
    OBVIOUS
  <2> HIDE DEF z, T, w, rest, S, r, m, t
  <2>3. /\ rt' \in [Node -> TableSet]
        /\ rt'[w] = Without(rt[w], T) /\ \A n \in Node : n # w => rt'[n] = rt[n]
        /\ \A n \in Node : Inherits(n, rt[n], rt'[n])
        /\ OldIsDead' /\ SetUpFirst' /\ Keyed' /\ Fresh' /\ Linked' /\ Back' /\ Noticed'
    BY <2>1, Deletion
  <2> QED  BY <2>2, <2>3
<1>6. InUse(rest) = InUse(t) \ S /\ \A i \in InUse(t) \ S : rest[i] = t[i]
  BY <1>2, WithoutSpec
<1>7. /\ r \in Seq(FrameSet) /\ 1 \in 1 .. Len(r) /\ r[1] = Perr(m, m)
      /\ L => 2 \in 1 .. Len(r) /\ r[2] = Perr(m, x)
      /\ \A j \in 1 .. Len(r) : r[j].type = "PERR" => r[j].timeout = m
  <2>1. ~ends => uni \in FrameSet
    <3> SUFFICES ASSUME ~ends
                 PROVE  uni \in FrameSet
      OBVIOUS
    <3>1. up \in TableSlots /\ ToRoot(rest, up)
      BY UplinkIsRoute
    <3>2. rest[up].next \in Node
      <4>1. up \in InUse(t) \ S /\ rest[up] = t[up] /\ ToRoot(t, up)
        BY <1>6, <3>1 DEF ToRoot
      <4> QED  BY <3>1, <4>1, NextIsNode DEF IInv
    <3> QED  BY <1>2, <3>2, FrameTypes DEF NextHop
  <2> DEFINE a == Perr(m, m)
             b == Perr(m, x)
             c == IF ends THEN a ELSE uni
  <2>2. a \in FrameSet /\ b \in FrameSet /\ c \in FrameSet
    BY <1>2, <2>1, FrameTypes
  <2>3. L \in BOOLEAN
    BY DEF Lost
  <2>4. \A f \in {a, b, c} : f.type = "PERR" => f.timeout = m
    BY DEF Perr, PerrUni
  <2>5. perrs = <<a>> \o (IF L THEN <<b>> ELSE << >>)
    OBVIOUS
  <2>6. r \in {perrs, Append(perrs, c)}
    OBVIOUS
  <2> HIDE DEF a, b, c, L, perrs, r
  <2>7. \A q \in {perrs, Append(perrs, c)} :
              /\ q \in Seq(FrameSet) /\ 1 \in 1 .. Len(q) /\ q[1] = a
              /\ L => 2 \in 1 .. Len(q) /\ q[2] = b
              /\ \A j \in 1 .. Len(q) : q[j] \in {a, b, c}
    BY <2>2, <2>3, <2>5, PerrsOfScan
  <2>8. a = Perr(m, m) /\ b = Perr(m, x)
    BY DEF a, b
  <2> QED  BY <2>4, <2>6, <2>7, <2>8
<1> HIDE DEF r
<1>8. /\ tq' \in [Node -> Seq(FrameSet)]
      /\ PerrsNameTheDead'
      /\ \A k, n \in Node : Coming(k, n) => Coming(k, n)'
      /\ \A n \in Node : \A j \in 1 .. Len(r) : Kills(r[j], x) => Coming(x, n)'
  <2>1. \A j \in 1 .. Len(r) : r[j].type = "PERR" => r[j].timeout \in dead'
    BY <1>1, <1>2, <1>7
  <2>2. Types /\ PerrsNameTheDead /\ dead \subseteq dead' /\ air' \subseteq air /\ air \ air' = {}
    BY <1>1 DEF IInv
  <2>3. r \in Seq(FrameSet) /\ tq' = [tq EXCEPT ![x] = @ \o r]
    BY <1>1, <1>7
  <2>4. /\ tq' \in [Node -> Seq(FrameSet)]
        /\ PerrsNameTheDead'
        /\ \A k, n \in Node : Coming(k, n) /\ (\A a \in air \ air' :
              ~(a.from = k /\ a.to = n /\ Kills(a.frame, k))) => Coming(k, n)'
        /\ \A n \in Node : \A j \in 1 .. Len(r) : Kills(r[j], x) => Coming(x, n)'
    BY <2>1, <2>2, <2>3, FramesMove
  <2> QED  BY <2>2, <2>4
<1> HIDE DEF t, m, S, rest, L
<1>9. Types'
  BY <1>1, <1>5, <1>8 DEF IInv, Types
<1>10. Chained'
  <2>1. Live' = Live /\ silent \subseteq silent' /\ Live = Node \ dead
    BY <1>1 DEF Live
  <2>2. ASSUME NEW n \in Live, NEW k \in Live, NEW i \in TableSlots,
               ToRoot(rt[n], i), rt[n][i].next = k, k # Root, rt[n][i].source \in Live,
               HasRoute(rt[k], rt[n][i].source)
        PROVE  HasRoute(rt'[k], rt[n][i].source) \/ Coming(k, n)'
    <3>1. CASE k # x
      BY <1>5, <2>1, <2>2, <3>1
    <3>2. CASE k = x
      <4>1. PICK j \in TableSlots : ToRoot(t, j) /\ t[j].source = rt[n][i].source
        BY <2>2, <3>2 DEF HasRoute, t
      <4>2. t[j].prev \in {n, NoAddr}
        BY <2>1, <2>2, <3>2, <4>1 DEF IInv, Back, t
      <4>3. CASE j \notin S
        <5>1. ToRoot(rest, j) /\ rest[j] = t[j]
          BY <1>6, <4>1, <4>3 DEF ToRoot
        <5> QED  BY <1>5, <2>1, <3>2, <4>1, <5>1 DEF HasRoute
      <4>4. CASE j = y
        <5>1. m = Root
          BY <4>1, <4>4 DEF ToRoot, m
        <5>2. Kills(r[1], x)
          BY <1>7, <5>1 DEF Kills, Perr
        <5> QED  BY <1>7, <1>8, <2>1, <2>2, <3>2, <5>2
      <4>5. CASE j # y /\ j \in S
        <5>1. Names(t[j], m) /\ j \in InUse(t) \ {y}
          BY <4>5 DEF S
        <5>2. m # t[j].source /\ m # t[j].prev
          BY <1>2, <2>1, <2>2, <4>1, <4>2, NodeAssumption
        <5>3. L
          BY <4>1, <5>1, <5>2 DEF L, Lost, Names, ToRoot
        <5>4. Kills(r[2], x)
          BY <1>1, <1>2, <1>7, <5>3 DEF Kills, Perr
        <5> QED  BY <1>7, <1>8, <2>1, <2>2, <3>2, <5>3, <5>4
      <4> QED  BY <4>3, <4>4, <4>5
    <3> QED  BY <3>1, <3>2
  <2> QED  BY <1>1, <1>5, <1>8, <2>1, <2>2, ChainedStep DEF IInv
<1> QED  BY <1>5, <1>8, <1>9, <1>10 DEF IInv

\* A PERR deletes whatever leads to the root over its sender, if that has lost
\* its uplink, or to a dead root.
LEMMA KillsBreaks ==
    ASSUME NEW f, NEW k, Kills(f, k), NEW e, e.dest = Root, e.next = k
    PROVE  Broken(e, f)
BY DEF Kills, Broken

\* A PERR deletes routes; the receiver passes it on, or is silent, or has lost
\* only what nobody has through it.
LEMMA StepPerr ==
    ASSUME IInv, NEW d \in air, Perr_process(d.to, d)
    PROVE  IInv'
<1> DEFINE x == d.to
           f == d.frame
           z == f.timeout
           t == rt[x]
           S == {i \in InUse(t) : Broken(t[i], f)}
           rest == Without(t, S)
           U == UplinkLost(t, f)
           r == [k \in 1 .. Cardinality(U) |-> Perr(z, x)]
<1>1. /\ f.type = "PERR" /\ air' = air \ {d}
      /\ rt' = [rt EXCEPT ![x] = rest]
      /\ tq' = [tq EXCEPT ![x] = @ \o r]
      /\ silent' = IF Mute(t, f) THEN silent \cup {x} ELSE silent
      /\ unheard' = unheard \cup ({x} \X Forgotten(t, rest, z))
      /\ dead' = dead /\ todo' = todo
  BY DEF Perr_process
<1>2. /\ x \in Node /\ f \in FrameSet /\ f \in PerrSet /\ z \in Node /\ z \in dead
      /\ rt \in [Node -> TableSet] /\ t \in TableSet /\ dead \subseteq Node
  <2>1. x \in Node /\ f \in FrameSet
    BY DEF IInv, Types
  <2>2. f \in PerrSet
    BY <1>1, <2>1, FrameTypes
  <2>3. z \in dead
    BY <1>1 DEF IInv, PerrsNameTheDead, NamesDead
  <2> QED  BY <2>1, <2>2, <2>3 DEF PerrSet, IInv, Types
<1>3. todo = << >>
  BY <1>2 DEF IInv, SetUpFirst
<1>4. \A i \in TableSlots : ToRoot(t, i) /\ t[i].next = z => i \in S
  BY DEF ToRoot, Broken, Names
<1>5. /\ rt' \in [Node -> TableSet]
      /\ rt'[x] = rest /\ \A n \in Node : n # x => rt'[n] = rt[n]
      /\ \A i \in TableSlots : ToRoot(rt'[x], i) => i \notin S
      /\ \A n \in Node : Inherits(n, rt[n], rt'[n])
      /\ OldIsDead' /\ SetUpFirst' /\ Keyed' /\ Fresh' /\ Linked' /\ Back' /\ Noticed'
  <2> DEFINE T == S
             why == z
             w == x
  <2>1. /\ rt' = [rt EXCEPT ![w] = Without(rt[w], T)]
        /\ unheard' = unheard \cup ({w} \X Forgotten(rt[w], Without(rt[w], T), why))
        /\ \A i \in TableSlots : ToRoot(rt[w], i) /\ rt[w][i].next = why => i \in T
        /\ w \in Node
    BY <1>1, <1>2, <1>4
  <2>2. Without(rt[w], T) = rest
    OBVIOUS
  <2>3. w = x /\ T = S
    OBVIOUS
  <2> HIDE DEF why, T, w, rest, S, x
  <2>4. /\ rt' \in [Node -> TableSet]
        /\ rt'[w] = Without(rt[w], T) /\ \A n \in Node : n # w => rt'[n] = rt[n]
        /\ \A i \in TableSlots : ToRoot(rt'[w], i) => i \notin T
        /\ \A n \in Node : Inherits(n, rt[n], rt'[n])
        /\ OldIsDead' /\ SetUpFirst' /\ Keyed' /\ Fresh' /\ Linked' /\ Back' /\ Noticed'
    BY <1>1, <1>3, <2>1, Deletion
  <2> QED  BY <2>2, <2>3, <2>4
<1>6. InUse(rest) = InUse(t) \ S /\ \A i \in InUse(t) \ S : rest[i] = t[i]
  BY <1>2, WithoutSpec
<1>7. IsFiniteSet(U) /\ Cardinality(U) \in Nat
  <2>1. U \subseteq TableSlots
    BY DEF UplinkLost, InUse
  <2>2. IsFiniteSet(TableSlots)
    BY FS_Interval, TableAssumption DEF TableSlots
  <2> QED  BY <2>1, <2>2, FS_Subset, FS_CardinalityType
<1>8. /\ r \in Seq(FrameSet) /\ \A j \in 1 .. Len(r) : r[j] = Perr(z, x)
      /\ U # {} => 1 \in 1 .. Len(r)
  <2>1. Perr(z, x) \in FrameSet
    BY <1>2, FrameTypes
  <2>2. U # {} => Cardinality(U) # 0
    BY <1>7, FS_EmptySet
  <2> HIDE DEF U, z, x
  <2>3. r \in Seq(FrameSet) /\ Len(r) = Cardinality(U) /\ \A j \in 1 .. Len(r) : r[j] = Perr(z, x)
    BY <1>7, <2>1
  <2> QED  BY <1>7, <2>2, <2>3
<1> HIDE DEF r
<1>9. /\ tq' \in [Node -> Seq(FrameSet)]
      /\ PerrsNameTheDead'
      /\ \A k, n \in Node : Coming(k, n) /\ (\A a \in air \ air' :
            ~(a.from = k /\ a.to = n /\ Kills(a.frame, k))) => Coming(k, n)'
      /\ \A n \in Node : \A j \in 1 .. Len(r) : Kills(r[j], x) => Coming(x, n)'
  <2>1. \A j \in 1 .. Len(r) : r[j].type = "PERR" => r[j].timeout \in dead'
    BY <1>1, <1>2, <1>8 DEF Perr
  <2> DEFINE w == x
  <2>2. w \in Node /\ tq' = [tq EXCEPT ![w] = @ \o r] /\ w = x
    BY <1>1, <1>2
  <2> HIDE DEF w, x
  <2>3. Types /\ PerrsNameTheDead /\ dead \subseteq dead' /\ air' \subseteq air /\ r \in Seq(FrameSet)
    BY <1>1, <1>8 DEF IInv
  <2>4. /\ tq' \in [Node -> Seq(FrameSet)]
        /\ PerrsNameTheDead'
        /\ \A k, n \in Node : Coming(k, n) /\ (\A a \in air \ air' :
              ~(a.from = k /\ a.to = n /\ Kills(a.frame, k))) => Coming(k, n)'
        /\ \A n \in Node : \A j \in 1 .. Len(r) : Kills(r[j], w) => Coming(w, n)'
    BY <2>1, <2>2, <2>3, FramesMove
  <2> QED  BY <2>2, <2>4
<1>10. Types'
  BY <1>1, <1>5, <1>9 DEF IInv, Types
<1> HIDE DEF x, t, S, rest, U, z
<1>11. Chained'
  <2>1. Live' = Live /\ silent \subseteq silent' /\ Live = Node \ dead
    BY <1>1 DEF Live
  <2>2. ASSUME NEW n \in Live, NEW k \in Live, NEW i \in TableSlots, ToRoot(rt'[n], i),
               ToRoot(rt[n], i), rt[n][i].next = k, Coming(k, n)
        PROVE  Coming(k, n)'
    <3>1. ASSUME NEW a \in air \ air', a.from = k, a.to = n, Kills(a.frame, k)
          PROVE  FALSE
      <4>1. a = d /\ n = x /\ Kills(f, k)
        BY <1>1, <3>1 DEF x
      <4>2. Broken(t[i], f)
        BY <2>2, <4>1, KillsBreaks DEF ToRoot, t
      <4>3. i \in S
        BY <2>2, <4>1, <4>2 DEF S, ToRoot, t
      <4> QED  BY <1>5, <2>2, <4>1, <4>3
    <3> QED  BY <1>9, <2>1, <2>2, <3>1
  <2>3. ASSUME NEW n \in Live, NEW k \in Live, NEW i \in TableSlots,
               ToRoot(rt[n], i), rt[n][i].next = k, k # Root, rt[n][i].source \in Live,
               HasRoute(rt[k], rt[n][i].source)
        PROVE  HasRoute(rt'[k], rt[n][i].source) \/ k \in silent' \/ Coming(k, n)'
    <3>1. CASE k # x
      BY <1>5, <2>1, <2>3, <3>1
    <3>2. CASE k = x
      <4>1. PICK j \in TableSlots : ToRoot(t, j) /\ t[j].source = rt[n][i].source
        BY <2>3, <3>2 DEF HasRoute, t
      <4>2. t[j].prev \in {n, NoAddr}
        BY <2>1, <2>3, <3>2, <4>1 DEF IInv, Back, t
      <4>3. CASE j \notin S
        <5>1. ToRoot(rest, j) /\ rest[j] = t[j]
          BY <1>6, <4>1, <4>3 DEF ToRoot
        <5> QED  BY <1>5, <2>1, <3>2, <4>1, <5>1 DEF HasRoute
      <4>4. CASE U # {}
        <5>1. x # z
          BY <1>2, <2>1, <3>2
        <5>2. Kills(r[1], x) /\ 1 \in 1 .. Len(r)
          BY <1>8, <4>4, <5>1 DEF Kills, Perr
        <5> QED  BY <1>9, <2>1, <2>3, <3>2, <5>2
      <4>5. CASE j \in S /\ U = {}
        <5>1. Broken(t[j], f) /\ t[j].dest = Root /\ j \in InUse(t)
          BY <4>1, <4>5 DEF S, ToRoot
        <5>2. t[j].dest = z \/ Names(t[j], z)
          BY <4>5, <5>1 DEF Broken, U, UplinkLost, z
        <5>3. z # t[j].source /\ z # t[j].prev
          BY <1>2, <2>1, <2>3, <4>1, <4>2, NodeAssumption
        <5>4. z \in {Root, t[j].next}
          BY <5>1, <5>2, <5>3 DEF Names
        <5>5. Mute(t, f)
          BY <4>5, <5>1, <5>4 DEF Mute, U, z
        <5> QED  BY <1>1, <3>2, <5>5
      <4> QED  BY <4>3, <4>4, <4>5
    <3> QED  BY <3>1, <3>2
  <2> QED  BY <1>1, <1>5, <2>1, <2>2, <2>3, ChainedStep DEF IInv
<1> QED  BY <1>5, <1>9, <1>10, <1>11 DEF IInv

-----------------------------------------------------------------------------
\* The set-up.

\* A Hello keeps a table distinct.
LEMMA HelloDistinct ==
    ASSUME NEW t \in TableSet, Distinct(t), NEW n \in Node, n # Root, NEW m \in Node
    PROVE  Distinct(Hello_process(t, n, m))
<1> DEFINE u == Hello_process(t, n, m)
           x == rt_table_find(t, m)
           e == Entry(m, m, n, NoAddr, "recent")
<1>1. CASE x = NoSlot
  <2>1. e \in EntrySet /\ e.dest = m /\ e.source = n
    BY EntryType DEF Entry
  <2>2. u = rt_table_insert(t, e)
    BY <1>1 DEF Hello_process
  <2>3. \A j \in InUse(t) : t[j].dest # m
    BY <1>1, FindSpec
  <2> HIDE DEF u, e
  <2>4. m = Root => NoRouteFor(t, n)
    BY <2>3 DEF NoRouteFor
  <2>5. Distinct(rt_table_insert(t, e))
    BY <2>1, <2>3, <2>4, DistinctInsert
  <2> QED  BY <2>2, <2>5 DEF u
<1>2. CASE x # NoSlot
  <2>1. u = [t EXCEPT ![x].hello = "recent"]
    BY <1>2 DEF Hello_process
  <2>2. \A i \in InUse(t) : SameRoute(u[i], t[i])
    BY HelloSpec
  <2>3. InUse(u) = InUse(t)
    <3>1. x \in InUse(t) /\ x \in TableSlots /\ t[x] \in EntrySet
      BY <1>2, FindSpec, InUseType
    <3>2. [t[x] EXCEPT !.hello = "recent"].state = 1
      BY <3>1 DEF EntrySet
    <3> QED  BY <2>1, <3>1, <3>2 DEF InUse, TableSet
  <2> HIDE DEF u
  <2>4. Distinct(u)
    BY <2>2, <2>3 DEF Distinct, SameRoute
  <2> QED  BY <2>4 DEF u
<1> QED  BY <1>1, <1>2

\* The set-up goes on, and nobody has died.
LEMMA TodoShrinks ==
    ASSUME IInv, todo # << >>, todo' = Tail(todo), dead' = dead
    PROVE  /\ todo' \in Seq(Event) /\ Head(todo) \in Event
           /\ dead = {} /\ SetUpFirst' /\ Live' = Node /\ Live = Node
BY DEF IInv, Types, SetUpFirst, Live

\* A Hello of the set-up.
LEMMA StepConvergeHello ==
    ASSUME IInv, todo # << >>, todo' = Tail(todo), NEW m \in Node, NEW x \in Node,
           Head(todo) = Hello(m, x), rt' = [rt EXCEPT ![x] = Hello_process(@, x, m)],
           UNCHANGED <<tq, dest_mac, air, dead, reported, silent, unheard>>
    PROVE  IInv'
<1>1. todo' \in Seq(Event) /\ Head(todo) \in Event /\ dead = {} /\ SetUpFirst'
  BY TodoShrinks
<1>2. <<m, x>> \in Link
  <2>1. \A p : Preq(p) # Hello(m, x)
    BY DEF Preq, Hello
  <2>2. PICK l \in Link : Hello(l[1], l[2]) = Hello(m, x)
    BY <1>1, <2>1 DEF Event
  <2>3. l[1] = m /\ l[2] = x /\ l \in Node \X Node
    BY <2>2, LinkAssumption DEF Hello
  <2> QED  BY <2>3
<1>3. /\ rt' \in [Node -> TableSet]
      /\ OldIsDead' /\ Linked' /\ Back' /\ Chained' /\ Noticed'
  BY <1>1, <1>2, HelloEffect
<1> DEFINE t == rt[x]
           u == Hello_process(t, x, m)
<1>4. /\ rt \in [Node -> TableSet] /\ t \in TableSet
      /\ rt'[x] = u /\ \A n \in Node : n # x => rt'[n] = rt[n]
  BY DEF IInv, Types
<1>5. /\ u \in TableSet /\ InUse(t) \subseteq InUse(u)
      /\ \A i \in InUse(t) : SameRoute(u[i], t[i])
      /\ \A i \in InUse(u) \ InUse(t) : u[i] = Entry(m, m, x, NoAddr, "recent")
  BY <1>4, HelloSpec
<1>6. Keyed'
  <2>1. \A n \in Node \ {Root} : Distinct(rt[n])
    BY DEF IInv, Keyed
  <2>2. x # Root => Distinct(u)
    BY <1>4, <2>1, HelloDistinct
  <2> HIDE DEF u
  <2> QED  BY <1>4, <2>1, <2>2 DEF Keyed
<1> HIDE DEF u, t
<1>7. Fresh'
  <2>1. \A k \in Node : \A s : HasRoute(rt[k], s) => HasRoute(rt'[k], s)
    <3>1. \A s : HasRoute(t, s) => HasRoute(u, s)
      BY <1>5 DEF HasRoute, ToRoot, SameRoute
    <3> QED  BY <1>4, <3>1 DEF t
  <2>2. ASSUME NEW n \in Node, NEW i \in TableSlots, ToRoot(rt'[n], i)
        PROVE  rt'[n][i].source \in Node /\ HasRoute(rt'[rt'[n][i].source], rt'[n][i].source)
    <3>1. CASE ToRoot(rt[n], i) /\ SameRoute(rt'[n][i], rt[n][i])
      <4>1. rt[n][i].source \in Node /\ rt'[n][i].source = rt[n][i].source
        BY <1>4, <3>1, InUseType DEF ToRoot, SameRoute, EntrySet
      <4>2. Uplink(rt[n][i].source, rt[n][i].source) # NoSlot
        BY <3>1 DEF IInv, Fresh
      <4>3. HasRoute(rt[rt[n][i].source], rt[n][i].source)
        BY <4>2, UplinkFound DEF Uplink
      <4> QED  BY <2>1, <4>1, <4>3
    <3>2. CASE n = x /\ rt'[n][i] = Entry(m, m, x, NoAddr, "recent")
      BY <2>2, <3>2 DEF HasRoute, Entry
    <3>3. \/ ToRoot(rt[n], i) /\ SameRoute(rt'[n][i], rt[n][i])
          \/ n = x /\ rt'[n][i] = Entry(m, m, x, NoAddr, "recent")
      <4>1. CASE n # x
        BY <1>4, <2>2, <4>1 DEF SameRoute
      <4>2. CASE n = x /\ i \in InUse(t)
        BY <1>4, <1>5, <2>2, <4>2 DEF ToRoot, SameRoute, t
      <4>3. CASE n = x /\ i \notin InUse(t)
        BY <1>4, <1>5, <2>2, <4>3 DEF ToRoot
      <4> QED  BY <4>1, <4>2, <4>3
    <3> QED  BY <3>1, <3>2, <3>3
  <2> QED  BY <2>2, UplinkFound DEF Fresh, Uplink
<1>8. Types' /\ PerrsNameTheDead'
  BY <1>1, <1>3 DEF IInv, Types, PerrsNameTheDead, NamesDead
<1> QED  BY <1>1, <1>3, <1>6, <1>7, <1>8 DEF IInv

\* A PREQ comes to the root and its PREP back: p[1] had left no route before.
LEMMA StepConvergePreq ==
    ASSUME IInv, todo # << >>, todo' = Tail(todo), NEW p \in Path, Asks(p[1]),
           rt' = [n \in Node |-> StoreRoute(rt[n], n, p)],
           UNCHANGED <<tq, dest_mac, air, dead, reported, silent, unheard>>
    PROVE  IInv'
<1> DEFINE s == p[1]
<1>1. /\ todo' \in Seq(Event) /\ dead = {} /\ SetUpFirst'
      /\ Live' = Node /\ Live = Node
  BY TodoShrinks
<1>2. Len(p) \in Nat /\ Len(p) >= 1 /\ s \in Node \ {Root}
  <2>1. Len(p) \in Nat /\ Len(p) >= 1
    BY PathFacts
  <2>2. 1 \in 1 .. Len(p)
    BY <2>1
  <2> QED  BY <2>1, <2>2, PathFacts
<1>3. rt \in [Node -> TableSet] /\ \A n \in Node : rt[n] \in TableSet
  BY DEF IInv, Types
<1>4. \A n \in Node : NoRouteFor(rt[n], s)
  <2>1. Uplink(s, s) = NoSlot
    BY DEF Asks
  <2>2. ASSUME NEW n \in Node, HasRoute(rt[n], s) PROVE FALSE
    <3>1. PICK j \in TableSlots : ToRoot(rt[n], j) /\ rt[n][j].source = s
      BY <2>2 DEF HasRoute
    <3> QED  BY <2>1, <3>1 DEF IInv, Fresh
  <2> QED  BY <2>2, UplinkFound
<1>5. \A n \in Node \ {Root} : Distinct(rt[n]) /\ FreeSlot(rt[n]) # NoSlot
  BY <1>2, <1>3, <1>4, RoomForUplink DEF IInv, Keyed
<1>6. \A n \in Node : rt'[n] = StoreRoute(rt[n], n, p)
  OBVIOUS
<1>7. ASSUME NEW n \in Node
      PROVE  /\ rt'[n] \in TableSet /\ InUse(rt[n]) \subseteq InUse(rt'[n])
             /\ \A i \in InUse(rt[n]) : rt'[n][i] = rt[n][i]
             /\ \A i \in InUse(rt'[n]) \ InUse(rt[n]) :
                   /\ rt'[n][i].hello = "never"
                   /\ rt'[n][i].dest = Root =>
                         \E k \in 1 .. Len(p) : p[k] = n /\ rt'[n][i] = UpEntry(p, k)
             /\ n # Root => Distinct(rt'[n])
             /\ \A k \in 1 .. Len(p) : p[k] = n => \E i \in InUse(rt'[n]) : rt'[n][i] = UpEntry(p, k)
  <2> DEFINE u == StoreRoute(rt[n], n, p)
  <2>1. /\ u \in TableSet /\ InUse(rt[n]) \subseteq InUse(u)
        /\ \A i \in InUse(rt[n]) : u[i] = rt[n][i]
        /\ \A i \in InUse(u) \ InUse(rt[n]) :
              /\ u[i].hello = "never"
              /\ u[i].dest = Root =>
                    \E k \in 1 .. Len(p) : p[k] = n /\ u[i] = UpEntry(p, k)
        /\ NoRouteFor(rt[n], s) =>
              /\ n # Root /\ Distinct(rt[n]) => Distinct(u)
              /\ \A k \in 1 .. Len(p) : p[k] = n /\ FreeSlot(rt[n]) # NoSlot =>
                    \E i \in InUse(u) : u[i] = UpEntry(p, k)
    BY <1>3, RouteSpec
  <2>2. rt'[n] = u
    BY <1>6
  <2> HIDE DEF u
  <2>3. n # Root => Distinct(u)
    BY <2>1, <1>4, <1>5
  <2>4. \A k \in 1 .. Len(p) : p[k] = n => FreeSlot(rt[n]) # NoSlot
    BY <1>5, PathFacts
  <2> QED  BY <2>1, <2>2, <2>3, <2>4, <1>4
<1> DEFINE Stays(n, i) == ToRoot(rt[n], i) /\ rt'[n][i] = rt[n][i]
           Comes(n, i) == /\ rt'[n][i].source = s
                          /\ \E k \in 1 .. Len(p) : p[k] = n /\ rt'[n][i] = UpEntry(p, k)
<1>8. \A n \in Node, i \in TableSlots : ToRoot(rt'[n], i) =>
         \/ Stays(n, i) /\ rt[n][i].source # s
         \/ Comes(n, i)
  <2> SUFFICES ASSUME NEW n \in Node, NEW i \in TableSlots, ToRoot(rt'[n], i)
               PROVE  \/ Stays(n, i) /\ rt[n][i].source # s
                      \/ Comes(n, i)
    OBVIOUS
  <2>1. CASE i \in InUse(rt[n])
    <3>1. rt'[n][i] = rt[n][i]
      BY <2>1, <1>7
    <3>2. ToRoot(rt[n], i)
      BY <2>1, <3>1 DEF ToRoot
    <3>3. rt[n][i].source # s
      BY <2>1, <3>2, <1>4 DEF ToRoot, NoRouteFor
    <3> QED  BY <3>1, <3>2, <3>3
  <2>2. CASE i \notin InUse(rt[n])
    <3>1. PICK k \in 1 .. Len(p) : p[k] = n /\ rt'[n][i] = UpEntry(p, k)
      BY <2>2, <1>7 DEF ToRoot
    <3> QED  BY <3>1 DEF UpEntry, Entry
  <2> QED  BY <2>1, <2>2
<1>9. \A n \in Node : \A z : HasRoute(rt[n], z) => HasRoute(rt'[n], z)
  BY <1>7 DEF HasRoute, ToRoot
<1>10. \A k \in 1 .. Len(p) : p[k] \in Node /\ HasRoute(rt'[p[k]], s)
  <2> SUFFICES ASSUME NEW k \in 1 .. Len(p)
               PROVE  p[k] \in Node /\ HasRoute(rt'[p[k]], s)
    OBVIOUS
  <2>1. p[k] \in Node
    BY PathFacts
  <2>2. PICK i \in InUse(rt'[p[k]]) : rt'[p[k]][i] = UpEntry(p, k)
    BY <2>1, <1>7
  <2> QED  BY <2>1, <2>2 DEF UpEntry, Entry, HasRoute, ToRoot, InUse
<1>11. Types' /\ OldIsDead' /\ PerrsNameTheDead' /\ Keyed'
  <2>1. rt' \in [Node -> TableSet]
    BY <1>6, <1>7
  <2>2. Types' /\ PerrsNameTheDead'
    BY <1>1, <2>1 DEF IInv, Types, PerrsNameTheDead, NamesDead
  <2>3. OldIsDead'
    <3> SUFFICES ASSUME NEW n \in Node, NEW i \in InUse(rt'[n]), rt'[n][i].hello = "old"
                 PROVE  rt'[n][i].dest \in dead
      BY DEF OldIsDead
    <3>1. i \in InUse(rt[n])
      BY <1>7
    <3>2. rt'[n][i] = rt[n][i]
      BY <1>7, <3>1
    <3> QED  BY <3>1, <3>2 DEF IInv, OldIsDead
  <2> QED  BY <2>2, <2>3, <1>7 DEF Keyed
<1>12. Fresh'
  <2> SUFFICES ASSUME NEW n \in Node, NEW i \in TableSlots, ToRoot(rt'[n], i)
               PROVE  HasRoute(rt'[rt'[n][i].source], rt'[n][i].source)
    BY UplinkFound DEF Fresh, Uplink
  <2>1. CASE Stays(n, i)
    <3>1. rt[n][i].source \in Node
      BY <2>1, <1>3, InUseType DEF ToRoot, EntrySet
    <3>2. HasRoute(rt[rt[n][i].source], rt[n][i].source)
      BY <2>1, UplinkFound DEF IInv, Fresh, Uplink
    <3> QED  BY <2>1, <3>1, <3>2, <1>9
  <2>2. CASE Comes(n, i)
    <3>1. 1 \in 1 .. Len(p)
      BY <1>2
    <3> QED  BY <2>2, <3>1, <1>10
  <2> QED  BY <2>1, <2>2, <1>8
<1>13. Linked'
  <2> SUFFICES ASSUME NEW n \in Node, NEW i \in TableSlots, ToRoot(rt'[n], i)
               PROVE  <<rt'[n][i].next, n>> \in Link
    BY DEF Linked
  <2>1. CASE Stays(n, i)
    BY <2>1 DEF IInv, Linked
  <2>2. CASE Comes(n, i)
    <3>1. PICK k \in 1 .. Len(p) : p[k] = n /\ rt'[n][i] = UpEntry(p, k)
      BY <2>2
    <3> QED  BY <3>1, PathFacts DEF UpEntry, Entry
  <2> QED  BY <2>1, <2>2, <1>8
<1>14. Back' /\ Chained'
  <2> SUFFICES ASSUME NEW n \in Node, NEW k \in Node, NEW i \in TableSlots,
                      ToRoot(rt'[n], i), rt'[n][i].next = k, k # Root
               PROVE  /\ \A j \in TableSlots :
                            ToRoot(rt'[k], j) /\ rt'[k][j].source = rt'[n][i].source
                            => rt'[k][j].prev \in {n, NoAddr}
                      /\ \/ HasRoute(rt'[k], rt'[n][i].source)
                         \/ k \in silent' \/ Coming(k, n)'
    BY <1>1, UplinkFound DEF Back, Chained, Uplink
  <2>1. CASE Stays(n, i) /\ rt[n][i].source # s
    <3>1. \A j \in TableSlots :
             ToRoot(rt'[k], j) /\ rt'[k][j].source = rt'[n][i].source
             => Stays(k, j)
      BY <2>1, <1>8
    <3>2. \A j \in TableSlots :
             ToRoot(rt'[k], j) /\ rt'[k][j].source = rt'[n][i].source
             => rt'[k][j].prev \in {n, NoAddr}
      BY <2>1, <3>1 DEF IInv, Back
    <3>3. rt[n][i].source \in Live
      BY <2>1, <1>1, <1>3, InUseType DEF ToRoot, EntrySet
    <3>4. Uplink(k, rt[n][i].source) # NoSlot \/ k \in silent \/ Coming(k, n)
      BY <2>1, <3>3, <1>1 DEF IInv, Chained
    <3>5. Coming(k, n) => Coming(k, n)'
      BY DEF Coming
    <3> QED  BY <2>1, <3>2, <3>4, <3>5, <1>9, UplinkFound DEF Uplink
  <2>2. CASE Comes(n, i)
    <3>1. PICK a \in 1 .. Len(p) : p[a] = n /\ rt'[n][i] = UpEntry(p, a)
      BY <2>2
    <3>2. k = Hop(p, a)
      BY <3>1 DEF UpEntry, Entry
    <3>3. a \in Nat /\ a + 1 \in 1 .. Len(p) /\ k = p[a + 1]
      BY <3>2, <1>2 DEF Hop
    <3>4. HasRoute(rt'[k], rt'[n][i].source)
      BY <2>2, <3>3, <1>10
    <3>5. ASSUME NEW j \in TableSlots, ToRoot(rt'[k], j), rt'[k][j].source = rt'[n][i].source
          PROVE  rt'[k][j].prev = n
      <4>1. Comes(k, j)
        BY <2>2, <3>5, <1>8
      <4>2. PICK b \in 1 .. Len(p) : p[b] = k /\ rt'[k][j] = UpEntry(p, b)
        BY <4>1
      <4>3. b = a + 1
        BY <3>3, <4>2, PathFacts
      <4>4. b > 1 /\ b - 1 = a
        BY <3>1, <3>3, <4>3
      <4> QED  BY <3>1, <4>2, <4>4 DEF UpEntry, Entry
    <3> QED  BY <3>4, <3>5
  <2> QED  BY <2>1, <2>2, <1>8
<1>15. Noticed'
  BY <1>1 DEF Noticed
<1> QED  BY <1>1, <1>11, <1>12, <1>13, <1>14, <1>15 DEF IInv

\* Every event of the set-up keeps the invariant.
LEMMA StepConverge ==
    ASSUME IInv, Converge
    PROVE  IInv'
<1>1. /\ todo # << >> /\ todo' = Tail(todo)
      /\ UNCHANGED <<tq, dest_mac, air, dead, reported, silent, unheard>>
  BY DEF Converge
<1>2. CASE \E m, n \in Node : /\ Head(todo) = Hello(m, n)
                              /\ rt' = [rt EXCEPT ![n] = Hello_process(@, n, m)]
  BY <1>1, <1>2, StepConvergeHello
<1>3. CASE rt' = rt
  <2>1. todo' \in Seq(Event) /\ dead = {} /\ SetUpFirst' /\ Live' = Node /\ Live = Node
    BY <1>1, TodoShrinks
  <2>2. Types' /\ OldIsDead' /\ PerrsNameTheDead'
    BY <1>1, <1>3, <2>1 DEF IInv, Types, OldIsDead, PerrsNameTheDead, NamesDead
  <2>3. Keyed' /\ Fresh' /\ Linked' /\ Back'
    BY <1>1, <1>3 DEF IInv, Keyed, Fresh, Linked, Back, Uplink
  <2>4. Chained' /\ Noticed'
    BY <1>1, <1>3, <2>1 DEF IInv, Chained, Noticed, Uplink, Coming
  <2> QED  BY <2>1, <2>2, <2>3, <2>4 DEF IInv
<1>4. CASE \E p \in Path : /\ Asks(p[1])
                           /\ rt' = [n \in Node |-> StoreRoute(rt[n], n, p)]
  BY <1>1, <1>4, StepConvergePreq
<1> QED  BY <1>2, <1>3, <1>4 DEF Converge

-----------------------------------------------------------------------------
\* The theorems.

\* The mesh starts with empty tables.
LEMMA InitInv ==
    ASSUME Init
    PROVE  IInv
<1>1. /\ EmptyTable \in TableSet /\ InUse(EmptyTable) = {}
  BY DEF EmptyTable, TableSet, InUse, FreeEntry
<1>2. /\ \A n \in Node : rt[n] = EmptyTable /\ tq[n] = << >>
      /\ rt = [n \in Node |-> EmptyTable] /\ tq = [n \in Node |-> << >>]
      /\ air = {} /\ dead = {} /\ todo \in Setup
  BY DEF Init
<1>3. \A n \in Node, i \in TableSlots : ~ToRoot(rt[n], i)
  BY <1>1, <1>2 DEF ToRoot
<1>4. Types
  <2>1. todo \in Seq(Event)
    BY <1>2, SetupAssumption
  <2> QED  BY <1>1, <1>2, <2>1 DEF Types
<1>5. SetUpFirst /\ OldIsDead /\ PerrsNameTheDead
  BY <1>1, <1>2 DEF SetUpFirst, OldIsDead, PerrsNameTheDead
<1>6. Keyed
  BY <1>1, <1>2 DEF Keyed, Distinct
<1>7. Fresh /\ Linked /\ Back
  BY <1>3 DEF Fresh, Linked, Back
<1>8. Chained /\ Noticed
  BY <1>3 DEF Chained, Noticed, Live
<1> QED  BY <1>4, <1>5, <1>6, <1>7, <1>8 DEF IInv

\* Every step keeps the invariant.
LEMMA StepInv ==
    ASSUME IInv, [Next]_vars
    PROVE  IInv'
<1>1. CASE Converge
  BY <1>1, StepConverge
<1>2. CASE \E n \in Node : Die(n)
  BY <1>2, StepDie
<1>3. CASE \E n \in Node : Transmit(n)
  BY <1>3, StepTransmit
<1>4. CASE \E n \in Node, i \in TableSlots : Hello_timeout_process(n, i)
  BY <1>4, StepScan
<1>5. CASE \E m, n \in Node : HelloMissed(n, m)
  BY <1>5, StepHelloMissed
<1>6. CASE \E m, n \in Node : HelloHeard(m, n)
  BY <1>6, StepHelloHeard
<1>7. CASE \E d \in air : Perr_process(d.to, d)
  BY <1>7, StepPerr
<1>8. CASE \E d \in air : Perr_unicast_process(d.to, d)
  BY <1>8, StepPerrUni
<1>9. CASE UNCHANGED vars
  <2>1. /\ rt' = rt /\ tq' = tq /\ air' = air /\ dead' = dead /\ todo' = todo
        /\ silent' = silent /\ unheard' = unheard
    BY <1>9 DEF vars
  <2> QED  BY <2>1 DEF IInv, Types, SetUpFirst, OldIsDead, PerrsNameTheDead, NamesDead,
                       Keyed, Fresh, Linked, Back, Chained, Noticed, Uplink, Coming, Live
<1> QED  BY <1>1, <1>2, <1>3, <1>4, <1>5, <1>6, <1>7, <1>8, <1>9 DEF Next, Receive

\* Every behaviour keeps the invariant.
LEMMA Invariant == Spec => []IInv
<1>1. IInv /\ [Next]_vars => IInv'
  BY StepInv
<1> QED  BY InitInv, <1>1, PTL DEF Spec

\* The variables the invariant does not mention have their types, too.
RestTyped ==
    /\ dest_mac \in [Node -> Node \cup {Garbage, NoAddr}]
    /\ reported \subseteq Node \X Node
    /\ silent \subseteq Node
    /\ unheard \subseteq Node \X Node

TypeOK == Types /\ RestTyped

\* What the entries of a table in use count is a node's.
LEMMA ForgottenNodes ==
    ASSUME Types, NEW t, NEW u, NEW z
    PROVE  Forgotten(t, u, z) \subseteq Node
BY DEF Forgotten, Types

\* Every step keeps the types of the rest.
LEMMA StepRest ==
    ASSUME IInv, RestTyped, [Next]_vars
    PROVE  RestTyped'
<1> USE DEF RestTyped
<1>t. /\ rt \in [Node -> TableSet] /\ dead \subseteq Node
      /\ air \subseteq [from : Node, to : Node, frame : FrameSet]
      /\ \A n \in Node : rt[n] \in TableSet
  BY DEF IInv, Types
<1>1. CASE Converge
  BY <1>1 DEF Converge
<1>2. ASSUME NEW n \in Node, Die(n) PROVE RestTyped'
  BY <1>2 DEF Die
<1>3. ASSUME NEW n \in Node, Transmit(n) PROVE RestTyped'
  BY <1>3 DEF Transmit
<1>4. ASSUME NEW n \in Node, NEW i \in TableSlots, Hello_timeout_process(n, i)
      PROVE  RestTyped'
  <2>1. rt[n][i] \in EntrySet
    BY <1>t, <1>4, InUseType DEF Hello_timeout_process
  <2>2. rt[n][i].dest \in Node
    BY <2>1 DEF EntrySet
  <2>3. reported' \subseteq Node \X Node
    BY <1>4, <2>2 DEF Hello_timeout_process
  <2>4. dest_mac' \in [Node -> Node \cup {Garbage, NoAddr}]
    BY <1>4 DEF Hello_timeout_process
  <2>5. PICK u, z : unheard' = unheard \cup ({n} \X Forgotten(rt[n], u, z)) /\ silent' = silent
    BY <1>4 DEF Hello_timeout_process
  <2>6. unheard' \subseteq Node \X Node
    BY <2>5, ForgottenNodes DEF IInv
  <2> QED  BY <2>3, <2>4, <2>5, <2>6
<1>5. ASSUME NEW m \in Node, NEW n \in Node, HelloMissed(n, m) \/ HelloHeard(m, n)
      PROVE  RestTyped'
  BY <1>5 DEF HelloMissed, HelloHeard
<1>6. ASSUME NEW d \in air, Perr_process(d.to, d) PROVE RestTyped'
  <2>1. d.to \in Node
    BY <1>t
  <2>2. PICK u, z : unheard' = unheard \cup ({d.to} \X Forgotten(rt[d.to], u, z))
    BY <1>6 DEF Perr_process
  <2>3. silent' \subseteq Node /\ UNCHANGED <<dest_mac, reported>>
    BY <1>6, <2>1 DEF Perr_process
  <2>4. unheard' \subseteq Node \X Node
    BY <2>1, <2>2, ForgottenNodes DEF IInv
  <2> QED  BY <2>3, <2>4
<1>7. ASSUME NEW d \in air, Perr_unicast_process(d.to, d) PROVE RestTyped'
  <2>1. d.to \in Node /\ d.frame \in FrameSet /\ d.frame.type = "PERR_UNI"
    BY <1>t, <1>7 DEF Perr_unicast_process
  <2>2. d.frame.timeout \in Node /\ d.frame.orig \in Node
    BY <2>1, FrameTypes DEF PerrUniSet
  <2>3. Uplink(d.to, d.frame.orig) # NoSlot =>
           rt[d.to][Uplink(d.to, d.frame.orig)].next \in Node
    BY <2>1, UplinkIsRoute, NextIsNode DEF Uplink, IInv
  <2>4. dest_mac' \in [Node -> Node \cup {Garbage, NoAddr}]
    BY <1>7, <2>1, <2>3 DEF Perr_unicast_process
  <2>5. reported' \subseteq Node \X Node /\ UNCHANGED <<silent, unheard>>
    BY <1>7, <2>2 DEF Perr_unicast_process
  <2> QED  BY <2>4, <2>5
<1>8. CASE UNCHANGED vars
  BY <1>8 DEF vars
<1> QED  BY <1>1, <1>2, <1>3, <1>4, <1>5, <1>6, <1>7, <1>8 DEF Next, Receive

\* Every behaviour keeps the types: tables hold entries, queues and the air hold
\* frames as the handlers of aodv.c make them, and no lookup's NULL is followed.
THEOREM TypeCorrect == Spec => []TypeOK
<1>1. Init => RestTyped
  BY DEF Init, RestTyped
<1>2. IInv /\ RestTyped /\ [Next]_vars => RestTyped'
  BY StepRest
<1>3. IInv /\ RestTyped => TypeOK
  BY DEF TypeOK, IInv
<1> QED  BY <1>1, <1>2, <1>3, Invariant, PTL DEF Spec

\* A next hop towards the root is a node that this one can hear, never the
\* address Prep_process read past the end of a frame (aodv.c:2203); and the next
\* hop's own route of that source names this node, or nobody, as the one before.
THEOREM NextHopsHeard == Spec => [](Linked /\ Back)
<1>1. IInv => Linked /\ Back
  BY DEF IInv
<1> QED  BY <1>1, Invariant, PTL

\* What the invariant says of a quiet mesh.
LEMMA QuietChains ==
    ASSUME IInv
    PROVE  ChainAfterRepair
<1> SUFFICES ASSUME Quiet, NEW n \in Live, NEW i \in InUse(rt[n]),
                    rt[n][i].dest = Root, rt[n][i].source \in Live,
                    <<n, rt[n][i].next>> \notin unheard
             PROVE  /\ rt[n][i].next \in Live
                    /\ rt[n][i].next # Root =>
                          \/ Uplink(rt[n][i].next, rt[n][i].source) # NoSlot
                          \/ rt[n][i].next \in silent
  BY DEF ChainAfterRepair
<1> DEFINE k == rt[n][i].next
<1>1. n \in Node /\ i \in TableSlots /\ ToRoot(rt[n], i)
  BY DEF Live, ToRoot, InUse
<1>2. k \in Node
  BY <1>1, NextIsNode DEF IInv
<1>3. k \notin dead
  <2> SUFFICES ASSUME k \in dead PROVE FALSE
    OBVIOUS
  <2>1. Counts(rt[n], k)
    BY <1>1 DEF IInv, Noticed
  <2> QED  BY <2>1 DEF Counts, Quiet
<1>4. k \in Live
  BY <1>2, <1>3 DEF Live
<1>5. ~Coming(k, n)
  <2>1. air = {} /\ tq[k] = << >>
    BY <1>4 DEF Quiet
  <2> QED  BY <2>1 DEF Coming
<1> QED  BY <1>1, <1>4, <1>5 DEF IInv, Chained

\* Once the mesh is quiet again, what a live node keeps of a live source's
\* route to the root leads to a live node that keeps a route of that source too,
\* but for silent nodes and dead ones whose Hellos were not counted: for every
\* topology, every order of set-up and every number of deaths (Perr_process and
\* Hello_timeout_process, aodv.c:1494-1599 and 2240-2390).
THEOREM ChainHolds == Spec => []ChainAfterRepair
BY Invariant, QuietChains, PTL

=============================================================================
