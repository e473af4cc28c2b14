------------------------- MODULE RouteDiscoveryProofs -------------------------
(* Proofs about route discovery, for every mesh, topology and metric.  First  *)
(* what the lookups and updates of a route table return, for every size.     *)
EXTENDS RouteDiscovery, FiniteSetTheorems, WellFoundedInduction, TLAPS

\* A set of slots that is not empty has a first one.
LEMMA FirstExists ==
    ASSUME NEW S \in SUBSET TableSlots, S # {}
    PROVE  \E i \in S : \A j \in S : i <= j
<1> DEFINE R == {p \in Nat \X Nat : p[1] < p[2]}
<1>1. IsWellFoundedOn(R, Nat)
  BY NatLessThanWellFounded DEF OpToRel
<1>2. S \subseteq Nat
  BY TableAssumption DEF TableSlots
<1>3. PICK i \in S : \A j \in S : ~ (<<j, i>> \in R)
  <2> HIDE DEF R
  <2> QED  BY <1>1, <1>2, WFMin
<1>4. \A j \in S : ~(j < i)
  BY <1>2, <1>3
<1> QED  BY <1>2, <1>4

\* The mirrored order: and a last one.
LEMMA LastExists ==
    ASSUME NEW S \in SUBSET TableSlots, S # {}
    PROVE  \E i \in S : \A j \in S : j <= i
<1> DEFINE T == {RT_SIZE - 1 - i : i \in S}
<1>1. T \in SUBSET TableSlots /\ T # {}
  <2>1. \A i \in S : i \in 0 .. RT_SIZE - 1
    BY DEF TableSlots
  <2>2. \A i \in S : RT_SIZE - 1 - i \in 0 .. RT_SIZE - 1
    BY <2>1, TableAssumption
  <2>3. T \subseteq TableSlots
    BY <2>2 DEF TableSlots
  <2> QED  BY <2>3
<1>2. PICK k \in T : \A l \in T : k <= l
  <2> HIDE DEF T
  <2> QED  BY <1>1, FirstExists
<1>3. PICK i \in S : k = RT_SIZE - 1 - i
  BY <1>2
<1>4. \A j \in S : RT_SIZE - 1 - i <= RT_SIZE - 1 - j
  BY <1>2, <1>3
<1> QED  BY <1>3, <1>4, TableAssumption DEF TableSlots

\* FirstSlot and LastSlot pick members, and NoSlot is never a slot.
LEMMA FirstLast ==
    ASSUME NEW S \in SUBSET TableSlots
    PROVE  /\ S = {} => FirstSlot(S) = NoSlot /\ LastSlot(S) = NoSlot
           /\ S # {} => FirstSlot(S) \in S /\ LastSlot(S) \in S
           /\ NoSlot \notin TableSlots
<1>1. S # {} => FirstSlot(S) \in S
  BY FirstExists DEF FirstSlot
<1>2. S # {} => LastSlot(S) \in S
  BY LastExists DEF LastSlot
<1>3. NoSlot \notin TableSlots
  BY TableAssumption DEF NoSlot, TableSlots
<1> QED  BY <1>1, <1>2, <1>3 DEF FirstSlot, LastSlot

\* rt_table_find: a matching entry, or NULL and then there is none.
LEMMA FindSpec ==
    ASSUME NEW t, NEW dest
    PROVE  LET i == rt_table_find(t, dest) IN
           /\ i = NoSlot => \A j \in InUse(t) : t[j].dest # dest
           /\ i # NoSlot => i \in InUse(t) /\ t[i].dest = dest
<1> DEFINE S == {j \in InUse(t) : t[j].dest = dest}
<1>1. S \in SUBSET TableSlots
  BY DEF InUse
<1>2. /\ S = {} => FirstSlot(S) = NoSlot
      /\ S # {} => FirstSlot(S) \in S
      /\ NoSlot \notin TableSlots
  <2> HIDE DEF S
  <2> QED  BY <1>1, FirstLast
<1> QED  BY <1>1, <1>2 DEF rt_table_find

\* rt_table_find with source_consider set.
LEMMA FindFromSpec ==
    ASSUME NEW t, NEW dest, NEW source
    PROVE  LET i == rt_table_find_from(t, dest, source) IN
           /\ i = NoSlot =>
                 \A j \in InUse(t) : ~(t[j].dest = dest /\ t[j].source = source)
           /\ i # NoSlot => i \in InUse(t) /\ t[i].dest = dest /\ t[i].source = source
<1> DEFINE S == {j \in InUse(t) : t[j].dest = dest /\ t[j].source = source}
<1>1. S \in SUBSET TableSlots
  BY DEF InUse
<1>2. /\ S = {} => FirstSlot(S) = NoSlot
      /\ S # {} => FirstSlot(S) \in S
      /\ NoSlot \notin TableSlots
  <2> HIDE DEF S
  <2> QED  BY <1>1, FirstLast
<1> QED  BY <1>1, <1>2 DEF rt_table_find_from

\* rt_table_get_index finds an entry whenever rt_table_find does.
LEMMA GetIndexSpec ==
    ASSUME NEW t, NEW dest
    PROVE  LET i == rt_table_get_index(t, dest) IN
           /\ i = NoSlot => rt_table_find(t, dest) = NoSlot
           /\ i # NoSlot => i \in InUse(t) /\ t[i].dest = dest
<1> DEFINE S == {j \in InUse(t) : t[j].dest = dest}
<1>1. S \in SUBSET TableSlots
  BY DEF InUse
<1>2. /\ S = {} => FirstSlot(S) = NoSlot /\ LastSlot(S) = NoSlot
      /\ S # {} => LastSlot(S) \in S
      /\ NoSlot \notin TableSlots
  <2> HIDE DEF S
  <2> QED  BY <1>1, FirstLast
<1> QED  BY <1>1, <1>2 DEF rt_table_get_index, rt_table_find

\* The slot an insertion fills was free.
LEMMA FreeSlotSpec ==
    ASSUME NEW t
    PROVE  FreeSlot(t) # NoSlot => FreeSlot(t) \in TableSlots /\ FreeSlot(t) \notin InUse(t)
<1> DEFINE S == TableSlots \ InUse(t)
<1>1. /\ S = {} => FirstSlot(S) = NoSlot
      /\ S # {} => FirstSlot(S) \in S
  <2>1. S \in SUBSET TableSlots
    OBVIOUS
  <2> HIDE DEF S
  <2> QED  BY <2>1, FirstLast
<1> QED  BY <1>1 DEF FreeSlot
-----------------------------------------------------------------------------
\* What the handlers build has its type.

USE DEF NoAddr

LEMMA EntryType ==
    ASSUME NEW dest \in Node, NEW next \in Address, NEW source \in Node,
           NEW prev \in Node \cup {NoAddr}, NEW hcnt \in Nat, NEW alm \in Nat,
           NEW seqno \in Nat
    PROVE  Entry(dest, next, source, prev, hcnt, alm, seqno) \in Entries
BY DEF Entry, Entries

LEMMA InUseType ==
    ASSUME NEW t \in Tables, NEW i \in InUse(t)
    PROVE  i \in TableSlots /\ t[i] \in Entries
BY DEF Tables, InUse, FreeEntry

LEMMA InsertType ==
    ASSUME NEW t \in Tables, NEW e \in Entries
    PROVE  /\ rt_table_insert(t, e) \in Tables
           /\ FreeSlot(t) # NoSlot =>
                 /\ InUse(rt_table_insert(t, e)) = InUse(t) \cup {FreeSlot(t)}
                 /\ rt_table_insert(t, e)[FreeSlot(t)] = e
                 /\ \A j \in InUse(t) : rt_table_insert(t, e)[j] = t[j]
           /\ FreeSlot(t) = NoSlot => rt_table_insert(t, e) = t
<1>1. FreeSlot(t) # NoSlot => FreeSlot(t) \in TableSlots /\ FreeSlot(t) \notin InUse(t)
  BY FreeSlotSpec
<1>2. e.state = 1
  BY DEF Entries
<1> QED  BY <1>1, <1>2 DEF rt_table_insert, Tables, InUse

LEMMA UpdateType ==
    ASSUME NEW t \in Tables, NEW i \in InUse(t), NEW next \in Address,
           NEW hcnt \in Nat, NEW alm \in Nat, NEW seqno \in Nat
    PROVE  LET u == rt_table_update(t, i, next, hcnt, alm, seqno) IN
           /\ u \in Tables
           /\ InUse(u) = InUse(t)
           /\ u[i].next = next /\ u[i].hcnt = hcnt /\ u[i].alm = alm /\ u[i].seqno = seqno
           /\ \A j \in InUse(t) : u[j].dest = t[j].dest /\ u[j].source = t[j].source
           /\ \A j \in TableSlots : j # i => u[j] = t[j]
<1>1. t[i] \in Entries /\ i \in TableSlots
  BY InUseType
<1> DEFINE e == [t[i] EXCEPT !.next = next, !.hcnt = hcnt, !.alm = alm, !.seqno = seqno]
<1>2. /\ e \in Entries /\ e.dest = t[i].dest /\ e.source = t[i].source /\ e.state = 1
      /\ e.next = next /\ e.hcnt = hcnt /\ e.alm = alm /\ e.seqno = seqno
  BY <1>1 DEF Entries
<1>3. rt_table_update(t, i, next, hcnt, alm, seqno) = [t EXCEPT ![i] = e]
  BY DEF rt_table_update
<1> HIDE DEF e
<1> QED  BY <1>1, <1>2, <1>3 DEF Tables, InUse

\* alm_calculator changes the metric of one-hop entries and nothing else.
OnlyAlm(t, u) ==
    /\ u \in Tables /\ InUse(u) = InUse(t)
    /\ \A i \in InUse(t) :
          /\ u[i].state = t[i].state /\ u[i].dest = t[i].dest /\ u[i].next = t[i].next
          /\ u[i].source = t[i].source /\ u[i].hcnt = t[i].hcnt
          /\ u[i].seqno = t[i].seqno
          /\ t[i].hcnt # 1 => u[i] = t[i]

LEMMA RemeasuredType ==
    ASSUME NEW n \in Node, rt[n] \in Tables, NEW S \in SUBSET Measured(n),
           NEW alm \in [S -> Alm]
    PROVE  OnlyAlm(rt[n], Remeasured(rt[n], alm))
<1> DEFINE t == rt[n]
           u == Remeasured(t, alm)
           e(i) == [t[i] EXCEPT !.alm = alm[i]]
<1>1. \A i \in S : i \in InUse(t) /\ t[i].hcnt = 1 /\ alm[i] \in Nat
  BY MetricAssumption DEF Measured
<1>2. \A i \in InUse(t) : i \in TableSlots /\ t[i] \in Entries
  BY InUseType
<1>3. ASSUME NEW i \in S
      PROVE  /\ e(i) \in Entries /\ e(i).dest = t[i].dest /\ e(i).source = t[i].source
             /\ e(i).state = 1 /\ t[i].state = 1 /\ e(i).next = t[i].next
             /\ e(i).hcnt = t[i].hcnt /\ e(i).seqno = t[i].seqno
  BY <1>1, <1>2, <1>3 DEF Entries
<1>4. \A i \in TableSlots : u[i] = IF i \in S THEN e(i) ELSE t[i]
  BY DEF Remeasured
<1>5. u \in Tables
  <2>1. \A i \in TableSlots : u[i] \in {FreeEntry} \cup Entries
    BY <1>3, <1>4 DEF Tables
  <2>2. u = [i \in TableSlots |-> u[i]]
    BY DEF Remeasured
  <2> HIDE DEF u
  <2> QED BY <2>1, <2>2 DEF Tables
<1> HIDE DEF u, e
<1>6. InUse(u) = InUse(t)
  BY <1>1, <1>3, <1>4 DEF InUse
<1> QED BY <1>1, <1>2, <1>3, <1>4, <1>5, <1>6 DEF OnlyAlm, u

LEMMA AlmStep ==
    ASSUME TypeOK, NEW n \in Node, alm_calculator(n)
    PROVE  /\ \E t : OnlyAlm(rt[n], t) /\ rt' = [rt EXCEPT ![n] = t]
           /\ UNCHANGED <<rann_order, tmp_preq, armed, tq, dest_mac, air, crashed, astray>>
<1>1. PICK S \in SUBSET Measured(n) :
         \E alm \in [S -> Alm] : rt' = [rt EXCEPT ![n] = Remeasured(@, alm)]
  BY DEF alm_calculator
<1>2. PICK alm \in [S -> Alm] : rt' = [rt EXCEPT ![n] = Remeasured(@, alm)]
  BY <1>1
<1>3. OnlyAlm(rt[n], Remeasured(rt[n], alm))
  BY RemeasuredType DEF TypeOK
<1> QED BY <1>2, <1>3 DEF alm_calculator

LEMMA FrameTypes ==
    /\ \A f \in Frame : f.type = "RANN" => f \in RannFrame
    /\ \A f \in Frame : f.type = "PREQ" => f \in PreqFrame
    /\ \A f \in Frame : f.type = "PREP" => f \in PrepFrame
    /\ \A f \in Frame : f.type = "RANN_ACK" => f \in AckFrame
BY DEF Frame, RannFrame, PreqFrame, PrepFrame, AckFrame

LEMMA BuiltFrames ==
    /\ \A o \in Nat, k \in Nat \ {0} : Rann(o, k) \in Frame /\ Rann(o, k).type = "RANN"
    /\ \A p \in Seq(Node), k, a, s \in Nat :
          Preq(p, k, a, s) \in Frame /\ Preq(p, k, a, s) \in PreqFrame
    /\ \A m \in Node, x \in Address :
          /\ RannAck(m, x) \in Frame
          /\ RannAck(m, x).type = "RANN_ACK" /\ RannAck(m, x).next = x
BY DEF Frame, RannFrame, PreqFrame, PrepFrame, AckFrame, Rann, Preq, RannAck

LEMMA BuiltPrep ==
    ASSUME NEW m \in Node, NEW x \in Node, NEW e \in Seq(Node), NEW h \in Nat,
           NEW s \in Nat
    PROVE  /\ Prep(m, e, h, s, x) \in Frame /\ Prep(m, e, h, s, x).type = "PREP"
           /\ Prep(m, e, h, s, x).next = x /\ Prep(m, e, h, s, x).dest = m
           /\ Prep(m, e, h, s, x).ext = e
BY DEF Frame, PrepFrame, Prep

-----------------------------------------------------------------------------
\* What makes the paths inductive: a PREQ has spent one unit of its ttl per
\* node of its path, its last node is the one that sends it, and it is
\* received over a link.  No PREQ is the root's own, nor is a PREP for it; what
\* a PREP has left of its way leads over links to the originator.

PreqOK(p) ==
    /\ PathReal(p.path)
    /\ p.path[1] # Root
    /\ p.ttl >= 1
    /\ p.ttl + Len(p.path) = PREQ_TTL + 1

WayBack(ext, next, dest) ==
    LET w == Append(ext, next)
    IN  w[1] = dest /\ \A i \in 1 .. Len(ext) : <<w[i], w[i + 1]>> \in Link

SentBy(n, f) ==
    /\ f.type = "PREQ" => PreqOK(f) /\ f.path[Len(f.path)] = n
    /\ f.type = "PREP" => f.dest # Root /\ WayBack(f.ext, f.next, f.dest)

QueueOK(n, q) == q \in Seq(Frame) /\ \A i \in 1 .. Len(q) : SentBy(n, q[i])

QueuesOK == \A n \in Node : QueueOK(n, tq[n])

AirOK == \A d \in air : <<d.from, d.to>> \in Link /\ SentBy(d.from, d.frame)

ArmedOK == \A i \in armed : PreqOK(tmp_preq[i].preq)

IInv == TypeOK /\ QueuesOK /\ AirOK /\ ArmedOK

\* The positions the loop check looks at.
LEMMA Triangles == Triangle(1) = 1 /\ Triangle(2) = 2
BY DEF Triangle

\* A node that forwards a PREQ is not in its path: the first two positions are
\* checked, the last is the sender, and the ttl allows no fourth.
LEMMA ExtendPath ==
    ASSUME NEW path \in Seq(Node), NEW n \in Node, NEW len \in 1 .. 3, len = Len(path),
           PathReal(path), <<path[len], n>> \in Link, ~SeenBefore(n, path)
    PROVE  PathReal(Append(path, n))
<1> DEFINE q == Append(path, n)
<1>1. /\ Len(q) = len + 1 /\ q[len + 1] = n
      /\ \A i \in 1 .. len : q[i] = path[i]
  OBVIOUS
<1>2. \A i \in 1 .. len : path[i] # n
  <2>1. path[1] # n
    BY Triangles DEF SeenBefore
  <2>2. len >= 2 => path[2] # n
    BY Triangles DEF SeenBefore
  <2>3. path[len] # n
    BY LinkAssumption
  <2> QED  BY <2>1, <2>2, <2>3
<1>3. \A i, j \in 1 .. len : path[i] = path[j] => i = j
  BY DEF PathReal
<1>4. \A i \in 1 .. len - 1 : <<path[i], path[i + 1]>> \in Link
  BY DEF PathReal
<1> HIDE DEF q
<1>5. \A i, j \in 1 .. len + 1 : q[i] = q[j] => i = j
  BY <1>1, <1>2, <1>3
<1>6. \A i \in 1 .. len : <<q[i], q[i + 1]>> \in Link
  <2> SUFFICES ASSUME NEW i \in 1 .. len PROVE <<q[i], q[i + 1]>> \in Link
    OBVIOUS
  <2>1. CASE i = len
    BY <1>1, <2>1
  <2>2. CASE i \in 1 .. len - 1
    <3>1. q[i] = path[i] /\ q[i + 1] = path[i + 1]
      BY <1>1, <2>2
    <3> QED  BY <3>1, <1>4, <2>2
  <2> QED  BY <2>1, <2>2
<1>7. PathReal(q)
  BY <1>1, <1>5, <1>6 DEF PathReal
<1> QED  BY <1>7 DEF q

LEMMA ForwardedPathReal ==
    ASSUME NEW p \in PreqFrame, PreqOK(p), NEW n \in Node,
           <<p.path[Len(p.path)], n>> \in Link,
           ~SeenBefore(n, p.path), p.ttl - 1 > 0
    PROVE  PathReal(Append(p.path, n))
<1>1. p.path \in Seq(Node) /\ p.ttl \in Nat /\ Len(p.path) \in Nat
  BY DEF PreqFrame
<1>2. PathReal(p.path) /\ p.ttl + Len(p.path) = PREQ_TTL + 1
  BY DEF PreqOK
<1>3. Len(p.path) > 0
  BY <1>2 DEF PathReal
<1>4. Len(p.path) \in 1 .. 3
  <2>1. \A k, l \in Nat, t \in 1 .. 4 : k + l = t + 1 /\ k > 1 /\ l > 0 => l \in 1 .. 3
    OBVIOUS
  <2>2. p.ttl > 1
    BY <1>1
  <2> QED  BY <1>1, <1>2, <1>3, <2>1, <2>2, TtlAssumption
<1> QED  BY <1>1, <1>2, <1>4, ExtendPath

\* A way that is cut before its last node, which is queued for next: the whole
\* path of a PREQ, or what is left of a PREP's.
LEMMA SameWay ==
    ASSUME NEW path \in Seq(Node), NEW n \in Nat, n = Len(path), n > 0, NEW dest,
           path[1] = dest, \A i \in 1 .. n - 1 : <<path[i], path[i + 1]>> \in Link
    PROVE  WayBack(SubSeq(path, 1, n - 1), path[n], dest)
<1> DEFINE e == SubSeq(path, 1, n - 1)
           w == Append(e, path[n])
<1>1. e \in Seq(Node) /\ Len(e) = n - 1 /\ \A i \in 1 .. n - 1 : e[i] = path[i]
  OBVIOUS
<1> HIDE DEF e
<1>2. \A i \in 1 .. n : w[i] = path[i]
  BY <1>1
<1> HIDE DEF w
<1>3. w[1] = dest /\ \A i \in 1 .. Len(e) : <<w[i], w[i + 1]>> \in Link
  BY <1>1, <1>2
<1> QED BY <1>3 DEF WayBack, e, w

LEMMA FrontWay ==
    ASSUME NEW ext \in Seq(Node), NEW n \in Nat, n = Len(ext), n > 0, NEW next, NEW dest,
           WayBack(ext, next, dest)
    PROVE  /\ WayBack(SubSeq(ext, 1, n - 1), ext[n], dest)
           /\ ext[1] = dest /\ <<ext[n], next>> \in Link
<1> DEFINE w == Append(ext, next)
<1>1. w[n + 1] = next /\ \A i \in 1 .. n : w[i] = ext[i]
  OBVIOUS
<1>2. w[1] = dest /\ \A i \in 1 .. n : <<w[i], w[i + 1]>> \in Link
  BY DEF WayBack
<1> HIDE DEF w
<1>3. ext[1] = dest /\ \A i \in 1 .. n - 1 : <<ext[i], ext[i + 1]>> \in Link
  <2>1. \A i \in 1 .. n - 1 : i \in 1 .. n /\ i + 1 \in 1 .. n
    OBVIOUS
  <2> QED BY <1>1, <1>2, <2>1
<1>4. <<ext[n], next>> \in Link
  BY <1>1, <1>2
<1> QED BY <1>3, <1>4, SameWay

LEMMA AppendOK ==
    ASSUME NEW n \in Node, NEW q, QueueOK(n, q), NEW f \in Frame, SentBy(n, f)
    PROVE  QueueOK(n, Append(q, f))
<1>1. q \in Seq(Frame) /\ \A i \in 1 .. Len(q) : SentBy(n, q[i])
  BY DEF QueueOK
<1>2. ASSUME NEW i \in 1 .. Len(Append(q, f)) PROVE SentBy(n, Append(q, f)[i])
  <2>1. \/ i \in 1 .. Len(q) /\ Append(q, f)[i] = q[i]
        \/ Append(q, f)[i] = f
    BY <1>1
  <2> QED  BY <1>1, <2>1
<1> QED  BY <1>1, <1>2 DEF QueueOK

LEMMA TailOK ==
    ASSUME NEW n \in Node, NEW q, QueueOK(n, q), q # << >>
    PROVE  /\ QueueOK(n, Tail(q))
           /\ Head(q) \in Frame /\ SentBy(n, Head(q))
<1>1. q \in Seq(Frame) /\ Len(q) >= 1 /\ \A i \in 1 .. Len(q) : SentBy(n, q[i])
  BY DEF QueueOK
<1>2. ASSUME NEW i \in 1 .. Len(Tail(q)) PROVE SentBy(n, Tail(q)[i])
  <2>1. i + 1 \in 1 .. Len(q) /\ Tail(q)[i] = q[i + 1]
    BY <1>1
  <2> QED  BY <1>1, <2>1
<1>3. Tail(q) \in Seq(Frame) /\ Head(q) = q[1] /\ q[1] \in Frame /\ 1 \in 1 .. Len(q)
  BY <1>1
<1> QED  BY <1>1, <1>2, <1>3 DEF QueueOK

\* One queue changes for a good one: all stay typed and good.
LEMMA QueueChange ==
    ASSUME TypeOK, QueuesOK, NEW n \in Node, NEW q, QueueOK(n, q),
           tq' = [tq EXCEPT ![n] = q]
    PROVE  tq' \in [Node -> Seq(Frame)] /\ QueuesOK'
<1>1. tq' \in [Node -> Seq(Frame)]
  BY DEF TypeOK, QueueOK
<1>2. \A m \in Node : QueueOK(m, tq'[m])
  BY DEF TypeOK, QueuesOK
<1>3. QueuesOK'
  BY <1>2 DEF QueuesOK, QueueOK, SentBy, WayBack, PreqOK, PathReal
<1> QED  BY <1>1, <1>3

\* What a handler may rely on in the frame it is given.
LEMMA ReceivedFrame ==
    ASSUME TypeOK, AirOK, NEW d \in air
    PROVE  /\ d.from \in Node /\ d.to \in Node /\ d.frame \in Frame
           /\ <<d.from, d.to>> \in Link /\ SentBy(d.from, d.frame)
BY DEF TypeOK, AirOK

LEMMA AirShrinks ==
    ASSUME TypeOK, AirOK, NEW d \in air, Received(d)
    PROVE  air' \in SUBSET [from : Node, to : Node, frame : Frame] /\ AirOK'
<1>1. air' \in SUBSET air
  BY DEF Received
<1>2. AirOK'
  BY <1>1 DEF AirOK, SentBy, WayBack, PreqOK, PathReal
<1> QED  BY <1>1, <1>2 DEF TypeOK

LEMMA SameAir ==
    ASSUME AirOK, UNCHANGED air
    PROVE  AirOK'
BY DEF AirOK, SentBy, WayBack, PreqOK, PathReal

LEMMA SameQueues ==
    ASSUME TypeOK, QueuesOK, UNCHANGED tq
    PROVE  tq' \in [Node -> Seq(Frame)] /\ QueuesOK'
<1>1. tq' \in [Node -> Seq(Frame)]
  BY DEF TypeOK
<1>2. \A n \in Node : QueueOK(n, tq'[n])
  BY DEF QueuesOK
<1>3. QueuesOK'
  BY <1>2 DEF QueuesOK, QueueOK, SentBy, WayBack, PreqOK, PathReal
<1> QED  BY <1>1, <1>3

LEMMA SamePending ==
    ASSUME TypeOK, ArmedOK, UNCHANGED <<tmp_preq, armed>>
    PROVE  /\ tmp_preq' \in [TableSlots -> [used : BOOLEAN, preq : PreqFrame]]
           /\ armed' \in SUBSET TableSlots
           /\ ArmedOK'
BY DEF TypeOK, ArmedOK, PreqOK, PathReal

\* A found route is an entry of the table.
LEMMA UplinkType ==
    ASSUME TypeOK, NEW n \in Node, NEW s, Uplink(n, s) # NoSlot
    PROVE  /\ Uplink(n, s) \in InUse(rt[n])
           /\ rt[n][Uplink(n, s)] \in Entries
<1>1. rt[n] \in Tables
  BY DEF TypeOK
<1> QED  BY <1>1, FindFromSpec, InUseType DEF Uplink

LEMMA LinkAlmType ==
    ASSUME TypeOK, NEW n \in Node, NEW m \in Node
    PROVE  LinkAlm(n, m) \in Nat
<1>1. rt[n] \in Tables
  BY DEF TypeOK
<1>2. rt_table_find(rt[n], m) # NoSlot =>
         rt[n][rt_table_find(rt[n], m)] \in Entries
  BY <1>1, FindSpec, InUseType
<1> QED  BY <1>2 DEF LinkAlm, Entries

\* Frames other than a PREQ and a PREP say nothing about paths.
LEMMA OtherFrames ==
    ASSUME NEW n, NEW f, f.type \notin {"PREQ", "PREP"}
    PROVE  SentBy(n, f)
BY DEF SentBy

-----------------------------------------------------------------------------
\* The handlers, one by one.

LEMMA StepHello ==
    ASSUME IInv, NEW m \in Node, NEW n \in Node, HelloHeard(m, n)
    PROVE  IInv'
<1>1. TypeOK /\ QueuesOK /\ AirOK /\ ArmedOK
  BY DEF IInv
<1>2. rt' = [rt EXCEPT ![n] = rt_table_insert(@, Entry(m, m, n, NoAddr, 1, 0, 0))]
  BY DEF HelloHeard
<1>3. Entry(m, m, n, NoAddr, 1, 0, 0) \in Entries
  BY EntryType DEF Address
<1>4. rt[n] \in Tables
  BY <1>1 DEF TypeOK
<1>5. rt_table_insert(rt[n], Entry(m, m, n, NoAddr, 1, 0, 0)) \in Tables
  BY <1>3, <1>4, InsertType
<1>6. rt' \in [Node -> Tables]
  BY <1>1, <1>2, <1>5 DEF TypeOK
<1>7. UNCHANGED <<rann_order, tmp_preq, armed, tq, dest_mac, air, crashed, astray>>
  BY DEF HelloHeard
<1> QED  BY <1>1, <1>6, <1>7, SameAir, SameQueues, SamePending DEF IInv, TypeOK

LEMMA StepAlm ==
    ASSUME IInv, NEW n \in Node, alm_calculator(n)
    PROVE  IInv'
<1>1. TypeOK /\ QueuesOK /\ AirOK /\ ArmedOK
  BY DEF IInv
<1>2. PICK t : OnlyAlm(rt[n], t) /\ rt' = [rt EXCEPT ![n] = t]
  BY <1>1, AlmStep
<1>3. UNCHANGED <<rann_order, tmp_preq, armed, tq, dest_mac, air, crashed, astray>>
  BY <1>1, AlmStep
<1>4. rt' \in [Node -> Tables]
  BY <1>1, <1>2 DEF TypeOK, OnlyAlm
<1> QED  BY <1>1, <1>3, <1>4, SameAir, SameQueues, SamePending DEF IInv, TypeOK

LEMMA StepTransmit ==
    ASSUME IInv, NEW n \in Node, Transmit(n)
    PROVE  IInv'
<1>1. TypeOK /\ QueuesOK /\ AirOK /\ ArmedOK
  BY DEF IInv
<1> DEFINE f == Head(tq[n])
<1>2. QueueOK(n, Tail(tq[n])) /\ f \in Frame /\ SentBy(n, f)
  BY <1>1, TailOK DEF Transmit, QueuesOK
<1>3. tq' \in [Node -> Seq(Frame)] /\ QueuesOK'
  BY <1>1, <1>2, QueueChange DEF Transmit
<1>4. PICK S \in SUBSET (Reach(n, f) \ crashed) :
         air' = {[from |-> n, to |-> m, frame |-> f] : m \in S}
  BY DEF Transmit
<1>5. \A m \in S : m \in Node /\ <<n, m>> \in Link
  BY <1>4 DEF Reach
<1> HIDE DEF f
<1>6. air' \in SUBSET [from : Node, to : Node, frame : Frame]
  <2> SUFFICES ASSUME NEW d \in air'
               PROVE  d \in [from : Node, to : Node, frame : Frame]
    OBVIOUS
  <2>1. PICK m \in S : d = [from |-> n, to |-> m, frame |-> f]
    BY <1>4
  <2> QED  BY <1>2, <1>5, <2>1
<1>7. \A d \in air' : <<d.from, d.to>> \in Link /\ SentBy(d.from, d.frame)
  BY <1>2, <1>4, <1>5
<1>8. AirOK'
  BY <1>7 DEF AirOK, SentBy, WayBack, PreqOK, PathReal
<1>9. UNCHANGED <<rt, rann_order, tmp_preq, armed, dest_mac, crashed, astray>>
  BY DEF Transmit
<1> QED  BY <1>1, <1>3, <1>6, <1>8, <1>9, SamePending DEF IInv, TypeOK

LEMMA StepRannSend ==
    ASSUME IInv, Rann_send
    PROVE  IInv'
<1>1. TypeOK /\ QueuesOK /\ AirOK /\ ArmedOK
  BY DEF IInv
<1>2. rann_order[Root] \in Nat /\ Root \in Node
  BY <1>1, NodeAssumption DEF TypeOK
<1> DEFINE f == Rann(rann_order[Root] + 1, RANN_TTL)
<1>3. f \in Frame /\ f.type = "RANN"
  <2>1. rann_order[Root] + 1 \in Nat /\ RANN_TTL \in Nat \ {0}
    BY <1>2, TtlAssumption
  <2> QED  BY <2>1, BuiltFrames
<1> HIDE DEF f
<1>4. QueueOK(Root, Append(tq[Root], f))
  BY <1>1, <1>2, <1>3, AppendOK, OtherFrames DEF QueuesOK
<1>5. tq' \in [Node -> Seq(Frame)] /\ QueuesOK'
  BY <1>1, <1>2, <1>4, QueueChange DEF Rann_send, addq, f
<1>6. rann_order' \in [Node -> Nat]
  BY <1>1, <1>2 DEF TypeOK, Rann_send
<1>7. UNCHANGED <<rt, tmp_preq, armed, dest_mac, air, crashed, astray>>
  BY DEF Rann_send
<1> QED  BY <1>1, <1>5, <1>6, <1>7, SameAir, SamePending DEF IInv, TypeOK

\* The last queue of frames a unicast handler leaves behind.
LEMMA UnicastQueued ==
    ASSUME TypeOK, QueuesOK, NEW n \in Node, NEW q, QueueOK(n, q), NEW f \in Frame,
           SentBy(n, f), NEW next \in Address,
           tq' = [tq EXCEPT ![n] = Append(q, f)],
           dest_mac' = [dest_mac EXCEPT ![n] = next]
    PROVE  /\ tq' \in [Node -> Seq(Frame)] /\ QueuesOK'
           /\ dest_mac' \in [Node -> Address \cup {NoAddr}]
<1>1. QueueOK(n, Append(q, f))
  BY AppendOK
<1>2. dest_mac' \in [Node -> Address \cup {NoAddr}]
  BY DEF TypeOK
<1> QED  BY <1>1, <1>2, QueueChange

LEMMA StepRannProcess ==
    ASSUME IInv, NEW d \in air, Rann_process(d.to, d)
    PROVE  IInv'
<1>1. TypeOK /\ QueuesOK /\ AirOK /\ ArmedOK
  BY DEF IInv
<1> DEFINE n == d.to
           f == d.frame
           q == Rann_forward(n, f)
<1>2. n \in Node /\ f \in RannFrame
  BY <1>1, ReceivedFrame, FrameTypes DEF Rann_process
<1>3. f.order \in Nat /\ (f.ttl - 1 > 0 => f.ttl - 1 \in Nat \ {0})
  BY <1>2 DEF RannFrame
<1>4. QueueOK(n, tq[n])
  BY <1>1, <1>2 DEF QueuesOK
<1>5. QueueOK(n, q)
  <2>1. CASE f.ttl - 1 > 0
    <3>1. Rann(f.order, f.ttl - 1) \in Frame /\ Rann(f.order, f.ttl - 1).type = "RANN"
      BY <1>3, <2>1, BuiltFrames
    <3> QED  BY <1>2, <1>4, <2>1, <3>1, AppendOK, OtherFrames DEF Rann_forward
  <2>2. CASE ~(f.ttl - 1 > 0)
    BY <1>4, <2>2 DEF Rann_forward
  <2> QED  BY <2>1, <2>2
<1>6. air' \in SUBSET [from : Node, to : Node, frame : Frame] /\ AirOK'
  BY <1>1, AirShrinks DEF Rann_process
<1>7. UNCHANGED <<rt, tmp_preq, armed, crashed, astray>>
  BY DEF Rann_process
<1>8. rann_order' \in [Node -> Nat]
  BY <1>1, <1>2, <1>3 DEF Rann_process, TypeOK
<1>9. /\ tq' \in [Node -> Seq(Frame)] /\ QueuesOK'
      /\ dest_mac' \in [Node -> Address \cup {NoAddr}]
  <2>1. CASE ~(f.order > rann_order[n] /\ n # Root)
    <3>1. UNCHANGED <<tq, dest_mac>>
      BY <2>1 DEF Rann_process
    <3> QED  BY <1>1, <3>1, SameQueues DEF TypeOK
  <2>2. CASE f.order > rann_order[n] /\ n # Root /\ Uplink(n, n) = NoSlot
    <3> DEFINE p == Preq(<<n>>, PREQ_TTL, 0, f.order)
    <3>1. tq' = [tq EXCEPT ![n] = Append(q, p)] /\ UNCHANGED dest_mac
      BY <2>2 DEF Rann_process
    <3>2. <<n>> \in Seq(Node) /\ PREQ_TTL \in Nat
      BY <1>2, TtlAssumption
    <3>3. p \in Frame
      BY <1>3, <3>2, BuiltFrames
    <3>4. PathReal(<<n>>)
      BY <1>2 DEF PathReal
    <3>5. SentBy(n, p)
      BY <1>2, <2>2, <3>4, TtlAssumption DEF SentBy, PreqOK, Preq
    <3> HIDE DEF p, q
    <3>6. QueueOK(n, Append(q, p))
      BY <1>2, <1>5, <3>3, <3>5, AppendOK
    <3> QED  BY <1>1, <1>2, <3>1, <3>6, QueueChange DEF TypeOK
  <2>3. CASE f.order > rann_order[n] /\ n # Root /\ Uplink(n, n) # NoSlot
    <3> DEFINE next == rt[n][Uplink(n, n)].next
    <3>1. Rann_ack_send(n, q)
      BY <2>3 DEF Rann_process
    <3>2. next \in Address
      BY <1>1, <1>2, <2>3, UplinkType DEF Entries
    <3>3. RannAck(n, next) \in Frame /\ SentBy(n, RannAck(n, next))
      BY <1>2, <3>2, BuiltFrames, OtherFrames
    <3> HIDE DEF q, next
    <3>4. CASE rt_table_find(rt[n], next) = NoSlot
      <4>1. tq' = [tq EXCEPT ![n] = q] /\ UNCHANGED dest_mac
        BY <3>1, <3>4 DEF Rann_ack_send, next
      <4> QED  BY <1>1, <1>2, <1>5, <4>1, QueueChange DEF TypeOK
    <3>5. CASE rt_table_find(rt[n], next) # NoSlot
      <4>1. /\ tq' = [tq EXCEPT ![n] = Append(q, RannAck(n, next))]
            /\ dest_mac' = [dest_mac EXCEPT ![n] = next]
        BY <3>1, <3>5 DEF Rann_ack_send, next
      <4> QED  BY <1>1, <1>2, <1>5, <3>2, <3>3, <4>1, UnicastQueued
    <3> QED  BY <3>4, <3>5
  <2> QED  BY <2>1, <2>2, <2>3
<1> QED  BY <1>1, <1>6, <1>7, <1>8, <1>9, SamePending DEF IInv, TypeOK

LEMMA StepRannAckProcess ==
    ASSUME IInv, NEW d \in air, Rann_ack_process(d.to, d)
    PROVE  IInv'
<1>1. TypeOK /\ QueuesOK /\ AirOK /\ ArmedOK
  BY DEF IInv
<1> DEFINE n == d.to
           f == d.frame
           e == Uplink(n, f.orig)
           next == rt[n][e].next
<1>2. n \in Node /\ f \in AckFrame
  BY <1>1, ReceivedFrame, FrameTypes DEF Rann_ack_process
<1>3. air' \in SUBSET [from : Node, to : Node, frame : Frame] /\ AirOK'
  BY <1>1, AirShrinks DEF Rann_ack_process
<1>4. UNCHANGED <<rt, rann_order, tmp_preq, armed, crashed, astray>>
  BY DEF Rann_ack_process
<1>5. /\ tq' \in [Node -> Seq(Frame)] /\ QueuesOK'
      /\ dest_mac' \in [Node -> Address \cup {NoAddr}]
  <2>1. CASE UNCHANGED <<tq, dest_mac>>
    BY <1>1, <2>1, SameQueues DEF TypeOK
  <2>2. CASE e # NoSlot /\ addqUnicast(n, RannAck(f.orig, next))
    <3>1. next \in Address /\ f.orig \in Node
      BY <1>1, <1>2, <2>2, UplinkType DEF Entries, AckFrame
    <3> HIDE DEF next
    <3>2. /\ RannAck(f.orig, next) \in Frame /\ SentBy(n, RannAck(f.orig, next))
          /\ RannAck(f.orig, next).next = next
      BY <3>1, BuiltFrames, OtherFrames
    <3>3. /\ tq' = [tq EXCEPT ![n] = Append(tq[n], RannAck(f.orig, next))]
          /\ dest_mac' = [dest_mac EXCEPT ![n] = next]
      BY <1>1, <1>2, <2>2, <3>2 DEF addqUnicast, addq, TypeOK
    <3>4. QueueOK(n, tq[n])
      BY <1>1, <1>2 DEF QueuesOK
    <3> QED  BY <1>1, <1>2, <3>1, <3>2, <3>3, <3>4, UnicastQueued
  <2> QED  BY <2>1, <2>2 DEF Rann_ack_process
<1> QED  BY <1>1, <1>3, <1>4, <1>5, SamePending DEF IInv, TypeOK

LEMMA StepPreqForward ==
    ASSUME IInv, NEW d \in air, Preq_forward(d.to, d)
    PROVE  IInv'
<1>1. TypeOK /\ QueuesOK /\ AirOK /\ ArmedOK
  BY DEF IInv
<1> DEFINE n == d.to
           p == d.frame
           alm == p.alm + LinkAlm(n, d.from)
           f == Preq(Append(p.path, n), p.ttl - 1, alm, p.seqno)
<1>2. /\ n \in Node /\ d.from \in Node /\ p \in PreqFrame /\ p.type = "PREQ"
      /\ <<d.from, n>> \in Link /\ SentBy(d.from, p)
  BY <1>1, ReceivedFrame, FrameTypes DEF Preq_forward
<1>3. PreqOK(p) /\ p.path[Len(p.path)] = d.from
  BY <1>2 DEF SentBy
<1>4. /\ p.path \in Seq(Node) /\ p.ttl \in Nat /\ p.seqno \in Nat
      /\ p.alm \in Nat
  BY <1>2 DEF PreqFrame
<1>5. alm \in Nat
  BY <1>1, <1>2, <1>4, LinkAlmType
<1>6. air' \in SUBSET [from : Node, to : Node, frame : Frame] /\ AirOK'
  BY <1>1, AirShrinks DEF Preq_forward
<1>7. UNCHANGED <<rt, rann_order, tmp_preq, armed, dest_mac, crashed, astray>>
  BY DEF Preq_forward
<1>8. tq' \in [Node -> Seq(Frame)] /\ QueuesOK'
  <2>1. CASE UNCHANGED tq
    BY <1>1, <2>1, SameQueues
  <2>2. CASE ~SeenBefore(n, p.path) /\ p.ttl - 1 > 0 /\ addq(n, f)
    <3> HIDE DEF n, p, alm
    <3>1. PathReal(Append(p.path, n))
      BY <1>2, <1>3, <2>2, ForwardedPathReal
    <3>2. Append(p.path, n) \in Seq(Node) /\ p.ttl - 1 \in Nat
      BY <1>2, <1>4, <2>2
    <3>3. /\ f \in Frame /\ f.path = Append(p.path, n) /\ f.ttl = p.ttl - 1
          /\ f.type = "PREQ"
      BY <1>4, <1>5, <3>2, BuiltFrames DEF Preq
    <3> HIDE DEF f
    <3>4. /\ Len(Append(p.path, n)) = Len(p.path) + 1
          /\ Append(p.path, n)[Len(p.path) + 1] = n
          /\ Append(p.path, n)[1] # Root
      BY <1>2, <1>3, <1>4 DEF PreqOK, PathReal
    <3>5. f.ttl >= 1 /\ f.ttl + Len(f.path) = PREQ_TTL + 1
      BY <1>3, <1>4, <2>2, <3>3, <3>4, TtlAssumption DEF PreqOK
    <3>6. SentBy(n, f)
      BY <3>1, <3>3, <3>4, <3>5 DEF SentBy, PreqOK
    <3>7. QueueOK(n, Append(tq[n], f))
      BY <1>1, <1>2, <3>3, <3>6, AppendOK DEF QueuesOK
    <3> QED  BY <1>1, <1>2, <2>2, <3>7, QueueChange DEF addq
  <2> QED  BY <2>1, <2>2 DEF Preq_forward
<1> QED  BY <1>1, <1>6, <1>7, <1>8, SamePending DEF IInv, TypeOK

LEMMA StepPreqProcess ==
    ASSUME IInv, NEW d \in air, d.to = Root, Preq_process(d)
    PROVE  IInv'
<1>1. TypeOK /\ QueuesOK /\ AirOK /\ ArmedOK
  BY DEF IInv
<1> DEFINE p == [d.frame EXCEPT !.alm = @ + LinkAlm(Root, d.from)]
           o == Orig(p)
           i == rt_table_find(rt[Root], o)
           x == IF i = NoSlot THEN FreeSlot(rt[Root]) ELSE rt_table_get_index(rt[Root], o)
           new == rt_table_insert(rt[Root],
                     Entry(o, d.from, Root, NoAddr, Len(p.path), p.alm, p.seqno))
           upd == rt_table_update(rt[Root], i, d.from, Len(p.path), p.alm, p.seqno)
<1>2. /\ Root \in Node /\ rt[Root] \in Tables
      /\ d.from \in Node /\ d.frame \in PreqFrame /\ d.frame.type = "PREQ"
      /\ SentBy(d.from, d.frame)
  BY <1>1, ReceivedFrame, FrameTypes, NodeAssumption DEF Preq_process, TypeOK
<1>3. LinkAlm(Root, d.from) \in Nat
  BY <1>1, <1>2, LinkAlmType
<1>4. /\ p \in PreqFrame /\ p.path = d.frame.path /\ p.ttl = d.frame.ttl
      /\ p.path \in Seq(Node) /\ p.alm \in Nat /\ p.seqno \in Nat
  BY <1>2, <1>3 DEF PreqFrame
<1>5. PreqOK(d.frame)
  BY <1>2 DEF SentBy
<1> HIDE DEF p
<1>6. PreqOK(p)
  BY <1>4, <1>5 DEF PreqOK
<1>7. Len(p.path) \in Nat /\ Len(p.path) > 0
  BY <1>4, <1>6 DEF PreqOK, PathReal
<1>8. o \in Node
  BY <1>4, <1>7 DEF Orig
<1>9. air' \in SUBSET [from : Node, to : Node, frame : Frame] /\ AirOK'
  BY <1>1, AirShrinks DEF Preq_process
<1>10. UNCHANGED <<rann_order, tq, dest_mac, crashed, astray>>
  BY DEF Preq_process
<1> HIDE DEF o
<1>11. new \in Tables
  BY <1>2, <1>4, <1>7, <1>8, EntryType, InsertType DEF Address
<1>12. i # NoSlot => upd \in Tables
  <2>1. i # NoSlot => i \in InUse(rt[Root])
    BY FindSpec
  <2> QED  BY <1>2, <1>4, <1>7, <2>1, UpdateType DEF Address
<1>13. x # NoSlot => x \in TableSlots
  <2>1. CASE i = NoSlot
    BY <2>1, FreeSlotSpec
  <2>2. CASE i # NoSlot
    BY <2>2, GetIndexSpec DEF InUse
  <2> QED  BY <2>1, <2>2
<1>14. i # NoSlot => x # NoSlot
  BY GetIndexSpec
<1> HIDE DEF i, x, new, upd
<1>15. \/ UNCHANGED <<rt, tmp_preq, armed>>
       \/ /\ x \in TableSlots
          /\ \E t \in Tables : rt' = [rt EXCEPT ![Root] = t]
          /\ tmp_preq' = [tmp_preq EXCEPT ![x] = [used |-> TRUE, preq |-> p]]
          /\ armed' \in {armed, armed \cup {x}}
  <2>1. \/ /\ i = NoSlot /\ x # NoSlot
           /\ rt' = [rt EXCEPT ![Root] = new]
           /\ tmp_preq' = [tmp_preq EXCEPT ![x] = [used |-> TRUE, preq |-> p]]
           /\ armed' = armed \cup {x}
        \/ /\ i # NoSlot
           /\ rt' = [rt EXCEPT ![Root] = upd]
           /\ tmp_preq' = [tmp_preq EXCEPT ![x] = [used |-> TRUE, preq |-> p]]
           /\ armed' \in {armed, armed \cup {x}}
        \/ UNCHANGED <<rt, tmp_preq, armed>>
    BY DEF Preq_process, p, o, i, x, new, upd
  <2> QED  BY <1>11, <1>12, <1>13, <1>14, <2>1
<1>16. CASE UNCHANGED <<rt, tmp_preq, armed>>
  BY <1>1, <1>9, <1>10, <1>16, SameQueues, SamePending DEF IInv, TypeOK
<1>17. CASE /\ x \in TableSlots
            /\ \E t \in Tables : rt' = [rt EXCEPT ![Root] = t]
            /\ tmp_preq' = [tmp_preq EXCEPT ![x] = [used |-> TRUE, preq |-> p]]
            /\ armed' \in {armed, armed \cup {x}}
  <2>1. rt' \in [Node -> Tables]
    BY <1>1, <1>2, <1>17 DEF TypeOK
  <2>2. tmp_preq' \in [TableSlots -> [used : BOOLEAN, preq : PreqFrame]]
    BY <1>1, <1>4, <1>17 DEF TypeOK
  <2>3. armed' \in SUBSET TableSlots
    BY <1>1, <1>17 DEF TypeOK
  <2>4. \A j \in armed' : PreqOK(tmp_preq'[j].preq)
    <3> SUFFICES ASSUME NEW j \in armed' PROVE PreqOK(tmp_preq'[j].preq)
      OBVIOUS
    <3>1. CASE j = x
      BY <1>1, <1>6, <1>17, <3>1 DEF TypeOK
    <3>2. CASE j # x
      <4>1. j \in armed /\ tmp_preq'[j] = tmp_preq[j]
        BY <1>1, <1>17, <3>2 DEF TypeOK
      <4> QED  BY <1>1, <4>1 DEF ArmedOK
    <3> QED  BY <3>1, <3>2
  <2>5. ArmedOK'
    BY <2>4 DEF ArmedOK, PreqOK, PathReal
  <2> QED  BY <1>1, <1>9, <1>10, <2>1, <2>2, <2>3, <2>5, SameQueues DEF IInv, TypeOK
<1> QED  BY <1>15, <1>16, <1>17

LEMMA StepPrepSend ==
    ASSUME IInv, NEW i \in TableSlots, Prep_send(i)
    PROVE  IInv'
<1>1. TypeOK /\ QueuesOK /\ AirOK /\ ArmedOK
  BY DEF IInv
<1> DEFINE p == tmp_preq[i].preq
           x == rt_table_get_index(rt[Root], Orig(p))
           n == Len(p.path)
           f == Prep(Orig(p), SubSeq(p.path, 1, n - 1), 1, p.seqno, p.path[n])
<1>2. i \in armed /\ PreqOK(p) /\ p \in PreqFrame /\ Root \in Node
  BY <1>1, NodeAssumption DEF Prep_send, ArmedOK, TypeOK
<1>3. p.path \in Seq(Node) /\ p.seqno \in Nat
  BY <1>2 DEF PreqFrame
<1>4. n \in Nat /\ n > 0
  BY <1>2, <1>3 DEF PreqOK, PathReal
<1>5. Orig(p) \in Node /\ p.path[n] \in Node
  BY <1>3, <1>4 DEF Orig
<1>6. SubSeq(p.path, 1, n - 1) \in Seq(Node)
  BY <1>3, <1>4
<1>7. /\ f \in Frame /\ f.type = "PREP" /\ f.dest = Orig(p)
      /\ f.next = p.path[n] /\ p.path[n] \in Address /\ f.ext = SubSeq(p.path, 1, n - 1)
  <2> DEFINE m == Orig(p)  e == SubSeq(p.path, 1, n - 1)  next == p.path[n]
  <2>1. m \in Node /\ e \in Seq(Node) /\ next \in Node /\ next \in Address
    BY <1>5, <1>6 DEF Address
  <2> HIDE DEF m, e, next
  <2>2. /\ Prep(m, e, 1, p.seqno, next) \in Frame
        /\ Prep(m, e, 1, p.seqno, next).type = "PREP"
        /\ Prep(m, e, 1, p.seqno, next).next = next
        /\ Prep(m, e, 1, p.seqno, next).dest = m
        /\ Prep(m, e, 1, p.seqno, next).ext = e
    BY <1>3, <2>1, BuiltPrep, SMTT(30)
  <2> QED  BY <2>1, <2>2 DEF m, e, next
<1>8. x # NoSlot => x \in TableSlots
  BY GetIndexSpec DEF InUse
<1>9. tmp_preq' = IF x = NoSlot THEN tmp_preq ELSE [tmp_preq EXCEPT ![x].used = FALSE]
  BY DEF Prep_send
<1>10. /\ armed' = armed \ {i}
       /\ addqUnicast(Root, f)
       /\ UNCHANGED <<rt, rann_order, air, crashed, astray>>
  BY DEF Prep_send
<1>a. WayBack(SubSeq(p.path, 1, n - 1), p.path[n], Orig(p))
  BY <1>2, <1>3, <1>4, SameWay DEF PreqOK, PathReal, Orig
<1> HIDE DEF f, n, x
<1>11. /\ tq' = [tq EXCEPT ![Root] = Append(tq[Root], f)]
       /\ dest_mac' = [dest_mac EXCEPT ![Root] = p.path[n]]
  BY <1>1, <1>2, <1>7, <1>10 DEF addqUnicast, addq, TypeOK
<1>12. QueueOK(Root, tq[Root])
  BY <1>1, <1>2 DEF QueuesOK
<1>13. SentBy(Root, f)
  BY <1>2, <1>7, <1>a DEF SentBy, PreqOK, Orig
<1>14. /\ tq' \in [Node -> Seq(Frame)] /\ QueuesOK'
       /\ dest_mac' \in [Node -> Address \cup {NoAddr}]
  BY <1>1, <1>2, <1>7, <1>11, <1>12, <1>13, UnicastQueued
<1>15. /\ tmp_preq' \in [TableSlots -> [used : BOOLEAN, preq : PreqFrame]]
       /\ \A j \in TableSlots : tmp_preq'[j].preq = tmp_preq[j].preq
  <2>1. CASE x = NoSlot
    BY <1>1, <1>9, <2>1 DEF TypeOK
  <2>2. CASE x # NoSlot
    <3>1. x \in TableSlots /\ tmp_preq' = [tmp_preq EXCEPT ![x] = [tmp_preq[x] EXCEPT !.used = FALSE]]
      BY <1>8, <1>9, <2>2
    <3> QED  BY <1>1, <3>1 DEF TypeOK
  <2> QED  BY <2>1, <2>2
<1>16. armed' \in SUBSET armed /\ armed \in SUBSET TableSlots
  BY <1>1, <1>10 DEF TypeOK
<1>17. \A j \in armed' : PreqOK(tmp_preq'[j].preq)
  BY <1>1, <1>15, <1>16 DEF ArmedOK
<1>18. ArmedOK'
  BY <1>17 DEF ArmedOK, PreqOK, PathReal
<1> QED  BY <1>1, <1>10, <1>14, <1>15, <1>16, <1>18, SameAir DEF IInv, TypeOK

\* What a PREP stores of the way to the root is an entry.
LEMMA UplinkStoredType ==
    ASSUME TypeOK, NEW n \in Node, NEW d, d.from \in Node, d.frame \in PrepFrame
    PROVE  LET f == d.frame
               prev == IF Len(f.ext) > 0 THEN f.ext[Len(f.ext)] ELSE NoAddr
           IN  /\ Entry(Root, d.from, f.dest, prev, f.hcnt, 0, f.seqno) \in Entries
               /\ UplinkStored(n, d) \in Tables
<1> DEFINE f == d.frame
           len == Len(f.ext)
           u == Uplink(n, f.dest)
           prev == IF len > 0 THEN f.ext[len] ELSE NoAddr
           e == Entry(Root, d.from, f.dest, prev, f.hcnt, 0, f.seqno)
<1>1. /\ f.ext \in Seq(Node) /\ f.dest \in Node /\ f.hcnt \in Nat /\ f.seqno \in Nat
      /\ rt[n] \in Tables /\ Root \in Node /\ d.from \in Address
  BY NodeAssumption DEF PrepFrame, TypeOK, Address
<1>2. prev \in Node \cup {NoAddr}
  BY <1>1
<1> HIDE DEF prev
<1>3. e \in Entries
  BY <1>1, <1>2, EntryType
<1>4. CASE u = NoSlot
  BY <1>1, <1>3, <1>4, InsertType DEF UplinkStored, prev
<1>5. CASE u # NoSlot
  <2>1. u \in InUse(rt[n])
    BY <1>5, UplinkType
  <2> HIDE DEF u, f
  <2>2. rt_table_update(rt[n], u, d.from, f.hcnt, 0, f.seqno) \in Tables
    BY <1>1, <2>1, UpdateType
  <2> QED BY <1>3, <1>5, <2>2 DEF UplinkStored, prev, u, f
<1> QED BY <1>3, <1>4, <1>5 DEF prev

LEMMA StepPrepProcess ==
    ASSUME IInv, NEW d \in air, Prep_process(d.to, d)
    PROVE  IInv'
<1>1. TypeOK /\ QueuesOK /\ AirOK /\ ArmedOK
  BY DEF IInv
<1> DEFINE n == d.to
           f == d.frame
           len == Len(f.ext)
           u == Uplink(n, f.dest)
           prev == IF len > 0 THEN f.ext[len] ELSE NoAddr
           up == UplinkStored(n, d)
<1>2. /\ n \in Node /\ d.from \in Node /\ rt[n] \in Tables /\ f \in PrepFrame
      /\ Root \in Node /\ f.dest # Root /\ WayBack(f.ext, f.next, f.dest)
  BY <1>1, ReceivedFrame, FrameTypes, NodeAssumption DEF Prep_process, TypeOK, SentBy
<1>3. /\ f.ext \in Seq(Node) /\ f.dest \in Node /\ f.hcnt \in Nat /\ f.seqno \in Nat
      /\ len \in Nat /\ (len > 0 => f.ext[len] \in Node)
  BY <1>2 DEF PrepFrame
<1>4. air' \in SUBSET [from : Node, to : Node, frame : Frame] /\ AirOK'
  BY <1>1, AirShrinks DEF Prep_process
<1>5. UNCHANGED <<rann_order, tmp_preq, armed, crashed>> /\ astray' \in SUBSET Node
  BY <1>1, <1>2 DEF Prep_process, TypeOK
<1>6. up \in Tables
  BY <1>1, <1>2, UplinkStoredType
<1> HIDE DEF u, up
<1>7. CASE len = 0
  <2>1. rt' = [rt EXCEPT ![n] = up] /\ UNCHANGED <<tq, dest_mac>>
    BY <1>7 DEF Prep_process, up, u
  <2>2. rt' \in [Node -> Tables]
    BY <1>1, <1>2, <1>6, <2>1 DEF TypeOK
  <2> QED  BY <1>1, <1>4, <1>5, <2>1, <2>2, SameQueues, SamePending DEF IInv, TypeOK
<1>8. CASE len # 0
  <2> DEFINE g == Prep(f.dest, SubSeq(f.ext, 1, len - 1), f.hcnt + 1, f.seqno, f.ext[len])
             Down(next) == Entry(f.dest, next, Root, d.from, len, 0, 0)
  <2>1. addqUnicast(n, g)
    BY <1>8 DEF Prep_process
  <2>2. PICK next \in DownlinkNext(f.ext) :
           rt' = [rt EXCEPT ![n] = IF rt_table_find(up, f.dest) = NoSlot
                                   THEN rt_table_insert(up, Down(next)) ELSE up]
    BY <1>8 DEF Prep_process, up, u
  <2>3. next \in Address
    BY <1>3, <1>8 DEF DownlinkNext, Address
  <2>4. Down(next) \in Entries
    BY <1>2, <1>3, <2>3, EntryType
  <2> HIDE DEF Down
  <2>5. rt' \in [Node -> Tables]
    BY <1>1, <1>2, <1>6, <2>2, <2>4, InsertType DEF TypeOK
  <2>6. SubSeq(f.ext, 1, len - 1) \in Seq(Node) /\ f.hcnt + 1 \in Nat
        /\ f.ext[len] \in Node /\ f.ext[len] \in Address
    BY <1>3, <1>8 DEF Address
  <2>a. WayBack(SubSeq(f.ext, 1, len - 1), f.ext[len], f.dest)
    <3> DEFINE ext == f.ext  left == f.next
    <3>1. ext \in Seq(Node) /\ len \in Nat /\ len = Len(ext) /\ len > 0
          /\ WayBack(ext, left, f.dest)
      BY <1>2, <1>3, <1>8
    <3> HIDE DEF ext, left, len
    <3>2. WayBack(SubSeq(ext, 1, len - 1), ext[len], f.dest)
      BY <3>1, FrontWay
    <3> QED BY <3>2 DEF ext
  <2> HIDE DEF len
  <2>7. /\ g \in Frame /\ g.type = "PREP" /\ g.dest = f.dest
        /\ g.next = f.ext[len] /\ g.ext = SubSeq(f.ext, 1, len - 1)
    <3> DEFINE m == f.dest  e == SubSeq(f.ext, 1, len - 1)  h == f.hcnt + 1
               s == f.seqno  x == f.ext[len]
    <3>1. m \in Node /\ e \in Seq(Node) /\ h \in Nat /\ s \in Nat /\ x \in Node
      BY <1>3, <2>6
    <3> HIDE DEF m, e, h, s, x
    <3>2. /\ Prep(m, e, h, s, x) \in Frame
          /\ Prep(m, e, h, s, x).type = "PREP"
          /\ Prep(m, e, h, s, x).next = x /\ Prep(m, e, h, s, x).dest = m
          /\ Prep(m, e, h, s, x).ext = e
      BY <3>1, BuiltPrep
    <3> QED  BY <3>2 DEF m, e, h, s, x
  <2> HIDE DEF g
  <2>8. /\ tq' = [tq EXCEPT ![n] = Append(tq[n], g)]
        /\ dest_mac' = [dest_mac EXCEPT ![n] = f.ext[len]]
    BY <1>1, <1>2, <2>1, <2>7 DEF addqUnicast, addq, TypeOK
  <2>9. QueueOK(n, tq[n]) /\ SentBy(n, g)
    BY <1>1, <1>2, <2>7, <2>a DEF QueuesOK, SentBy
  <2>10. /\ tq' \in [Node -> Seq(Frame)] /\ QueuesOK'
         /\ dest_mac' \in [Node -> Address \cup {NoAddr}]
    BY <1>1, <1>2, <2>6, <2>7, <2>8, <2>9, UnicastQueued
  <2> QED  BY <1>1, <1>4, <1>5, <2>5, <2>10, SamePending DEF IInv, TypeOK
<1> QED  BY <1>7, <1>8

LEMMA StepPrepAtRoot ==
    ASSUME IInv, NEW d \in air, PrepAtRoot(d)
    PROVE  IInv'
<1>1. TypeOK /\ QueuesOK /\ AirOK /\ ArmedOK
  BY DEF IInv
<1>2. air' \in SUBSET [from : Node, to : Node, frame : Frame] /\ AirOK'
  BY <1>1, AirShrinks DEF PrepAtRoot
<1>3. /\ crashed' = crashed \cup {Root}
      /\ UNCHANGED <<rt, rann_order, tmp_preq, armed, tq, dest_mac, astray>>
  BY DEF PrepAtRoot
<1> QED  BY <1>1, <1>2, <1>3, SameQueues, SamePending, NodeAssumption DEF IInv, TypeOK
-----------------------------------------------------------------------------
\* The invariant holds at the start and is kept by every step.

LEMMA InitInv == Init => IInv
<1> SUFFICES ASSUME Init PROVE IInv
  OBVIOUS
<1>1. rt \in [Node -> Tables]
  BY DEF Init, Tables, EmptyTable
<1>2. NoPreq \in PreqFrame
  <2>1. << >> \in Seq(Node)
    OBVIOUS
  <2> QED  BY <2>1, BuiltFrames DEF NoPreq
<1>3. tmp_preq \in [TableSlots -> [used : BOOLEAN, preq : PreqFrame]]
  BY <1>2 DEF Init
<1>4. tq \in [Node -> Seq(Frame)] /\ QueuesOK
  BY DEF Init, QueuesOK, QueueOK
<1> QED  BY <1>1, <1>3, <1>4 DEF Init, IInv, TypeOK, AirOK, ArmedOK

LEMMA StepInv == IInv /\ [Next]_vars => IInv'
<1> SUFFICES ASSUME IInv, [Next]_vars PROVE IInv'
  OBVIOUS
<1>1. CASE UNCHANGED vars
  <2>1. TypeOK /\ QueuesOK /\ AirOK /\ ArmedOK /\ UNCHANGED tq
        /\ UNCHANGED air /\ UNCHANGED <<tmp_preq, armed>>
        /\ UNCHANGED <<rt, rann_order, dest_mac, crashed, astray>>
    BY <1>1 DEF IInv, vars
  <2> QED  BY <2>1, SameAir, SameQueues, SamePending DEF IInv, TypeOK
<1>2. ASSUME NEW m \in Node, NEW n \in Node, HelloHeard(m, n) PROVE IInv'
  BY <1>2, StepHello
<1>3. CASE Rann_send
  BY <1>3, StepRannSend
<1>4. ASSUME NEW n \in Node, Transmit(n) PROVE IInv'
  BY <1>4, StepTransmit
<1>5. ASSUME NEW d \in air, Receive(d) PROVE IInv'
  <2>1. CASE Rann_process(d.to, d)
    BY <2>1, StepRannProcess
  <2>2. CASE Rann_ack_process(d.to, d)
    BY <2>2, StepRannAckProcess
  <2>3. CASE Preq_forward(d.to, d)
    BY <2>3, StepPreqForward
  <2>4. CASE d.to = Root /\ Preq_process(d)
    BY <2>4, StepPreqProcess
  <2>5. CASE Prep_process(d.to, d)
    BY <2>5, StepPrepProcess
  <2>6. CASE PrepAtRoot(d)
    BY <2>6, StepPrepAtRoot
  <2> QED  BY <1>5, <2>1, <2>2, <2>3, <2>4, <2>5, <2>6 DEF Receive
<1>6. ASSUME NEW i \in TableSlots, Prep_send(i) PROVE IInv'
  BY <1>6, StepPrepSend
<1>7. ASSUME NEW n \in Node, alm_calculator(n) PROVE IInv'
  BY <1>7, StepAlm
<1> QED  BY <1>1, <1>2, <1>3, <1>4, <1>5, <1>6, <1>7 DEF Next

LEMMA Invariant == Spec => []IInv
BY InitInv, StepInv, PTL DEF Spec

\* Route tables, queues, frames on the air and the kept PREQs have their types
\* in every mesh: no handler builds an entry or a frame from an address that is
\* not one, except the next hop of a downlink (DownlinkNext).
THEOREM TypeCorrect == Spec => []TypeOK
<1>1. IInv => TypeOK
  BY DEF IInv
<1> QED  BY <1>1, Invariant, PTL

\* However the frames are lost and interleaved, the path of a PREQ visits no
\* node twice and goes over links (Preq_process, aodv.c:2131-2148): with a ttl
\* of at most 4 the addresses the loop check skips do not matter.
THEOREM PathsReal == Spec => []PreqPathsReal
<1>1. IInv => PreqPathsReal
  BY DEF IInv, QueuesOK, QueueOK, AirOK, ArmedOK, SentBy, PreqOK, PreqPathsReal
<1> QED  BY <1>1, Invariant, PTL
-----------------------------------------------------------------------------
\* The tables.  No insertion doubles a route, and the source of a route to the
\* root is never the root, which makes the bound of TableFits.

TableOK(t) ==
    /\ DistinctTable(t)
    /\ \A i \in InUse(t) : t[i].dest = Root => t[i].source # Root

TablesOK == \A n \in Node : TableOK(rt[n])

\* A table that keeps its entries keeps its routes.
Keeps(t, u) ==
    \A i \in InUse(t) : i \in InUse(u) /\ u[i].dest = t[i].dest /\ u[i].source = t[i].source

LEMMA InsertKeeps ==
    ASSUME NEW t \in Tables, NEW e \in Entries
    PROVE  /\ Keeps(t, rt_table_insert(t, e))
           /\ \A i \in InUse(rt_table_insert(t, e)) :
                 \/ i \in InUse(t) /\ rt_table_insert(t, e)[i] = t[i]
                 \/ rt_table_insert(t, e)[i] = e
<1>1. CASE FreeSlot(t) = NoSlot
  <2>1. rt_table_insert(t, e) = t
    BY <1>1, InsertType
  <2> QED BY <2>1 DEF Keeps
<1>2. CASE FreeSlot(t) # NoSlot
  BY <1>2, InsertType DEF Keeps
<1> QED BY <1>1, <1>2

LEMMA InsertOK ==
    ASSUME NEW t \in Tables, NEW e \in Entries, TableOK(t),
           e.dest = Root => e.source # Root,
           \A j \in InUse(t) : t[j].dest = e.dest => e.dest = Root /\ t[j].source # e.source
    PROVE  TableOK(rt_table_insert(t, e))
<1> DEFINE u == rt_table_insert(t, e)
           k == FreeSlot(t)
<1>1. CASE k = NoSlot
  BY <1>1, InsertType
<1>2. CASE k # NoSlot
  <2>1. /\ InUse(u) = InUse(t) \cup {k} /\ u[k] = e /\ \A j \in InUse(t) : u[j] = t[j]
        /\ k \notin InUse(t)
    BY <1>2, InsertType, FreeSlotSpec
  <2> HIDE DEF u, k
  <2>2. DistinctTable(u)
    BY <2>1 DEF DistinctTable, TableOK
  <2> QED BY <2>1, <2>2 DEF TableOK, u
<1> QED BY <1>1, <1>2

LEMMA UpdateOK ==
    ASSUME NEW t \in Tables, NEW i \in InUse(t), NEW next \in Address, NEW hcnt \in Nat,
           NEW alm \in Nat, NEW seqno \in Nat, TableOK(t),
           NEW u, u = rt_table_update(t, i, next, hcnt, alm, seqno)
    PROVE  /\ TableOK(u)
           /\ u[i].next = next /\ u[i].hcnt = hcnt /\ u[i].alm = alm /\ u[i].seqno = seqno
           /\ u[i].state = 1 /\ u[i].dest = t[i].dest /\ InUse(u) = InUse(t)
           /\ \A j \in InUse(t) : j # i => u[j] = t[j]
           /\ Keeps(t, u)
<1>1. /\ InUse(u) = InUse(t)
      /\ \A j \in InUse(t) : u[j].dest = t[j].dest /\ u[j].source = t[j].source
      /\ u[i].next = next /\ u[i].hcnt = hcnt /\ u[i].alm = alm /\ u[i].seqno = seqno
      /\ \A j \in TableSlots : j # i => u[j] = t[j]
  BY UpdateType
<1>2. TableOK(u)
  BY <1>1 DEF TableOK, DistinctTable
<1> QED BY <1>1, <1>2 DEF InUse, Keeps

\* The two lookups, one from either end, agree where there is one entry at most.
LEMMA OneEntry ==
    ASSUME NEW t, TableOK(t), NEW i \in InUse(t), t[i].dest # Root
    PROVE  rt_table_get_index(t, t[i].dest) = i /\ rt_table_find(t, t[i].dest) = i
<1> DEFINE dest == t[i].dest
           x == rt_table_get_index(t, dest)
           y == rt_table_find(t, dest)
<1>1. /\ x = NoSlot => y = NoSlot
      /\ x # NoSlot => x \in InUse(t) /\ t[x].dest = dest
  BY GetIndexSpec
<1>2. /\ y = NoSlot => \A j \in InUse(t) : t[j].dest # dest
      /\ y # NoSlot => y \in InUse(t) /\ t[y].dest = dest
  BY FindSpec
<1>3. \A j \in InUse(t) : t[j].dest = dest => j = i
  BY DEF TableOK, DistinctTable
<1> HIDE DEF x, y
<1>4. x = i /\ y = i
  BY <1>1, <1>2, <1>3
<1> QED BY <1>4 DEF x, y

LEMMA TableChange ==
    ASSUME TypeOK, TablesOK, NEW n \in Node, NEW t, TableOK(t),
           rt' = [rt EXCEPT ![n] = t]
    PROVE  TablesOK'
<1>1. \A m \in Node : TableOK(rt'[m])
  BY DEF TypeOK, TablesOK
<1> QED BY <1>1 DEF TablesOK, TableOK, DistinctTable

LEMMA SameTables ==
    ASSUME TablesOK, UNCHANGED rt
    PROVE  TablesOK'
BY DEF TablesOK, TableOK, DistinctTable

LEMMA TablesHello ==
    ASSUME IInv, TablesOK, NEW m \in Node, NEW n \in Node, HelloHeard(m, n)
    PROVE  TablesOK'
<1>1. rt' = [rt EXCEPT ![n] = rt_table_insert(@, Entry(m, m, n, NoAddr, 1, 0, 0))]
  BY DEF HelloHeard
<1> DEFINE e == Entry(m, m, n, NoAddr, 1, 0, 0)
<1>2. e \in Entries /\ e.dest = m /\ e.source = n
  BY EntryType DEF Address, Entry
<1>3. TypeOK /\ rt[n] \in Tables /\ TableOK(rt[n])
  BY DEF IInv, TypeOK, TablesOK
<1>4. m # n /\ \A j \in InUse(rt[n]) : rt[n][j].dest # m
  BY FindSpec, LinkAssumption DEF HelloHeard
<1> HIDE DEF e
<1>5. TableOK(rt_table_insert(rt[n], e))
  BY <1>2, <1>3, <1>4, InsertOK
<1> QED BY <1>1, <1>3, <1>5, TableChange DEF e

LEMMA TablesAlm ==
    ASSUME IInv, TablesOK, NEW n \in Node, alm_calculator(n)
    PROVE  TablesOK'
<1>1. TypeOK /\ TableOK(rt[n])
  BY DEF IInv, TablesOK
<1>2. PICK t : OnlyAlm(rt[n], t) /\ rt' = [rt EXCEPT ![n] = t]
  BY <1>1, AlmStep
<1>3. TableOK(t)
  BY <1>1, <1>2 DEF TableOK, DistinctTable, OnlyAlm
<1> QED BY <1>1, <1>2, <1>3, TableChange

LEMMA TablesPrep ==
    ASSUME IInv, TablesOK, NEW d \in air, Prep_process(d.to, d)
    PROVE  TablesOK'
<1> DEFINE n == d.to
           f == d.frame
           len == Len(f.ext)
           u == Uplink(n, f.dest)
           prev == IF len > 0 THEN f.ext[len] ELSE NoAddr
           up == UplinkStored(n, d)
<1>1. TypeOK /\ AirOK
  BY DEF IInv
<1>2. /\ n \in Node /\ d.from \in Node /\ rt[n] \in Tables /\ f \in PrepFrame
      /\ Root \in Node /\ f.dest # Root /\ TableOK(rt[n])
  BY <1>1, ReceivedFrame, FrameTypes, NodeAssumption
     DEF Prep_process, TypeOK, SentBy, TablesOK
<1>3. f.dest \in Node /\ d.from \in Address
  BY <1>2 DEF PrepFrame, Address
<1>4. up \in Tables
  BY <1>1, <1>2, UplinkStoredType
<1>5. TableOK(up)
  <2>1. CASE u = NoSlot
    <3> DEFINE e == Entry(Root, d.from, f.dest, prev, f.hcnt, 0, f.seqno)
    <3>1. e \in Entries /\ e.dest = Root /\ e.source = f.dest
      BY <1>1, <1>2, UplinkStoredType DEF Entry
    <3>2. \A j \in InUse(rt[n]) : ~ (rt[n][j].dest = Root /\ rt[n][j].source = f.dest)
      BY <2>1, FindFromSpec DEF Uplink
    <3>3. up = rt_table_insert(rt[n], e)
      BY <2>1 DEF UplinkStored
    <3> HIDE DEF e, up
    <3>4. TableOK(rt_table_insert(rt[n], e))
      BY <1>2, <3>1, <3>2, InsertOK
    <3> QED BY <3>3, <3>4
  <2>2. CASE u # NoSlot
    <3>1. u \in InUse(rt[n]) /\ f.hcnt \in Nat /\ f.seqno \in Nat
      BY <1>1, <1>2, <2>2, UplinkType DEF PrepFrame
    <3>2. TableOK(rt_table_update(rt[n], u, d.from, f.hcnt, 0, f.seqno))
      BY <1>2, <1>3, <3>1, UpdateOK
    <3> QED BY <2>2, <3>2 DEF UplinkStored
  <2> QED BY <2>1, <2>2
<1> HIDE DEF up
<1>6. CASE len = 0
  <2>1. rt' = [rt EXCEPT ![n] = up]
    BY <1>6 DEF Prep_process, up
  <2> QED BY <1>1, <1>2, <1>5, <2>1, TableChange
<1>7. CASE len # 0
  <2> DEFINE Down(next) == Entry(f.dest, next, Root, d.from, len, 0, 0)
  <2>1. PICK next \in DownlinkNext(f.ext) :
           rt' = [rt EXCEPT ![n] = IF rt_table_find(up, f.dest) = NoSlot
                                   THEN rt_table_insert(up, Down(next)) ELSE up]
    BY <1>7 DEF Prep_process, up
  <2>2. f.ext \in Seq(Node) /\ len \in Nat
    BY <1>2 DEF PrepFrame
  <2>3. next \in Address
    BY <1>7, <2>2 DEF DownlinkNext, Address
  <2>4. Down(next) \in Entries /\ Down(next).dest = f.dest
    BY <1>2, <1>3, <2>2, <2>3, EntryType DEF Entry
  <2> HIDE DEF Down
  <2>5. rt_table_find(up, f.dest) = NoSlot => TableOK(rt_table_insert(up, Down(next)))
    BY <1>2, <1>4, <1>5, <2>4, FindSpec, InsertOK
  <2> QED BY <1>1, <1>2, <1>5, <2>1, <2>5, TableChange
<1> QED BY <1>6, <1>7

\* The root takes a PREQ: the slot it is kept in holds the route taken from it,
\* the other slots are as before, and the timer of the slot runs.
LEMMA PendingKept ==
    ASSUME TypeOK, PendingReply, NEW x \in TableSlots, NEW p,
           tmp_preq' = [tmp_preq EXCEPT ![x] = [used |-> TRUE, preq |-> p]],
           \A j \in InUse(rt[Root]) : j # x => rt'[Root][j] = rt[Root][j],
           armed \subseteq armed', x \in armed',
           LET e == rt'[Root][x]
           IN  /\ e.state = 1 /\ e.dest = Orig(p) /\ e.next = p.path[Len(p.path)]
               /\ e.hcnt = Len(p.path) /\ e.alm = p.alm /\ e.seqno = p.seqno
    PROVE  PendingReply'
<1> SUFFICES ASSUME NEW i \in TableSlots, tmp_preq'[i].used
             PROVE  /\ i \in armed'
                    /\ LET e == rt'[Root][i]
                           q == tmp_preq'[i].preq
                       IN  /\ e.state = 1 /\ e.dest = Orig(q)
                           /\ e.next = q.path[Len(q.path)]
                           /\ e.hcnt = Len(q.path) /\ e.seqno = q.seqno
                           /\ e.hcnt # 1 => e.alm = q.alm
  BY DEF PendingReply, Orig
<1>1. CASE i = x
  <2>1. tmp_preq'[i].preq = p
    BY <1>1 DEF TypeOK
  <2> QED BY <1>1, <2>1
<1>2. CASE i # x
  <2>1. tmp_preq'[i] = tmp_preq[i]
    BY <1>2 DEF TypeOK
  <2>2. i \in armed /\ rt[Root][i].state = 1
    BY <2>1 DEF PendingReply
  <2>3. rt'[Root][i] = rt[Root][i]
    BY <1>2, <2>2 DEF InUse
  <2> QED BY <2>1, <2>2, <2>3 DEF PendingReply
<1> QED BY <1>1, <1>2

\* What happens elsewhere, or only adds entries, leaves the kept PREQs alone.
LEMMA PendingSame ==
    ASSUME PendingReply, UNCHANGED <<tmp_preq, armed>>,
           \A j \in InUse(rt[Root]) : rt'[Root][j] = rt[Root][j]
    PROVE  PendingReply'
<1> SUFFICES ASSUME NEW i \in TableSlots, tmp_preq[i].used
             PROVE  rt'[Root][i] = rt[Root][i]
  BY DEF PendingReply, Orig
<1> QED BY DEF PendingReply, InUse

LEMMA PendingHello ==
    ASSUME IInv, PendingReply, NEW m \in Node, NEW n \in Node, HelloHeard(m, n)
    PROVE  PendingReply'
<1>1. rt' = [rt EXCEPT ![n] = rt_table_insert(@, Entry(m, m, n, NoAddr, 1, 0, 0))]
  BY DEF HelloHeard
<1> DEFINE e == Entry(m, m, n, NoAddr, 1, 0, 0)
<1>2. e \in Entries
  BY EntryType DEF Address
<1>3. rt \in [Node -> Tables] /\ rt[n] \in Tables /\ Root \in Node
  BY NodeAssumption DEF IInv, TypeOK
<1> HIDE DEF e
<1>4. \A j \in InUse(rt[n]) : rt_table_insert(rt[n], e)[j] = rt[n][j]
  BY <1>2, <1>3, InsertType
<1>5. \A j \in InUse(rt[Root]) : rt'[Root][j] = rt[Root][j]
  BY <1>1, <1>3, <1>4 DEF e
<1> QED BY <1>5, PendingSame DEF HelloHeard

\* What alm_calculator rewrites is the metric of a one-hop entry, which the kept
\* PREQ is not held against.
LEMMA PendingAlm ==
    ASSUME IInv, PendingReply, NEW n \in Node, alm_calculator(n)
    PROVE  PendingReply'
<1>1. TypeOK /\ Root \in Node
  BY NodeAssumption DEF IInv
<1>2. PICK t : OnlyAlm(rt[n], t) /\ rt' = [rt EXCEPT ![n] = t]
  BY <1>1, AlmStep
<1>3. UNCHANGED <<tmp_preq, armed>>
  BY <1>1, AlmStep
<1>4. ASSUME NEW i \in InUse(rt[Root])
      PROVE  LET e == rt[Root][i]
                 g == rt'[Root][i]
             IN  /\ g.state = e.state /\ g.dest = e.dest /\ g.next = e.next
                 /\ g.hcnt = e.hcnt /\ g.seqno = e.seqno
                 /\ e.hcnt # 1 => g = e
  <2>1. CASE n = Root
    BY <1>1, <1>2, <2>1 DEF TypeOK, OnlyAlm
  <2>2. CASE n # Root
    BY <1>1, <1>2, <2>2 DEF TypeOK
  <2> QED BY <2>1, <2>2
<1> SUFFICES ASSUME NEW i \in TableSlots, tmp_preq[i].used
             PROVE  /\ i \in armed
                    /\ LET e == rt'[Root][i]
                           p == tmp_preq[i].preq
                       IN  /\ e.state = 1 /\ e.dest = Orig(p)
                           /\ e.next = p.path[Len(p.path)]
                           /\ e.hcnt = Len(p.path) /\ e.seqno = p.seqno
                           /\ e.hcnt # 1 => e.alm = p.alm
  BY <1>3 DEF PendingReply, Orig
<1>5. i \in InUse(rt[Root])
  BY DEF PendingReply, InUse
<1> QED BY <1>4, <1>5 DEF PendingReply

\* Of the routes to the root the root's own table has none that Preq_process
\* changes.
RootStep ==
    \/ UNCHANGED rt
    \/ \E t : /\ rt' = [rt EXCEPT ![Root] = t] /\ Keeps(rt[Root], t)
             /\ \A i \in InUse(t) : t[i].dest = Root =>
                    i \in InUse(rt[Root]) /\ t[i] = rt[Root][i]

LEMMA RootTakesPreq ==
    ASSUME IInv, TablesOK, PendingReply, NEW d \in air, d.to = Root, Preq_process(d)
    PROVE  TablesOK' /\ PendingReply' /\ RootStep
<1> DEFINE p == [d.frame EXCEPT !.alm = @ + LinkAlm(Root, d.from)]
           o == Orig(p)
           t == rt[Root]
           i == rt_table_find(t, o)
           x == IF i = NoSlot THEN FreeSlot(t) ELSE rt_table_get_index(t, o)
           e == Entry(o, d.from, Root, NoAddr, Len(p.path), p.alm, p.seqno)
           new == rt_table_insert(t, e)
           upd == rt_table_update(t, i, d.from, Len(p.path), p.alm, p.seqno)
           keep == tmp_preq' = [tmp_preq EXCEPT ![x] = [used |-> TRUE, preq |-> p]]
<1>1. TypeOK /\ AirOK
  BY DEF IInv
<1>2. /\ Root \in Node /\ t \in Tables /\ TableOK(t) /\ d.from \in Node
      /\ d.frame \in PreqFrame /\ PreqOK(d.frame)
      /\ d.frame.path[Len(d.frame.path)] = d.from
  BY <1>1, ReceivedFrame, FrameTypes, NodeAssumption
     DEF Preq_process, TypeOK, SentBy, TablesOK
<1>3. LinkAlm(Root, d.from) \in Nat
  BY <1>1, <1>2, LinkAlmType
<1>4. /\ p \in PreqFrame /\ p.path = d.frame.path
      /\ p.path \in Seq(Node) /\ p.alm \in Nat /\ p.seqno \in Nat
  BY <1>2, <1>3 DEF PreqFrame
<1>5. /\ \/ /\ i = NoSlot /\ x # NoSlot
            /\ rt' = [rt EXCEPT ![Root] = new] /\ keep
            /\ armed' = armed \cup {x}
         \/ /\ i # NoSlot
            /\ rt' = [rt EXCEPT ![Root] = upd] /\ keep
            /\ armed' = IF tmp_preq[x].used THEN armed ELSE armed \cup {x}
         \/ /\ i # NoSlot /\ ~ tmp_preq[x].used
            /\ rt' = [rt EXCEPT ![Root] = upd] /\ keep
            /\ armed' = armed \cup {x}
         \/ UNCHANGED <<rt, tmp_preq, armed>>
  BY DEF Preq_process
<1> HIDE DEF p
<1>6. Len(p.path) \in Nat /\ o \in Node /\ o # Root /\ p.path[Len(p.path)] = d.from
  BY <1>2, <1>4 DEF PreqOK, PathReal, Orig
<1> HIDE DEF o
<1>7. CASE UNCHANGED <<rt, tmp_preq, armed>>
  BY <1>7, SameTables, PendingSame DEF RootStep
<1>8. CASE i = NoSlot /\ x # NoSlot /\ rt' = [rt EXCEPT ![Root] = new] /\ keep
           /\ armed' = armed \cup {x}
  <2>1. /\ e \in Entries /\ e.state = 1 /\ e.dest = o /\ e.next = d.from
        /\ e.hcnt = Len(p.path) /\ e.alm = p.alm /\ e.seqno = p.seqno
    BY <1>2, <1>4, <1>6, EntryType DEF Entry, Address
  <2>2. x = FreeSlot(t) /\ x \in TableSlots
    BY <1>8, FreeSlotSpec
  <2>3. \A j \in InUse(t) : t[j].dest # o
    BY <1>8, FindSpec
  <2> HIDE DEF e
  <2>4. TableOK(new) /\ new[x] = e /\ \A j \in InUse(t) : new[j] = t[j]
    BY <1>2, <1>6, <1>8, <2>1, <2>2, <2>3, InsertOK, InsertType
  <2>5. rt'[Root] = new
    BY <1>1, <1>2, <1>8 DEF TypeOK
  <2>6. Keeps(t, new) /\ \A k \in InUse(new) : (k \in InUse(t) /\ new[k] = t[k]) \/ new[k] = e
    BY <1>2, <2>1, InsertKeeps
  <2> HIDE DEF new, x, i
  <2>7. TablesOK'
    BY <1>1, <1>2, <1>8, <2>4, TableChange
  <2>8. LET r == rt'[Root][x]
        IN  /\ r.state = 1 /\ r.dest = Orig(p) /\ r.next = p.path[Len(p.path)]
            /\ r.hcnt = Len(p.path) /\ r.alm = p.alm /\ r.seqno = p.seqno
    BY <1>6, <2>1, <2>4, <2>5 DEF o
  <2>9. armed \subseteq armed' /\ x \in armed'
    BY <1>8
  <2>10. \A j \in InUse(rt[Root]) : j # x => rt'[Root][j] = rt[Root][j]
    BY <2>4, <2>5
  <2>11. PendingReply'
    <3> HIDE DEF t
    <3> QED BY <1>1, <1>8, <2>2, <2>8, <2>9, <2>10, PendingKept
  <2>12. RootStep
    <3>1. \A k \in InUse(new) : new[k].dest = Root =>
             k \in InUse(rt[Root]) /\ new[k] = rt[Root][k]
      BY <1>6, <2>1, <2>6
    <3> QED BY <1>8, <2>6, <3>1 DEF RootStep
  <2> QED BY <2>7, <2>11, <2>12
<1>9. CASE /\ i # NoSlot /\ rt' = [rt EXCEPT ![Root] = upd] /\ keep
           /\ armed \subseteq armed' /\ (~ tmp_preq[x].used => x \in armed')
  <2>1. i \in InUse(t) /\ t[i].dest = o
    BY <1>9, FindSpec
  <2>2. x = i /\ i \in TableSlots
    BY <1>2, <1>6, <1>9, <2>1, OneEntry DEF InUse
  <2>3. x \in armed'
    BY <1>9, <2>2 DEF PendingReply
  <2> HIDE DEF i, x
  <2>4. /\ TableOK(upd)
        /\ upd[i].next = d.from /\ upd[i].hcnt = Len(p.path)
        /\ upd[i].alm = p.alm /\ upd[i].seqno = p.seqno
        /\ upd[i].state = 1 /\ upd[i].dest = t[i].dest /\ InUse(upd) = InUse(t)
        /\ \A j \in InUse(t) : j # i => upd[j] = t[j]
        /\ Keeps(t, upd)
    <3> DEFINE g == d.from  h == Len(p.path)  a == p.alm  s == p.seqno
    <3>1. /\ g \in Address /\ h \in Nat /\ a \in Nat /\ s \in Nat
          /\ t \in Tables /\ TableOK(t) /\ i \in InUse(t)
          /\ upd = rt_table_update(t, i, g, h, a, s)
      BY <1>2, <1>4, <1>6, <2>1 DEF Address
    <3> HIDE DEF g, h, a, s, t, upd
    <3>2. /\ TableOK(upd)
          /\ upd[i].next = g /\ upd[i].hcnt = h /\ upd[i].alm = a /\ upd[i].seqno = s
          /\ upd[i].state = 1 /\ upd[i].dest = t[i].dest /\ InUse(upd) = InUse(t)
          /\ \A j \in InUse(t) : j # i => upd[j] = t[j]
          /\ Keeps(t, upd)
      BY <3>1, UpdateOK
    <3> QED BY <3>2 DEF g, h, a, s
  <2>5. rt'[Root] = upd
    BY <1>1, <1>2, <1>9 DEF TypeOK
  <2> HIDE DEF upd
  <2>6. TablesOK'
    BY <1>1, <1>2, <1>9, <2>4, TableChange
  <2>7. \A j \in InUse(rt[Root]) : j # x => rt'[Root][j] = rt[Root][j]
    BY <2>2, <2>4, <2>5 DEF InUse
  <2>8. LET r == rt'[Root][x]
        IN  /\ r.state = 1 /\ r.dest = Orig(p) /\ r.next = p.path[Len(p.path)]
            /\ r.hcnt = Len(p.path) /\ r.alm = p.alm /\ r.seqno = p.seqno
    BY <1>6, <2>1, <2>2, <2>4, <2>5 DEF o, InUse
  <2>9. x \in TableSlots /\ keep /\ armed \subseteq armed' /\ x \in armed'
    BY <1>9, <2>2, <2>3
  <2>10. PendingReply'
    <3> HIDE DEF t
    <3> QED BY <1>1, <2>7, <2>8, <2>9, PendingKept
  <2>11. RootStep
    <3>1. \A k \in InUse(upd) : upd[k].dest = Root =>
             k \in InUse(rt[Root]) /\ upd[k] = rt[Root][k]
      BY <1>6, <2>1, <2>4
    <3> QED BY <1>9, <2>4, <3>1 DEF RootStep
  <2> QED BY <2>6, <2>10, <2>11
<1> QED BY <1>5, <1>7, <1>8, <1>9

\* Prep_send answers slot i and releases the slot of the originator's route,
\* which is i itself where i is taken.
LEMMA PendingAnswered ==
    ASSUME IInv, TablesOK, PendingReply, NEW i \in TableSlots, Prep_send(i)
    PROVE  PendingReply'
<1> DEFINE p == tmp_preq[i].preq
           t == rt[Root]
           x == rt_table_get_index(t, Orig(p))
<1>1. /\ armed' = armed \ {i} /\ UNCHANGED rt
      /\ tmp_preq' = IF x = NoSlot THEN tmp_preq ELSE [tmp_preq EXCEPT ![x].used = FALSE]
  BY DEF Prep_send
<1>2. /\ tmp_preq \in [TableSlots -> [used : BOOLEAN, preq : PreqFrame]]
      /\ PreqOK(p) /\ Root \in Node /\ TableOK(t)
  BY NodeAssumption DEF IInv, TypeOK, ArmedOK, Prep_send, TablesOK
<1>3. Orig(p) # Root
  BY <1>2 DEF PreqOK, Orig
<1>4. tmp_preq[i].used => x = i /\ x # NoSlot
  <2>1. tmp_preq[i].used => i \in InUse(t) /\ t[i].dest = Orig(p)
    BY DEF PendingReply, InUse
  <2>2. NoSlot \notin TableSlots
    BY TableAssumption DEF NoSlot, TableSlots
  <2> QED BY <1>2, <1>3, <2>1, <2>2, OneEntry
<1> HIDE DEF x
<1>5. ASSUME NEW j \in TableSlots
      PROVE  /\ tmp_preq'[j].preq = tmp_preq[j].preq
             /\ tmp_preq'[j].used => tmp_preq[j].used /\ j # i
  <2>1. CASE x = NoSlot
    BY <1>1, <1>4, <2>1
  <2>2. CASE x # NoSlot
    <3>1. tmp_preq' = [tmp_preq EXCEPT ![x] = [@ EXCEPT !.used = FALSE]]
      BY <1>1, <2>2
    <3>2. CASE j = x
      BY <1>2, <3>1, <3>2
    <3>3. CASE j # x
      BY <1>2, <1>4, <3>1, <3>3
    <3> QED BY <3>2, <3>3
  <2> QED BY <2>1, <2>2
<1> QED BY <1>1, <1>5 DEF PendingReply, Orig

LEMMA PendingPrep ==
    ASSUME IInv, PendingReply, NEW d \in air, Prep_process(d.to, d)
    PROVE  PendingReply'
<1>1. /\ d.to # Root /\ UNCHANGED <<tmp_preq, armed>>
      /\ \E t : rt' = [rt EXCEPT ![d.to] = t]
  BY DEF Prep_process
<1>2. rt'[Root] = rt[Root]
  BY <1>1, NodeAssumption DEF IInv, TypeOK
<1> QED BY <1>1, <1>2, PendingSame

LEMMA SecondInit == Init => TablesOK /\ PendingReply
<1> SUFFICES ASSUME Init PROVE TablesOK /\ PendingReply
  OBVIOUS
<1>1. \A n \in Node : InUse(rt[n]) = {}
  BY DEF Init, EmptyTable, InUse, FreeEntry
<1>2. PendingReply
  BY DEF Init, PendingReply
<1> QED BY <1>1, <1>2 DEF TablesOK, TableOK, DistinctTable

LEMMA SecondStep ==
    IInv /\ TablesOK /\ PendingReply /\ [Next]_vars => TablesOK' /\ PendingReply'
<1> SUFFICES ASSUME IInv, TablesOK, PendingReply, [Next]_vars
             PROVE  TablesOK' /\ PendingReply'
  OBVIOUS
<1>1. ASSUME UNCHANGED <<rt, tmp_preq, armed>>
      PROVE  TablesOK' /\ PendingReply'
  BY <1>1, SameTables, PendingSame
<1>2. ASSUME NEW m \in Node, NEW n \in Node, HelloHeard(m, n)
      PROVE  TablesOK' /\ PendingReply'
  BY <1>2, TablesHello, PendingHello
<1>3. ASSUME NEW d \in air, Receive(d)
      PROVE  TablesOK' /\ PendingReply'
  <2>1. CASE d.to = Root /\ Preq_process(d)
    BY <2>1, RootTakesPreq
  <2>2. CASE Prep_process(d.to, d)
    BY <2>2, TablesPrep, PendingPrep
  <2>3. CASE Rann_process(d.to, d)
    BY <1>1, <2>3 DEF Rann_process
  <2>4. CASE Rann_ack_process(d.to, d)
    BY <1>1, <2>4 DEF Rann_ack_process
  <2>5. CASE Preq_forward(d.to, d)
    BY <1>1, <2>5 DEF Preq_forward
  <2>6. CASE PrepAtRoot(d)
    BY <1>1, <2>6 DEF PrepAtRoot
  <2> QED BY <1>3, <2>1, <2>2, <2>3, <2>4, <2>5, <2>6 DEF Receive
<1>4. ASSUME NEW i \in TableSlots, Prep_send(i)
      PROVE  TablesOK' /\ PendingReply'
  <2>1. UNCHANGED rt
    BY <1>4 DEF Prep_send
  <2> QED BY <1>4, <2>1, SameTables, PendingAnswered
<1>5. CASE Rann_send
  BY <1>1, <1>5 DEF Rann_send
<1>6. ASSUME NEW n \in Node, Transmit(n)
      PROVE  TablesOK' /\ PendingReply'
  BY <1>1, <1>6 DEF Transmit
<1>7. CASE UNCHANGED vars
  BY <1>1, <1>7 DEF vars
<1>8. ASSUME NEW n \in Node, alm_calculator(n)
      PROVE  TablesOK' /\ PendingReply'
  BY <1>8, TablesAlm, PendingAlm
<1> QED BY <1>2, <1>3, <1>4, <1>5, <1>6, <1>7, <1>8 DEF Next

LEMMA SecondInvariant == Spec => [](TablesOK /\ PendingReply)
<1>1. Init /\ [][Next]_vars /\ []IInv => [](TablesOK /\ PendingReply)
  BY SecondInit, SecondStep, PTL
<1> QED BY <1>1, Invariant, PTL DEF Spec

\* Slots whose entries differ in a field that takes its values from T.
LEMMA ManySlots ==
    ASSUME NEW S, NEW T, IsFiniteSet(T), NEW f \in [S -> T],
           \A i, j \in S : f[i] = f[j] => i = j
    PROVE  IsFiniteSet(S) /\ Cardinality(S) <= Cardinality(T)
<1>1. f \in Injection(S, T)
  BY DEF Injection, IsInjective
<1> QED BY <1>1, FS_Injection

LEMMA OtherNodes ==
    /\ IsFiniteSet(Node \ {Root}) /\ Cardinality(Node) \in Nat
    /\ Cardinality(Node \ {Root}) = Cardinality(Node) - 1
BY FS_RemoveElement, FS_CardinalityType, RoomAssumption, NodeAssumption

\* At most one entry per destination but the root, and at most one per source
\* for the root.
LEMMA CountedTable ==
    ASSUME NEW t \in Tables, TableOK(t), NEW T, IsFiniteSet(T),
           \A i \in InUse(t) : t[i].dest = Root => t[i].source \in T
    PROVE  Cardinality(InUse(t)) <= Cardinality(Node) - 1 + Cardinality(T)
<1> DEFINE A == {i \in InUse(t) : t[i].dest # Root}
           B == {i \in InUse(t) : t[i].dest = Root}
<1>1. \A i \in InUse(t) : t[i].dest \in Node
  BY InUseType DEF Entries
<1>2. IsFiniteSet(A) /\ Cardinality(A) <= Cardinality(Node) - 1
  <2> DEFINE f == [i \in A |-> t[i].dest]
  <2>1. f \in [A -> Node \ {Root}] /\ \A i, j \in A : f[i] = f[j] => i = j
    BY <1>1 DEF TableOK, DistinctTable
  <2> HIDE DEF f, A
  <2>2. IsFiniteSet(A) /\ Cardinality(A) <= Cardinality(Node \ {Root})
    BY <2>1, OtherNodes, ManySlots
  <2> QED BY <2>2, OtherNodes
<1>3. IsFiniteSet(B) /\ Cardinality(B) <= Cardinality(T)
  <2> DEFINE f == [i \in B |-> t[i].source]
  <2>1. f \in [B -> T] /\ \A i, j \in B : f[i] = f[j] => i = j
    BY DEF TableOK, DistinctTable
  <2> HIDE DEF f, B
  <2> QED BY <2>1, ManySlots
<1>4. InUse(t) = A \cup B
  OBVIOUS
<1> HIDE DEF A, B
<1>5. /\ Cardinality(A \cup B) = Cardinality(A) + Cardinality(B) - Cardinality(A \cap B)
      /\ Cardinality(A) \in Nat /\ Cardinality(B) \in Nat
      /\ Cardinality(A \cap B) \in Nat
  <2>1. IsFiniteSet(A \cap B)
    BY <1>2, FS_Subset
  <2> QED BY <1>2, <1>3, <2>1, FS_Union, FS_CardinalityType
<1>6. Cardinality(Node) \in Nat /\ Cardinality(T) \in Nat
  BY OtherNodes, FS_CardinalityType
<1> QED BY <1>2, <1>3, <1>4, <1>5, <1>6

LEMMA BoundedTable ==
    ASSUME NEW t \in Tables, TableOK(t)
    PROVE  Cardinality(InUse(t)) <= 2 * Cardinality(Node) - 2
<1>1. \A i \in InUse(t) : t[i].dest = Root => t[i].source \in Node \ {Root}
  BY InUseType DEF Entries, TableOK
<1>2. Cardinality(InUse(t)) <= Cardinality(Node) - 1 + Cardinality(Node \ {Root})
  BY <1>1, OtherNodes, CountedTable
<1>3. Cardinality(InUse(t)) \in Int
  <2>1. IsFiniteSet(TableSlots)
    BY TableAssumption, FS_Interval DEF TableSlots
  <2> QED BY <2>1, FS_Subset, FS_CardinalityType DEF InUse
<1> QED BY <1>2, <1>3, OtherNodes

\* So that the route a PREP gives always finds a free slot.
LEMMA RoomForUplink ==
    ASSUME NEW t \in Tables, TableOK(t), NEW s \in Node \ {Root},
           \A i \in InUse(t) : ~ (t[i].dest = Root /\ t[i].source = s)
    PROVE  FreeSlot(t) # NoSlot
<1> SUFFICES ASSUME FreeSlot(t) = NoSlot
             PROVE  FALSE
  OBVIOUS
<1>1. InUse(t) = TableSlots
  <2> DEFINE S == TableSlots \ InUse(t)
  <2>1. S \in SUBSET TableSlots /\ FirstSlot(S) = NoSlot
    BY DEF FreeSlot
  <2> HIDE DEF S
  <2>2. S = {}
    BY <2>1, FirstLast
  <2> QED BY <2>2 DEF S, InUse
<1>2. Cardinality(TableSlots) = RT_SIZE
  BY TableAssumption, FS_Interval DEF TableSlots
<1> DEFINE T == (Node \ {Root}) \ {s}
<1>3. IsFiniteSet(T) /\ Cardinality(T) = Cardinality(Node) - 2
  <2> DEFINE N == Node \ {Root}
  <2>1. IsFiniteSet(N) /\ s \in N /\ Cardinality(N) = Cardinality(Node) - 1
        /\ Cardinality(Node) \in Nat
    BY OtherNodes
  <2> HIDE DEF N
  <2>2. IsFiniteSet(N \ {s}) /\ Cardinality(N \ {s}) = Cardinality(N) - 1
    BY <2>1, FS_RemoveElement
  <2> QED BY <2>1, <2>2 DEF N
<1>4. \A i \in InUse(t) : t[i].dest = Root => t[i].source \in T
  BY InUseType DEF Entries, TableOK
<1> HIDE DEF T
<1>5. Cardinality(InUse(t)) <= Cardinality(Node) - 1 + Cardinality(T)
  BY <1>3, <1>4, CountedTable
<1> QED BY <1>1, <1>2, <1>3, <1>5, OtherNodes, RoomAssumption, TableAssumption

\* No table ever holds two routes for the same purpose, and so none needs more
\* than 2 * |Node| - 2 slots: ten are enough for a mesh of six nodes, whatever
\* the links, the metric and the order in which frames arrive.
THEOREM TablesFit == Spec => []TableFits
<1>1. TypeOK /\ TablesOK => TableFits
  BY BoundedTable DEF TypeOK, TablesOK, TableOK, TableFits
<1> QED BY <1>1, TypeCorrect, SecondInvariant, PTL

\* The root answers with the PREQ its own route was taken from: between the
\* PREQ and the timer no Hello, no other PREQ and no reply separates the two
\* (Preq_process, aodv.c:1975-2106; Prep_send releases the slot it answers,
\* although it looks it up by address).
THEOREM RepliesMatch == Spec => []PendingReply
BY SecondInvariant, PTL
-----------------------------------------------------------------------------
\* The chain of uplinks.  A PREP is sent only by the root and by nodes that have
\* stored the route it gives, and no entry leaves a table.

Routed(r, n, s) ==
    \/ n = Root
    \/ \E i \in InUse(r[n]) : r[n][i].dest = Root /\ r[n][i].source = s

PrepRouted(r, n, f) == f.type = "PREP" => Routed(r, n, f.dest)

QueueRouted(r, n, q) == \A k \in 1 .. Len(q) : PrepRouted(r, n, q[k])

ChainInv ==
    /\ \A n \in Node : QueueRouted(rt, n, tq[n])
    /\ \A d \in air : PrepRouted(rt, d.from, d.frame)
    /\ \A n \in Node : \A i \in InUse(rt[n]) :
          rt[n][i].dest = Root =>
              rt[n][i].next \in Node /\ Routed(rt, rt[n][i].next, rt[n][i].source)

LEMMA AppendRouted ==
    ASSUME NEW r, NEW n, NEW q \in Seq(Frame), QueueRouted(r, n, q), NEW f,
           PrepRouted(r, n, f)
    PROVE  QueueRouted(r, n, Append(q, f))
<1> SUFFICES ASSUME NEW k \in 1 .. Len(Append(q, f))
             PROVE  PrepRouted(r, n, Append(q, f)[k])
  BY DEF QueueRouted
<1>1. \/ k \in 1 .. Len(q) /\ Append(q, f)[k] = q[k]
      \/ Append(q, f)[k] = f
  OBVIOUS
<1> QED BY <1>1 DEF QueueRouted

LEMMA RoutedGrows ==
    ASSUME IInv, NEW n \in Node, NEW t, Keeps(rt[n], t), rt' = [rt EXCEPT ![n] = t],
           NEW m \in Node, NEW s, Routed(rt, m, s)
    PROVE  Routed(rt', m, s)
<1>1. rt'[n] = t /\ (m # n => rt'[m] = rt[m])
  BY DEF IInv, TypeOK
<1>2. CASE m = n
  BY <1>1, <1>2 DEF Routed, Keeps
<1>3. CASE m # n
  BY <1>1, <1>3 DEF Routed
<1> QED BY <1>2, <1>3

\* The table of one node changes and keeps its entries; what it routes to the
\* root is routed on, and so is what waits in the queues.
LEMMA ChainGrows ==
    ASSUME IInv, ChainInv, NEW n \in Node, NEW t, Keeps(rt[n], t),
           rt' = [rt EXCEPT ![n] = t], air' \subseteq air,
           \A i \in InUse(t) : t[i].dest = Root =>
               t[i].next \in Node /\ Routed(rt, t[i].next, t[i].source),
           \A m \in Node : QueueRouted(rt, m, tq'[m]) \/ QueueRouted(rt', m, tq'[m])
    PROVE  ChainInv'
<1>1. rt'[n] = t /\ \A m \in Node : m # n => rt'[m] = rt[m]
  BY DEF IInv, TypeOK
<1>2. ASSUME NEW m \in Node, NEW s, Routed(rt, m, s)
      PROVE  Routed(rt', m, s)
  BY <1>2, RoutedGrows
<1>3. ASSUME NEW m \in Node
      PROVE  QueueRouted(rt', m, tq'[m])
  BY <1>2 DEF QueueRouted, PrepRouted
<1>4. ASSUME NEW d \in air'
      PROVE  PrepRouted(rt', d.from, d.frame)
  <2>1. d \in air /\ d.from \in Node
    BY DEF IInv, TypeOK
  <2> QED BY <1>2, <2>1 DEF ChainInv, PrepRouted
<1>5. ASSUME NEW m \in Node, NEW i \in InUse(rt'[m]), rt'[m][i].dest = Root
      PROVE  rt'[m][i].next \in Node /\ Routed(rt', rt'[m][i].next, rt'[m][i].source)
  <2>1. rt'[m][i].next \in Node /\ Routed(rt, rt'[m][i].next, rt'[m][i].source)
    BY <1>1, <1>5 DEF ChainInv
  <2> QED BY <1>2, <2>1
<1> QED BY <1>3, <1>4, <1>5 DEF ChainInv

\* The tables stay, and one queue changes at most.
LEMMA ChainSame ==
    ASSUME ChainInv, UNCHANGED rt, air' \subseteq air,
           \A m \in Node : QueueRouted(rt, m, tq'[m])
    PROVE  ChainInv'
<1>1. \A m, s : Routed(rt', m, s) = Routed(rt, m, s)
  BY DEF Routed
<1>2. \A m \in Node : QueueRouted(rt', m, tq'[m])
  BY <1>1 DEF QueueRouted, PrepRouted
<1>3. \A d \in air' : PrepRouted(rt', d.from, d.frame)
  BY <1>1 DEF ChainInv, PrepRouted
<1>4. \A m \in Node : \A i \in InUse(rt'[m]) :
         rt'[m][i].dest = Root =>
             rt'[m][i].next \in Node /\ Routed(rt', rt'[m][i].next, rt'[m][i].source)
  BY <1>1 DEF ChainInv
<1> QED BY <1>2, <1>3, <1>4 DEF ChainInv

LEMMA OneQueue ==
    ASSUME IInv, ChainInv, NEW n \in Node, NEW q, QueueRouted(rt, n, q),
           tq' = [tq EXCEPT ![n] = q]
    PROVE  \A m \in Node : QueueRouted(rt, m, tq'[m])
BY DEF IInv, TypeOK, ChainInv

LEMMA ChainHello ==
    ASSUME IInv, ChainInv, NEW m \in Node, NEW n \in Node, HelloHeard(m, n)
    PROVE  ChainInv'
<1>1. rt' = [rt EXCEPT ![n] = rt_table_insert(@, Entry(m, m, n, NoAddr, 1, 0, 0))]
  BY DEF HelloHeard
<1> DEFINE e == Entry(m, m, n, NoAddr, 1, 0, 0)
           t == rt_table_insert(rt[n], e)
<1>2. e \in Entries /\ e.dest = m /\ e.next = m
  BY EntryType DEF Address, Entry
<1>3. rt[n] \in Tables /\ rt' = [rt EXCEPT ![n] = t] /\ UNCHANGED <<tq, air>>
  BY <1>1 DEF IInv, TypeOK, HelloHeard
<1> HIDE DEF e
<1>4. Keeps(rt[n], t) /\ \A i \in InUse(t) : (i \in InUse(rt[n]) /\ t[i] = rt[n][i]) \/ t[i] = e
  BY <1>2, <1>3, InsertKeeps
<1> HIDE DEF t
<1>5. ASSUME NEW i \in InUse(t), t[i].dest = Root
      PROVE  t[i].next \in Node /\ Routed(rt, t[i].next, t[i].source)
  <2>1. CASE i \in InUse(rt[n]) /\ t[i] = rt[n][i]
    BY <1>5, <2>1 DEF ChainInv
  <2>2. CASE t[i] = e
    BY <1>2, <1>5, <2>2 DEF Routed
  <2> QED BY <1>4, <2>1, <2>2
<1>6. \A k \in Node : QueueRouted(rt, k, tq'[k])
  BY <1>3 DEF ChainInv
<1> QED BY <1>3, <1>4, <1>5, <1>6, ChainGrows

LEMMA ChainAlm ==
    ASSUME IInv, ChainInv, NEW n \in Node, alm_calculator(n)
    PROVE  ChainInv'
<1>1. TypeOK
  BY DEF IInv
<1>2. PICK t : OnlyAlm(rt[n], t) /\ rt' = [rt EXCEPT ![n] = t]
  BY <1>1, AlmStep
<1>3. UNCHANGED <<tq, air>>
  BY <1>1, AlmStep
<1>4. Keeps(rt[n], t)
  BY <1>2 DEF Keeps, OnlyAlm
<1>5. \A i \in InUse(t) : t[i].dest = Root =>
         t[i].next \in Node /\ Routed(rt, t[i].next, t[i].source)
  BY <1>2 DEF ChainInv, OnlyAlm
<1>6. \A k \in Node : QueueRouted(rt, k, tq'[k])
  BY <1>3 DEF ChainInv
<1> QED BY <1>2, <1>3, <1>4, <1>5, <1>6, ChainGrows

LEMMA ChainTransmit ==
    ASSUME IInv, ChainInv, NEW n \in Node, Transmit(n)
    PROVE  ChainInv'
<1> DEFINE f == Head(tq[n])
<1>1. tq[n] \in Seq(Frame) /\ tq[n] # << >> /\ QueueRouted(rt, n, tq[n]) /\ UNCHANGED rt
  BY DEF IInv, TypeOK, ChainInv, Transmit
<1>2. PrepRouted(rt, n, f)
  BY <1>1 DEF QueueRouted
<1>3. QueueRouted(rt, n, Tail(tq[n]))
  <2> SUFFICES ASSUME NEW k \in 1 .. Len(Tail(tq[n]))
               PROVE  PrepRouted(rt, n, Tail(tq[n])[k])
    BY DEF QueueRouted
  <2>1. k + 1 \in 1 .. Len(tq[n]) /\ Tail(tq[n])[k] = tq[n][k + 1]
    BY <1>1
  <2> QED BY <1>1, <2>1 DEF QueueRouted
<1>4. \A m \in Node : QueueRouted(rt, m, tq'[m])
  BY <1>3, OneQueue DEF Transmit
<1>5. \A d \in air' : d.from = n /\ d.frame = f
  BY DEF Transmit
<1> HIDE DEF f
<1>6. \A m, s : Routed(rt', m, s) = Routed(rt, m, s)
  BY <1>1 DEF Routed
<1>7. \A d \in air' : PrepRouted(rt', d.from, d.frame)
  BY <1>2, <1>5, <1>6 DEF PrepRouted
<1>8. \A m \in Node : QueueRouted(rt', m, tq'[m])
  BY <1>4, <1>6 DEF QueueRouted, PrepRouted
<1>9. \A m \in Node : \A i \in InUse(rt'[m]) :
         rt'[m][i].dest = Root =>
             rt'[m][i].next \in Node /\ Routed(rt', rt'[m][i].next, rt'[m][i].source)
  BY <1>1, <1>6 DEF ChainInv
<1> QED BY <1>7, <1>8, <1>9 DEF ChainInv

LEMMA ChainPreq ==
    ASSUME IInv, TablesOK, PendingReply, ChainInv, NEW d \in air, d.to = Root,
           Preq_process(d)
    PROVE  ChainInv'
<1>1. RootStep /\ Root \in Node
  BY RootTakesPreq, NodeAssumption
<1>2. air' \subseteq air /\ UNCHANGED tq
  BY DEF Preq_process, Received
<1>3. \A m \in Node : QueueRouted(rt, m, tq'[m])
  BY <1>2 DEF ChainInv
<1>4. CASE UNCHANGED rt
  BY <1>2, <1>3, <1>4, ChainSame
<1>5. ASSUME NEW t, rt' = [rt EXCEPT ![Root] = t], Keeps(rt[Root], t),
             \A i \in InUse(t) : t[i].dest = Root =>
                 i \in InUse(rt[Root]) /\ t[i] = rt[Root][i]
      PROVE  ChainInv'
  <2>1. \A i \in InUse(t) : t[i].dest = Root =>
           t[i].next \in Node /\ Routed(rt, t[i].next, t[i].source)
    BY <1>1, <1>5 DEF ChainInv
  <2> QED BY <1>1, <1>2, <1>3, <1>5, <2>1, ChainGrows
<1> QED BY <1>1, <1>4, <1>5 DEF RootStep

\* The frames that are no PREP.
LEMMA ChainRannProcess ==
    ASSUME IInv, ChainInv, NEW d \in air, Rann_process(d.to, d)
    PROVE  ChainInv'
<1> DEFINE n == d.to
           f == d.frame
           q == Rann_forward(n, f)
           p == Preq(<<n>>, PREQ_TTL, 0, f.order)
           ack == RannAck(n, rt[n][Uplink(n, n)].next)
<1>1. n \in Node /\ tq[n] \in Seq(Frame) /\ QueueRouted(rt, n, tq[n]) /\ f \in RannFrame
  BY ReceivedFrame, FrameTypes DEF IInv, TypeOK, ChainInv, Rann_process
<1>2. q \in Seq(Frame) /\ QueueRouted(rt, n, q)
  <2>1. CASE f.ttl - 1 > 0
    <3>1. /\ Rann(f.order, f.ttl - 1) \in Frame
          /\ PrepRouted(rt, n, Rann(f.order, f.ttl - 1))
      BY <1>1, <2>1, BuiltFrames DEF RannFrame, PrepRouted
    <3> QED BY <1>1, <2>1, <3>1, AppendRouted DEF Rann_forward
  <2>2. CASE ~ (f.ttl - 1 > 0)
    BY <1>1, <2>2 DEF Rann_forward
  <2> QED BY <2>1, <2>2
<1>3. PrepRouted(rt, n, p) /\ PrepRouted(rt, n, ack)
  BY DEF PrepRouted, Preq, RannAck
<1>4. \/ UNCHANGED tq
      \/ tq' = [tq EXCEPT ![n] = Append(q, p)]
      \/ tq' = [tq EXCEPT ![n] = q]
      \/ tq' = [tq EXCEPT ![n] = Append(q, ack)]
  BY DEF Rann_process, Rann_ack_send
<1>5. UNCHANGED rt /\ air' \subseteq air
  BY DEF Rann_process, Received
<1> HIDE DEF q, p, ack
<1>6. QueueRouted(rt, n, Append(q, p)) /\ QueueRouted(rt, n, Append(q, ack))
  BY <1>2, <1>3, AppendRouted
<1>7. \A m \in Node : QueueRouted(rt, m, tq'[m])
  <2>1. CASE UNCHANGED tq
    BY <2>1 DEF ChainInv
  <2>2. CASE tq' = [tq EXCEPT ![n] = Append(q, p)]
    BY <1>1, <1>6, <2>2, OneQueue
  <2>3. CASE tq' = [tq EXCEPT ![n] = q]
    BY <1>1, <1>2, <2>3, OneQueue
  <2>4. CASE tq' = [tq EXCEPT ![n] = Append(q, ack)]
    BY <1>1, <1>6, <2>4, OneQueue
  <2> QED BY <1>4, <2>1, <2>2, <2>3, <2>4
<1> QED BY <1>5, <1>7, ChainSame

\* One frame is queued and no table changes.
LEMMA ChainQueued ==
    ASSUME IInv, ChainInv, UNCHANGED rt, air' \subseteq air, NEW n \in Node, NEW f,
           PrepRouted(rt, n, f),
           UNCHANGED tq \/ addq(n, f)
    PROVE  ChainInv'
<1>1. tq[n] \in Seq(Frame) /\ QueueRouted(rt, n, tq[n])
  BY DEF IInv, TypeOK, ChainInv
<1>2. QueueRouted(rt, n, Append(tq[n], f))
  BY <1>1, AppendRouted
<1>3. CASE addq(n, f)
  <2>1. tq' = [tq EXCEPT ![n] = Append(tq[n], f)]
    BY <1>3 DEF addq
  <2>2. \A m \in Node : QueueRouted(rt, m, tq'[m])
    BY <1>2, <2>1, OneQueue
  <2> QED BY <2>2, ChainSame
<1>4. CASE UNCHANGED tq
  <2>1. \A m \in Node : QueueRouted(rt, m, tq'[m])
    BY <1>4 DEF ChainInv
  <2> QED BY <2>1, ChainSame
<1> QED BY <1>3, <1>4

LEMMA ChainOthers ==
    ASSUME IInv, ChainInv,
           \/ Rann_send
           \/ \E d \in air : \/ Rann_ack_process(d.to, d) \/ Preq_forward(d.to, d)
                             \/ PrepAtRoot(d)
           \/ \E i \in TableSlots : Prep_send(i)
    PROVE  ChainInv'
<1>1. CASE Rann_send
  <2>1. PrepRouted(rt, Root, Rann(rann_order[Root] + 1, RANN_TTL))
    BY DEF PrepRouted, Rann
  <2> QED BY <1>1, <2>1, ChainQueued, NodeAssumption DEF Rann_send
<1>2. ASSUME NEW d \in air, Rann_ack_process(d.to, d)
      PROVE  ChainInv'
  <2> DEFINE f == RannAck(d.frame.orig, rt[d.to][Uplink(d.to, d.frame.orig)].next)
  <2>1. d.to \in Node /\ PrepRouted(rt, d.to, f)
    BY DEF IInv, TypeOK, PrepRouted, RannAck
  <2>2. UNCHANGED rt /\ air' \subseteq air /\ (UNCHANGED tq \/ addq(d.to, f))
    BY <1>2 DEF Rann_ack_process, Received, addqUnicast
  <2> HIDE DEF f
  <2> QED BY <2>1, <2>2, ChainQueued
<1>3. ASSUME NEW d \in air, Preq_forward(d.to, d)
      PROVE  ChainInv'
  <2> DEFINE p == d.frame
             f == Preq(Append(p.path, d.to), p.ttl - 1, p.alm + LinkAlm(d.to, d.from), p.seqno)
  <2>1. d.to \in Node /\ PrepRouted(rt, d.to, f)
    BY DEF IInv, TypeOK, PrepRouted, Preq
  <2>2. UNCHANGED rt /\ air' \subseteq air /\ (UNCHANGED tq \/ addq(d.to, f))
    BY <1>3 DEF Preq_forward, Received
  <2> HIDE DEF f
  <2> QED BY <2>1, <2>2, ChainQueued
<1>4. ASSUME NEW d \in air, PrepAtRoot(d)
      PROVE  ChainInv'
  <2>1. UNCHANGED <<rt, tq>> /\ air' \subseteq air
    BY <1>4 DEF PrepAtRoot, Received
  <2>2. \A m \in Node : QueueRouted(rt, m, tq'[m])
    BY <2>1 DEF ChainInv
  <2> QED BY <2>1, <2>2, ChainSame
<1>5. ASSUME NEW i \in TableSlots, Prep_send(i)
      PROVE  ChainInv'
  <2> DEFINE p == tmp_preq[i].preq
             n == Len(p.path)
             f == Prep(Orig(p), SubSeq(p.path, 1, n - 1), 1, p.seqno, p.path[n])
  <2>1. UNCHANGED <<rt, air>> /\ addq(Root, f)
    BY <1>5 DEF Prep_send, addqUnicast
  <2> HIDE DEF f
  <2>2. PrepRouted(rt, Root, f)
    BY DEF PrepRouted, Routed
  <2> QED BY <2>1, <2>2, ChainQueued, NodeAssumption
<1> QED BY <1>1, <1>2, <1>3, <1>4, <1>5

LEMMA ChainPrep ==
    ASSUME IInv, TablesOK, ChainInv, NEW d \in air, Prep_process(d.to, d)
    PROVE  ChainInv'
<1> DEFINE n == d.to
           f == d.frame
           len == Len(f.ext)
           u == Uplink(n, f.dest)
           prev == IF len > 0 THEN f.ext[len] ELSE NoAddr
           up == UplinkStored(n, d)
           Good(t) == /\ Keeps(rt[n], t)
                      /\ \A i \in InUse(t) : t[i].dest = Root =>
                            t[i].next \in Node /\ Routed(rt, t[i].next, t[i].source)
                      /\ \E i \in InUse(t) : t[i].dest = Root /\ t[i].source = f.dest
<1>1. TypeOK /\ AirOK
  BY DEF IInv
<1>2. /\ n \in Node /\ d.from \in Node /\ rt[n] \in Tables /\ f \in PrepFrame
      /\ Root \in Node /\ f.dest # Root /\ TableOK(rt[n]) /\ f.type = "PREP"
      /\ Routed(rt, d.from, f.dest)
  BY <1>1, ReceivedFrame, FrameTypes, NodeAssumption
     DEF Prep_process, TypeOK, SentBy, TablesOK, ChainInv, PrepRouted
<1>3. f.dest \in Node /\ d.from \in Address /\ f.hcnt \in Nat /\ f.seqno \in Nat
  BY <1>2 DEF PrepFrame, Address
<1>4. up \in Tables
  BY <1>1, <1>2, UplinkStoredType
<1>5. \A i \in InUse(rt[n]) : rt[n][i].dest = Root =>
         rt[n][i].next \in Node /\ Routed(rt, rt[n][i].next, rt[n][i].source)
  BY <1>2 DEF ChainInv
<1>6. Good(up)
  <2>1. CASE u = NoSlot
    <3> DEFINE e == Entry(Root, d.from, f.dest, prev, f.hcnt, 0, f.seqno)
    <3>1. e \in Entries /\ e.dest = Root /\ e.source = f.dest /\ e.next = d.from
      BY <1>1, <1>2, UplinkStoredType DEF Entry
    <3>2. \A j \in InUse(rt[n]) : ~ (rt[n][j].dest = Root /\ rt[n][j].source = f.dest)
      BY <2>1, FindFromSpec DEF Uplink
    <3>3. up = rt_table_insert(rt[n], e)
      BY <2>1 DEF UplinkStored
    <3> HIDE DEF e, up
    <3>4. FreeSlot(rt[n]) # NoSlot
      BY <1>2, <1>3, <3>2, RoomForUplink
    <3>5. FreeSlot(rt[n]) \in InUse(up) /\ up[FreeSlot(rt[n])] = e
      BY <1>2, <3>1, <3>3, <3>4, InsertType
    <3>6. /\ Keeps(rt[n], up)
          /\ \A i \in InUse(up) : (i \in InUse(rt[n]) /\ up[i] = rt[n][i]) \/ up[i] = e
      BY <1>2, <3>1, <3>3, InsertKeeps
    <3> QED BY <1>2, <1>5, <3>1, <3>5, <3>6
  <2>2. CASE u # NoSlot
    <3>1. u \in InUse(rt[n]) /\ rt[n][u].dest = Root /\ rt[n][u].source = f.dest
      BY <2>2, FindFromSpec DEF Uplink
    <3>2. up = rt_table_update(rt[n], u, d.from, f.hcnt, 0, f.seqno)
      BY <2>2 DEF UplinkStored
    <3> HIDE DEF up, u
    <3>3. /\ up[u].next = d.from /\ InUse(up) = InUse(rt[n]) /\ Keeps(rt[n], up)
          /\ \A j \in InUse(rt[n]) : j # u => up[j] = rt[n][j]
      BY <1>2, <1>3, <3>1, <3>2, UpdateOK
    <3> QED BY <1>2, <1>5, <3>1, <3>3 DEF Keeps
  <2> QED BY <2>1, <2>2
<1> HIDE DEF up
<1>7. \A t : Good(t) /\ rt' = [rt EXCEPT ![n] = t] => Routed(rt', n, f.dest)
  BY <1>1, <1>2 DEF TypeOK, Routed
<1>8. air' \subseteq air
  BY DEF Prep_process, Received
<1>9. CASE len = 0
  <2>1. rt' = [rt EXCEPT ![n] = up] /\ UNCHANGED tq
    BY <1>9 DEF Prep_process, up
  <2>2. \A m \in Node : QueueRouted(rt, m, tq'[m])
    BY <2>1 DEF ChainInv
  <2> QED BY <1>2, <1>6, <1>8, <2>1, <2>2, ChainGrows
<1>10. CASE len # 0
  <2> DEFINE Down(next) == Entry(f.dest, next, Root, d.from, len, 0, 0)
             g == Prep(f.dest, SubSeq(f.ext, 1, len - 1), f.hcnt + 1, f.seqno, f.ext[len])
  <2>1. PICK next \in DownlinkNext(f.ext) :
           rt' = [rt EXCEPT ![n] = IF rt_table_find(up, f.dest) = NoSlot
                                   THEN rt_table_insert(up, Down(next)) ELSE up]
    BY <1>10 DEF Prep_process, up
  <2>2. f.ext \in Seq(Node) /\ len \in Nat
    BY <1>2 DEF PrepFrame
  <2>3. next \in Address
    BY <1>10, <2>2 DEF DownlinkNext, Address
  <2>4. Down(next) \in Entries /\ Down(next).dest = f.dest
    BY <1>2, <1>3, <2>2, <2>3, EntryType DEF Entry
  <2> DEFINE t == IF rt_table_find(up, f.dest) = NoSlot
                  THEN rt_table_insert(up, Down(next)) ELSE up
  <2> HIDE DEF Down
  <2>5. /\ Keeps(up, t)
        /\ \A i \in InUse(t) : (i \in InUse(up) /\ t[i] = up[i]) \/ t[i] = Down(next)
    <3>1. CASE rt_table_find(up, f.dest) = NoSlot
      BY <1>4, <2>4, <3>1, InsertKeeps
    <3>2. CASE rt_table_find(up, f.dest) # NoSlot
      BY <3>2 DEF Keeps
    <3> QED BY <3>1, <3>2
  <2> HIDE DEF t
  <2>6. Good(t)
    BY <1>2, <1>6, <2>4, <2>5 DEF Keeps
  <2>7. addq(n, g) /\ g.type = "PREP" /\ g.dest = f.dest
    BY <1>10 DEF Prep_process, addqUnicast, Prep
  <2> HIDE DEF g
  <2>8. rt' = [rt EXCEPT ![n] = t] /\ Routed(rt', n, f.dest)
    BY <1>7, <2>1, <2>6 DEF t
  <2>9. PrepRouted(rt', n, g)
    BY <2>7, <2>8 DEF PrepRouted
  <2>10. tq[n] \in Seq(Frame) /\ QueueRouted(rt', n, tq[n])
    <3>1. \A s : Routed(rt, n, s) => Routed(rt', n, s)
      BY <1>2, <2>6, <2>8, RoutedGrows
    <3> QED BY <1>1, <1>2, <3>1 DEF TypeOK, ChainInv, QueueRouted, PrepRouted
  <2>11. QueueRouted(rt', n, Append(tq[n], g))
    BY <2>9, <2>10, AppendRouted
  <2>12. /\ tq'[n] = Append(tq[n], g)
         /\ \A m \in Node : m # n => tq'[m] = tq[m]
    BY <1>1, <1>2, <2>7 DEF addq, TypeOK
  <2>13. \A m \in Node : QueueRouted(rt, m, tq'[m]) \/ QueueRouted(rt', m, tq'[m])
    BY <2>11, <2>12 DEF ChainInv
  <2> QED BY <1>2, <1>8, <2>6, <2>8, <2>13, ChainGrows
<1> QED BY <1>9, <1>10

LEMMA ChainInit == Init => ChainInv
<1> SUFFICES ASSUME Init PROVE ChainInv
  OBVIOUS
<1>1. \A n \in Node : InUse(rt[n]) = {}
  BY DEF Init, EmptyTable, InUse, FreeEntry
<1> QED BY <1>1 DEF Init, ChainInv, QueueRouted

LEMMA ChainStep ==
    IInv /\ TablesOK /\ PendingReply /\ ChainInv /\ [Next]_vars => ChainInv'
<1> SUFFICES ASSUME IInv, TablesOK, PendingReply, ChainInv, [Next]_vars
             PROVE  ChainInv'
  OBVIOUS
<1>1. ASSUME NEW m \in Node, NEW n \in Node, HelloHeard(m, n)
      PROVE  ChainInv'
  BY <1>1, ChainHello
<1>2. CASE Rann_send \/ \E i \in TableSlots : Prep_send(i)
  BY <1>2, ChainOthers
<1>3. ASSUME NEW n \in Node, Transmit(n)
      PROVE  ChainInv'
  BY <1>3, ChainTransmit
<1>4. ASSUME NEW d \in air, Receive(d)
      PROVE  ChainInv'
  <2>1. CASE d.to = Root /\ Preq_process(d)
    BY <2>1, ChainPreq
  <2>2. CASE Prep_process(d.to, d)
    BY <2>2, ChainPrep
  <2>3. CASE Rann_process(d.to, d)
    BY <2>3, ChainRannProcess
  <2>4. CASE Rann_ack_process(d.to, d) \/ Preq_forward(d.to, d) \/ PrepAtRoot(d)
    BY <2>4, ChainOthers
  <2> QED BY <1>4, <2>1, <2>2, <2>3, <2>4 DEF Receive
<1>5. CASE UNCHANGED vars
  <2>1. UNCHANGED <<rt, tq, air>>
    BY <1>5 DEF vars
  <2>2. \A m \in Node : QueueRouted(rt, m, tq'[m])
    BY <2>1 DEF ChainInv
  <2> QED BY <2>1, <2>2, ChainSame
<1>6. ASSUME NEW n \in Node, alm_calculator(n)
      PROVE  ChainInv'
  BY <1>6, ChainAlm
<1> QED BY <1>1, <1>2, <1>3, <1>4, <1>5, <1>6 DEF Next

LEMMA ChainInvariant == Spec => []ChainInv
<1>1. Init /\ [][Next]_vars /\ []IInv /\ [](TablesOK /\ PendingReply) => []ChainInv
  BY ChainInit, ChainStep, PTL
<1> QED BY <1>1, Invariant, SecondInvariant, PTL DEF Spec

\* A node that sends what s originates to a next hop finds it routed there, all
\* the way to the root: Prep_process stores the route before it forwards the
\* PREP, and the table has room for it.
THEOREM UplinksChained == Spec => []UplinkChain
<1>1. TypeOK /\ ChainInv => UplinkChain
  <2> SUFFICES ASSUME TypeOK, ChainInv, NEW n \in Node, NEW i \in InUse(rt[n]),
                      rt[n][i].dest = Root, rt[n][i].next # Root
               PROVE  Uplink(rt[n][i].next, rt[n][i].source) # NoSlot
    BY DEF UplinkChain
  <2> DEFINE m == rt[n][i].next
             s == rt[n][i].source
  <2>1. PICK j \in InUse(rt[m]) : rt[m][j].dest = Root /\ rt[m][j].source = s
    BY DEF ChainInv, Routed
  <2> HIDE DEF m, s
  <2>2. Uplink(m, s) # NoSlot
    BY <2>1, FindFromSpec DEF Uplink
  <2> QED BY <2>2 DEF m, s
<1> QED BY <1>1, TypeCorrect, ChainInvariant, PTL
-----------------------------------------------------------------------------
\* The way back beside the originator.  Only Prep_process stores a route whose
\* source is the root, and it takes its hops from what is left of the PREP's way.

DownOK(n, e, A) ==
    e.source = Root /\ e.hcnt = 1 =>
        e.next = e.dest /\ (<<e.dest, n>> \in Link \/ n \in A)

DownInv == \A n \in Node \ {Root} : \A i \in InUse(rt[n]) : DownOK(n, rt[n][i], astray)

\* One table changes, in entries that are as they should be.
LEMMA DownChange ==
    ASSUME TypeOK, DownInv, NEW n \in Node, NEW t,
           rt' = [rt EXCEPT ![n] = t], astray \subseteq astray',
           n # Root => \A i \in InUse(t) :
               (i \in InUse(rt[n]) /\ t[i] = rt[n][i]) \/ DownOK(n, t[i], astray')
    PROVE  DownInv'
<1>1. rt'[n] = t /\ \A m \in Node : m # n => rt'[m] = rt[m]
  BY DEF TypeOK
<1>2. \A m, e : DownOK(m, e, astray) => DownOK(m, e, astray')
  BY DEF DownOK
<1>3. ASSUME NEW m \in Node \ {Root}, NEW i \in InUse(rt'[m])
      PROVE  DownOK(m, rt'[m][i], astray')
  <2>1. CASE m # n
    BY <1>1, <1>2, <2>1 DEF DownInv
  <2>2. CASE m = n
    BY <1>1, <1>2, <2>2 DEF DownInv
  <2> QED BY <2>1, <2>2
<1> QED BY <1>3 DEF DownInv, DownOK

LEMMA DownHello ==
    ASSUME IInv, DownInv, NEW m \in Node, NEW n \in Node, HelloHeard(m, n)
    PROVE  DownInv'
<1>1. rt' = [rt EXCEPT ![n] = rt_table_insert(@, Entry(m, m, n, NoAddr, 1, 0, 0))]
  BY DEF HelloHeard
<1> DEFINE e == Entry(m, m, n, NoAddr, 1, 0, 0)
           t == rt_table_insert(rt[n], e)
<1>2. e \in Entries /\ e.source = n
  BY EntryType DEF Address, Entry
<1>3. TypeOK /\ rt[n] \in Tables /\ rt' = [rt EXCEPT ![n] = t] /\ UNCHANGED astray
  BY <1>1 DEF IInv, TypeOK, HelloHeard
<1> HIDE DEF e
<1>4. \A i \in InUse(t) : (i \in InUse(rt[n]) /\ t[i] = rt[n][i]) \/ t[i] = e
  BY <1>2, <1>3, InsertKeeps
<1> HIDE DEF t
<1>5. n # Root => DownOK(n, e, astray')
  BY <1>2 DEF DownOK
<1> QED BY <1>3, <1>4, <1>5, DownChange

LEMMA DownAlm ==
    ASSUME IInv, DownInv, NEW n \in Node, alm_calculator(n)
    PROVE  DownInv'
<1>1. TypeOK
  BY DEF IInv
<1>2. PICK t : OnlyAlm(rt[n], t) /\ rt' = [rt EXCEPT ![n] = t]
  BY <1>1, AlmStep
<1>3. UNCHANGED astray
  BY <1>1, AlmStep
<1>4. n # Root => \A i \in InUse(t) : DownOK(n, t[i], astray')
  BY <1>2, <1>3 DEF DownInv, DownOK, OnlyAlm
<1> QED BY <1>1, <1>2, <1>3, <1>4, DownChange

\* What Prep_process may take from the list for the next hop.
LEMMA DownlinkOf ==
    ASSUME NEW ext \in Seq(Node), Len(ext) # 0, NEW next \in DownlinkNext(ext)
    PROVE  IF Len(ext) = 1 THEN next = ext[1] ELSE next \in Garbage
<1>1. Len(ext) \in Nat
  OBVIOUS
<1>2. CASE Len(ext) = 1
  BY <1>2 DEF DownlinkNext
<1>3. CASE Len(ext) # 1
  <2>1. ~ (Len(ext) + Len(ext) - 1 <= Len(ext))
    <3>1. \A l \in Nat : l # 0 /\ l # 1 => ~ (l + l - 1 <= l)
      OBVIOUS
    <3> QED BY <1>1, <1>3, <3>1
  <2> QED BY <1>3, <2>1 DEF DownlinkNext
<1> QED BY <1>2, <1>3

LEMMA DownPrep ==
    ASSUME IInv, DownInv, NEW d \in air, Prep_process(d.to, d)
    PROVE  DownInv'
<1> DEFINE n == d.to
           f == d.frame
           len == Len(f.ext)
           u == Uplink(n, f.dest)
           prev == IF len > 0 THEN f.ext[len] ELSE NoAddr
           up == UplinkStored(n, d)
           Good(t) == \A i \in InUse(t) :
                         (i \in InUse(rt[n]) /\ t[i] = rt[n][i]) \/ DownOK(n, t[i], astray')
<1>1. TypeOK /\ AirOK
  BY DEF IInv
<1>2. /\ n \in Node /\ d.from \in Node /\ rt[n] \in Tables /\ f \in PrepFrame
      /\ Root \in Node /\ f.dest # Root /\ WayBack(f.ext, f.next, f.dest)
  BY <1>1, ReceivedFrame, FrameTypes, NodeAssumption DEF Prep_process, TypeOK, SentBy
<1>3. /\ f.dest \in Node /\ d.from \in Address /\ f.hcnt \in Nat /\ f.seqno \in Nat
      /\ f.ext \in Seq(Node) /\ len \in Nat
  BY <1>2 DEF PrepFrame, Address
<1>4. astray' = IF f.next = n THEN astray ELSE astray \cup {n}
  BY DEF Prep_process
<1>5. up \in Tables
  BY <1>1, <1>2, UplinkStoredType
<1>6. Good(up)
  <2>1. CASE u = NoSlot
    <3> DEFINE e == Entry(Root, d.from, f.dest, prev, f.hcnt, 0, f.seqno)
    <3>1. e \in Entries /\ e.source = f.dest
      BY <1>1, <1>2, UplinkStoredType DEF Entry
    <3>2. up = rt_table_insert(rt[n], e)
      BY <2>1 DEF UplinkStored
    <3> HIDE DEF e, up
    <3>3. \A i \in InUse(up) : (i \in InUse(rt[n]) /\ up[i] = rt[n][i]) \/ up[i] = e
      BY <1>2, <3>1, <3>2, InsertKeeps
    <3>4. DownOK(n, e, astray')
      BY <1>2, <3>1 DEF DownOK
    <3> QED BY <3>3, <3>4
  <2>2. CASE u # NoSlot
    <3>1. u \in InUse(rt[n]) /\ rt[n][u].source = f.dest
      BY <2>2, FindFromSpec DEF Uplink
    <3>2. up = rt_table_update(rt[n], u, d.from, f.hcnt, 0, f.seqno)
      BY <2>2 DEF UplinkStored
    <3> HIDE DEF up, u
    <3>3. /\ up[u].source = f.dest /\ InUse(up) = InUse(rt[n])
          /\ \A j \in InUse(rt[n]) : j # u => up[j] = rt[n][j]
      <4> DEFINE g == d.from  h == f.hcnt  s == f.seqno  t == rt[n]
      <4>1. /\ g \in Address /\ h \in Nat /\ s \in Nat /\ 0 \in Nat /\ t \in Tables
            /\ u \in InUse(t) /\ up = rt_table_update(t, u, g, h, 0, s)
            /\ t[u].source = f.dest
        BY <1>2, <1>3, <3>1, <3>2
      <4> HIDE DEF g, h, s, t
      <4>2. /\ InUse(up) = InUse(t) /\ up[u].source = t[u].source
            /\ \A j \in TableSlots : j # u => up[j] = t[j]
        <5>1. LET w == rt_table_update(t, u, g, h, 0, s)
              IN  /\ InUse(w) = InUse(t)
                  /\ \A j \in InUse(t) : w[j].source = t[j].source
                  /\ \A j \in TableSlots : j # u => w[j] = t[j]
          BY <4>1, UpdateType
        <5> QED BY <4>1, <5>1
      <4> QED BY <4>1, <4>2 DEF t, InUse
    <3>4. DownOK(n, up[u], astray')
      BY <1>2, <3>3 DEF DownOK
    <3> QED BY <3>3, <3>4
  <2> QED BY <2>1, <2>2
<1> HIDE DEF up
<1>7. CASE len = 0
  <2>1. rt' = [rt EXCEPT ![n] = up]
    BY <1>7 DEF Prep_process, up
  <2> QED BY <1>1, <1>2, <1>4, <1>6, <2>1, DownChange
<1>8. CASE len # 0
  <2> DEFINE Down(next) == Entry(f.dest, next, Root, d.from, len, 0, 0)
  <2>1. PICK next \in DownlinkNext(f.ext) :
           rt' = [rt EXCEPT ![n] = IF rt_table_find(up, f.dest) = NoSlot
                                   THEN rt_table_insert(up, Down(next)) ELSE up]
    BY <1>8 DEF Prep_process, up
  <2> DEFINE t == IF rt_table_find(up, f.dest) = NoSlot
                  THEN rt_table_insert(up, Down(next)) ELSE up
  <2>2. f.ext[1] = f.dest /\ <<f.ext[len], f.next>> \in Link
    <3> DEFINE ext == f.ext  left == f.next
    <3>1. ext \in Seq(Node) /\ len \in Nat /\ len = Len(ext) /\ len > 0
          /\ WayBack(ext, left, f.dest)
      BY <1>2, <1>3, <1>8
    <3> HIDE DEF ext, left, len
    <3>2. ext[1] = f.dest /\ <<ext[len], left>> \in Link
      BY <3>1, FrontWay
    <3> QED BY <3>2 DEF ext, left
  <2>3. IF len = 1 THEN next = f.ext[1] ELSE next \in Garbage
    BY <1>3, <1>8, <2>1, DownlinkOf
  <2>4. next \in Address
    BY <1>3, <2>3, <1>8 DEF Address
  <2>5. /\ Down(next) \in Entries /\ Down(next).dest = f.dest
        /\ Down(next).next = next /\ Down(next).hcnt = len
    BY <1>2, <1>3, <2>4, EntryType DEF Entry
  <2> HIDE DEF Down
  <2>6. DownOK(n, Down(next), astray')
    BY <1>4, <2>2, <2>3, <2>5 DEF DownOK
  <2>7. \A i \in InUse(t) : (i \in InUse(up) /\ t[i] = up[i]) \/ t[i] = Down(next)
    <3>1. CASE rt_table_find(up, f.dest) = NoSlot
      BY <1>5, <2>5, <3>1, InsertKeeps
    <3>2. CASE rt_table_find(up, f.dest) # NoSlot
      BY <3>2
    <3> QED BY <3>1, <3>2
  <2>8. Good(t)
    BY <1>6, <2>6, <2>7
  <2>9. rt' = [rt EXCEPT ![n] = t]
    BY <2>1
  <2> HIDE DEF t
  <2> QED BY <1>1, <1>2, <1>4, <2>8, <2>9, DownChange
<1> QED BY <1>7, <1>8

LEMMA DownInit == Init => DownInv
<1> SUFFICES ASSUME Init PROVE DownInv
  OBVIOUS
<1>1. \A n \in Node : InUse(rt[n]) = {}
  BY DEF Init, EmptyTable, InUse, FreeEntry
<1> QED BY <1>1 DEF DownInv

LEMMA DownStep ==
    IInv /\ DownInv /\ [Next]_vars => DownInv'
<1> SUFFICES ASSUME IInv, DownInv, [Next]_vars
             PROVE  DownInv'
  OBVIOUS
<1>1. ASSUME NEW m \in Node, NEW n \in Node, HelloHeard(m, n)
      PROVE  DownInv'
  BY <1>1, DownHello
<1>2. ASSUME NEW d \in air, Receive(d)
      PROVE  DownInv'
  <2>1. CASE d.to = Root /\ Preq_process(d)
    <3>1. TypeOK /\ UNCHANGED astray /\ Root \in Node
      BY <2>1, NodeAssumption DEF IInv, Preq_process
    <3>2. UNCHANGED rt \/ \E t : rt' = [rt EXCEPT ![Root] = t]
      BY <2>1 DEF Preq_process
    <3>3. CASE UNCHANGED rt
      BY <3>1, <3>3 DEF DownInv, DownOK
    <3>4. ASSUME NEW t, rt' = [rt EXCEPT ![Root] = t] PROVE DownInv'
      BY <3>1, <3>4, DownChange
    <3> QED BY <3>2, <3>3, <3>4
  <2>2. CASE Prep_process(d.to, d)
    BY <2>2, DownPrep
  <2>3. CASE \/ Rann_process(d.to, d) \/ Rann_ack_process(d.to, d)
             \/ Preq_forward(d.to, d) \/ PrepAtRoot(d)
    <3>1. UNCHANGED <<rt, astray>>
      BY <2>3 DEF Rann_process, Rann_ack_process, Preq_forward, PrepAtRoot
    <3> QED BY <3>1 DEF DownInv, DownOK
  <2> QED BY <1>2, <2>1, <2>2, <2>3 DEF Receive
<1>3. CASE \/ Rann_send \/ (\E n \in Node : Transmit(n))
           \/ (\E i \in TableSlots : Prep_send(i)) \/ UNCHANGED vars
  <2>1. UNCHANGED <<rt, astray>>
    BY <1>3 DEF Rann_send, Transmit, Prep_send, vars
  <2> QED BY <2>1 DEF DownInv, DownOK
<1>4. ASSUME NEW n \in Node, alm_calculator(n)
      PROVE  DownInv'
  BY <1>4, DownAlm
<1> QED BY <1>1, <1>2, <1>3, <1>4 DEF Next

\* The route back that a PREP leaves one hop before the originator goes to the
\* originator, over a link the PREQ came by, unless the PREP reached a node it
\* was not queued for, in every mesh and whatever lies behind the frames received
\* (Prep_process, aodv.c:2188-2216).  Of the routes farther back it says nothing:
\* their next hop is read behind the list, see RouteToSender.
THEOREM DownlinksToNeighbors == Spec => []DownlinkToNeighbor
<1>1. Init /\ [][Next]_vars /\ []IInv => []DownInv
  BY DownInit, DownStep, PTL
<1>2. DownInv => DownlinkToNeighbor
  BY DEF DownInv, DownOK, DownlinkToNeighbor
<1> QED BY <1>1, <1>2, Invariant, PTL DEF Spec
=============================================================================
