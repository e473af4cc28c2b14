---------------------------- MODULE NmsTableProofs ----------------------------
(* The root's NMS table, for every mac_list, every topology and every set of  *)
(* channels: a change of the channel empties it, it is the map Topology       *)
(* promises until a device takes the root's row, and the paths on display     *)
(* lead over links on display.                                                *)
(*                                                                            *)
(* The first argument follows the root's row: no function of the table moves  *)
(* it or gives it another channel, but the three that the history variables   *)
(* taken and foreign record.  The second follows every row: TableInv says     *)
(* where a row is and what is in it, Grown what a frame adds to a table.      *)
EXTENDS NmsTable, FiniteSetTheorems, WellFoundedInduction, TLAPS

\* A table: a row for every place, with the five fields.  (What the lists of a row
\* hold matters from TableInv on.)
IsTable(t) ==
    /\ DOMAIN t = Row /\ t = [i \in Row |-> t[i]]
    /\ \A i \in Row :
          t[i] = [addr |-> t[i].addr, state |-> t[i].state, ch |-> t[i].ch,
                  nbr |-> t[i].nbr, up |-> t[i].up]

\* u is a table that came from t without giving a row to the root.
Follows(u, t) ==
    /\ IsTable(u)
    /\ \A i \in Row : u[i].addr = Root => t[i].addr = Root /\ u[i].ch = t[i].ch

\* A table follows itself.
LEMMA FollowsSelf == ASSUME NEW t, IsTable(t) PROVE Follows(t, t)
  BY DEF Follows

\* What follows a follower follows.
LEMMA FollowsFrom ==
    ASSUME NEW t, NEW u, NEW v, Follows(u, t), Follows(v, u)
    PROVE  Follows(v, t)
  BY DEF Follows

\* The home of a known device is a row, and its own.
LEMMA HomeSpec ==
    ASSUME NEW a \in Known
    PROVE  /\ Home(a) \in 0 .. Len(MacList) - 1 /\ MacList[Home(a) + 1] = a
           /\ Home(a) \in Row
<1>1. \E k \in 1 .. Len(MacList) : MacList[k] = a
  BY DEF Known
<1>2. (CHOOSE k \in 1 .. Len(MacList) : MacList[k] = a) \in 1 .. Len(MacList)
      /\ MacList[CHOOSE k \in 1 .. Len(MacList) : MacList[k] = a] = a
  BY <1>1
<1>3. Len(MacList) \in Nat
  BY MacAssumption
<1> DEFINE h == CHOOSE k \in 1 .. Len(MacList) : MacList[k] = a
<1>4. Home(a) = h - 1
  BY DEF Home
<1> HIDE DEF h
<1>5. h \in 1 .. Len(MacList) /\ MacList[h] = a
  BY <1>2 DEF h
<1>6. (h - 1) + 1 = h
  BY <1>3, <1>5
<1> QED BY <1>3, <1>4, <1>5, <1>6 DEF Row

\* A set of indices that is not empty has a first.
LEMMA FirstOf ==
    ASSUME NEW S \in SUBSET Nat, S # {}
    PROVE  \E i \in S : \A j \in S : i <= j
<1> DEFINE R == {p \in Nat \X Nat : p[1] < p[2]}
<1>1. IsWellFoundedOn(R, Nat)
  BY NatLessThanWellFounded DEF OpToRel
<1>2. PICK i \in S : \A j \in S : ~ (<<j, i>> \in R)
  <2> HIDE DEF R
  <2> QED  BY <1>1, WFMin
<1>3. \A j \in S : ~(j < i)
  BY <1>2
<1> QED  BY <1>3

\* A row that is found is a row of the device.
LEMMA RowFound ==
    ASSUME NEW t, NEW a, nms_table_find(t, a) # {}
    PROVE  RowOf(t, a) \in nms_table_find(t, a)
<1>1. nms_table_find(t, a) \in SUBSET Nat
  BY MacAssumption DEF nms_table_find, Row
<1>2. \E i \in nms_table_find(t, a) : \A j \in nms_table_find(t, a) : i <= j
  BY <1>1, FirstOf
<1> QED
  BY <1>2 DEF RowOf

\* nms_table_insert makes a table.
LEMMA InsertTable ==
    ASSUME NEW t, IsTable(t), NEW a, NEW b, NEW ch, NEW hello
    PROVE  IsTable(nms_table_insert(t, a, b, ch, hello))
<1>1. CASE a \notin Known \/ nms_table_find(t, Zero) = {}
  BY <1>1 DEF nms_table_insert
<1>2. CASE ~(a \notin Known \/ nms_table_find(t, Zero) = {})
  <2>1. Home(a) \in Row
    BY <1>2, HomeSpec
  <2> QED
    BY <1>2, <2>1 DEF nms_table_insert, IsTable
<1> QED
  BY <1>1, <1>2

\* nms_table_update makes a table with the same addresses, and changes the channel
\* of the row it finds.
LEMMA UpdateTable ==
    ASSUME NEW t, IsTable(t), NEW a, nms_table_find(t, a) # {}, NEW b, NEW ch, NEW hello
    PROVE  /\ IsTable(nms_table_update(t, a, b, ch, hello))
           /\ \A i \in Row :
                 /\ nms_table_update(t, a, b, ch, hello)[i].addr = t[i].addr
                 /\ nms_table_update(t, a, b, ch, hello)[i].ch
                        = IF i = RowOf(t, a) THEN ch ELSE t[i].ch
<1> DEFINE j == RowOf(t, a)
           r == [addr |-> t[j].addr, state |-> 1, ch |-> ch,
                 nbr |-> WithNeighbor(t[j].nbr, b),
                 up |-> IF hello THEN OwnPath(t[j].up, a) ELSE t[j].up]
<1>1. j \in Row
  BY RowFound DEF nms_table_find
<1>2. nms_table_update(t, a, b, ch, hello) = [t EXCEPT ![j] = r]
  BY DEF nms_table_update
<1>3. /\ r = [addr |-> r.addr, state |-> r.state, ch |-> r.ch, nbr |-> r.nbr, up |-> r.up]
      /\ r.addr = t[j].addr /\ r.ch = ch
  OBVIOUS
<1> HIDE DEF r, j
<1> QED
  BY <1>1, <1>2, <1>3 DEF IsTable, j

\* For another device than the root, the tables they make follow.
LEMMA InsertFollows ==
    ASSUME NEW t, IsTable(t), NEW a, a # Root, NEW b, NEW ch, NEW hello
    PROVE  Follows(nms_table_insert(t, a, b, ch, hello), t)
<1>1. CASE a \notin Known \/ nms_table_find(t, Zero) = {}
  BY <1>1, FollowsSelf DEF nms_table_insert
<1>2. CASE ~(a \notin Known \/ nms_table_find(t, Zero) = {})
  <2>1. Home(a) \in Row
    BY <1>2, HomeSpec
  <2>2. IsTable(nms_table_insert(t, a, b, ch, hello))
    BY InsertTable
  <2> QED
    BY <1>2, <2>1, <2>2 DEF nms_table_insert, Follows, IsTable
<1> QED
  BY <1>1, <1>2

LEMMA UpdateFollows ==
    ASSUME NEW t, IsTable(t), NEW a, a # Root, nms_table_find(t, a) # {},
           NEW b, NEW ch, NEW hello
    PROVE  Follows(nms_table_update(t, a, b, ch, hello), t)
<1>1. RowOf(t, a) \in Row /\ t[RowOf(t, a)].addr = a
  BY RowFound DEF nms_table_find
<1> QED
  BY <1>1, UpdateTable DEF Follows

LEMMA NoteFollows ==
    ASSUME NEW t, IsTable(t), NEW a, a # Root, NEW b, NEW ch, NEW hello
    PROVE  Follows(Note(t, a, b, ch, hello), t)
  BY InsertFollows, UpdateFollows DEF Note

\* The path of a PREQ holds no root, so that noting its links follows.
LEMMA PairFollows ==
    ASSUME NEW t, IsTable(t), NEW p \in Path, NEW k \in 1 .. 3
    PROVE  Follows(PairNoted(t, p, k), t)
<1>1. CASE k >= Len(p)
  BY <1>1, FollowsSelf DEF PairNoted
<1>2. CASE ~(k >= Len(p))
  <2>1. p \in Seq(Node) /\ Len(p) \in Nat /\ Root \notin Node
    BY PathAssumption
  <2>2. p[k] # Root /\ p[k + 1] # Root
    BY <1>2, <2>1
  <2> DEFINE u == Note(t, p[k], p[k + 1], Displayed, FALSE)
  <2>3. Follows(u, t)
    BY <2>2, NoteFollows
  <2>4. IsTable(u)
    BY <2>3 DEF Follows
  <2> HIDE DEF u
  <2>5. Follows(Note(u, p[k + 1], p[k], Displayed, FALSE), u)
    BY <2>2, <2>4, NoteFollows
  <2> USE DEF u
  <2>6. PairNoted(t, p, k) = Note(u, p[k + 1], p[k], Displayed, FALSE)
    BY <1>2 DEF PairNoted
  <2> HIDE DEF u
  <2> QED
    BY <2>3, <2>5, <2>6, FollowsFrom
<1> QED
  BY <1>1, <1>2

LEMMA PathFollows ==
    ASSUME IsTable(nms), NEW p \in Path
    PROVE  Follows(PathNoted(p), nms)
<1> DEFINE s == IF Len(p) = 1 /\ nms_table_find(nms, p[1]) = {}
                THEN nms_table_insert(nms, p[1], Root, Displayed, FALSE) ELSE nms
           u == PairNoted(s, p, 1)
           v == PairNoted(u, p, 2)
<1>1. p[1] # Root
  BY PathAssumption
<1>2. Follows(s, nms)
  BY <1>1, InsertFollows, FollowsSelf
<1>3. IsTable(s)
  BY <1>2 DEF Follows
<1> HIDE DEF s
<1>4. Follows(u, nms)
  BY <1>2, <1>3, PairFollows, FollowsFrom
<1>5. IsTable(u)
  BY <1>4 DEF Follows
<1> HIDE DEF u
<1>6. Follows(v, nms)
  BY <1>4, <1>5, PairFollows, FollowsFrom
<1>7. IsTable(v)
  BY <1>6 DEF Follows
<1> HIDE DEF v
<1>8. Follows(PairNoted(v, p, 3), nms)
  BY <1>6, <1>7, PairFollows, FollowsFrom
<1> QED
  BY <1>8 DEF PathNoted, s, u, v

\* A death leaves the addresses and the channels.
LEMMA DeathFollows ==
    ASSUME NEW t, IsTable(t), NEW d
    PROVE  /\ Follows(nms_table_perr_update(t, d), t)
           /\ \A i \in Row : nms_table_perr_update(t, d)[i].addr = t[i].addr
<1> DEFINE own(i) == nms_table_find(t, d) # {} /\ i = RowOf(t, d)
           u == nms_table_perr_update(t, d)
<1>1. DOMAIN u = Row /\ u = [i \in Row |-> u[i]]
  BY DEF nms_table_perr_update
<1>2. ASSUME NEW i \in Row
      PROVE  /\ u[i] = [addr |-> u[i].addr, state |-> u[i].state, ch |-> u[i].ch,
                        nbr |-> u[i].nbr, up |-> u[i].up]
             /\ u[i].addr = t[i].addr /\ u[i].ch = t[i].ch
  <2>1. CASE own(i)
    <3>1. u[i] = [t[i] EXCEPT !.state = 0, !.nbr = << >>, !.up = << >>]
      BY <2>1 DEF nms_table_perr_update
    <3> QED
      BY <3>1 DEF IsTable
  <2>2. CASE ~own(i)
    <3>1. u[i] = [t[i] EXCEPT !.nbr = Without(@, d),
                              !.up = IF d \in Elems(@) THEN << >> ELSE @]
      BY <2>2 DEF nms_table_perr_update
    <3> QED
      BY <3>1 DEF IsTable
  <2> QED
    BY <2>1, <2>2
<1> HIDE DEF u
<1> QED
  BY <1>1, <1>2 DEF Follows, IsTable, u
-----------------------------------------------------------------------------
\* The root's row is row 0 until another device takes it, and shows the root's
\* channel until a Hello announces another one.
RootRow ==
    /\ IsTable(nms) /\ taken \in BOOLEAN /\ foreign \in BOOLEAN
    /\ ~taken => /\ nms_table_find(nms, Root) = {0}
                 /\ ~foreign => nms[0].ch = receiving_channel

\* The table the reset leaves.
LEMMA EmptyTableRoot ==
    ASSUME NEW ch
    PROVE  /\ IsTable(EmptyTable(ch))
           /\ nms_table_find(EmptyTable(ch), Root) = {0}
           /\ EmptyTable(ch)[0].ch = ch
<1>1. 0 \in Row /\ Root # Zero
  BY MacAssumption DEF Row
<1> QED
  BY <1>1 DEF EmptyTable, IsTable, nms_table_find, Blank

\* A handler that writes a table which follows keeps RootRow.
LEMMA WriteKeeps ==
    ASSUME RootRow, NEW t, Follows(t, nms), Write(t),
           UNCHANGED <<receiving_channel, foreign>>
    PROVE  RootRow'
<1>1. 0 \in Row
  BY MacAssumption DEF Row
<1>2. nms_table_find(t, Root) \subseteq nms_table_find(nms, Root)
  BY DEF Follows, nms_table_find
<1> QED
  BY <1>1, <1>2 DEF RootRow, Write, Follows, nms_table_find

\* Hello_process notes the neighbour in the root's own row first, and the root in
\* the neighbour's row after it.
LEMMA HelloKeeps ==
    ASSUME RootRow, NEW n \in Neighbor, Hello_process(n)
    PROVE  RootRow'
<1>1. PICK ch \in Channel :
          /\ Write(Note(Note(nms, Root, n, ch, FALSE), n, Root, Displayed, TRUE))
          /\ foreign' = (foreign \/ ch # receiving_channel)
          /\ UNCHANGED receiving_channel
  BY DEF Hello_process
<1> DEFINE u == Note(nms, Root, n, ch, FALSE)
           v == Note(u, n, Root, Displayed, TRUE)
<1>2. n # Root
  BY PathAssumption DEF Node
<1>3. CASE taken
  <2>1. IsTable(u)
    BY InsertTable, UpdateTable DEF Note, RootRow
  <2> HIDE DEF u
  <2>2. Follows(v, u)
    BY <1>2, <2>1, NoteFollows
  <2> QED
    BY <1>1, <1>3, <2>2 DEF RootRow, Write, Follows, u
<1>4. CASE ~taken
  <2>1. nms_table_find(nms, Root) = {0}
    BY <1>4 DEF RootRow
  <2>2. RowOf(nms, Root) = 0
    BY <2>1, RowFound
  <2>3. u = nms_table_update(nms, Root, n, ch, FALSE)
    BY <2>1 DEF Note
  <2> HIDE DEF u
  <2>4. 0 \in Row /\ nms[0].addr = Root
    BY <2>1 DEF nms_table_find
  <2>5. /\ IsTable(u)
        /\ u[0].ch = ch /\ \A i \in Row : u[i].addr = nms[i].addr
    <3>1. IsTable(nms) /\ nms_table_find(nms, Root) # {}
      BY <2>1 DEF RootRow
    <3>2. /\ IsTable(nms_table_update(nms, Root, n, ch, FALSE))
          /\ \A i \in Row :
                /\ nms_table_update(nms, Root, n, ch, FALSE)[i].addr = nms[i].addr
                /\ nms_table_update(nms, Root, n, ch, FALSE)[i].ch
                       = IF i = RowOf(nms, Root) THEN ch ELSE nms[i].ch
      <4> DEFINE w(h) == nms_table_update(nms, Root, n, ch, h)
      <4>1. \A h : /\ IsTable(w(h))
                   /\ \A i \in Row :
                         /\ w(h)[i].addr = nms[i].addr
                         /\ w(h)[i].ch = IF i = RowOf(nms, Root) THEN ch ELSE nms[i].ch
        BY <3>1, UpdateTable
      <4> QED
        BY <4>1
    <3> QED
      BY <2>2, <2>3, <2>4, <3>2
  <2>6. Follows(v, u)
    BY <1>2, <2>5, NoteFollows
  <2>7. nms_table_find(v, Root) \subseteq {0}
    BY <2>1, <2>5, <2>6 DEF Follows, nms_table_find
  <2>8. nms' = v /\ taken' = (taken \/ nms_table_find(v, Root) = {})
    BY <1>1 DEF Write, u
  <2> HIDE DEF v
  <2>9. nms_table_find(v, Root) = {0} => v[0].ch = ch
    BY <2>4, <2>5, <2>6 DEF Follows, nms_table_find
  <2> QED
    BY <1>1, <1>4, <2>6, <2>7, <2>8, <2>9 DEF RootRow, Follows
<1> QED
  BY <1>3, <1>4

\* Prep_send writes a path, or the row of the device that asked.
LEMMA ReplyFollows ==
    ASSUME IsTable(nms), NEW n \in Node, NEW p
    PROVE  Follows(IF nms_table_find(nms, n) = {}
                   THEN nms_table_insert(nms, n, n, Displayed, FALSE)
                   ELSE [nms EXCEPT ![RowOf(nms, n)].up = uplink_insert(@, p)], nms)
<1>1. n # Root
  BY PathAssumption
<1>2. CASE nms_table_find(nms, n) = {}
  BY <1>1, <1>2, InsertFollows
<1>3. CASE nms_table_find(nms, n) # {}
  <2> DEFINE j == RowOf(nms, n)
             u == [nms EXCEPT ![j].up = uplink_insert(@, p)]
  <2>1. j \in Row
    BY <1>3, RowFound DEF nms_table_find
  <2>2. u[j] = [nms[j] EXCEPT !.up = uplink_insert(@, p)]
    BY <2>1 DEF IsTable
  <2>3. \A i \in Row : i # j => u[i] = nms[i]
    BY DEF IsTable
  <2>4. /\ u[j] = [addr |-> u[j].addr, state |-> u[j].state, ch |-> u[j].ch,
                   nbr |-> u[j].nbr, up |-> u[j].up]
        /\ u[j].addr = nms[j].addr /\ u[j].ch = nms[j].ch
    BY <2>1, <2>2 DEF IsTable
  <2>5. DOMAIN u = Row /\ u = [i \in Row |-> u[i]]
    BY DEF IsTable
  <2> HIDE DEF u, j
  <2>6. Follows(u, nms)
    BY <2>1, <2>3, <2>4, <2>5 DEF Follows, IsTable
  <2> QED
    BY <1>3, <2>6 DEF u, j
<1> QED
  BY <1>2, <1>3

\* Every behaviour keeps RootRow.
LEMMA RootRowInvariant == Spec => []RootRow
<1>1. Init => RootRow
  BY EmptyTableRoot DEF Init, RootRow
<1>2. RootRow /\ [Next]_vars => RootRow'
  <2> SUFFICES ASSUME RootRow, [Next]_vars PROVE RootRow'
    OBVIOUS
  <2>1. ASSUME NEW n \in Neighbor, Hello_process(n) PROVE RootRow'
    BY <2>1, HelloKeeps
  <2>2. CASE Hello_send
    <3> DEFINE u == nms_table_insert(nms, Root, Zero, receiving_channel, FALSE)
    <3>1. taken
      BY <2>2 DEF Hello_send, RootRow
    <3>2. IsTable(u)
      <4>1. Home(Root) \in Row
        BY HomeSpec, MacAssumption
      <4> QED
        BY <4>1 DEF nms_table_insert, RootRow, IsTable
    <3> QED
      BY <2>2, <3>1, <3>2 DEF Hello_send, Write, RootRow
  <2>3. ASSUME NEW p \in Path, Preq_process(p) PROVE RootRow'
    BY <2>3, PathFollows, WriteKeeps DEF Preq_process, RootRow
  <2>4. ASSUME NEW n \in Node, Prep_send(n) PROVE RootRow'
    BY <2>4, ReplyFollows, WriteKeeps DEF Prep_send, RootRow
  <2>5. ASSUME NEW d \in Node, Death(d) PROVE RootRow'
    BY <2>5, DeathFollows, WriteKeeps DEF Death, RootRow
  <2>6. ASSUME NEW ch, Cleared(ch), receiving_channel' = ch PROVE RootRow'
    BY <2>6, EmptyTableRoot DEF Cleared, RootRow
  <2>7. CASE rt_NMS_reset
    BY <2>6, <2>7 DEF rt_NMS_reset
  <2>8. ASSUME NEW ch \in Channel, ChangeChannel(ch) PROVE RootRow'
    <3>1. CASE nms_table_find(nms, Root) # {} /\ nms[RowOf(nms, Root)].ch # ch
      BY <2>6, <2>8, <3>1 DEF ChangeChannel
    <3>2. CASE ~(nms_table_find(nms, Root) # {} /\ nms[RowOf(nms, Root)].ch # ch)
      <4>1. taken \/ foreign
        <5> SUFFICES ASSUME ~taken, ~foreign PROVE FALSE
          BY DEF RootRow
        <5>1. nms_table_find(nms, Root) = {0} /\ nms[0].ch = receiving_channel
          BY DEF RootRow
        <5>2. RowOf(nms, Root) = 0
          BY <5>1, RowFound
        <5> QED
          BY <2>8, <3>2, <5>1, <5>2 DEF ChangeChannel
      <4>2. /\ UNCHANGED <<nms, taken, foreign>>
            /\ receiving_channel' = ch
        BY <2>8, <3>2 DEF ChangeChannel
      <4> QED
        BY <4>1, <4>2 DEF RootRow
    <3> QED
      BY <3>1, <3>2
  <2>9. CASE UNCHANGED vars
    BY <2>9 DEF vars, RootRow
  <2> QED
    BY <2>1, <2>2, <2>3, <2>4, <2>5, <2>7, <2>8, <2>9 DEF Next
<1> QED
  BY <1>1, <1>2, PTL DEF Spec

\* Every step of every behaviour satisfies ChannelChangeEmpties: a command that
\* changes the channel empties the table, unless the root's row was taken or
\* shows a neighbour's channel.
THEOREM ChangeEmpties == Spec => ChannelChangeEmpties
<1> DEFINE Empties ==
        receiving_channel' # receiving_channel /\ ~taken /\ ~foreign
          => nms' = EmptyTable(receiving_channel')
<1>1. RootRow /\ [Next]_vars => [Empties]_vars
  <2> SUFFICES ASSUME RootRow, Next, receiving_channel' # receiving_channel,
                      ~taken, ~foreign
               PROVE  nms' = EmptyTable(receiving_channel')
    BY DEF vars
  <2>1. PICK ch \in Channel : ChangeChannel(ch)
    BY DEF Next, Hello_process, Hello_send, Preq_process, Prep_send, Death, rt_NMS_reset
  <2>2. nms_table_find(nms, Root) = {0} /\ nms[0].ch = receiving_channel
    BY DEF RootRow
  <2>3. RowOf(nms, Root) = 0
    BY <2>2, RowFound
  <2> QED
    BY <2>1, <2>2, <2>3 DEF ChangeChannel, Cleared
<1> QED
  BY <1>1, RootRowInvariant, PTL DEF Spec, ChannelChangeEmpties
-----------------------------------------------------------------------------
\* The functions on the lists of a row.

\* Nth numbers the members of a finite set from the smallest on.
LEMMA UpToCounts ==
    ASSUME NEW K \in SUBSET Nat, IsFiniteSet(K), NEW i \in K
    PROVE  IsFiniteSet(UpTo(K, i)) /\ Cardinality(UpTo(K, i)) \in 1 .. Cardinality(K)
<1>1. UpTo(K, i) \subseteq K /\ i \in UpTo(K, i)
  BY DEF UpTo
<1>2. /\ IsFiniteSet(UpTo(K, i)) /\ Cardinality(UpTo(K, i)) \in Nat
      /\ Cardinality(UpTo(K, i)) <= Cardinality(K) /\ Cardinality(K) \in Nat
  BY <1>1, FS_Subset, FS_CardinalityType
<1>3. Cardinality(UpTo(K, i)) # 0
  BY <1>1, <1>2, FS_EmptySet
<1> QED BY <1>2, <1>3

\* A larger member has more members up to it.
LEMMA UpToGrows ==
    ASSUME NEW K \in SUBSET Nat, IsFiniteSet(K), NEW i \in K, NEW j \in K, i < j
    PROVE  Cardinality(UpTo(K, i)) < Cardinality(UpTo(K, j))
<1>0. i \in Int /\ j \in Int /\ \A n \in K : n \in Int
  OBVIOUS
<1>1. UpTo(K, i) \subseteq UpTo(K, j) /\ j \in UpTo(K, j) /\ j \notin UpTo(K, i)
  <2>1. \A n \in K : n <= i => n <= j
    BY <1>0
  <2>2. j <= j /\ ~ (j <= i)
    BY <1>0
  <2> QED BY <2>1, <2>2, Zenon DEF UpTo
<1>2. /\ IsFiniteSet(UpTo(K, j)) /\ Cardinality(UpTo(K, i)) \in Nat
      /\ Cardinality(UpTo(K, j)) \in Nat
  BY UpToCounts, FS_CardinalityType
<1>3. /\ Cardinality(UpTo(K, i)) <= Cardinality(UpTo(K, j))
      /\ Cardinality(UpTo(K, i)) # Cardinality(UpTo(K, j))
  BY <1>1, <1>2, FS_Subset
<1> QED BY <1>2, <1>3

\* Nth runs through the set, upwards.
LEMMA NthSpec ==
    ASSUME NEW K \in SUBSET Nat, IsFiniteSet(K)
    PROVE  /\ \A k \in 1 .. Cardinality(K) : Nth(K, k) \in K
           /\ \A k, l \in 1 .. Cardinality(K) : k < l => Nth(K, k) < Nth(K, l)
           /\ \A i \in K : \E k \in 1 .. Cardinality(K) : Nth(K, k) = i
<1> DEFINE c == Cardinality(K)
           rank == [i \in K |-> Cardinality(UpTo(K, i))]
<1>1. c \in Nat /\ IsFiniteSet(1 .. c) /\ Cardinality(1 .. c) = c
  BY FS_CardinalityType, FS_Interval
<1>2. \A i \in K : i \in Nat /\ rank[i] \in 1 .. c /\ rank[i] = Cardinality(UpTo(K, i))
  BY UpToCounts
<1>3. \A i, j \in K : i < j => rank[i] < rank[j]
  BY UpToGrows
<1>4. rank \in [K -> 1 .. c]
  BY <1>2
<1> HIDE DEF rank, c
<1>5. rank \in Surjection(K, 1 .. c)
  <2>1. \A i, j \in K : rank[i] = rank[j] => i = j
    BY <1>1, <1>2, <1>3
  <2>2. rank \in Injection(K, 1 .. c)
    BY <1>4, <2>1 DEF Injection, IsInjective
  <2> QED BY <1>1, <2>2, FS_Injection DEF c
<1>6. \A k \in 1 .. c : Nth(K, k) \in K /\ rank[Nth(K, k)] = k
  <2>1. \A k \in 1 .. c : \E i \in K : Cardinality(UpTo(K, i)) = k
    BY <1>2, <1>5 DEF Surjection
  <2> QED BY <1>2, <2>1 DEF Nth
<1>7. \A i, j \in K : i < j \/ j < i \/ i = j
  BY <1>2
<1>8. ASSUME NEW k \in 1 .. c, NEW l \in 1 .. c, k < l
      PROVE  Nth(K, k) < Nth(K, l)
  <2>1. Nth(K, k) \in K /\ Nth(K, l) \in K /\ rank[Nth(K, k)] < rank[Nth(K, l)]
    BY <1>6, <1>8
  <2>2. ~ (rank[Nth(K, l)] < rank[Nth(K, k)]) /\ Nth(K, k) # Nth(K, l)
    BY <1>1, <1>6, <1>8
  <2> QED BY <1>3, <1>7, <2>1, <2>2
<1>9. ASSUME NEW i \in K
      PROVE  rank[i] \in 1 .. c /\ Nth(K, rank[i]) = i
  <2>1. Nth(K, rank[i]) \in K /\ rank[Nth(K, rank[i])] = rank[i] /\ rank[i] \in Int
    BY <1>1, <1>2, <1>6
  <2>2. ~ (rank[Nth(K, rank[i])] < rank[i]) /\ ~ (rank[i] < rank[Nth(K, rank[i])])
    BY <2>1
  <2> QED BY <1>2, <1>3, <1>7, <2>1, <2>2
<1> QED BY <1>6, <1>8, <1>9 DEF c

\* A list with no member twice.
Once(s) == \A j, k \in 1 .. Len(s) : s[j] = s[k] => j = k

\* A list loses nothing but d, and if it holds d once, it loses d.
LEMMA WithoutSpec ==
    ASSUME NEW S, NEW s \in Seq(S), NEW d
    PROVE  /\ Without(s, d) \in Seq(S)
           /\ Elems(Without(s, d)) \subseteq Elems(s)
           /\ Elems(s) \ {d} \subseteq Elems(Without(s, d))
           /\ Once(s) => Once(Without(s, d)) /\ d \notin Elems(Without(s, d))
<1> DEFINE K == 1 .. Len(s) \ Deleted(s, d)
           c == Cardinality(K)
           w == [k \in 1 .. c |-> s[Nth(K, k)]]
<1>1. K \in SUBSET Nat /\ IsFiniteSet(K) /\ c \in Nat
  <2>1. IsFiniteSet(1 .. Len(s)) /\ 1 .. Len(s) \subseteq Nat
    BY FS_Interval
  <2>2. K \subseteq 1 .. Len(s)
    OBVIOUS
  <2> HIDE DEF K
  <2> QED BY <2>1, <2>2, FS_Subset, FS_CardinalityType
<1>2. Without(s, d) = w
  BY DEF Without
<1>3. /\ \A k \in K : k \in 1 .. Len(s)
      /\ \A k \in 1 .. Len(s) : s[k] # d => k \in K
  BY DEF Deleted
<1>4. ASSUME Once(s), NEW k \in K PROVE s[k] # d
  <2> SUFFICES ASSUME s[k] = d PROVE k \in Deleted(s, d)
    OBVIOUS
  <2>1. k \in 1 .. Len(s) /\ k - 1 \in 0 .. k - 1 /\ k - (k - 1) = 1
    BY <1>3
  <2>2. k - 1 = 0 \/ s[k - 1] # d
    BY <1>4, <2>1 DEF Once
  <2>3. \A i \in (k - 1) + 1 .. k : s[i] = d
    BY <2>1
  <2> QED BY <2>1, <2>2, <2>3 DEF Deleted
<1> HIDE DEF K
<1>5. /\ \A k \in 1 .. c : Nth(K, k) \in K
      /\ \A k, l \in 1 .. c : k < l => Nth(K, k) < Nth(K, l)
      /\ \A i \in K : \E k \in 1 .. c : Nth(K, k) = i
  BY <1>1, NthSpec
<1> HIDE DEF c
<1>6. w \in Seq(S) /\ Len(w) = c
  <2>1. \A k \in 1 .. c : s[Nth(K, k)] \in S
    BY <1>3, <1>5
  <2>2. c \in Nat
    BY <1>1 DEF c
  <2> QED BY <2>1, <2>2
<1>7. \A k \in 1 .. c : w[k] = s[Nth(K, k)]
  OBVIOUS
<1> HIDE DEF w
<1>8. ASSUME NEW x \in Elems(w) PROVE x \in Elems(s)
  <2>1. PICK k \in 1 .. c : w[k] = x
    BY <1>6 DEF Elems
  <2>2. Nth(K, k) \in 1 .. Len(s) /\ s[Nth(K, k)] = x
    BY <1>3, <1>5, <1>7, <2>1
  <2> QED BY <2>2 DEF Elems
<1>9. ASSUME NEW x \in Elems(s), x # d PROVE x \in Elems(w)
  <2>1. PICK i \in 1 .. Len(s) : s[i] = x
    BY DEF Elems
  <2>2. i \in K
    BY <1>3, <1>9, <2>1
  <2>3. PICK k \in 1 .. c : Nth(K, k) = i
    BY <1>5, <2>2
  <2>4. w[k] = x
    BY <1>7, <2>1, <2>3
  <2> QED BY <1>6, <2>4 DEF Elems
<1>10. ASSUME Once(s) PROVE Once(w)
  <2> SUFFICES ASSUME NEW k \in 1 .. c, NEW l \in 1 .. c, w[k] = w[l] PROVE k = l
    BY <1>6 DEF Once
  <2>1. Nth(K, k) = Nth(K, l)
    BY <1>3, <1>5, <1>7, <1>10 DEF Once
  <2>2. Nth(K, k) \in Int
    BY <1>3, <1>5
  <2>3. ~ (Nth(K, k) < Nth(K, l)) /\ ~ (Nth(K, l) < Nth(K, k))
    BY <2>1, <2>2
  <2> QED BY <1>1, <1>5, <2>3
<1>11. ASSUME Once(s) PROVE d \notin Elems(w)
  <2>1. \A k \in 1 .. c : w[k] # d
    BY <1>4, <1>5, <1>7, <1>11
  <2> QED BY <1>6, <2>1 DEF Elems
<1> QED BY <1>2, <1>6, <1>8, <1>9, <1>10, <1>11
-----------------------------------------------------------------------------
\* Every row is in its place: at the home of its device, but for row 0, which the
\* reset gives to the root.  A device has one row, and a row without one is blank.
Placed(t) ==
    /\ IsTable(t)
    /\ \A i \in Row : t[i].addr = Zero => t[i] = Blank
    /\ \A i \in Row : t[i].addr # Zero =>
          /\ t[i].addr \in Known
          /\ i = Home(t[i].addr) \/ (i = 0 /\ t[i].addr = Root)
    /\ \A i, j \in Row : t[i].addr = t[j].addr /\ t[i].addr # Zero => i = j

Device == (Known \ {Root}) \cup {Zero}

\* A path on display is of the row's own device, and the root is not on it.
RowOK(r) ==
    /\ r.state \in {0, 1} /\ r.ch \in Channel \cup {0}
    /\ r.nbr \in Seq(Node \cup {Root})
    /\ r.up \in Seq(Device) /\ (r.up # << >> => r.up[1] = r.addr)

TableInv(t) == Placed(t) /\ \A i \in Row : RowOK(t[i])

\* Every row lists a neighbour once, so that the deletion by shifting takes it
\* out.  A row that was the root's keeps the root's list, and may then list one
\* neighbour twice: this holds as far as taken is false.
OnceEach(t) == \A i \in Row : Once(t[i].nbr)

\* What a table shows of a device.
LinksOn(t, a) ==
    IF nms_table_find(t, a) # {} THEN Elems(t[RowOf(t, a)].nbr) \cap Known ELSE {}
WaysOn(t, a) ==
    IF nms_table_find(t, a) # {} THEN Consecutive(t[RowOf(t, a)].up) ELSE {}

\* A link of a path is on the map from both ends, if both are known.
OnMap(t, l) == l \in Known \X Known => l[2] \in LinksOn(t, l[1]) /\ l[1] \in LinksOn(t, l[2])

Kept == [path : Seq(Node), fresh : BOOLEAN]

\* A reply that is fresh leads over links on the map.
RepliesOK ==
    /\ reply \in [Node -> Kept]
    /\ \A n \in Node : /\ reply[n].path \in Path \cup {<< >>}
                       /\ reply[n].path # << >> => reply[n].path[1] = n
                       /\ reply[n].fresh => \A l \in Consecutive(reply[n].path) : OnMap(nms, l)

\* With RootRow, what holds of the table and of the replies.
MapInv ==
    /\ TableInv(nms) /\ RepliesOK
    /\ receiving_channel \in Channel /\ outdated \subseteq Node
    /\ ~taken => OnceEach(nms)
    /\ \A a \in Known \ outdated : \A l \in WaysOn(nms, a) : OnMap(nms, l)
-----------------------------------------------------------------------------
\* No two devices have one home.
LEMMA HomesDiffer == \A a, b \in Known : Home(a) = Home(b) => a = b
  BY HomeSpec

\* In a table whose rows are in their places a device is found in its row only.
LEMMA RowIs ==
    ASSUME NEW t, Placed(t), NEW i \in Row, t[i].addr # Zero
    PROVE  nms_table_find(t, t[i].addr) = {i} /\ RowOf(t, t[i].addr) = i
<1>1. nms_table_find(t, t[i].addr) = {i}
  BY DEF Placed, nms_table_find
<1>2. RowOf(t, t[i].addr) \in nms_table_find(t, t[i].addr)
  BY <1>1, RowFound
<1> QED BY <1>1, <1>2

\* What it shows is what is in that row, ...
LEMMA RowShows ==
    ASSUME NEW t, Placed(t), NEW i \in Row, t[i].addr # Zero
    PROVE  /\ LinksOn(t, t[i].addr) = Elems(t[i].nbr) \cap Known
           /\ WaysOn(t, t[i].addr) = Consecutive(t[i].up)
  BY RowIs DEF LinksOn, WaysOn

\* ... and without a row it shows nothing.
LEMMA NoRowShows ==
    ASSUME NEW t, NEW c, \A i \in Row : t[i].addr # c
    PROVE  /\ LinksOn(t, c) = {} /\ WaysOn(t, c) = {}
           /\ nms_table_find(t, c) = {}
  BY DEF LinksOn, WaysOn, nms_table_find

\* The zero address is no device.
LEMMA KnownNotZero == \A c \in Known : c # Zero
  BY MacAssumption

\* Lists of a row.
\* What a new neighbour does to the list of a row that is inserted ...
LEMMA FirstPut ==
    ASSUME NEW S, NEW s \in Seq(S), NEW b \in S \cup {Zero}
    PROVE  /\ WithFirst(s, b) \in Seq(S)
           /\ b # Zero => b \in Elems(WithFirst(s, b))
           /\ s = << >> => /\ Once(WithFirst(s, b))
                           /\ Elems(WithFirst(s, b)) \subseteq {b}
<1>1. CASE b = Zero
  BY <1>1 DEF WithFirst, Once, Elems
<1>2. CASE b # Zero /\ s = << >>
  <2>1. WithFirst(s, b) = <<b>> /\ b \in S
    BY <1>2 DEF WithFirst
  <2>2. Len(<<b>>) = 1 /\ <<b>>[1] = b /\ <<b>> \in Seq(S)
    BY <2>1
  <2> DEFINE w == <<b>>
  <2> HIDE DEF w
  <2>3. Len(w) = 1 /\ w[1] = b /\ w \in Seq(S)
    BY <2>2 DEF w
  <2>4. Once(w) /\ Elems(w) = {b}
    BY <2>3 DEF Once, Elems
  <2> QED BY <2>1, <2>3, <2>4 DEF w
<1>3. CASE b # Zero /\ s # << >>
  <2>1. WithFirst(s, b) = [s EXCEPT ![1] = b] /\ b \in S
    BY <1>3 DEF WithFirst
  <2>2. Len(s) \in Nat /\ 1 \in 1 .. Len(s)
    BY <1>3
  <2>3. [s EXCEPT ![1] = b] \in Seq(S) /\ Len([s EXCEPT ![1] = b]) = Len(s)
        /\ [s EXCEPT ![1] = b][1] = b
    BY <2>1, <2>2
  <2> QED BY <1>3, <2>1, <2>2, <2>3 DEF Elems
<1> QED BY <1>1, <1>2, <1>3

\* ... and of one that is updated.
LEMMA NeighborPut ==
    ASSUME NEW S, NEW s \in Seq(S), NEW b \in S
    PROVE  /\ WithNeighbor(s, b) \in Seq(S)
           /\ Elems(WithNeighbor(s, b)) = Elems(s) \cup ({b} \cap Known)
           /\ Once(s) => Once(WithNeighbor(s, b))
<1>1. CASE b \notin Known \ Elems(s)
  BY <1>1 DEF WithNeighbor
<1>2. CASE b \in Known \ Elems(s)
  <2>1. WithNeighbor(s, b) = Append(s, b)
    BY <1>2 DEF WithNeighbor
  <2>2. /\ Append(s, b) \in Seq(S) /\ Len(Append(s, b)) = Len(s) + 1 /\ Len(s) \in Nat
        /\ \A k \in 1 .. Len(s) : Append(s, b)[k] = s[k]
        /\ Append(s, b)[Len(s) + 1] = b
    OBVIOUS
  <2> DEFINE w == Append(s, b)
  <2> HIDE DEF w
  <2>3. \A k \in 1 .. Len(s) + 1 : k \in 1 .. Len(s) \/ k = Len(s) + 1
    BY <2>2
  <2>4. Elems(w) = Elems(s) \cup {b}
    <3>1. ASSUME NEW x \in Elems(w) PROVE x \in Elems(s) \cup {b}
      BY <2>2, <2>3 DEF Elems, w
    <3>2. ASSUME NEW x \in Elems(s) PROVE x \in Elems(w)
      <4>1. PICK k \in 1 .. Len(s) : s[k] = x
        BY DEF Elems
      <4>2. k \in 1 .. Len(w) /\ w[k] = x
        BY <2>2, <4>1 DEF w
      <4> QED BY <4>2 DEF Elems
    <3>3. b \in Elems(w)
      <4>1. Len(s) + 1 \in 1 .. Len(w) /\ w[Len(s) + 1] = b
        BY <2>2 DEF w
      <4> QED BY <4>1 DEF Elems
    <3> QED BY <3>1, <3>2, <3>3
  <2>5. ASSUME Once(s) PROVE Once(w)
    <3>1. \A k \in 1 .. Len(s) : s[k] # b
      BY <1>2 DEF Elems
    <3> QED BY <2>2, <2>3, <2>5, <3>1 DEF Once, w
  <2> QED BY <1>2, <2>1, <2>2, <2>4, <2>5 DEF w
<1> QED BY <1>1, <1>2
-----------------------------------------------------------------------------
\* The root has a row.
RootIn(t) == nms_table_find(t, Root) # {}

\* u is t with b noted as a neighbour in the row of a; a row that was another
\* device's before was blank or the root's.
Put(u, t, j, a, b) ==
    /\ j \in Row /\ TableInv(u) /\ \A i \in Row : i # j => u[i] = t[i]
    /\ a \in Known /\ u[j].addr = a
    /\ t[j].addr \in {a, Zero} \/ (t[j].addr = Root /\ a # Root)
    /\ (u[j].up = t[j].up /\ t[j].addr = a) \/ u[j].up \in {<< >>, <<a>>}
    /\ b \in Known => b \in Elems(u[j].nbr)
    /\ t[j].addr = a => Elems(t[j].nbr) \subseteq Elems(u[j].nbr)
    /\ t[j].addr \in {a, Zero} /\ Once(t[j].nbr) =>
          /\ Once(u[j].nbr)
          /\ Elems(u[j].nbr) \cap Known = (Elems(t[j].nbr) \cup {b}) \cap Known

\* u is t with links added, as far as the root's row was not overwritten; no link of
\* another device is lost even then, and no path comes on display.
Grown(u, t, links) ==
    /\ TableInv(u)
    /\ \A c \in Known : WaysOn(u, c) \subseteq WaysOn(t, c)
    /\ \A c \in Known \ {Root} : LinksOn(t, c) \subseteq LinksOn(u, c)
    /\ \A l \in links : l \in (Known \ {Root}) \X Known => l[2] \in LinksOn(u, l[1])
    /\ OnceEach(t) /\ RootIn(t) /\ RootIn(u) =>
          /\ OnceEach(u)
          /\ \A c \in Known :
                LinksOn(u, c) = LinksOn(t, c) \cup {b \in Known : <<c, b>> \in links}

\* A path of one device leads over no link.
LEMMA ShortWay == ASSUME NEW a PROVE Consecutive(<< >>) = {} /\ Consecutive(<<a>>) = {}
<1>1. Len(<< >>) = 0 /\ Len(<<a>>) = 1
  OBVIOUS
<1>2. ~ \E k \in 1 .. Len(<< >>) - 1 : TRUE
  BY <1>1
<1>3. ~ \E k \in 1 .. Len(<<a>>) - 1 : TRUE
  BY <1>1
<1> QED BY <1>2, <1>3 DEF Consecutive

\* A neighbour put in a row is a link learnt: the row was the device's, or blank, or
\* the root's, and then the root has no row any more.
LEMMA PutGrows ==
    ASSUME NEW t, TableInv(t), NEW u, NEW j, NEW a, NEW b, Put(u, t, j, a, b)
    PROVE  Grown(u, t, {<<a, b>>})
<1> USE DEF TableInv
<1>1. Placed(t) /\ Placed(u) /\ j \in Row /\ a \in Known /\ a # Zero /\ u[j].addr = a
  BY KnownNotZero DEF Put
<1>2. /\ LinksOn(u, a) = Elems(u[j].nbr) \cap Known
      /\ WaysOn(u, a) = Consecutive(u[j].up)
  BY <1>1, RowShows
<1>3. /\ t[j].addr = a => /\ LinksOn(t, a) = Elems(t[j].nbr) \cap Known
                          /\ WaysOn(t, a) = Consecutive(t[j].up)
      /\ t[j].addr # a => LinksOn(t, a) = {} /\ WaysOn(t, a) = {}
  <2>1. t[j].addr = a => /\ LinksOn(t, a) = Elems(t[j].nbr) \cap Known
                         /\ WaysOn(t, a) = Consecutive(t[j].up)
    BY <1>1, RowShows
  <2>2. ASSUME t[j].addr # a, NEW i \in Row PROVE t[i].addr # a
    <3>1. CASE i = j
      BY <2>2, <3>1
    <3>2. CASE i # j
      <4>1. u[i] = t[i]
        BY <3>2 DEF Put
      <4>2. u[i].addr # u[j].addr
        BY <1>1, <3>2 DEF Placed
      <4> QED BY <1>1, <4>1, <4>2
    <3> QED BY <3>1, <3>2
  <2> QED BY <2>1, <2>2, NoRowShows
\* The other devices.
<1>4. ASSUME NEW c \in Known, c # a, t[j].addr # c
      PROVE  LinksOn(u, c) = LinksOn(t, c) /\ WaysOn(u, c) = WaysOn(t, c)
  <2>1. CASE \E i \in Row : t[i].addr = c
    <3>1. PICK i \in Row : t[i].addr = c
      BY <2>1
    <3>2. i # j /\ u[i] = t[i] /\ c # Zero
      BY <1>4, <3>1, KnownNotZero DEF Put
    <3>3. LinksOn(t, c) = Elems(t[i].nbr) \cap Known /\ WaysOn(t, c) = Consecutive(t[i].up)
      BY <1>1, <3>1, <3>2, RowShows
    <3>4. LinksOn(u, c) = Elems(u[i].nbr) \cap Known /\ WaysOn(u, c) = Consecutive(u[i].up)
      BY <1>1, <3>1, <3>2, RowShows
    <3> QED BY <3>2, <3>3, <3>4
  <2>2. CASE \A i \in Row : t[i].addr # c
    <3>1. \A i \in Row : u[i].addr # c
      BY <1>1, <1>4, <2>2 DEF Put
    <3> QED BY <2>2, <3>1, NoRowShows
  <2> QED BY <2>1, <2>2
<1>5. ASSUME NEW c \in Known, c # a, t[j].addr = c
      PROVE  c = Root /\ LinksOn(u, c) = {} /\ WaysOn(u, c) = {} /\ ~ RootIn(u)
  <2>1. c = Root
    BY <1>5, KnownNotZero DEF Put
  <2>2. ASSUME NEW i \in Row PROVE u[i].addr # c
    <3>1. CASE i = j
      BY <1>1, <1>5, <3>1
    <3>2. CASE i # j
      <4>1. t[i].addr # t[j].addr
        BY <1>1, <1>5, <3>2, KnownNotZero DEF Placed
      <4> QED BY <1>5, <3>2, <4>1 DEF Put
    <3> QED BY <3>1, <3>2
  <2> QED BY <2>1, <2>2, NoRowShows DEF RootIn
<1>6. ASSUME NEW c \in Known PROVE WaysOn(u, c) \subseteq WaysOn(t, c)
  <2>1. CASE c = a
    <3>1. CASE u[j].up \in {<< >>, <<a>>}
      BY <1>2, <2>1, <3>1, ShortWay
    <3>2. CASE u[j].up = t[j].up /\ t[j].addr = a
      BY <1>2, <1>3, <2>1, <3>2
    <3> QED BY <3>1, <3>2 DEF Put
  <2> QED BY <2>1, <1>4, <1>5
<1>7. ASSUME NEW c \in Known \ {Root} PROVE LinksOn(t, c) \subseteq LinksOn(u, c)
  <2>1. CASE c = a
    <3>1. CASE t[j].addr = a
      <4>1. Elems(t[j].nbr) \subseteq Elems(u[j].nbr)
        BY <3>1 DEF Put
      <4> QED BY <1>2, <1>3, <2>1, <3>1, <4>1
    <3> QED BY <1>3, <2>1, <3>1
  <2> QED BY <2>1, <1>4, <1>5
<1>8. b \in Known => b \in LinksOn(u, a)
  BY <1>2 DEF Put
<1>9. ASSUME OnceEach(t), RootIn(t), RootIn(u)
      PROVE  /\ OnceEach(u)
             /\ \A c \in Known : LinksOn(u, c) = LinksOn(t, c)
                                     \cup {x \in Known : <<c, x>> \in {<<a, b>>}}
  <2>1. t[j].addr \in {a, Zero}
    BY <1>1, <1>5, <1>9, MacAssumption DEF Put
  <2>2. /\ Once(u[j].nbr)
        /\ Elems(u[j].nbr) \cap Known = (Elems(t[j].nbr) \cup {b}) \cap Known
    BY <1>1, <1>9, <2>1 DEF Put, OnceEach
  <2>3. OnceEach(u)
    BY <1>9, <2>2 DEF Put, OnceEach
  <2>4. ASSUME NEW c \in Known, c # a PROVE LinksOn(u, c) = LinksOn(t, c)
    BY <1>4, <2>1, <2>4, KnownNotZero
  <2>5. LinksOn(u, a) = LinksOn(t, a) \cup ({b} \cap Known)
    <3>1. CASE t[j].addr = a
      BY <1>2, <1>3, <2>2, <3>1
    <3>2. CASE t[j].addr # a
      <4>1. t[j] = Blank
        BY <1>1, <2>1, <3>2 DEF Placed
      <4>2. Elems(t[j].nbr) = {}
        BY <4>1 DEF Blank, Elems
      <4> QED BY <1>2, <1>3, <2>2, <3>2, <4>2
    <3> QED BY <3>1, <3>2
  <2>6. \A c \in Known : {x \in Known : <<c, x>> \in {<<a, b>>}}
                           = IF c = a THEN {b} \cap Known ELSE {}
    OBVIOUS
  <2> QED BY <2>3, <2>4, <2>5, <2>6
<1>10. TableInv(u)
  BY DEF Put
<1> HIDE DEF TableInv
<1> QED BY <1>6, <1>7, <1>8, <1>9, <1>10 DEF Grown

\* The root and the zero address are no nodes.
LEMMA NodeNames ==
    /\ Root \in Known /\ Root # Zero /\ Zero \notin Known
    /\ \A n \in Node : n # Root /\ n # Zero
  BY MacAssumption, PathAssumption

\* The row behind the last home is always free.
LEMMA AlwaysRoom == ASSUME NEW t, Placed(t) PROVE nms_table_find(t, Zero) # {}
<1>1. Len(MacList) \in Nat /\ Len(MacList) # 0
  BY MacAssumption DEF Known
<1>2. Len(MacList) \in Row
  BY <1>1 DEF Row
<1>3. \A a \in Known : Home(a) # Len(MacList)
  BY <1>1, HomeSpec
<1>4. t[Len(MacList)].addr = Zero
  BY <1>1, <1>2, <1>3 DEF Placed
<1> QED BY <1>2, <1>4 DEF nms_table_find

\* nms_table_insert and nms_table_update put a neighbour in a row.
LEMMA InsertPut ==
    ASSUME NEW t, TableInv(t), NEW a \in Known, nms_table_find(t, a) = {},
           NEW b \in Node \cup {Root, Zero}, NEW ch \in Channel \cup {0},
           NEW hello \in BOOLEAN, hello => a # Root
    PROVE  Put(nms_table_insert(t, a, b, ch, hello), t, Home(a), a, b)
<1> DEFINE j == Home(a)
           u == nms_table_insert(t, a, b, ch, hello)
           up == IF hello THEN OwnPath(t[j].up, a) ELSE t[j].up
           r == [addr |-> a, state |-> 1, ch |-> ch, nbr |-> WithFirst(t[j].nbr, b), up |-> up]
<1>1. j \in Row /\ Placed(t) /\ IsTable(t) /\ a # Zero
  BY HomeSpec, NodeNames DEF TableInv, Placed
<1>2. u = [t EXCEPT ![j] = r]
  BY <1>1, AlwaysRoom DEF nms_table_insert
<1>3. \A i \in Row : t[i].addr # a
  BY DEF nms_table_find
<1>4. t[j].addr = Zero \/ (t[j].addr = Root /\ a # Root)
  BY <1>1, <1>3, HomesDiffer DEF Placed
<1>5. t[j].up = << >> /\ t[j].nbr \in Seq(Node \cup {Root})
  <2>1. RowOK(t[j])
    BY <1>1 DEF TableInv
  <2>3. CASE t[j].addr = Zero
    BY <1>1, <2>1, <2>3 DEF Placed, Blank, RowOK
  <2>4. CASE t[j].addr = Root
    <3>1. ASSUME t[j].up # << >> PROVE FALSE
      <4>1. t[j].up \in Seq(Device) /\ t[j].up[1] = Root
        BY <2>1, <2>4, <3>1 DEF RowOK
      <4>2. t[j].up[1] \in Device
        BY <3>1, <4>1
      <4> QED BY <4>1, <4>2, NodeNames DEF Device
    <3> QED BY <2>1, <3>1 DEF RowOK
  <2> QED BY <1>4, <2>3, <2>4
<1>6. /\ WithFirst(t[j].nbr, b) \in Seq(Node \cup {Root})
      /\ b # Zero => b \in Elems(WithFirst(t[j].nbr, b))
      /\ t[j].nbr = << >> => /\ Once(WithFirst(t[j].nbr, b))
                             /\ Elems(WithFirst(t[j].nbr, b)) \subseteq {b}
  <2> DEFINE S == Node \cup {Root}
  <2>1. t[j].nbr \in Seq(S) /\ b \in S \cup {Zero}
    BY <1>5
  <2> HIDE DEF S, j
  <2>2. /\ WithFirst(t[j].nbr, b) \in Seq(S)
        /\ b # Zero => b \in Elems(WithFirst(t[j].nbr, b))
        /\ t[j].nbr = << >> => /\ Once(WithFirst(t[j].nbr, b))
                               /\ Elems(WithFirst(t[j].nbr, b)) \subseteq {b}
    BY <2>1, FirstPut
  <2> QED BY <2>2 DEF S
<1>7. up = IF hello THEN <<a>> ELSE << >>
  BY <1>1, <1>5 DEF OwnPath, WithFirst
<1> HIDE DEF up
<1>8. /\ r.addr = a /\ r.state = 1 /\ r.ch = ch /\ r.nbr = WithFirst(t[j].nbr, b) /\ r.up = up
      /\ r = [addr |-> r.addr, state |-> r.state, ch |-> r.ch, nbr |-> r.nbr, up |-> r.up]
  OBVIOUS
<1> HIDE DEF r, u
<1>9. u[j] = r /\ \A i \in Row : i # j => u[i] = t[i]
  BY <1>1, <1>2 DEF IsTable
<1>10. IsTable(u)
  BY <1>1, <1>2, <1>8 DEF IsTable
<1>11. RowOK(r)
  <2>1. << >> \in Seq(Device)
    OBVIOUS
  <2>2. hello => <<a>> \in Seq(Device) /\ <<a>>[1] = a
    <3>1. hello => a \in Device
      BY DEF Device
    <3> QED BY <3>1
  <2> QED BY <1>6, <1>7, <1>8, <2>1, <2>2 DEF RowOK
<1> HIDE DEF j
<1>12. Placed(u)
  <2>1. \A i \in Row : u[i].addr = Zero => u[i] = Blank
    BY <1>1, <1>8, <1>9 DEF Placed
  <2>2. ASSUME NEW i \in Row, u[i].addr # Zero
        PROVE  u[i].addr \in Known /\ (i = Home(u[i].addr) \/ (i = 0 /\ u[i].addr = Root))
    <3>1. CASE i = j
      BY <1>8, <1>9, <3>1 DEF j
    <3>2. CASE i # j
      BY <1>1, <1>9, <2>2, <3>2 DEF Placed
    <3> QED BY <3>1, <3>2
  <2>3. \A i, k \in Row : u[i].addr = u[k].addr /\ u[i].addr # Zero => i = k
    BY <1>1, <1>3, <1>8, <1>9 DEF Placed
  <2> QED BY <1>10, <2>1, <2>2, <2>3 DEF Placed
<1>13. TableInv(u)
  BY <1>9, <1>11, <1>12 DEF TableInv
<1>14. b \in Known => b \in Elems(u[j].nbr)
  BY <1>6, <1>8, <1>9, NodeNames
<1>15. u[j].up \in {<< >>, <<a>>}
  BY <1>7, <1>8, <1>9
<1>16. t[j].addr # a
  BY <1>1, <1>3
<1>17. ASSUME t[j].addr \in {a, Zero}
       PROVE  /\ Once(u[j].nbr)
              /\ Elems(u[j].nbr) \cap Known = (Elems(t[j].nbr) \cup {b}) \cap Known
  <2>1. t[j].nbr = << >>
    BY <1>1, <1>16, <1>17 DEF Placed, Blank
  <2>2. Elems(t[j].nbr) = {}
    BY <2>1 DEF Elems
  <2> QED BY <1>6, <1>8, <1>9, <2>1, <2>2, NodeNames
<1> QED BY <1>1, <1>4, <1>8, <1>9, <1>13, <1>14, <1>15, <1>16, <1>17 DEF Put, j, u

\* The path of a device that has one begins with itself, so that a Hello leaves it.
LEMMA UpdatePut ==
    ASSUME NEW t, TableInv(t), NEW a \in Known, nms_table_find(t, a) # {},
           NEW b \in Node \cup {Root}, NEW ch \in Channel \cup {0},
           NEW hello \in BOOLEAN, hello => a # Root
    PROVE  Put(nms_table_update(t, a, b, ch, hello), t, RowOf(t, a), a, b)
<1> DEFINE j == RowOf(t, a)
           u == nms_table_update(t, a, b, ch, hello)
           up == IF hello THEN OwnPath(t[j].up, a) ELSE t[j].up
           r == [addr |-> t[j].addr, state |-> 1, ch |-> ch,
                 nbr |-> WithNeighbor(t[j].nbr, b), up |-> up]
<1>1. j \in Row /\ t[j].addr = a /\ Placed(t) /\ IsTable(t) /\ a # Zero
  BY RowFound, NodeNames DEF TableInv, Placed, nms_table_find
<1>2. u = [t EXCEPT ![j] = r]
  BY DEF nms_table_update
<1>3. RowOK(t[j])
  BY <1>1 DEF TableInv
<1>4. up \in Seq(Device) /\ (up = t[j].up \/ up = <<a>>) /\ (up # << >> => up[1] = a)
  <2>1. t[j].up \in Seq(Device) /\ (t[j].up # << >> => t[j].up[1] = a)
    BY <1>1, <1>3 DEF RowOK
  <2>2. CASE ~hello
    BY <2>1, <2>2
  <2>3. CASE hello
    <3>1. a \in Device
      BY <2>3 DEF Device
    <3>2. CASE t[j].up = << >>
      <4>1. up = <<a>>
        BY <1>1, <2>3, <3>2 DEF OwnPath, WithFirst
      <4>2. <<a>> \in Seq(Device) /\ <<a>>[1] = a
        BY <3>1
      <4> HIDE DEF up
      <4> QED BY <4>1, <4>2
    <3>3. CASE t[j].up # << >>
      <4>1. up = [t[j].up EXCEPT ![1] = a]
        BY <1>1, <2>3, <3>3 DEF OwnPath, WithFirst
      <4>2. up = t[j].up
        BY <2>1, <3>3, <4>1
      <4> QED BY <2>1, <4>2
    <3> QED BY <3>2, <3>3
  <2> QED BY <2>2, <2>3
<1> HIDE DEF up
<1>5. /\ WithNeighbor(t[j].nbr, b) \in Seq(Node \cup {Root})
      /\ Elems(WithNeighbor(t[j].nbr, b)) = Elems(t[j].nbr) \cup ({b} \cap Known)
      /\ Once(t[j].nbr) => Once(WithNeighbor(t[j].nbr, b))
  BY <1>3, NeighborPut DEF RowOK
<1>6. /\ r.addr = t[j].addr /\ r.state = 1 /\ r.ch = ch
      /\ r.nbr = WithNeighbor(t[j].nbr, b) /\ r.up = up
      /\ r = [addr |-> r.addr, state |-> r.state, ch |-> r.ch, nbr |-> r.nbr, up |-> r.up]
  OBVIOUS
<1> HIDE DEF r, u, j
<1>7. u[j] = r /\ \A i \in Row : i # j => u[i] = t[i]
  BY <1>1, <1>2 DEF IsTable
<1>8. IsTable(u)
  BY <1>1, <1>2, <1>6 DEF IsTable
<1>9. RowOK(r)
  BY <1>1, <1>4, <1>5, <1>6 DEF RowOK
<1>10. \A i \in Row : u[i].addr = t[i].addr
  BY <1>6, <1>7
<1>11. Placed(u)
  <2>1. \A i \in Row : u[i].addr = Zero => u[i] = Blank
    BY <1>1, <1>7, <1>10 DEF Placed
  <2> QED BY <1>1, <1>8, <1>10, <2>1 DEF Placed
<1>12. TableInv(u)
  BY <1>7, <1>9, <1>11 DEF TableInv
<1> QED BY <1>1, <1>4, <1>5, <1>6, <1>7, <1>12 DEF Put, j, u
-----------------------------------------------------------------------------
\* A table grows by nothing, and in several steps.
LEMMA GrownSelf ==
    ASSUME NEW t, TableInv(t), NEW links, \A l \in links : l \notin Known \X Known
    PROVE  Grown(t, t, links)
<1>1. \A l \in links : l \in (Known \ {Root}) \X Known => l[2] \in LinksOn(t, l[1])
  OBVIOUS
<1>2. \A c \in Known : {b \in Known : <<c, b>> \in links} = {}
  OBVIOUS
<1> QED BY <1>1, <1>2 DEF Grown

\* Growth adds up, while the root keeps its row.
LEMMA GrownFrom ==
    ASSUME NEW t, NEW u, NEW v, NEW L, NEW M, Grown(u, t, L), Grown(v, u, M),
           OnceEach(t) /\ RootIn(t) /\ RootIn(v) => RootIn(u)
    PROVE  Grown(v, t, L \cup M)
<1>1. TableInv(v) /\ \A c \in Known : WaysOn(v, c) \subseteq WaysOn(t, c)
  BY DEF Grown
<1>2. \A c \in Known \ {Root} : LinksOn(t, c) \subseteq LinksOn(v, c)
  BY DEF Grown
<1>3. ASSUME NEW l \in L \cup M, l \in (Known \ {Root}) \X Known
      PROVE  l[2] \in LinksOn(v, l[1])
  <2>1. CASE l \in L
    BY <1>3, <2>1 DEF Grown
  <2>2. CASE l \in M
    BY <1>3, <2>2 DEF Grown
  <2> QED BY <1>3, <2>1, <2>2
<1>4. ASSUME OnceEach(t), RootIn(t), RootIn(v)
      PROVE  /\ OnceEach(v)
             /\ \A c \in Known : LinksOn(v, c) = LinksOn(t, c)
                                     \cup {b \in Known : <<c, b>> \in L \cup M}
  <2>1. OnceEach(u) /\ RootIn(u)
    BY <1>4 DEF Grown
  <2>2. OnceEach(v)
    BY <1>4, <2>1 DEF Grown
  <2>3. ASSUME NEW c \in Known
        PROVE  LinksOn(v, c) = LinksOn(t, c) \cup {b \in Known : <<c, b>> \in L \cup M}
    <3>1. LinksOn(u, c) = LinksOn(t, c) \cup {b \in Known : <<c, b>> \in L}
      BY <1>4, <2>1 DEF Grown
    <3>2. LinksOn(v, c) = LinksOn(u, c) \cup {b \in Known : <<c, b>> \in M}
      BY <1>4, <2>1 DEF Grown
    <3> QED BY <3>1, <3>2
  <2> QED BY <2>2, <2>3
<1> QED BY <1>1, <1>2, <1>3, <1>4 DEF Grown

\* So a note learns one link, unless the device is unknown, or its row the root's.
LEMMA NoteGrows ==
    ASSUME NEW t, TableInv(t), NEW a \in Node \cup {Root}, NEW b \in Node \cup {Root},
           NEW ch \in Channel \cup {0}, NEW hello \in BOOLEAN, hello => a # Root
    PROVE  Grown(Note(t, a, b, ch, hello), t, {<<a, b>>})
<1>1. CASE a \notin Known
  <2>1. \A i \in Row : t[i].addr # a
    BY <1>1, NodeNames DEF TableInv, Placed
  <2>2. Note(t, a, b, ch, hello) = t
    BY <1>1, <2>1, NoRowShows DEF Note, nms_table_insert
  <2>3. Grown(t, t, {<<a, b>>})
    BY <1>1, GrownSelf
  <2> QED BY <2>2, <2>3
<1>2. CASE a \in Known /\ nms_table_find(t, a) = {}
  <2>1. Note(t, a, b, ch, hello) = nms_table_insert(t, a, b, ch, hello)
    BY <1>2 DEF Note
  <2>2. Put(nms_table_insert(t, a, b, ch, hello), t, Home(a), a, b)
    BY <1>2, InsertPut
  <2> QED BY <2>1, <2>2, PutGrows
<1>3. CASE a \in Known /\ nms_table_find(t, a) # {}
  <2>1. Note(t, a, b, ch, hello) = nms_table_update(t, a, b, ch, hello)
    BY <1>3 DEF Note
  <2>2. Put(nms_table_update(t, a, b, ch, hello), t, RowOf(t, a), a, b)
    BY <1>3, UpdatePut
  <2> QED BY <2>1, <2>2, PutGrows
<1> QED BY <1>1, <1>2, <1>3

\* The links of one pass over a path.
PairLinks(p, k) ==
    IF k >= Len(p) THEN {} ELSE {<<p[k], p[k + 1]>>, <<p[k + 1], p[k]>>}

\* A path is of one to four nodes.
LEMMA PathNodes ==
    ASSUME NEW p \in Path
    PROVE  /\ Len(p) \in 1 .. 4 /\ p \in Seq(Node) /\ p # << >>
           /\ \A k \in 1 .. Len(p) : p[k] \in Node
<1>1. Len(p) \in 1 .. 4 /\ p \in Seq(Node)
  BY PathAssumption
<1> QED BY <1>1

\* One pass learns them.
LEMMA PairGrows ==
    ASSUME NEW t, TableInv(t), NEW p \in Path, NEW k \in 1 .. 3
    PROVE  Grown(PairNoted(t, p, k), t, PairLinks(p, k))
<1>1. CASE k >= Len(p)
  BY <1>1, GrownSelf DEF PairNoted, PairLinks
<1>2. CASE ~(k >= Len(p))
  <2> DEFINE u == Note(t, p[k], p[k + 1], Displayed, FALSE)
             v == Note(u, p[k + 1], p[k], Displayed, FALSE)
  <2>1. p[k] \in Node /\ p[k + 1] \in Node
    <3>1. k \in 1 .. Len(p) /\ k + 1 \in 1 .. Len(p)
      BY <1>2, PathNodes
    <3> QED BY <3>1, PathNodes
  <2>2. Displayed \in Channel \cup {0}
    BY DEF Displayed
  <2>3. Grown(u, t, {<<p[k], p[k + 1]>>})
    BY <2>1, <2>2, NoteGrows
  <2>4. TableInv(u)
    BY <2>3 DEF Grown
  <2> HIDE DEF u
  <2>5. Grown(v, u, {<<p[k + 1], p[k]>>})
    BY <2>1, <2>2, <2>4, NoteGrows
  <2>6. Follows(v, u)
    BY <2>1, <2>4, NodeNames, NoteFollows DEF TableInv, Placed
  <2> HIDE DEF v
  <2>7. RootIn(v) => RootIn(u)
    BY <2>6 DEF Follows, RootIn, nms_table_find
  <2>8. Grown(v, t, {<<p[k], p[k + 1]>>} \cup {<<p[k + 1], p[k]>>})
    BY <2>3, <2>5, <2>7, GrownFrom
  <2>9. PairNoted(t, p, k) = v
    BY <1>2 DEF PairNoted, u, v
  <2>10. PairLinks(p, k) = {<<p[k], p[k + 1]>>} \cup {<<p[k + 1], p[k]>>}
    BY <1>2 DEF PairLinks
  <2> QED BY <2>8, <2>9, <2>10
<1> QED BY <1>1, <1>2

\* What Preq_process reports of its path.
PathLinksOf(p) ==
    {<<p[k], p[k + 1]>> : k \in 1 .. Len(p) - 1} \cup {<<p[k + 1], p[k]>> : k \in 1 .. Len(p) - 1}

\* The passes learn the links of the path; a neighbour without a row, that to the root.
LEMMA PathGrows ==
    ASSUME TableInv(nms), NEW p \in Path
    PROVE  \E links : /\ Grown(PathNoted(p), nms, links)
                      /\ PathLinksOf(p) \subseteq links
                      /\ links = PathLinksOf(p) \/ links = {<<p[1], Root>>}
<1> DEFINE s == IF Len(p) = 1 /\ nms_table_find(nms, p[1]) = {}
                THEN nms_table_insert(nms, p[1], Root, Displayed, FALSE) ELSE nms
           u == PairNoted(s, p, 1)
           v == PairNoted(u, p, 2)
           w == PairNoted(v, p, 3)
           first == IF Len(p) = 1 /\ nms_table_find(nms, p[1]) = {} THEN {<<p[1], Root>>} ELSE {}
<1>1. p[1] \in Node /\ Len(p) \in 1 .. 4
  BY PathNodes
<1>0. Len(p) = 1 \/ Len(p) = 2 \/ Len(p) = 3 \/ Len(p) = 4
  BY <1>1
<1>2. Grown(s, nms, first)
  <2>1. CASE Len(p) = 1 /\ nms_table_find(nms, p[1]) = {} 
    <3>1. s = Note(nms, p[1], Root, Displayed, FALSE)
      BY <2>1 DEF Note
    <3>2. Displayed \in Channel \cup {0}
      BY DEF Displayed
    <3>3. Grown(Note(nms, p[1], Root, Displayed, FALSE), nms, {<<p[1], Root>>})
      BY <1>1, <3>2, NoteGrows
    <3> QED BY <2>1, <3>1, <3>3
  <2>2. CASE ~(Len(p) = 1 /\ nms_table_find(nms, p[1]) = {})
    BY <2>2, GrownSelf
  <2> QED BY <2>1, <2>2
<1>3. Follows(s, nms)
  BY <1>1, NodeNames, InsertFollows, FollowsSelf DEF TableInv, Placed
<1>4. TableInv(s) /\ IsTable(s)
  BY <1>2 DEF Grown, TableInv, Placed
<1> HIDE DEF s, first
<1>5. Grown(u, s, PairLinks(p, 1)) /\ Follows(u, s)
  BY <1>4, PairGrows, PairFollows
<1>6. TableInv(u) /\ IsTable(u)
  BY <1>5 DEF Grown, TableInv, Placed
<1> HIDE DEF u
<1>7. Grown(v, u, PairLinks(p, 2)) /\ Follows(v, u)
  BY <1>6, PairGrows, PairFollows
<1>8. TableInv(v) /\ IsTable(v)
  BY <1>7 DEF Grown, TableInv, Placed
<1> HIDE DEF v
<1>9. Grown(w, v, PairLinks(p, 3)) /\ Follows(w, v)
  BY <1>8, PairGrows, PairFollows
<1>10. \A x, y : Follows(x, y) /\ RootIn(x) => RootIn(y)
  BY DEF Follows, RootIn, nms_table_find
<1> HIDE DEF w
<1> DEFINE two == first \cup PairLinks(p, 1)
           three == two \cup PairLinks(p, 2)
           four == three \cup PairLinks(p, 3)
<1>11. Grown(u, nms, two)
  BY <1>2, <1>5, <1>10, GrownFrom
<1>12. Grown(v, nms, three)
  <2> HIDE DEF two
  <2> QED BY <1>7, <1>10, <1>11, GrownFrom
<1>13. Grown(w, nms, four)
  <2> HIDE DEF three
  <2> QED BY <1>9, <1>10, <1>12, GrownFrom
<1>14. PathNoted(p) = w
  BY DEF PathNoted, s, u, v, w
<1>15. PairLinks(p, 1) \cup PairLinks(p, 2) \cup PairLinks(p, 3) = PathLinksOf(p)
  <2>1. ASSUME NEW k \in 1 .. 3 PROVE PairLinks(p, k) \subseteq PathLinksOf(p)
    <3>1. CASE k >= Len(p)
      BY <3>1 DEF PairLinks
    <3>2. CASE ~(k >= Len(p))
      <4>1. k \in 1 .. Len(p) - 1
        BY <1>1, <3>2
      <4> QED BY <3>2, <4>1 DEF PairLinks, PathLinksOf
    <3> QED BY <3>1, <3>2
  <2>2. ASSUME NEW k \in 1 .. Len(p) - 1
        PROVE  {<<p[k], p[k + 1]>>, <<p[k + 1], p[k]>>}
                   \subseteq PairLinks(p, 1) \cup PairLinks(p, 2) \cup PairLinks(p, 3)
    <3> DEFINE n == Len(p)
    <3>1. n = 1 \/ n = 2 \/ n = 3 \/ n = 4
      BY <1>0
    <3>2. k \in 1 .. n - 1
      OBVIOUS
    <3> HIDE DEF n
    <3>3. (k = 1 \/ k = 2 \/ k = 3) /\ ~ (k >= n)
      BY <3>1, <3>2
    <3> QED BY <3>3 DEF PairLinks, n
  <2>3. PathLinksOf(p) \subseteq PairLinks(p, 1) \cup PairLinks(p, 2) \cup PairLinks(p, 3)
    BY <2>2 DEF PathLinksOf
  <2> QED BY <2>1, <2>3
<1>16. four = first \cup PathLinksOf(p)
  BY <1>15
<1>17. first = {} \/ (first = {<<p[1], Root>>} /\ PathLinksOf(p) = {})
  <2>1. CASE Len(p) = 1
    <3>1. \A k : k \notin 1 .. Len(p) - 1
      BY <2>1
    <3> QED BY <3>1 DEF first, PathLinksOf
  <2>2. CASE Len(p) # 1
    BY <2>2 DEF first
  <2> QED BY <2>1, <2>2
<1> HIDE DEF four
<1>18. four = PathLinksOf(p) \/ (four = {<<p[1], Root>>} /\ PathLinksOf(p) = {})
  BY <1>16, <1>17
<1> QED BY <1>13, <1>14, <1>18
-----------------------------------------------------------------------------
\* A death takes the device out of all rows.
LEMMA DeathThins ==
    ASSUME NEW t, TableInv(t), NEW d \in Node
    PROVE  LET u == nms_table_perr_update(t, d) IN
           /\ TableInv(u)
           /\ \A c \in Known : \A l \in WaysOn(u, c) :
                 l \in WaysOn(t, c) /\ (d \in Known => l[1] # d /\ l[2] # d)
           /\ \A c \in Known \ {d} : LinksOn(t, c) \ {d} \subseteq LinksOn(u, c)
           /\ OnceEach(t) =>
                 /\ OnceEach(u)
                 /\ \A c \in Known : LinksOn(u, c) = IF c = d THEN {} ELSE LinksOn(t, c) \ {d}
           /\ RootIn(u) <=> RootIn(t)
<1> DEFINE u == nms_table_perr_update(t, d)
           own(i) == nms_table_find(t, d) # {} /\ i = RowOf(t, d)
<1>1. Placed(t) /\ IsTable(t) /\ d # Zero /\ d # Root
  BY NodeNames DEF TableInv, Placed
<1>2. \A i \in Row : own(i) <=> t[i].addr = d
  <2>1. ASSUME NEW i \in Row, t[i].addr = d PROVE own(i)
    BY <1>1, <2>1, RowIs
  <2>2. ASSUME NEW i \in Row, own(i) PROVE t[i].addr = d
    BY <2>2, RowFound DEF nms_table_find
  <2> QED BY <2>1, <2>2
<1>3. IsTable(u) /\ \A i \in Row : u[i].addr = t[i].addr
  BY <1>1, DeathFollows DEF Follows
<1>4. ASSUME NEW i \in Row, t[i].addr = d
      PROVE  u[i].nbr = << >> /\ u[i].up = << >> /\ u[i].state = 0 /\ u[i].ch = t[i].ch
  <2>1. u[i] = [t[i] EXCEPT !.state = 0, !.nbr = << >>, !.up = << >>]
    BY <1>2, <1>4 DEF nms_table_perr_update
  <2>2. t[i] = [addr |-> t[i].addr, state |-> t[i].state, ch |-> t[i].ch,
                nbr |-> t[i].nbr, up |-> t[i].up]
    BY <1>1 DEF IsTable
  <2> QED BY <2>1, <2>2
<1>5. ASSUME NEW i \in Row, t[i].addr # d
      PROVE  /\ u[i].nbr = Without(t[i].nbr, d)
             /\ u[i].up = IF d \in Elems(t[i].up) THEN << >> ELSE t[i].up
             /\ u[i].state = t[i].state /\ u[i].ch = t[i].ch
  <2>1. u[i] = [t[i] EXCEPT !.nbr = Without(@, d),
                            !.up = IF d \in Elems(@) THEN << >> ELSE @]
    BY <1>2, <1>5 DEF nms_table_perr_update
  <2>2. t[i] = [addr |-> t[i].addr, state |-> t[i].state, ch |-> t[i].ch,
                nbr |-> t[i].nbr, up |-> t[i].up]
    BY <1>1 DEF IsTable
  <2> QED BY <2>1, <2>2
<1> HIDE DEF u, own
<1>6. ASSUME NEW i \in Row
      PROVE  /\ t[i].nbr \in Seq(Node \cup {Root})
             /\ Without(t[i].nbr, d) \in Seq(Node \cup {Root})
             /\ Elems(Without(t[i].nbr, d)) \subseteq Elems(t[i].nbr)
             /\ Elems(t[i].nbr) \ {d} \subseteq Elems(Without(t[i].nbr, d))
             /\ Once(t[i].nbr) => /\ Once(Without(t[i].nbr, d))
                                  /\ d \notin Elems(Without(t[i].nbr, d))
  <2>1. t[i].nbr \in Seq(Node \cup {Root})
    BY DEF TableInv, RowOK
  <2> QED BY <2>1, WithoutSpec
<1>7. ASSUME NEW i \in Row PROVE RowOK(u[i])
  <2>1. RowOK(t[i])
    BY DEF TableInv
  <2>2. << >> \in Seq(Node \cup {Root}) /\ << >> \in Seq(Device)
    OBVIOUS
  <2> QED BY <1>3, <1>4, <1>5, <1>6, <2>1, <2>2 DEF RowOK
<1>8. ASSUME NEW i \in Row, t[i].addr = Zero PROVE u[i] = Blank
  <2>1. t[i] = Blank
    BY <1>1, <1>8 DEF Placed
  <2>2. t[i].nbr = << >> /\ t[i].up = << >> /\ t[i].state = 0 /\ t[i].ch = 0
    BY <2>1 DEF Blank
  <2>3. Without(t[i].nbr, d) = << >>
    <3> DEFINE w == Without(t[i].nbr, d)
    <3>1. Elems(t[i].nbr) = {}
      BY <2>2 DEF Elems
    <3>2. w \in Seq(Node \cup {Root}) /\ Elems(w) = {}
      BY <1>6, <3>1
    <3> HIDE DEF w
    <3>3. Len(w) = 0
      <4>1. Len(w) \in Nat /\ (Len(w) # 0 => 1 \in 1 .. Len(w))
        BY <3>2
      <4> QED BY <3>2, <4>1 DEF Elems
    <3>4. w = << >>
      BY <3>2, <3>3
    <3> QED BY <3>4 DEF w
  <2>4. d \notin Elems(t[i].up)
    BY <2>2 DEF Elems
  <2>5. u[i].addr = Zero /\ u[i].nbr = << >> /\ u[i].up = << >> /\ u[i].state = 0 /\ u[i].ch = 0
    BY <1>1, <1>3, <1>5, <1>8, <2>2, <2>3
  <2>6. u[i] = [addr |-> u[i].addr, state |-> u[i].state, ch |-> u[i].ch,
                nbr |-> u[i].nbr, up |-> u[i].up]
    BY <1>3 DEF IsTable
  <2> QED BY <2>5, <2>6 DEF Blank
<1>9. Placed(u)
  BY <1>1, <1>3, <1>8 DEF Placed
<1>10. TableInv(u)
  BY <1>7, <1>9 DEF TableInv
\* What the rows show.
<1>11. ASSUME NEW c \in Known, NEW i \in Row, t[i].addr = c
       PROVE  /\ LinksOn(t, c) = Elems(t[i].nbr) \cap Known
              /\ WaysOn(t, c) = Consecutive(t[i].up)
              /\ LinksOn(u, c) = Elems(u[i].nbr) \cap Known
              /\ WaysOn(u, c) = Consecutive(u[i].up)
  <2>1. t[i].addr # Zero /\ u[i].addr # Zero /\ u[i].addr = c
    BY <1>3, <1>11, NodeNames
  <2>2. LinksOn(t, t[i].addr) = Elems(t[i].nbr) \cap Known
        /\ WaysOn(t, t[i].addr) = Consecutive(t[i].up)
    BY <1>1, <2>1, RowShows
  <2>3. LinksOn(u, u[i].addr) = Elems(u[i].nbr) \cap Known
        /\ WaysOn(u, u[i].addr) = Consecutive(u[i].up)
    BY <1>9, <2>1, RowShows
  <2> QED BY <1>11, <2>1, <2>2, <2>3
<1>12. ASSUME NEW c \in Known, \A i \in Row : t[i].addr # c
       PROVE  LinksOn(t, c) = {} /\ WaysOn(t, c) = {} /\ LinksOn(u, c) = {} /\ WaysOn(u, c) = {}
  <2>1. \A i \in Row : u[i].addr # c
    BY <1>3, <1>12
  <2> QED BY <1>12, <2>1, NoRowShows
<1>13. ASSUME NEW c \in Known, NEW l \in WaysOn(u, c)
       PROVE  l \in WaysOn(t, c) /\ (d \in Known => l[1] # d /\ l[2] # d)
  <2>1. PICK i \in Row : t[i].addr = c
    BY <1>12, <1>13
  <2>2. l \in Consecutive(u[i].up) /\ WaysOn(t, c) = Consecutive(t[i].up)
    BY <1>11, <1>13, <2>1
  <2>3. u[i].up # << >>
    BY <2>2, ShortWay
  <2>4. t[i].addr # d /\ d \notin Elems(t[i].up) /\ u[i].up = t[i].up
    BY <1>4, <1>5, <2>3
  <2>5. PICK k \in 1 .. Len(t[i].up) - 1 : l = <<t[i].up[k], t[i].up[k + 1]>>
    BY <2>2, <2>4 DEF Consecutive
  <2>6. k \in 1 .. Len(t[i].up) /\ k + 1 \in 1 .. Len(t[i].up)
    <3>1. t[i].up \in Seq(Device)
      BY DEF TableInv, RowOK
    <3>2. Len(t[i].up) \in Nat
      BY <3>1
    <3> QED BY <3>2
  <2>7. l[1] \in Elems(t[i].up) /\ l[2] \in Elems(t[i].up)
    BY <2>5, <2>6 DEF Elems
  <2> QED BY <2>2, <2>4, <2>7
<1>14. ASSUME NEW c \in Known \ {d} PROVE LinksOn(t, c) \ {d} \subseteq LinksOn(u, c)
  <2>1. CASE \A i \in Row : t[i].addr # c
    BY <1>12, <2>1
  <2>2. ASSUME NEW i \in Row, t[i].addr = c PROVE LinksOn(t, c) \ {d} \subseteq LinksOn(u, c)
    <3>1. u[i].nbr = Without(t[i].nbr, d)
      BY <1>5, <2>2
    <3> QED BY <1>6, <1>11, <2>2, <3>1
  <2> QED BY <2>1, <2>2
<1>15. ASSUME OnceEach(t)
       PROVE  /\ OnceEach(u)
              /\ \A c \in Known : LinksOn(u, c) = IF c = d THEN {} ELSE LinksOn(t, c) \ {d}
  <2>0. Elems(<< >>) = {} /\ Once(<< >>)
    BY DEF Elems, Once
  <2>1. OnceEach(u)
    <3> SUFFICES ASSUME NEW i \in Row PROVE Once(u[i].nbr)
      BY DEF OnceEach
    <3>1. Once(t[i].nbr)
      BY <1>15 DEF OnceEach
    <3> QED BY <1>4, <1>5, <1>6, <2>0, <3>1
  <2>2. ASSUME NEW c \in Known
        PROVE  LinksOn(u, c) = IF c = d THEN {} ELSE LinksOn(t, c) \ {d}
    <3>1. CASE \A i \in Row : t[i].addr # c
      BY <1>12, <3>1
    <3>2. ASSUME NEW i \in Row, t[i].addr = c
          PROVE  LinksOn(u, c) = IF c = d THEN {} ELSE LinksOn(t, c) \ {d}
      <4>1. CASE c = d
        BY <1>4, <1>11, <2>0, <3>2, <4>1
      <4>2. CASE c # d
        <5>1. u[i].nbr = Without(t[i].nbr, d) /\ Once(t[i].nbr)
          BY <1>5, <1>15, <3>2, <4>2 DEF OnceEach
        <5>2. Elems(u[i].nbr) = Elems(t[i].nbr) \ {d}
          BY <1>6, <5>1
        <5> QED BY <1>11, <3>2, <4>2, <5>2
      <4> QED BY <4>1, <4>2
    <3> QED BY <3>1, <3>2
  <2> QED BY <2>1, <2>2
<1>16. RootIn(u) <=> RootIn(t)
  BY <1>3 DEF RootIn, nms_table_find
<1> QED BY <1>10, <1>13, <1>14, <1>15, <1>16 DEF u
-----------------------------------------------------------------------------
\* The links of a path are between its members.
LEMMA WayEnds ==
    ASSUME NEW S, NEW s \in Seq(S), NEW l \in Consecutive(s)
    PROVE  l[1] \in S /\ l[2] \in S /\ l = <<l[1], l[2]>>
<1>1. PICK k \in 1 .. Len(s) - 1 : l = <<s[k], s[k + 1]>>
  BY DEF Consecutive
<1>2. k \in 1 .. Len(s) /\ k + 1 \in 1 .. Len(s)
  <2>1. Len(s) \in Nat
    OBVIOUS
  <2> QED BY <2>1
<1>3. s[k] \in S /\ s[k + 1] \in S
  BY <1>2
<1> QED BY <1>1, <1>3

\* No way on display leads over the root.
LEMMA WayDevices ==
    ASSUME NEW t, TableInv(t), NEW c \in Known, NEW l \in WaysOn(t, c)
    PROVE  l[1] # Root /\ l[2] # Root
<1>1. nms_table_find(t, c) # {} /\ l \in Consecutive(t[RowOf(t, c)].up)
  BY DEF WaysOn
<1>2. RowOf(t, c) \in Row
  BY <1>1, RowFound DEF nms_table_find
<1>3. t[RowOf(t, c)].up \in Seq(Device)
  BY <1>2 DEF TableInv, RowOK
<1>4. l[1] \in Device /\ l[2] \in Device
  BY <1>1, <1>3, WayEnds
<1> QED BY <1>4, NodeNames DEF Device

\* A link on the map stays there while the table grows.
LEMMA GrownMaps ==
    ASSUME NEW t, NEW u, NEW links, Grown(u, t, links), NEW l, OnMap(t, l),
           l[1] # Root, l[2] # Root
    PROVE  OnMap(u, l)
<1> SUFFICES ASSUME l \in Known \X Known
             PROVE  l[2] \in LinksOn(u, l[1]) /\ l[1] \in LinksOn(u, l[2])
  BY DEF OnMap
<1>1. l[1] \in Known \ {Root} /\ l[2] \in Known \ {Root}
  OBVIOUS
<1> QED BY <1>1 DEF OnMap, Grown

\* A table that has grown shows no way that is not on it, and is broken or has each
\* neighbour once.
LEMMA GrownKeeps ==
    ASSUME MapInv, RootRow, RootRow', NEW t, NEW links, Grown(t, nms, links), Write(t)
    PROVE  /\ TableInv(nms')
           /\ ~taken' => OnceEach(nms')
           /\ \A a \in Known \ outdated : \A l \in WaysOn(nms', a) : OnMap(nms', l)
           /\ \A n \in Node : reply[n].fresh =>
                 \A l \in Consecutive(reply[n].path) : OnMap(nms', l)
           /\ ~taken' => /\ ~taken
                         /\ \A c \in Known : LinksOn(nms', c) = LinksOn(nms, c)
                                                \cup {b \in Known : <<c, b>> \in links}
<1>1. nms' = t /\ (~taken' => ~taken)
  BY DEF Write, RootRow
<1>2. ~taken' => RootIn(nms) /\ RootIn(t) /\ OnceEach(nms)
  BY <1>1 DEF RootRow, MapInv, RootIn
<1>3. TableInv(t) /\ (~taken' => OnceEach(t))
  BY <1>2 DEF Grown
<1>4. ASSUME NEW a \in Known \ outdated, NEW l \in WaysOn(t, a) PROVE OnMap(t, l)
  <2>1. l \in WaysOn(nms, a)
    BY <1>4 DEF Grown
  <2>2. OnMap(nms, l) /\ l[1] # Root /\ l[2] # Root
    BY <2>1, WayDevices DEF MapInv
  <2> QED BY <2>2, GrownMaps
<1>5. ASSUME NEW n \in Node, reply[n].fresh, NEW l \in Consecutive(reply[n].path)
      PROVE  OnMap(t, l)
  <2>1. reply[n].path \in Seq(Node) /\ OnMap(nms, l)
    BY <1>5 DEF MapInv, RepliesOK, Kept
  <2>2. l[1] \in Node /\ l[2] \in Node
    BY <2>1, WayEnds
  <2> QED BY <2>1, <2>2, NodeNames, GrownMaps
<1>6. ~taken' => \A c \in Known : LinksOn(t, c) = LinksOn(nms, c)
                                     \cup {b \in Known : <<c, b>> \in links}
  BY <1>2 DEF Grown
<1> QED BY <1>1, <1>3, <1>4, <1>5, <1>6

\* Handlers that change neither the replies nor what is outdated.
LEMMA GrownInv ==
    ASSUME MapInv, RootRow, RootRow', NEW t, NEW links, Grown(t, nms, links), Write(t),
           UNCHANGED <<receiving_channel, reply, outdated>>
    PROVE  MapInv'
<1>1. RepliesOK'
  BY GrownKeeps DEF MapInv, RepliesOK
<1> QED BY <1>1, GrownKeeps DEF MapInv

\* The links a Hello reports.
HelloPair(n) == {<<Root, n>>, <<n, Root>>}

LEMMA HelloGrows ==
    ASSUME MapInv, NEW n \in Neighbor, NEW ch \in Channel
    PROVE  LET v == Note(Note(nms, Root, n, ch, FALSE), n, Root, Displayed, TRUE) IN
           Grown(v, nms, HelloPair(n))
<1> DEFINE u == Note(nms, Root, n, ch, FALSE)
           v == Note(u, n, Root, Displayed, TRUE)
<1>1. n \in Node /\ n # Root
  BY NodeNames DEF Node
<1>2. Displayed \in Channel \cup {0} /\ ch \in Channel \cup {0}
  BY DEF Displayed
<1>3. Grown(u, nms, {<<Root, n>>})
  BY <1>1, <1>2, NoteGrows DEF MapInv
<1>4. TableInv(u) /\ IsTable(u)
  BY <1>3 DEF Grown, TableInv, Placed
<1> HIDE DEF u
<1>5. Grown(v, u, {<<n, Root>>})
  BY <1>1, <1>2, <1>4, NoteGrows
<1>6. Follows(v, u)
  BY <1>1, <1>4, NoteFollows
<1> HIDE DEF v
<1>7. RootIn(v) => RootIn(u)
  BY <1>6 DEF Follows, RootIn, nms_table_find
<1>8. Grown(v, nms, {<<Root, n>>} \cup {<<n, Root>>})
  BY <1>3, <1>5, <1>7, GrownFrom
<1>9. HelloPair(n) = {<<Root, n>>} \cup {<<n, Root>>}
  BY DEF HelloPair
<1> QED BY <1>8, <1>9 DEF u, v

\* The root's row is made with no neighbour.
LEMMA SendGrows ==
    ASSUME MapInv, nms_table_find(nms, Root) = {}
    PROVE  Grown(nms_table_insert(nms, Root, Zero, receiving_channel, FALSE), nms,
                 {<<Root, Zero>>})
<1>1. Put(nms_table_insert(nms, Root, Zero, receiving_channel, FALSE), nms, Home(Root),
          Root, Zero)
  <2>1. Root \in Known /\ Zero \in Node \cup {Root, Zero} /\ FALSE \in BOOLEAN
        /\ receiving_channel \in Channel \cup {0} /\ TableInv(nms)
    BY NodeNames DEF MapInv
  <2> QED BY <2>1, InsertPut
<1> QED BY <1>1, PutGrows DEF MapInv

\* A late reply to a device without a row notes the device as its own neighbour.
LEMMA OwnRowGrows ==
    ASSUME MapInv, NEW n \in Node, nms_table_find(nms, n) = {}
    PROVE  Grown(nms_table_insert(nms, n, n, Displayed, FALSE), nms, {<<n, n>>})
<1>1. Note(nms, n, n, Displayed, FALSE) = nms_table_insert(nms, n, n, Displayed, FALSE)
  BY DEF Note
<1>2. Displayed \in Channel \cup {0}
  BY DEF Displayed
<1>3. Grown(Note(nms, n, n, Displayed, FALSE), nms, {<<n, n>>})
  BY <1>2, NoteGrows DEF MapInv
<1> QED BY <1>1, <1>3

\* The reply Preq_process keeps is fresh: its links were just noted.
LEMMA PreqInv ==
    ASSUME MapInv, RootRow, RootRow', NEW p \in Path, Preq_process(p)
    PROVE  MapInv'
<1>1. PICK links : /\ Grown(PathNoted(p), nms, links)
                   /\ PathLinksOf(p) \subseteq links
  BY PathGrows DEF MapInv
<1>2. /\ Write(PathNoted(p)) /\ nms' = PathNoted(p)
      /\ reply' \in {reply, [reply EXCEPT ![p[1]] = [path |-> p, fresh |-> TRUE]]}
      /\ UNCHANGED <<receiving_channel, outdated>>
  BY DEF Preq_process, Write
<1>3. /\ TableInv(nms')
      /\ ~taken' => OnceEach(nms')
      /\ \A a \in Known \ outdated : \A l \in WaysOn(nms', a) : OnMap(nms', l)
      /\ \A n \in Node : reply[n].fresh =>
            \A l \in Consecutive(reply[n].path) : OnMap(nms', l)
  BY <1>1, <1>2, GrownKeeps
<1>4. ASSUME NEW l \in Consecutive(p) PROVE OnMap(nms', l)
  <2> SUFFICES ASSUME l \in Known \X Known
               PROVE  l[2] \in LinksOn(nms', l[1]) /\ l[1] \in LinksOn(nms', l[2])
    BY DEF OnMap
  <2>1. l[1] \in Node /\ l[2] \in Node /\ l = <<l[1], l[2]>>
    BY PathNodes, WayEnds
  <2>2. l[1] \in Known \ {Root} /\ l[2] \in Known \ {Root}
    BY <2>1, NodeNames
  <2>3. PICK k \in 1 .. Len(p) - 1 : l = <<p[k], p[k + 1]>>
    BY DEF Consecutive
  <2>4. <<l[1], l[2]>> \in links /\ <<l[2], l[1]>> \in links
    BY <1>1, <2>3 DEF PathLinksOf
  <2>5. \A m \in links : m \in (Known \ {Root}) \X Known => m[2] \in LinksOn(nms', m[1])
    BY <1>1, <1>2 DEF Grown
  <2> QED BY <2>2, <2>4, <2>5
<1>5. RepliesOK'
  <2>1. CASE reply' = reply
    BY <1>3, <2>1 DEF MapInv, RepliesOK
  <2>2. CASE reply' = [reply EXCEPT ![p[1]] = [path |-> p, fresh |-> TRUE]]
    <3>1. p[1] \in Node /\ p \in Seq(Node) /\ p # << >>
      BY PathNodes
    <3>2. reply \in [Node -> Kept]
      BY DEF MapInv, RepliesOK
    <3>3. [path |-> p, fresh |-> TRUE] \in Kept
      BY <3>1 DEF Kept
    <3>4. reply' \in [Node -> Kept]
      BY <2>2, <3>1, <3>2, <3>3
    <3>5. /\ reply'[p[1]].path = p
          /\ \A n \in Node : n # p[1] => reply'[n] = reply[n]
      BY <2>2, <3>1, <3>2
    <3>6. ASSUME NEW n \in Node
          PROVE  /\ reply'[n].path \in Path \cup {<< >>}
                 /\ reply'[n].path # << >> => reply'[n].path[1] = n
                 /\ reply'[n].fresh => \A l \in Consecutive(reply'[n].path) : OnMap(nms', l)
      <4>1. CASE n = p[1]
        BY <1>4, <3>5, <4>1
      <4>2. CASE n # p[1]
        BY <1>3, <3>5, <4>2 DEF MapInv, RepliesOK
      <4> QED BY <4>1, <4>2
    <3> QED BY <3>4, <3>6 DEF RepliesOK
  <2> QED BY <1>2, <2>1, <2>2
<1> QED BY <1>2, <1>3, <1>5 DEF MapInv

\* A reply puts its path on display and changes no link.
LEMMA ReplyShows ==
    ASSUME MapInv, NEW n \in Node, nms_table_find(nms, n) # {}, NEW p \in Path, p[1] = n
    PROVE  LET u == [nms EXCEPT ![RowOf(nms, n)].up = uplink_insert(@, p)] IN
           /\ TableInv(u) /\ (OnceEach(nms) => OnceEach(u))
           /\ \A c \in Known : LinksOn(u, c) = LinksOn(nms, c)
           /\ \A c \in Known \ {n} : WaysOn(u, c) = WaysOn(nms, c)
           /\ n \in Known /\ \A l \in WaysOn(u, n) : l \in Known \X Known => l \in Consecutive(p)
<1> DEFINE j == RowOf(nms, n)
           up == [k \in 1 .. Len(p) |-> IF p[k] \in Known THEN p[k] ELSE Zero]
           u == [nms EXCEPT ![j].up = uplink_insert(@, p)]
<1>1. j \in Row /\ nms[j].addr = n /\ Placed(nms) /\ IsTable(nms) /\ n # Zero /\ n # Root
  BY RowFound, NodeNames DEF MapInv, TableInv, Placed, nms_table_find
<1>2. n \in Known
  BY <1>1 DEF Placed
<1>3. /\ u[j] = [nms[j] EXCEPT !.up = uplink_insert(@, p)]
      /\ \A i \in Row : i # j => u[i] = nms[i]
      /\ DOMAIN u = Row /\ u = [i \in Row |-> u[i]]
  BY <1>1 DEF IsTable
<1>4. uplink_insert(nms[j].up, p) = up
  BY DEF uplink_insert
<1>5. Len(p) \in 1 .. 4 /\ \A k \in 1 .. Len(p) : p[k] \in Node
  BY PathNodes
<1>6. up \in Seq(Device) /\ Len(up) = Len(p) /\ up[1] = n
      /\ \A k \in 1 .. Len(p) : up[k] = IF p[k] \in Known THEN p[k] ELSE Zero
  <2>1. \A k \in 1 .. Len(p) : (IF p[k] \in Known THEN p[k] ELSE Zero) \in Device
    BY <1>5, NodeNames DEF Device
  <2>2. Len(p) \in Nat /\ 1 \in 1 .. Len(p)
    BY <1>5
  <2>3. up \in Seq(Device) /\ Len(up) = Len(p)
    BY <2>1, <2>2
  <2>4. up[1] = n
    BY <1>2, <2>2
  <2> QED BY <2>3, <2>4
<1> HIDE DEF up
<1>7. /\ u[j].addr = nms[j].addr /\ u[j].state = nms[j].state /\ u[j].ch = nms[j].ch
      /\ u[j].nbr = nms[j].nbr /\ u[j].up = up
      /\ u[j] = [addr |-> u[j].addr, state |-> u[j].state, ch |-> u[j].ch,
                 nbr |-> u[j].nbr, up |-> u[j].up]
  <2>1. nms[j] = [addr |-> nms[j].addr, state |-> nms[j].state, ch |-> nms[j].ch,
                  nbr |-> nms[j].nbr, up |-> nms[j].up]
    BY <1>1 DEF IsTable
  <2>2. u[j] = [nms[j] EXCEPT !.up = up]
    BY <1>3, <1>4
  <2> QED BY <2>1, <2>2
<1> HIDE DEF u, j
<1>8. IsTable(u) /\ \A i \in Row : u[i].addr = nms[i].addr /\ u[i].nbr = nms[i].nbr
  BY <1>1, <1>3, <1>7 DEF IsTable
<1>9. Placed(u)
  <2>1. \A i \in Row : u[i].addr = Zero => u[i] = Blank
    BY <1>1, <1>3, <1>8 DEF Placed
  <2> QED BY <1>1, <1>8, <2>1 DEF Placed
<1>10. TableInv(u)
  <2>1. \A i \in Row : RowOK(nms[i])
    BY DEF MapInv, TableInv
  <2>2. RowOK(u[j])
    BY <1>1, <1>6, <1>7, <2>1 DEF RowOK
  <2>3. \A i \in Row : RowOK(u[i])
    BY <1>3, <2>1, <2>2
  <2> QED BY <1>9, <2>3 DEF TableInv
<1>11. OnceEach(nms) => OnceEach(u)
  BY <1>8 DEF OnceEach
<1>12. ASSUME NEW c \in Known
       PROVE  /\ LinksOn(u, c) = LinksOn(nms, c)
              /\ c # n => WaysOn(u, c) = WaysOn(nms, c)
  <2>1. ASSUME NEW i \in Row, nms[i].addr = c
        PROVE  /\ LinksOn(u, c) = LinksOn(nms, c)
               /\ c # n => WaysOn(u, c) = WaysOn(nms, c)
    <3>1. nms[i].addr # Zero /\ u[i].addr # Zero /\ u[i].addr = c /\ u[i].nbr = nms[i].nbr
      BY <1>8, <2>1, NodeNames
    <3>2. c # n => u[i] = nms[i]
      BY <1>1, <1>3, <2>1
    <3>3. /\ LinksOn(nms, nms[i].addr) = Elems(nms[i].nbr) \cap Known
          /\ WaysOn(nms, nms[i].addr) = Consecutive(nms[i].up)
      BY <1>1, <3>1, RowShows
    <3>4. /\ LinksOn(u, u[i].addr) = Elems(u[i].nbr) \cap Known
          /\ WaysOn(u, u[i].addr) = Consecutive(u[i].up)
      BY <1>9, <3>1, RowShows
    <3> QED BY <2>1, <3>1, <3>2, <3>3, <3>4
  <2>2. CASE \A i \in Row : nms[i].addr # c
    <3>1. \A i \in Row : u[i].addr # c
      BY <1>8, <2>2
    <3> QED BY <2>2, <3>1, NoRowShows
  <2> QED BY <2>1, <2>2
<1>13. WaysOn(u, n) = Consecutive(up)
  BY <1>1, <1>7, <1>9, RowShows
<1>14. ASSUME NEW l \in Consecutive(up), l \in Known \X Known PROVE l \in Consecutive(p)
  <2>1. PICK k \in 1 .. Len(p) - 1 : l = <<up[k], up[k + 1]>>
    BY <1>6 DEF Consecutive
  <2>2. k \in 1 .. Len(p) /\ k + 1 \in 1 .. Len(p)
    <3>1. Len(p) \in Int
      BY PathNodes
    <3> QED BY <3>1
  <2>3. up[k] \in Known /\ up[k + 1] \in Known
    BY <1>14, <2>1
  <2>4. up[k] = p[k] /\ up[k + 1] = p[k + 1]
    BY <1>6, <2>2, <2>3, NodeNames
  <2> QED BY <2>1, <2>4 DEF Consecutive
<1> QED BY <1>2, <1>10, <1>11, <1>12, <1>13, <1>14 DEF u, j

\* The table the reset leaves shows no link.
LEMMA EmptyTableInv ==
    ASSUME NEW ch \in Channel
    PROVE  LET t == EmptyTable(ch) IN
           /\ TableInv(t) /\ OnceEach(t)
           /\ \A c \in Known : LinksOn(t, c) = {} /\ WaysOn(t, c) = {}
<1> DEFINE t == EmptyTable(ch)
<1>1. 0 \in Row /\ IsTable(t) /\ Root \in Known /\ Root # Zero
  BY EmptyTableRoot, NodeNames, MacAssumption DEF Row
<1>2. t[0] = [addr |-> Root, state |-> 1, ch |-> ch, nbr |-> << >>, up |-> << >>]
      /\ \A i \in Row : i # 0 => t[i] = Blank
  BY <1>1 DEF EmptyTable, Blank
<1> HIDE DEF t
<1>3. \A i \in Row : /\ t[i].addr = (IF i = 0 THEN Root ELSE Zero)
                     /\ t[i].state \in {0, 1} /\ t[i].ch \in Channel \cup {0}
                     /\ t[i].nbr = << >> /\ t[i].up = << >>
  BY <1>2 DEF Blank
<1>4. Placed(t)
  BY <1>1, <1>2, <1>3 DEF Placed
<1>5. TableInv(t)
  <2>1. << >> \in Seq(Node \cup {Root}) /\ << >> \in Seq(Device)
    OBVIOUS
  <2> QED BY <1>3, <1>4, <2>1 DEF TableInv, RowOK
<1>6. Once(<< >>) /\ Elems(<< >>) = {} /\ Consecutive(<< >>) = {}
  <2>1. Len(<< >>) = 0 /\ \A k : k \notin 1 .. 0
    OBVIOUS
  <2>2. Once(<< >>) /\ Elems(<< >>) = {}
    BY <2>1, Zenon DEF Once, Elems
  <2> QED BY <2>2, ShortWay
<1>7. OnceEach(t)
  BY <1>3, <1>6 DEF OnceEach
<1>8. ASSUME NEW c \in Known PROVE LinksOn(t, c) = {} /\ WaysOn(t, c) = {}
  <2>1. CASE nms_table_find(t, c) = {}
    BY <2>1 DEF LinksOn, WaysOn
  <2>2. CASE nms_table_find(t, c) # {}
    <3>1. RowOf(t, c) \in Row
      BY <2>2, RowFound DEF nms_table_find
    <3> QED BY <1>3, <1>6, <2>2, <3>1 DEF LinksOn, WaysOn
  <2> QED BY <2>1, <2>2
<1> QED BY <1>5, <1>7, <1>8 DEF t

\* No reply is kept.
LEMMA NoReplyKept == NoReply \in Kept /\ NoReply.path = << >>
                     /\ Consecutive(NoReply.path) = {}
<1>1. NoReply.path = << >> /\ << >> \in Seq(Node)
  BY DEF NoReply
<1> QED BY <1>1, ShortWay DEF NoReply, Kept

\* The invariant holds at the start, ...
LEMMA InitInv == ASSUME Init PROVE MapInv
<1>1. TableInv(nms) /\ OnceEach(nms) /\ \A c \in Known : WaysOn(nms, c) = {}
  BY EmptyTableInv DEF Init
<1>2. RepliesOK
  BY NoReplyKept DEF Init, RepliesOK
<1> QED BY <1>1, <1>2 DEF MapInv, Init

\* A reset leaves replies that are not fresh.
LEMMA ClearedInv ==
    ASSUME MapInv, NEW ch \in Channel, Cleared(ch), receiving_channel' \in Channel
    PROVE  MapInv'
<1>1. TableInv(nms') /\ OnceEach(nms') /\ \A c \in Known : WaysOn(nms', c) = {}
  BY EmptyTableInv DEF Cleared
<1>2. \A n \in Node : reply[n] \in Kept
  BY DEF MapInv, RepliesOK
<1>3. /\ DOMAIN reply' = Node /\ reply' = [n \in Node |-> reply'[n]]
      /\ \A n \in Node : /\ reply'[n] \in Kept /\ reply'[n].path = reply[n].path
                         /\ reply'[n].fresh = (reply[n] = NoReply)
  BY <1>2 DEF Cleared, Kept
<1>4. reply' \in [Node -> Kept]
  BY <1>3
<1>5. ASSUME NEW n \in Node
      PROVE  /\ reply'[n].path \in Path \cup {<< >>}
             /\ reply'[n].path # << >> => reply'[n].path[1] = n
             /\ reply'[n].fresh => \A l \in Consecutive(reply'[n].path) : OnMap(nms', l)
  <2>1. /\ reply[n].path \in Path \cup {<< >>}
        /\ reply[n].path # << >> => reply[n].path[1] = n
    BY DEF MapInv, RepliesOK
  <2>2. reply'[n].path = reply[n].path /\ (reply'[n].fresh => reply[n] = NoReply)
    BY <1>3
  <2>3. reply'[n].fresh => Consecutive(reply'[n].path) = {}
    BY <2>2, NoReplyKept
  <2> QED BY <2>1, <2>2, <2>3
<1>6. RepliesOK'
  BY <1>4, <1>5 DEF RepliesOK
<1> QED BY <1>1, <1>6 DEF MapInv, Cleared

\* A death takes the ways over the device off the map, and a reply whose path it is
\* on is not fresh any more.
LEMMA DeathInv ==
    ASSUME MapInv, RootRow, NEW d \in Node, Death(d)
    PROVE  MapInv'
<1> DEFINE u == nms_table_perr_update(nms, d)
<1>1. /\ TableInv(u)
      /\ \A c \in Known : \A l \in WaysOn(u, c) :
            l \in WaysOn(nms, c) /\ (d \in Known => l[1] # d /\ l[2] # d)
      /\ \A c \in Known \ {d} : LinksOn(nms, c) \ {d} \subseteq LinksOn(u, c)
      /\ OnceEach(nms) => OnceEach(u)
  BY DeathThins DEF MapInv
<1> HIDE DEF u
<1>2. /\ nms' = u /\ (~taken' => ~taken)
      /\ UNCHANGED <<receiving_channel, outdated>>
      /\ reply' = [n \in Node |->
                      [reply[n] EXCEPT !.fresh = @ /\ d \notin Elems(reply[n].path)]]
  BY DEF Death, Write, RootRow, u
<1>3. ASSUME NEW l, OnMap(nms, l), l[1] # d, l[2] # d PROVE OnMap(u, l)
  BY <1>1, <1>3 DEF OnMap
<1>4. ASSUME NEW a \in Known \ outdated, NEW l \in WaysOn(u, a) PROVE OnMap(u, l)
  <2>1. OnMap(nms, l) /\ (d \in Known => l[1] # d /\ l[2] # d)
    BY <1>1 DEF MapInv
  <2>2. CASE l \in Known \X Known
    BY <1>3, <2>1, <2>2
  <2>3. CASE l \notin Known \X Known
    BY <2>3 DEF OnMap
  <2> QED BY <2>2, <2>3
<1>5. \A n \in Node : reply[n] \in Kept
  BY DEF MapInv, RepliesOK
<1>6. /\ reply' \in [Node -> Kept]
      /\ \A n \in Node : /\ reply'[n].path = reply[n].path
                         /\ reply'[n].fresh => /\ reply[n].fresh
                                               /\ d \notin Elems(reply[n].path)
  BY <1>2, <1>5, Zenon DEF Kept
<1>7. ASSUME NEW n \in Node, reply'[n].fresh, NEW l \in Consecutive(reply[n].path)
      PROVE  OnMap(u, l)
  <2>1. OnMap(nms, l) /\ d \notin Elems(reply[n].path)
    BY <1>6, <1>7 DEF MapInv, RepliesOK
  <2>2. reply[n].path \in Seq(Elems(reply[n].path))
    <3>1. reply[n].path \in Seq(Node)
      BY <1>5 DEF Kept
    <3> DEFINE s == reply[n].path
    <3> HIDE DEF s
    <3>2. ASSUME s \in Seq(Node) PROVE s \in Seq(Elems(s))
      <4>1. s = [k \in 1 .. Len(s) |-> s[k]] /\ Len(s) \in Nat
        BY <3>2
      <4>2. \A k \in 1 .. Len(s) : s[k] \in Elems(s)
        BY DEF Elems
      <4>3. s \in [1 .. Len(s) -> Elems(s)]
        BY <4>1, <4>2
      <4> HIDE DEF Elems
      <4> QED BY <4>1, <4>3
    <3> QED BY <3>1, <3>2 DEF s
  <2>3. l[1] # d /\ l[2] # d
    BY <2>1, <2>2, WayEnds
  <2> QED BY <1>3, <2>1, <2>3
<1>8. RepliesOK'
  BY <1>2, <1>6, <1>7 DEF MapInv, RepliesOK
<1> QED BY <1>1, <1>2, <1>4, <1>8 DEF MapInv

\* The reply of n is sent, and is not kept any more.
LEMMA ReplySent ==
    ASSUME RepliesOK, NEW n \in Node, reply' = [reply EXCEPT ![n] = NoReply],
           \A m \in Node : reply[m].fresh =>
               \A l \in Consecutive(reply[m].path) : OnMap(nms', l)
    PROVE  RepliesOK'
<1>1. /\ reply' \in [Node -> Kept] /\ reply'[n] = NoReply
      /\ \A m \in Node : m # n => reply'[m] = reply[m]
  BY NoReplyKept DEF RepliesOK
<1>2. ASSUME NEW m \in Node
      PROVE  /\ reply'[m].path \in Path \cup {<< >>}
             /\ reply'[m].path # << >> => reply'[m].path[1] = m
             /\ reply'[m].fresh => \A l \in Consecutive(reply'[m].path) : OnMap(nms', l)
  <2>1. CASE m = n
    BY <1>1, <2>1, NoReplyKept
  <2>2. CASE m # n
    BY <1>1, <2>2 DEF RepliesOK
  <2> QED BY <2>1, <2>2
<1> QED BY <1>1, <1>2 DEF RepliesOK

\* A path that goes on display is fresh, or its device is outdated.
LEMMA PrepInv ==
    ASSUME MapInv, RootRow, RootRow', NEW n \in Node, Prep_send(n)
    PROVE  MapInv'
<1> DEFINE p == reply[n].path
<1>1. /\ p # << >> /\ reply' = [reply EXCEPT ![n] = NoReply]
      /\ Write(nms') /\ UNCHANGED receiving_channel
      /\ nms' = IF nms_table_find(nms, n) = {}
                THEN nms_table_insert(nms, n, n, Displayed, FALSE)
                ELSE [nms EXCEPT ![RowOf(nms, n)].up = uplink_insert(@, p)]
      /\ outdated' = IF reply[n].fresh THEN outdated \ {n} ELSE outdated \cup {n}
  BY DEF Prep_send, Write
<1>2. p \in Path /\ p[1] = n
  BY <1>1 DEF MapInv, RepliesOK
<1>3. outdated' \subseteq Node /\ receiving_channel' \in Channel /\ RepliesOK
  BY <1>1 DEF MapInv
<1>4. CASE nms_table_find(nms, n) = {}
  <2>1. Grown(nms', nms, {<<n, n>>})
    BY <1>1, <1>4, OwnRowGrows
  <2>2. /\ TableInv(nms')
        /\ ~taken' => OnceEach(nms')
        /\ \A a \in Known \ outdated : \A l \in WaysOn(nms', a) : OnMap(nms', l)
        /\ \A m \in Node : reply[m].fresh =>
              \A l \in Consecutive(reply[m].path) : OnMap(nms', l)
    BY <1>1, <2>1, GrownKeeps
  <2>3. n \in Known => WaysOn(nms', n) = {}
    BY <1>4, <2>1 DEF Grown, WaysOn
  <2>4. RepliesOK'
    BY <1>1, <1>3, <2>2, ReplySent
  <2>5. \A a \in Known \ outdated' : \A l \in WaysOn(nms', a) : OnMap(nms', l)
    BY <1>1, <2>2, <2>3
  <2> QED BY <1>3, <2>2, <2>4, <2>5 DEF MapInv
<1>5. CASE nms_table_find(nms, n) # {}
  <2>1. /\ TableInv(nms') /\ (OnceEach(nms) => OnceEach(nms'))
        /\ \A c \in Known : LinksOn(nms', c) = LinksOn(nms, c)
        /\ \A c \in Known \ {n} : WaysOn(nms', c) = WaysOn(nms, c)
        /\ n \in Known
        /\ \A l \in WaysOn(nms', n) : l \in Known \X Known => l \in Consecutive(p)
    BY <1>1, <1>2, <1>5, ReplyShows
  <2>2. ASSUME NEW l, OnMap(nms, l) PROVE OnMap(nms', l)
    BY <2>1, <2>2 DEF OnMap
  <2>3. ~taken' => OnceEach(nms')
    BY <1>1, <2>1 DEF MapInv, Write, RootRow
  <2>4. RepliesOK'
    BY <1>1, <1>3, <2>2, ReplySent DEF RepliesOK
  <2>5. ASSUME NEW a \in Known \ outdated', NEW l \in WaysOn(nms', a) PROVE OnMap(nms', l)
    <3>1. CASE a = n
      <4>1. reply[n].fresh
        BY <1>1, <3>1
      <4>2. CASE l \in Known \X Known
        <5>1. l \in Consecutive(p)
          BY <2>1, <3>1, <4>2
        <5> QED BY <2>2, <4>1, <5>1 DEF MapInv, RepliesOK
      <4>3. CASE l \notin Known \X Known
        BY <4>3 DEF OnMap
      <4> QED BY <4>2, <4>3
    <3>2. CASE a # n
      <4>1. a \in Known \ outdated /\ l \in WaysOn(nms, a)
        BY <1>1, <2>1, <3>2
      <4> QED BY <2>2, <4>1 DEF MapInv
    <3> QED BY <3>1, <3>2
  <2> QED BY <1>3, <2>1, <2>3, <2>4, <2>5 DEF MapInv
<1> QED BY <1>4, <1>5

\* Every step keeps MapInv.
LEMMA StepInv == ASSUME MapInv, RootRow, RootRow', [Next]_vars PROVE MapInv'
<1>1. ASSUME NEW n \in Neighbor, Hello_process(n) PROVE MapInv'
  <2>1. PICK ch \in Channel :
            /\ Write(Note(Note(nms, Root, n, ch, FALSE), n, Root, Displayed, TRUE))
            /\ UNCHANGED <<receiving_channel, reply, outdated>>
    BY <1>1 DEF Hello_process
  <2> QED BY <2>1, HelloGrows, GrownInv
<1>2. CASE Hello_send
  BY <1>2, SendGrows, GrownInv DEF Hello_send
<1>3. ASSUME NEW p \in Path, Preq_process(p) PROVE MapInv'
  BY <1>3, PreqInv
<1>4. ASSUME NEW n \in Node, Prep_send(n) PROVE MapInv'
  BY <1>4, PrepInv
<1>5. ASSUME NEW d \in Node, Death(d) PROVE MapInv'
  BY <1>5, DeathInv
<1>6. CASE rt_NMS_reset
  BY <1>6, ClearedInv DEF rt_NMS_reset, MapInv
<1>7. ASSUME NEW ch \in Channel, ChangeChannel(ch) PROVE MapInv'
  <2>1. CASE Cleared(ch)
    BY <1>7, <2>1, ClearedInv DEF ChangeChannel
  <2>2. CASE UNCHANGED <<nms, reply, taken, foreign, outdated>>
    BY <1>7, <2>2 DEF ChangeChannel, MapInv, RepliesOK
  <2> QED BY <1>7, <2>1, <2>2 DEF ChangeChannel
<1>8. CASE UNCHANGED vars
  BY <1>8 DEF vars, MapInv, RepliesOK
<1> QED BY <1>1, <1>2, <1>3, <1>4, <1>5, <1>6, <1>7, <1>8 DEF Next

\* ... and in every state.
LEMMA MapInvariant == Spec => []MapInv
<1>1. Init => MapInv
  BY InitInv
<1>2. MapInv /\ RootRow /\ RootRow' /\ [Next]_vars => MapInv'
  BY StepInv
<1> QED BY <1>1, <1>2, RootRowInvariant, PTL DEF Spec
-----------------------------------------------------------------------------
\* The links of the specification are those of its table.
LEMMA LinksAre == \A a : Links(a) = LinksOn(nms, a)
  BY DEF Links, LinksOn, HasRow

\* In every state of every behaviour each row of the table is blank or a known
\* device's, the lists that nms_table_insert, nms_table_update, the deletion by
\* shifting and nms_table_uplink_insert leave hold devices only, and the PREQs
\* kept for a reply are paths a PREQ has.
THEOREM TypeCorrect == Spec => []TypeOK
<1>1. MapInv /\ RootRow => TypeOK
  <2> SUFFICES ASSUME MapInv, RootRow PROVE TypeOK
    OBVIOUS
  <2>1. /\ receiving_channel \in Channel /\ outdated \subseteq Node
        /\ taken \in BOOLEAN /\ foreign \in BOOLEAN
    BY DEF MapInv, RootRow
  <2>2. ASSUME NEW i \in Row
        PROVE  /\ nms[i].addr \in Known \cup {Zero} /\ nms[i].state \in {0, 1}
               /\ nms[i].ch \in Channel \cup {0}
               /\ nms[i].nbr \in Seq(Node \cup {Root}) /\ nms[i].up \in Seq(Known \cup {Zero})
    <3>1. RowOK(nms[i]) /\ nms[i].addr \in Known \cup {Zero}
      BY DEF MapInv, TableInv, Placed
    <3>2. Seq(Device) \subseteq Seq(Known \cup {Zero})
      BY DEF Device
    <3> QED BY <3>1, <3>2 DEF RowOK
  <2>3. \A n \in Node : reply[n].path \in Path \cup {<< >>} /\ reply[n].fresh \in BOOLEAN
    BY DEF MapInv, RepliesOK, Kept
  <2> QED BY <2>1, <2>2, <2>3 DEF TypeOK
<1> QED BY <1>1, MapInvariant, RootRowInvariant, PTL

\* In every state a path that Prep_send put on display leads over links that the
\* rows of both ends show, whatever died, was reset or was overwritten in the three
\* seconds between the PREQ and its reply, but for the devices whose reply was
\* older than a death on the path, or than a reset.
THEOREM PathsHold == Spec => []PathsOnMap
<1>1. MapInv => PathsOnMap
  BY LinksAre DEF MapInv, PathsOnMap, WaysOn, OnMap, HasRow
<1> QED BY <1>1, MapInvariant, PTL
-----------------------------------------------------------------------------
\* The map a table shows.
Adj(t) == [a \in Known |-> LinksOn(t, a)]

\* The map of the table, before and after a step.
LEMMA AdjIs ==
    /\ [a \in Known |-> Links(a)] = Adj(nms)
    /\ [a \in Known |-> Links(a)]' = Adj(nms')
<1>1. [a \in Known |-> Links(a)] = Adj(nms)
  BY LinksAre DEF Adj
<1>2. [a \in Known |-> Links(a)]' = Adj(nms')
  BY DEF Adj, Links, LinksOn, HasRow
<1> QED BY <1>1, <1>2

\* A table that has grown by links a frame may report has learnt them, or is broken.
LEMMA GrownLearns ==
    ASSUME MapInv, RootRow, RootRow', NEW links \in Reported, NEW t,
           Grown(t, nms, links), Write(t)
    PROVE  Map!MapNext
<1>1. CASE taken'
  BY <1>1 DEF Map!MapNext, Map!Break
<1>2. CASE ~taken'
  <2>1. ~taken /\ \A c \in Known : LinksOn(nms', c) = LinksOn(nms, c)
                                       \cup {b \in Known : <<c, b>> \in links}
    BY <1>2, GrownKeeps
  <2>2. taken' = taken
    BY <1>2, <2>1 DEF RootRow
  <2>3. Adj(nms') = Map!With(Adj(nms), links)
    BY <2>1 DEF Adj, Map!With
  <2>4. Map!Learn(links)
    BY <2>2, <2>3, AdjIs DEF Map!Learn
  <2> QED BY <2>4 DEF Map!MapNext
<1> QED BY <1>1, <1>2

\* What the frames report.
LEMMA HelloReports == ASSUME NEW n \in Neighbor PROVE HelloPair(n) \in Reported
  BY DEF HelloPair, Reported, HelloLinks

LEMMA RowReports ==
    ASSUME NEW n \in Node PROVE {<<n, Root>>} \in Reported /\ {<<n, n>>} \in Reported
  BY DEF Reported, RowLinks

LEMMA PathReports == ASSUME NEW p \in Path PROVE PathLinksOf(p) \in Reported
<1> DEFINE L == UNION {{<<p[k], p[k + 1]>>, <<p[k + 1], p[k]>>} : k \in 1 .. Len(p) - 1}
<1>1. L = PathLinksOf(p)
  BY DEF PathLinksOf
<1>2. L \in PathLinks
  BY DEF PathLinks
<1> QED BY <1>1, <1>2 DEF Reported

\* A reset clears the map.
LEMMA ClearedClears == ASSUME NEW ch \in Channel, Cleared(ch) PROVE Map!MapNext
<1>1. \A c \in Known : LinksOn(nms', c) = {}
  BY EmptyTableInv DEF Cleared
<1>2. Adj(nms') = Map!NoLinks
  BY <1>1 DEF Adj, Map!NoLinks
<1>3. Map!Clear
  BY <1>2, AdjIs DEF Cleared, Map!Clear
<1> QED BY <1>3 DEF Map!MapNext

\* A death of a known device takes it off the map, one of another device nothing.
LEMMA DeathForgets ==
    ASSUME MapInv, RootRow, RootRow', NEW d \in Node, Death(d)
    PROVE  [Map!MapNext]_(Map!mapVars)
<1> DEFINE u == nms_table_perr_update(nms, d)
<1>1. OnceEach(nms) =>
          \A c \in Known : LinksOn(u, c) = IF c = d THEN {} ELSE LinksOn(nms, c) \ {d}
  BY DeathThins DEF MapInv
<1> HIDE DEF u
<1>2. nms' = u /\ (~taken' => ~taken) /\ taken' \in BOOLEAN /\ taken \in BOOLEAN
  BY DEF Death, Write, RootRow, u
<1>3. CASE taken'
  BY <1>3 DEF Map!MapNext, Map!Break
<1>4. CASE ~taken'
  <2>1. taken' = taken /\ OnceEach(nms)
    BY <1>2, <1>4 DEF MapInv
  <2>2. CASE d \in Known
    <3>1. Adj(nms') = Map!Without(Adj(nms), d)
      BY <1>1, <1>2, <2>1 DEF Adj, Map!Without
    <3>2. Map!Forget(d)
      BY <2>1, <3>1, AdjIs DEF Map!Forget
    <3> QED BY <2>2, <3>2 DEF Map!MapNext
  <2>3. CASE d \notin Known
    <3>1. \A c \in Known : c # d /\ d \notin LinksOn(nms, c)
      BY <2>3 DEF LinksOn
    <3>2. \A c \in Known : LinksOn(u, c) = LinksOn(nms, c)
      BY <1>1, <2>1, <3>1
    <3>3. Adj(nms') = Adj(nms)
      BY <1>2, <3>2 DEF Adj
    <3> QED BY <2>1, <3>3, AdjIs DEF Map!mapVars
  <2> QED BY <2>2, <2>3
<1> QED BY <1>3, <1>4

\* A reply shows a path, or learns the device as its own neighbour.
LEMMA ReplyLearns ==
    ASSUME MapInv, RootRow, RootRow', NEW n \in Node, Prep_send(n)
    PROVE  [Map!MapNext]_(Map!mapVars)
<1> DEFINE p == reply[n].path
<1>1. /\ p # << >> /\ Write(nms')
      /\ nms' = IF nms_table_find(nms, n) = {}
                THEN nms_table_insert(nms, n, n, Displayed, FALSE)
                ELSE [nms EXCEPT ![RowOf(nms, n)].up = uplink_insert(@, p)]
  BY DEF Prep_send, Write
<1>2. p \in Path /\ p[1] = n
  BY <1>1 DEF MapInv, RepliesOK
<1>3. CASE nms_table_find(nms, n) = {}
  <2>1. Grown(nms', nms, {<<n, n>>})
    BY <1>1, <1>3, OwnRowGrows
  <2> QED BY <1>1, <2>1, RowReports, GrownLearns
<1>4. CASE nms_table_find(nms, n) # {}
  <2>1. \A c \in Known : LinksOn(nms', c) = LinksOn(nms, c)
    BY <1>1, <1>2, <1>4, ReplyShows
  <2>2. Adj(nms') = Adj(nms)
    BY <2>1 DEF Adj
  <2>3. taken' \/ taken' = taken
    BY <1>1 DEF Write, RootRow
  <2>4. CASE taken'
    BY <2>4 DEF Map!MapNext, Map!Break
  <2>5. CASE taken' = taken
    BY <2>2, <2>5, AdjIs DEF Map!mapVars
  <2> QED BY <2>3, <2>4, <2>5
<1> QED BY <1>3, <1>4

\* Every step of the table is one of the map, or leaves it.
LEMMA StepMaps ==
    ASSUME MapInv, RootRow, RootRow', [Next]_vars
    PROVE  [Map!MapNext]_(Map!mapVars)
<1>1. ASSUME NEW n \in Neighbor, Hello_process(n) PROVE Map!MapNext
  <2>1. PICK ch \in Channel :
            Write(Note(Note(nms, Root, n, ch, FALSE), n, Root, Displayed, TRUE))
    BY <1>1 DEF Hello_process
  <2> QED BY <2>1, HelloGrows, HelloReports, GrownLearns
<1>2. CASE Hello_send
  <2>1. taken /\ taken'
    BY <1>2 DEF Hello_send, RootRow, Write
  <2> QED BY <2>1 DEF Map!MapNext, Map!Break
<1>3. ASSUME NEW p \in Path, Preq_process(p) PROVE Map!MapNext
  <2>1. PICK links : /\ Grown(PathNoted(p), nms, links)
                     /\ links = PathLinksOf(p) \/ links = {<<p[1], Root>>}
    BY PathGrows DEF MapInv
  <2>2. p[1] \in Node
    BY PathNodes
  <2>3. links \in Reported
    BY <2>1, <2>2, PathReports, RowReports
  <2> QED BY <1>3, <2>1, <2>3, GrownLearns DEF Preq_process
<1>4. ASSUME NEW n \in Node, Prep_send(n) PROVE [Map!MapNext]_(Map!mapVars)
  BY <1>4, ReplyLearns
<1>5. ASSUME NEW d \in Node, Death(d) PROVE [Map!MapNext]_(Map!mapVars)
  BY <1>5, DeathForgets
<1>6. CASE rt_NMS_reset
  BY <1>6, ClearedClears DEF rt_NMS_reset, MapInv
<1>7. ASSUME NEW ch \in Channel, ChangeChannel(ch) PROVE [Map!MapNext]_(Map!mapVars)
  <2>1. CASE Cleared(ch)
    BY <2>1, ClearedClears
  <2>2. CASE UNCHANGED <<nms, taken>>
    <3>1. Adj(nms') = Adj(nms)
      BY <2>2
    <3> QED BY <2>2, <3>1, AdjIs DEF Map!mapVars
  <2> QED BY <1>7, <2>1, <2>2 DEF ChangeChannel
<1>8. CASE UNCHANGED vars
  <2>1. UNCHANGED <<nms, taken>>
    BY <1>8 DEF vars
  <2>2. Adj(nms') = Adj(nms)
    BY <2>1
  <2> QED BY <2>1, <2>2, AdjIs DEF Map!mapVars
<1> QED BY <1>1, <1>2, <1>3, <1>4, <1>5, <1>6, <1>7, <1>8 DEF Next

\* The table the handlers keep, with its list of rows, its neighbour lists and its
\* deletions by shifting, implements Topology: each frame adds the links it
\* reports and no other, a death takes the device out of every row, a reset clears
\* all, until a device is put over the root's row.
THEOREM TableIsMap == Spec => ImplementsTopology
<1>1. Init => Map!MapInit
  <2> SUFFICES ASSUME Init PROVE Map!MapInit
    OBVIOUS
  <2>1. \A c \in Known : LinksOn(nms, c) = {}
    BY EmptyTableInv DEF Init
  <2>2. Adj(nms) = Map!NoLinks
    BY <2>1 DEF Adj, Map!NoLinks
  <2> QED BY <2>2, AdjIs DEF Map!MapInit, Init
<1>2. MapInv /\ RootRow /\ RootRow' /\ [Next]_vars => [Map!MapNext]_(Map!mapVars)
  BY StepMaps
<1> QED
  BY <1>1, <1>2, MapInvariant, RootRowInvariant, PTL DEF Spec, ImplementsTopology, Map!MapSpec
=============================================================================
