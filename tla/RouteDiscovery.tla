---------------------------- MODULE RouteDiscovery ----------------------------
(* Route discovery of the mesh (aodv.c).  The root floods RANN; a node that  *)
(* has no route to the root answers with a PREQ that collects the nodes it   *)
(* passes; the root waits three seconds for the best PREQ of an originator   *)
(* and sends a PREP back along the collected path, and the PREP leaves the   *)
(* routes in both directions.  A node that has a route sends a RANN_ACK.     *)
(*                                                                           *)
(* Every node runs the same program: a transmit queue, one global that holds *)
(* the MAC destination of the next unicast frame, and a route table.  A      *)
(* frame on the air reaches a subset of the nodes in range, at any time.     *)
EXTENDS Integers, Sequences, FiniteSets, RouteTable

CONSTANTS Node, Root,
          Link,        \* pairs <<m, n>>: n can receive what m sends
          HelloLink,   \* the pairs of Link over which Hello frames get through
          Garbage,     \* addresses a read past the end of a frame may yield
          Alm,         \* airtime link metrics a node may measure for a neighbour
          metric,      \* 1: hop count, 2: airtime link metric
          RANN_TTL,    \* 3 in the code
          PREQ_TTL,    \* 4 in the code
          MaxRann      \* bound: announcements the root makes

\* What lies behind a frame may be left over from an earlier frame's address
\* list, so an address of Garbage may be a node's.
ASSUME NodeAssumption == Root \in Node
ASSUME LinkAssumption ==
    Link \in SUBSET (Node \X Node) /\ HelloLink \in SUBSET Link
    /\ \A n \in Node : <<n, n>> \notin Link
\* A larger PREQ_TTL would let a PREQ visit a node twice, see PreqPathsReal.
ASSUME TtlAssumption == RANN_TTL \in Nat \ {0} /\ PREQ_TTL \in 1 .. 4
\* A larger mesh may fill a table (10 slots: 6 nodes), see TableFits.
ASSUME RoomAssumption == IsFiniteSet(Node) /\ 2 * Cardinality(Node) - 2 <= RT_SIZE
ASSUME MetricAssumption == metric \in {1, 2} /\ Alm \in SUBSET Nat /\ MaxRann \in Nat

NoAddr == "none"       \* no address: a prev_addr or dest_mac_addr never written

Address == Node \cup Garbage

VARIABLES
    rt,          \* rt_t: per node, its route table
    rann_order,  \* per node, the order of the last announcement it took
    tmp_preq,    \* root: per table slot, the best PREQ and whether it is used
    armed,       \* root: the slots whose route_select_timer runs
    tq,          \* per node, the frames waiting for the transmit timer
    dest_mac,    \* per node, the global dest_mac_addr
    air,         \* frames on the air: who sent them, who may still receive them
    crashed,     \* nodes whose process has died
    astray       \* history: the nodes that took a PREP meant for another one

vars == <<rt, rann_order, tmp_preq, armed, tq, dest_mac, air, crashed, astray>>

Entry(dest, next, source, prev, hcnt, alm, seqno) ==
    [state |-> 1, dest |-> dest, next |-> next, source |-> source,
     prev |-> prev, hcnt |-> hcnt, alm |-> alm, seqno |-> seqno]

Rann(order, ttl) == [type |-> "RANN", order |-> order, ttl |-> ttl]

\* hcnt of a PREQ is the length of its path: Make_msg_format_PREQ and
\* Preq_forward add one address each time they add one to hcnt.
Preq(path, ttl, alm, seqno) ==
    [type |-> "PREQ", path |-> path, ttl |-> ttl, alm |-> alm, seqno |-> seqno]

\* ext_length of a PREP is the length of ext.  The node the PREP was queued for
\* (next) is not in the code's message; no handler reads it here.
Prep(dest, ext, hcnt, seqno, next) ==
    [type |-> "PREP", dest |-> dest, ext |-> ext, hcnt |-> hcnt,
     seqno |-> seqno, next |-> next]

RannAck(orig, next) == [type |-> "RANN_ACK", orig |-> orig, next |-> next]

Unicast(f) == f.type \in {"PREP", "RANN_ACK"}

NoPreq == Preq(<< >>, 0, 0, 0)

Init ==
    /\ rt = [n \in Node |-> EmptyTable]
    /\ rann_order = [n \in Node |-> 0]
    /\ tmp_preq = [i \in TableSlots |-> [used |-> FALSE, preq |-> NoPreq]]
    /\ armed = {}
    /\ tq = [n \in Node |-> << >>]
    /\ dest_mac = [n \in Node |-> NoAddr]
    /\ air = {}
    /\ crashed = {}
    /\ astray = {}

\* The route n uses for what originates at s, towards the root.
Uplink(n, s) == rt_table_find_from(rt[n], Root, s)

Orig(p) == p.path[1]
-----------------------------------------------------------------------------
\* Transmission.  tq is first in first out (see TxQueue); the timer thread
\* addresses a unicast frame to the dest_mac_addr of the moment it sends.

addq(n, f) == tq' = [tq EXCEPT ![n] = Append(@, f)]

\* The whole frame building of a unicast: the global first, then the queue.
addqUnicast(n, f) ==
    /\ addq(n, f)
    /\ dest_mac' = [dest_mac EXCEPT ![n] = f.next]

Reach(n, f) ==
    {m \in Node : <<n, m>> \in Link /\ (Unicast(f) => dest_mac[n] = m)}

\* The head of the queue goes on the air; the nodes of S receive it, the others
\* in range miss it.  Propagation and the receive callback are short against
\* the 50 ms between transmissions: every receiver handles a frame before the
\* next one is sent.
Transmit(n) ==
    /\ n \notin crashed /\ tq[n] # << >> /\ air = {}
    /\ tq' = [tq EXCEPT ![n] = Tail(@)]
    /\ \E S \in SUBSET (Reach(n, Head(tq[n])) \ crashed) :
          air' = {[from |-> n, to |-> m, frame |-> Head(tq[n])] : m \in S}
    /\ UNCHANGED <<rt, rann_order, tmp_preq, armed, dest_mac, crashed, astray>>

Received(d) == air' = air \ {d}

-----------------------------------------------------------------------------
\* Hello_process: the first Hello of a neighbour becomes a one-hop route,
\* unless some entry, of whatever source, already leads there.
HelloHeard(m, n) ==
    /\ <<m, n>> \in HelloLink
    /\ n \notin crashed /\ m \notin crashed
    /\ rt_table_find(rt[n], m) = NoSlot
    /\ rt' = [rt EXCEPT ![n] = rt_table_insert(@, Entry(m, m, n, NoAddr, 1, 0, 0))]
    /\ UNCHANGED <<rann_order, tmp_preq, armed, tq, dest_mac, air, crashed, astray>>

\* The one-hop entries whose neighbour's SCH Hellos n counts: the lookup of
\* SCH_Hello_process, whatever message made the entry.
Measured(n) ==
    {i \in InUse(rt[n]) :
        /\ rt[n][i].hcnt = 1
        /\ i = rt_table_find(rt[n], rt[n][i].dest)
        /\ <<rt[n][i].dest, n>> \in HelloLink}

\* The table t with the metrics alm measured for the entries of its domain.
Remeasured(t, alm) ==
    [i \in TableSlots |->
        IF i \in DOMAIN alm THEN [t[i] EXCEPT !.alm = alm[i]] ELSE t[i]]

\* alm_calculator, every second: each one-hop entry that has counted a SCH Hello
\* gets the metric measured for it (see LinkMetric), a reply pending on it or not.
alm_calculator(n) ==
    /\ n \notin crashed
    /\ \E S \in SUBSET Measured(n) : \E alm \in [S -> Alm] :
          rt' = [rt EXCEPT ![n] = Remeasured(@, alm)]
    /\ UNCHANGED <<rann_order, tmp_preq, armed, tq, dest_mac, air, crashed, astray>>

\* Rann_send: the root's periodic announcement.
Rann_send ==
    /\ Root \notin crashed
    /\ rann_order[Root] < MaxRann
    /\ rann_order' = [rann_order EXCEPT ![Root] = @ + 1]
    /\ addq(Root, Rann(rann_order[Root] + 1, RANN_TTL))
    /\ UNCHANGED <<rt, tmp_preq, armed, dest_mac, air, crashed, astray>>

\* Rann_ack_send: only a node whose next hop is itself in the table acknowledges.
Rann_ack_send(n, q) ==
    LET next == rt[n][Uplink(n, n)].next IN
    IF rt_table_find(rt[n], next) = NoSlot
    THEN tq' = [tq EXCEPT ![n] = q] /\ UNCHANGED dest_mac
    ELSE /\ tq' = [tq EXCEPT ![n] = Append(q, RannAck(n, next))]
         /\ dest_mac' = [dest_mac EXCEPT ![n] = next]

\* Rann_forward: n's queue with the RANN it passes on.  Mutant: once too often.
Rann_forward_all(n, f) == Append(tq[n], Rann(f.order, f.ttl - 1))

Rann_forward(n, f) ==
    IF f.ttl - 1 > 0 THEN Append(tq[n], Rann(f.order, f.ttl - 1)) ELSE tq[n]

\* Rann_process (the configuration a RANN carries is left to another module).
Rann_process(n, d) ==
    LET f == d.frame
        q == Rann_forward(n, f)
    IN
    /\ f.type = "RANN"
    /\ Received(d)
    /\ IF f.order > rann_order[n] /\ n # Root
       THEN /\ rann_order' = [rann_order EXCEPT ![n] = f.order]
            /\ IF Uplink(n, n) = NoSlot
               THEN /\ tq' = [tq EXCEPT ![n] =
                                 Append(q, Preq(<<n>>, PREQ_TTL, 0, f.order))]
                    /\ UNCHANGED dest_mac
               ELSE Rann_ack_send(n, q)
       ELSE UNCHANGED <<rann_order, tq, dest_mac>>
    /\ UNCHANGED <<rt, tmp_preq, armed, crashed, astray>>

\* Rann_ack_process: follow the route of the ack's originator; at the root it
\* only feeds the NMS table.
Rann_ack_process(n, d) ==
    LET f == d.frame
        e == Uplink(n, f.orig)
    IN
    /\ f.type = "RANN_ACK"
    /\ Received(d)
    /\ IF f.next = n /\ n # Root /\ e # NoSlot /\ rt_table_find(rt[n], f.orig) # NoSlot
       THEN addqUnicast(n, RannAck(f.orig, rt[n][e].next))
       ELSE UNCHANGED <<tq, dest_mac>>
    /\ UNCHANGED <<rt, rann_order, tmp_preq, armed, crashed, astray>>
-----------------------------------------------------------------------------
\* PREQ.

\* What the receiver adds for the link the PREQ came over.
LinkAlm(n, from) ==
    IF rt_table_find(rt[n], from) = NoSlot THEN 0
    ELSE rt[n][rt_table_find(rt[n], from)].alm

\* The addresses the loop check looks at: the pointer it advances is the one
\* it advanced before, so it reads positions 1, 2, 4, 7, ... of the list; past
\* the end of the list it reads whatever follows the frame.
Triangle(i) == 1 + (i * (i - 1)) \div 2

SeenBeforeOwn(n, path) == path[1] = n     \* mutant: only the originator's

SeenBefore(n, path) ==
    \E i \in 1 .. Len(path) : Triangle(i) <= Len(path) /\ path[Triangle(i)] = n

ReadsPastEnd(path) == \E i \in 1 .. Len(path) : Triangle(i) > Len(path)

\* Preq_process at a node that is not the root: forward with the own address
\* added, unless the address is found in the list or the ttl is used up.
Preq_forward(n, d) ==
    LET p == d.frame IN
    /\ p.type = "PREQ" /\ n # Root
    /\ Received(d)
    /\ \/ /\ ~SeenBefore(n, p.path) /\ p.ttl - 1 > 0
          /\ addq(n, Preq(Append(p.path, n), p.ttl - 1,
                          p.alm + LinkAlm(n, d.from), p.seqno))
       \/ /\ SeenBefore(n, p.path) \/ p.ttl - 1 <= 0 \/ ReadsPastEnd(p.path)
          /\ UNCHANGED tq
    /\ UNCHANGED <<rt, rann_order, tmp_preq, armed, dest_mac, crashed, astray>>

\* Is the new PREQ better than the route the root holds?
Better(e, p) ==
    IF metric = 1 THEN e.hcnt > Len(p.path) ELSE p.alm > e.alm

\* Preq_process at the root.
Preq_process(d) ==
    LET p == [d.frame EXCEPT !.alm = @ + LinkAlm(Root, d.from)]
        o == Orig(p)
        i == rt_table_find(rt[Root], o)
        x == IF i = NoSlot THEN FreeSlot(rt[Root]) ELSE rt_table_get_index(rt[Root], o)
        Keep(table) == /\ rt' = [rt EXCEPT ![Root] = table]
                       /\ tmp_preq' = [tmp_preq EXCEPT ![x] = [used |-> TRUE, preq |-> p]]
        Updated == rt_table_update(rt[Root], i, d.from, Len(p.path), p.alm, p.seqno)
    IN
    /\ d.frame.type = "PREQ"
    /\ Received(d)
    /\ \/ \* the first route to this originator
          /\ i = NoSlot /\ x # NoSlot
          /\ Keep(rt_table_insert(rt[Root],
                     Entry(o, d.from, Root, NoAddr, Len(p.path), p.alm, p.seqno)))
          /\ armed' = armed \cup {x}
       \/ \* a better one; Prep_start only if no reply is pending
          /\ i # NoSlot /\ rt[Root][i].hcnt # 1 /\ Better(rt[Root][i], p)
          /\ Keep(Updated)
          /\ armed' = IF tmp_preq[x].used THEN armed ELSE armed \cup {x}
       \/ \* not better, but of a later announcement and already answered
          /\ i # NoSlot /\ rt[Root][i].hcnt # 1 /\ ~Better(rt[Root][i], p)
          /\ rt[Root][i].seqno < p.seqno /\ ~tmp_preq[x].used
          /\ Keep(Updated)
          /\ armed' = armed \cup {x}
       \/ \* a neighbour's PREQ, or nothing new
          /\ i # NoSlot
          /\ \/ rt[Root][i].hcnt = 1
             \/ /\ ~Better(rt[Root][i], p)
                /\ rt[Root][i].seqno >= p.seqno \/ tmp_preq[x].used
          /\ UNCHANGED <<rt, tmp_preq, armed>>
    /\ UNCHANGED <<rann_order, tq, dest_mac, crashed, astray>>
-----------------------------------------------------------------------------
\* PREP.

\* Mutant: the kept PREQ is never released.
Prep_send_kept(i) ==
    LET p == tmp_preq[i].preq
        n == Len(p.path)
    IN
    /\ i \in armed /\ Root \notin crashed
    /\ armed' = armed \ {i}
    /\ addqUnicast(Root, Prep(Orig(p), SubSeq(p.path, 1, n - 1), 1, p.seqno, p.path[n]))
    /\ UNCHANGED <<rt, rann_order, tmp_preq, air, crashed, astray>>

\* route_select_timer[i] expires: Prep_send answers the PREQ kept in slot i,
\* to the last node of its path.
Prep_send(i) ==
    LET p == tmp_preq[i].preq
        x == rt_table_get_index(rt[Root], Orig(p))
        n == Len(p.path)
    IN
    /\ i \in armed /\ Root \notin crashed
    /\ armed' = armed \ {i}
    /\ tmp_preq' = IF x = NoSlot THEN tmp_preq ELSE [tmp_preq EXCEPT ![x].used = FALSE]
    /\ addqUnicast(Root, Prep(Orig(p), SubSeq(p.path, 1, n - 1), 1, p.seqno, p.path[n]))
    /\ UNCHANGED <<rt, rann_order, air, crashed, astray>>

\* Mutant: the pointer is advanced by one address more.
DownlinkNextOver(ext) == Garbage

\* The next hop of the route to the PREQ's originator.  The pointer to the
\* last address of the list is advanced by the length of the list once more.
DownlinkNext(ext) ==
    LET k == Len(ext) + Len(ext) - 1
    IN  IF k <= Len(ext) THEN {ext[k]} ELSE Garbage

\* Mutants: the relays on the path do not store their uplink; a known route is
\* not looked for.
UplinkAtOriginator(n, d) ==
    IF d.frame.ext = << >> /\ Uplink(n, d.frame.dest) = NoSlot
    THEN rt_table_insert(rt[n], Entry(Root, d.from, d.frame.dest, NoAddr,
                                      d.frame.hcnt, 0, d.frame.seqno))
    ELSE rt[n]

UplinkInserted(n, d) ==
    rt_table_insert(rt[n], Entry(Root, d.from, d.frame.dest, NoAddr,
                                 d.frame.hcnt, 0, d.frame.seqno))

\* The table of n with the route to the root for what the PREP's destination
\* sends: updated whatever the sequence numbers, or inserted.
UplinkStored(n, d) ==
    LET f == d.frame
        len == Len(f.ext)
        u == Uplink(n, f.dest)
        prev == IF len > 0 THEN f.ext[len] ELSE NoAddr
    IN IF u = NoSlot
       THEN rt_table_insert(rt[n], Entry(Root, d.from, f.dest, prev, f.hcnt, 0, f.seqno))
       ELSE rt_table_update(rt[n], u, d.from, f.hcnt, 0, f.seqno)

\* Prep_process: the uplink, the route back to the originator, and Prep_forward.
Prep_process(n, d) ==
    LET f == d.frame
        len == Len(f.ext)
        up == UplinkStored(n, d)
    IN
    /\ f.type = "PREP"
    /\ n # Root
    /\ Received(d)
    /\ IF len = 0
       THEN /\ rt' = [rt EXCEPT ![n] = up]
            /\ UNCHANGED <<tq, dest_mac>>
       ELSE /\ \E next \in DownlinkNext(f.ext) :
                  rt' = [rt EXCEPT ![n] =
                     IF rt_table_find(up, f.dest) = NoSlot
                     THEN rt_table_insert(up, Entry(f.dest, next, Root, d.from, len, 0, 0))
                     ELSE up]
            /\ addqUnicast(n, Prep(f.dest, SubSeq(f.ext, 1, len - 1), f.hcnt + 1,
                                   f.seqno, f.ext[len]))
    /\ astray' = IF f.next = n THEN astray ELSE astray \cup {n}
    /\ UNCHANGED <<rann_order, tmp_preq, armed, crashed>>

\* A PREP that reaches the root: it names the root as its destination, the
\* root has no route to itself, and rt_table_update writes through NULL.
PrepAtRoot(d) ==
    /\ d.frame.type = "PREP" /\ d.to = Root
    /\ Uplink(Root, d.frame.dest) = NoSlot
    /\ Received(d)
    /\ crashed' = crashed \cup {Root}
    /\ UNCHANGED <<rt, rann_order, tmp_preq, armed, tq, dest_mac, astray>>
-----------------------------------------------------------------------------
\* Receive_process: the type of the frame selects its handler.
Receive(d) ==
    /\ d.to \notin crashed
    /\ \/ Rann_process(d.to, d)
       \/ Rann_ack_process(d.to, d)
       \/ Preq_forward(d.to, d)
       \/ d.to = Root /\ Preq_process(d)
       \/ Prep_process(d.to, d)
       \/ PrepAtRoot(d)

Next ==
    \/ \E m, n \in Node : HelloHeard(m, n)
    \/ \E n \in Node : alm_calculator(n)
    \/ Rann_send
    \/ \E n \in Node : Transmit(n)
    \/ \E d \in air : Receive(d)
    \/ \E i \in TableSlots : Prep_send(i)

Spec == Init /\ [][Next]_vars
-----------------------------------------------------------------------------
Entries == [state : {1}, dest : Node, next : Address, source : Node,
            prev : Node \cup {NoAddr}, hcnt : Nat, alm : Nat, seqno : Nat]

Tables == [TableSlots -> {FreeEntry} \cup Entries]

PreqFrame == [type : {"PREQ"}, path : Seq(Node), ttl : Nat, alm : Nat, seqno : Nat]

RannFrame == [type : {"RANN"}, order : Nat, ttl : Nat \ {0}]

PrepFrame == [type : {"PREP"}, dest : Node, ext : Seq(Node), hcnt : Nat,
              seqno : Nat, next : Node]

AckFrame == [type : {"RANN_ACK"}, orig : Node, next : Address]

Frame == RannFrame \cup PreqFrame \cup PrepFrame \cup AckFrame

\* Tables, queues, frames on the air and kept PREQs have the types the handlers
\* rely on; an address is a node, or what was read past the end of a list.
TypeOK ==
    /\ rt \in [Node -> Tables]
    /\ rann_order \in [Node -> Nat]
    /\ tmp_preq \in [TableSlots -> [used : BOOLEAN, preq : PreqFrame]]
    /\ armed \in SUBSET TableSlots
    /\ tq \in [Node -> Seq(Frame)]
    /\ dest_mac \in [Node -> Address \cup {NoAddr}]
    /\ air \in SUBSET [from : Node, to : Node, frame : Frame]
    /\ crashed \in SUBSET Node /\ astray \in SUBSET Node

\* A path whose nodes are distinct and in range of one another.
PathReal(path) ==
    /\ Len(path) > 0
    /\ \A i, j \in 1 .. Len(path) : path[i] = path[j] => i = j
    /\ \A i \in 1 .. Len(path) - 1 : <<path[i], path[i + 1]>> \in Link

\* No PREQ visits a node twice, although the loop check of aodv.c:2131-2140
\* skips addresses: the ttl of aodv.c:745 ends the PREQ before a skipped
\* address can matter.  And the path is one the PREQ really took.
PreqPathsReal ==
    /\ \A n \in Node : \A i \in 1 .. Len(tq[n]) :
          tq[n][i].type = "PREQ" => PathReal(tq[n][i].path)
    /\ \A d \in air : d.frame.type = "PREQ" => PathReal(d.frame.path)
    /\ \A i \in armed : PathReal(tmp_preq[i].preq.path)

\* A node routes what s sends to the root only through a node that routes
\* what s sends as well (aodv.c:2191-2216: Prep_process stores, then forwards).
UplinkChain ==
    \A n \in Node : \A i \in InUse(rt[n]) :
        LET e == rt[n][i] IN
        e.dest = Root /\ e.next # Root => Uplink(e.next, e.source) # NoSlot

\* A table holds at most one entry per destination, and for the root at most
\* one per source: the handlers look before they insert (aodv.c:1655-1661,
\* 1981-1986, 2188-2213), and the lookups differ in what they ignore.
DistinctTable(t) ==
    \A i, j \in InUse(t) :
        /\ t[i].dest = t[j].dest
        /\ t[i].dest = Root => t[i].source = t[j].source
        => i = j

\* So no table needs more slots than this, and in a mesh of six nodes the ten
\* slots are enough: a full table makes rt_table_insert look past its end and
\* Preq_process index tmp_preq with -1 (aodv.c:2934, 1986-1989).
TableFits ==
    \A n \in Node : /\ DistinctTable(rt[n])
                    /\ Cardinality(InUse(rt[n])) <= 2 * Cardinality(Node) - 2

\* While the root waits for better PREQs, the PREQ it keeps is the one its own
\* route was taken from, and the timer that will answer it runs (aodv.c:1982-2070).
\* The metric a later PREQ is compared with (aodv.c:2039) is the kept one's too,
\* although alm_calculator rewrites metrics every second (aodv.c:382) while the
\* reply is pending: what it rewrites is a neighbour's, and that one Preq_process
\* never compares (aodv.c:1994).
PendingReply ==
    \A i \in TableSlots : tmp_preq[i].used =>
        /\ i \in armed
        /\ LET e == rt[Root][i]
               p == tmp_preq[i].preq
           IN  /\ e.state = 1 /\ e.dest = Orig(p)
               /\ e.next = p.path[Len(p.path)]
               /\ e.hcnt = Len(p.path) /\ e.seqno = p.seqno
               /\ e.hcnt # 1 => e.alm = p.alm

\* The way back that a PREP leaves beside the originator of the PREQ leads to the
\* originator itself, over a link (aodv.c:2200-2214).  A PREP that was queued for
\* one node and addressed to another, for dest_mac_addr had changed, leaves it at a
\* node that may be out of the originator's range.
DownlinkToNeighbor ==
    \A n \in Node \ {Root} : \A i \in InUse(rt[n]) :
        LET e == rt[n][i] IN
        e.source = Root /\ e.hcnt = 1 =>
            e.next = e.dest /\ (<<e.dest, n>> \in Link \/ n \in astray)

\* "Route to PREQ Sender" (aodv.c:2202): wherever a PREP leaves a way back, the next
\* hop is a node in range.  Not so from two hops on: aodv.c:2203 advances the
\* pointer to the last address by the length of the list once more.
RouteToSender ==
    \A n \in Node \ ({Root} \cup astray) : \A i \in InUse(rt[n]) :
        rt[n][i].source = Root => <<rt[n][i].next, n>> \in Link
=============================================================================
