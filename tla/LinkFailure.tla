----------------------------- MODULE LinkFailure -----------------------------
(* What the mesh does when a node dies (aodv.c).  Every node scans its route *)
(* table for neighbours it has not heard of for ten seconds, deletes what it *)
(* knows of them and broadcasts PERR; a PERR makes its receivers delete      *)
(* routes and, where an uplink is lost, broadcast a PERR of their own.  A    *)
(* node that still has an uplink tells the root with a PERR_UNI.             *)
(*                                                                           *)
(* The mesh first converges: Hello frames and the PREPs of RouteDiscovery, in *)
(* an order that Setup gives, fill the tables.  Then nodes die.              *)
EXTENDS Integers, Sequences, FiniteSets, SequencesExt, RouteTable

CONSTANTS Node, Root,
          Link,        \* pairs <<m, n>>: n can receive what m sends
          Path,        \* paths a PREQ may have taken to the root
          Setup,       \* sequences of events in which the mesh may converge
          Garbage,     \* an address read past the end of a frame
          MaxDead      \* bound: nodes that die

NoAddr == "none"

\* A Hello of one node reaches another; a PREQ comes along a path to the root.
Hello(m, n) == [type |-> "HELLO", from |-> m, to |-> n]
Preq(p) == [type |-> "PREQ", path |-> p]
Event == {Hello(l[1], l[2]) : l \in Link} \cup {Preq(p) : p \in Path}

Hop(p, k) == IF k = Len(p) THEN Root ELSE p[k + 1]

ASSUME NodeAssumption ==
    Root \in Node /\ {Garbage, NoAddr} \cap Node = {} /\ MaxDead \in Nat
ASSUME LinkAssumption == Link \subseteq {l \in Node \X Node : l[1] # l[2]}
\* PREQ and PREP travel a path in both directions, and a PREQ comes to no node
\* twice (SeenBefore of RouteDiscovery, on paths short enough for it).
ASSUME PathAssumption ==
    \A p \in Path :
        /\ p \in Seq(Node \ {Root}) /\ p # << >> /\ IsInjective(p)
        /\ \A k \in 1 .. Len(p) : {<<p[k], Hop(p, k)>>, <<Hop(p, k), p[k]>>} \subseteq Link
ASSUME SetupAssumption == \A events \in Setup : events \in Seq(Event)
\* Room for what a mesh of these nodes stores, as in RouteDiscovery.
ASSUME RoomAssumption == IsFiniteSet(Node) /\ 2 * Cardinality(Node) - 2 <= RT_SIZE

VARIABLES
    rt,        \* rt_t: per node, its route table
    tq,        \* per node, the frames waiting for the transmit timer
    dest_mac,  \* per node, the global dest_mac_addr
    air,       \* frames on the air: who sent them, who may still receive them
    dead,      \* the nodes that have died
    reported,  \* root: the pairs nms_table_perr_update was called with
    todo,      \* the events still to come until the mesh has converged
    silent,    \* history: the nodes that lost an uplink and told nobody
    unheard    \* history: pairs <<n, m>>, n does not count the Hellos of the dead m

vars == <<rt, tq, dest_mac, air, dead, reported, todo, silent, unheard>>

\* hello abstracts hello_cnt and last_hello_time: "never" is a count of 0, and
\* "old" a time more than 10 * update_cycle seconds ago.
Entry(dest, next, source, prev, hello) ==
    [state |-> 1, dest |-> dest, next |-> next, source |-> source,
     prev |-> prev, hello |-> hello]

Perr(timeout, dest) == [type |-> "PERR", timeout |-> timeout, dest |-> dest]

\* next: the address the sender stored in dest_mac_addr, which no handler reads.
PerrUni(timeout, orig, next) ==
    [type |-> "PERR_UNI", timeout |-> timeout, orig |-> orig, next |-> next]

Uplink(n, s) == rt_table_find_from(rt[n], Root, s)
-----------------------------------------------------------------------------
\* The converged mesh.

\* Hello_process: a new neighbour, or the first entry that leads to it.
Hello_process(t, n, m) ==
    IF rt_table_find(t, m) = NoSlot
    THEN rt_table_insert(t, Entry(m, m, n, NoAddr, "recent"))
    ELSE [t EXCEPT ![rt_table_find(t, m)].hello = "recent"]

\* What the PREQ and the PREP of originator p[1] leave in the table of n.
StoreRoute(t, n, p) ==
    LET k == CHOOSE i \in 1 .. Len(p) : p[i] = n
        up == Entry(Root, Hop(p, k), p[1], IF k > 1 THEN p[k - 1] ELSE NoAddr, "never")
        down == Entry(p[1], IF k = 2 THEN p[1] ELSE Garbage, Root, Hop(p, k), "never")
        IfNew(u, s, e) == IF s = NoSlot THEN rt_table_insert(u, e) ELSE u
    IN
    IF n = Root
    THEN rt_table_insert(t, Entry(p[1], p[Len(p)], Root, NoAddr, "never"))
    ELSE IF n \notin ToSet(p) THEN t
    ELSE LET u == IfNew(t, rt_table_find_from(t, Root, p[1]), up)
         IN  IF k = 1 THEN u ELSE IfNew(u, rt_table_find(u, p[1]), down)

\* A node with an uplink of its own does not ask (Rann_process), and the root
\* ignores the PREQ of a neighbour it has heard (aodv.c:1994).
Asks(s) == Uplink(s, s) = NoSlot /\ rt_table_find(rt[Root], s) = NoSlot

Init ==
    /\ rt = [n \in Node |-> EmptyTable]
    /\ tq = [n \in Node |-> << >>]
    /\ dest_mac = [n \in Node |-> NoAddr]
    /\ air = {}
    /\ dead = {}
    /\ reported = {}
    /\ todo \in Setup
    /\ silent = {}
    /\ unheard = {}

\* The next event of the set-up.
Converge ==
    /\ todo # << >>
    /\ todo' = Tail(todo)
    /\ \/ \E m, n \in Node :
             /\ Head(todo) = Hello(m, n)
             /\ rt' = [rt EXCEPT ![n] = Hello_process(@, n, m)]
       \/ \E p \in Path :
             /\ Head(todo) = Preq(p)
             /\ rt' = IF Asks(p[1]) THEN [n \in Node |-> StoreRoute(rt[n], n, p)] ELSE rt
    /\ UNCHANGED <<tq, dest_mac, air, dead, reported, silent, unheard>>
-----------------------------------------------------------------------------
\* Has t an entry in which the Hellos of m are counted?
Counts(t, m) == \E i \in InUse(t) : t[i].dest = m /\ t[i].hello # "never"

\* The dead whose Hellos t counted and u does not, but for z, whose death was
\* the reason to delete.
Forgotten(t, u, z) == {m \in dead \ {z} : Counts(t, m) /\ ~Counts(u, m)}

Die(n) ==
    /\ todo = << >>
    /\ n \notin dead /\ Cardinality(dead) < MaxDead
    /\ dead' = dead \cup {n}
    /\ air' = {d \in air : d.to # n}
    /\ unheard' = unheard \cup {<<k, n>> : k \in {j \in Node : ~Counts(rt[j], n)}}
    /\ UNCHANGED <<rt, tq, dest_mac, reported, todo, silent>>

\* Ten seconds without a Hello of the dead m.
HelloMissed(n, m) ==
    /\ n \notin dead /\ m \in dead
    /\ \E i \in InUse(rt[n]) :
          /\ rt[n][i].dest = m /\ rt[n][i].hello = "recent"
          /\ rt' = [rt EXCEPT ![n][i].hello = "old"]
    /\ UNCHANGED <<tq, dest_mac, air, dead, reported, todo, silent, unheard>>

\* A Hello that tells n something new: a neighbour it does not know, or the
\* first Hello counted in the entry that now leads to m.
HelloHeard(m, n) ==
    /\ todo = << >> /\ <<m, n>> \in Link /\ m \notin dead /\ n \notin dead
    /\ Hello_process(rt[n], n, m) # rt[n]
    /\ rt' = [rt EXCEPT ![n] = Hello_process(@, n, m)]
    /\ UNCHANGED <<tq, dest_mac, air, dead, reported, todo, silent, unheard>>

\* Mutants: the next hop is not looked at; the uplink of a relayed source is
\* not a lost one.
NamesBehind(e, m) == m \in {e.source, e.prev}

Names(e, m) == m \in {e.next, e.source, e.prev}

\* Entries S deleted (rt_table_empty of each).
Without(t, S) == [i \in TableSlots |-> IF i \in S THEN FreeEntry ELSE t[i]]

\* Is an uplink lost with the neighbour m of slot i?
LostOwn(t, n, i, m) ==
    \E j \in InUse(t) \ {i} : t[j].next = m /\ t[j].dest = Root /\ t[j].source = n

Lost(t, n, i, m) == \E j \in InUse(t) \ {i} : t[j].next = m /\ t[j].dest = Root

\* What Make_msg_format_PERR_unicast copies from the uplink u.
NextHop(t, u) == t[u].next

\* Hello_timeout_process, the body of its loop: slot i of the scan is old.  The
\* receive callback runs between two slots, and a slot may get old when the
\* scan has passed it, so slots are handled in any order.  The PERR_UNI is
\* built for the next hop but queued as a broadcast, and then dest_mac_addr is
\* overwritten with a byte of a pointer.
Hello_timeout_process(n, i) ==
    LET t == rt[n]
        m == t[i].dest
        rest == Without(t, {i} \cup {j \in InUse(t) : Names(t[j], m)})
        perrs == <<Perr(m, m)>> \o (IF Lost(t, n, i, m) THEN <<Perr(m, n)>> ELSE << >>)
        up == rt_table_find_from(rest, Root, n)
    IN
    /\ n \notin dead /\ i \in InUse(t) /\ t[i].hello = "old"
    /\ rt' = [rt EXCEPT ![n] = rest]
    /\ IF n = Root \/ up = NoSlot
       THEN /\ tq' = [tq EXCEPT ![n] = @ \o perrs]
            /\ UNCHANGED dest_mac
       ELSE /\ tq' = [tq EXCEPT ![n] = @ \o Append(perrs, PerrUni(m, n, NextHop(rest, up)))]
            /\ dest_mac' = [dest_mac EXCEPT ![n] = Garbage]
    /\ reported' = IF n = Root THEN reported \cup {<<m, m>>} ELSE reported
    /\ unheard' = unheard \cup ({n} \X Forgotten(t, rest, m))
    /\ UNCHANGED <<air, dead, todo, silent>>
-----------------------------------------------------------------------------
\* A PERR_UNI that was forwarded is queued as a unicast, all else as broadcast.
Unicast(n, f) == f.type = "PERR_UNI" /\ f.orig # n

\* The timer thread sends the head of the queue; every live node in range
\* receives it (the 50 ms of a frame are long, see RouteDiscovery).
Transmit(n) ==
    LET f == Head(tq[n]) IN
    /\ n \notin dead /\ tq[n] # << >> /\ air = {}
    /\ tq' = [tq EXCEPT ![n] = Tail(@)]
    /\ air' = {[from |-> n, to |-> m, frame |-> f] :
                  m \in {k \in Node \ dead : /\ <<n, k>> \in Link
                                             /\ Unicast(n, f) => dest_mac[n] = k}}
    /\ UNCHANGED <<rt, dest_mac, dead, reported, todo, silent, unheard>>

\* Is e deleted by a PERR?
Broken(e, f) ==
    LET named == e.dest = f.timeout \/ Names(e, f.timeout)
    IN  IF f.timeout # f.dest /\ e.next = f.dest THEN e.dest = Root ELSE named

\* The entries whose next hop has lost its uplink: each gives a PERR.
UplinkLost(t, f) ==
    {i \in InUse(t) : f.timeout # f.dest /\ t[i].next = f.dest /\ t[i].dest = Root}

\* Uplinks are deleted and no neighbour is told: none led to the sender of the
\* PERR, but some to the dead node.
Mute(t, f) ==
    /\ UplinkLost(t, f) = {}
    /\ \E i \in InUse(t) : /\ Broken(t[i], f) /\ t[i].dest = Root
                           /\ f.timeout \in {Root, t[i].next}

Perr_process(n, d) ==
    LET f == d.frame
        rest == Without(rt[n], {i \in InUse(rt[n]) : Broken(rt[n][i], f)})
    IN
    /\ f.type = "PERR"
    /\ air' = air \ {d}
    /\ rt' = [rt EXCEPT ![n] = rest]
    /\ tq' = [tq EXCEPT ![n] =
                 @ \o [k \in 1 .. Cardinality(UplinkLost(rt[n], f)) |-> Perr(f.timeout, n)]]
    /\ silent' = IF Mute(rt[n], f) THEN silent \cup {n} ELSE silent
    /\ unheard' = unheard \cup ({n} \X Forgotten(rt[n], rest, f.timeout))
    /\ UNCHANGED <<dest_mac, dead, reported, todo>>

\* Perr_unicast_process: the root updates the NMS table, the others forward
\* along the uplink of the node that reports.
Perr_unicast_process(n, d) ==
    LET f == d.frame
        u == Uplink(n, f.orig)
    IN
    /\ f.type = "PERR_UNI"
    /\ air' = air \ {d}
    /\ IF n # Root /\ u # NoSlot
       THEN /\ dest_mac' = [dest_mac EXCEPT ![n] = rt[n][u].next]
            /\ tq' = [tq EXCEPT ![n] = Append(@, PerrUni(f.timeout, f.orig, rt[n][u].next))]
       ELSE UNCHANGED <<tq, dest_mac>>
    /\ reported' = IF n = Root THEN reported \cup {<<f.timeout, f.orig>>} ELSE reported
    /\ UNCHANGED <<rt, dead, todo, silent, unheard>>

Receive(d) == Perr_process(d.to, d) \/ Perr_unicast_process(d.to, d)

Next ==
    \/ Converge
    \/ \E n \in Node : Die(n) \/ Transmit(n)
    \/ \E n \in Node, i \in TableSlots : Hello_timeout_process(n, i)
    \/ \E m, n \in Node : HelloMissed(n, m) \/ HelloHeard(m, n)
    \/ \E d \in air : Receive(d)

Spec == Init /\ [][Next]_vars

\* The timers of a node that lives expire again and again, and the receive
\* callback handles every frame.
Fairness ==
    /\ \A n \in Node : /\ WF_vars(\E m \in Node : HelloMissed(n, m))
                       /\ WF_vars(\E i \in TableSlots : Hello_timeout_process(n, i))
                       /\ WF_vars(Transmit(n))
    /\ WF_vars(\E d \in air : Receive(d))

FairSpec == Spec /\ Fairness
-----------------------------------------------------------------------------
Live == Node \ dead

\* Every live node that counted Hello frames of a dead one has noticed, and no
\* PERR is under way.
Quiet ==
    /\ air = {} /\ \A n \in Live : tq[n] = << >>
    /\ \A n \in Live : \A i \in InUse(rt[n]) :
          rt[n][i].hello # "never" => rt[n][i].dest \notin dead

\* Once the mesh is quiet again, what a live node keeps of a live source's
\* route to the root leads to a live node that keeps a route of that source too
\* (aodv.c:1494-1599, 2240-2390: each node deletes by what its own entries say,
\* and tells only its neighbours).  There are two exceptions.  A node that lost
\* its uplink to the PERR of a neighbour before its own scan is silent: its
\* entry for the dead node is gone as well, so that it never tells the nodes
\* behind it.  A node that does not count the Hellos of its next hop when that
\* dies, because the entry was deleted with another dead node, never notices.
ChainAfterRepair ==
    Quiet => \A n \in Live : \A i \in InUse(rt[n]) :
        LET e == rt[n][i] IN
        e.dest = Root /\ e.source \in Live =>
            \/ <<n, e.next>> \in unheard
            \/ /\ e.next \in Live
               /\ e.next # Root => Uplink(e.next, e.source) # NoSlot \/ e.next \in silent

\* A dead next hop is forgotten: sooner or later no live node routes to the
\* root through a dead one.
DeadHopForgotten ==
    []<>(\A n \in Live : \A i \in InUse(rt[n]) :
            rt[n][i].dest = Root => rt[n][i].next \notin dead)
=============================================================================
