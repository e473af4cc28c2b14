------------------------------- MODULE NmsTable -------------------------------
(* The table the root keeps for the NMS (nms_table_* of aodv.c): a row per   *)
(* known device with its neighbours, the path its traffic takes and its      *)
(* channel.  Hello_process, Preq_process and Prep_send fill it, deaths and   *)
(* resets thin it out.  A PREQ is answered three seconds after it came, with *)
(* what may have changed in between.                                         *)
(*                                                                           *)
(* Only the devices of mac_list get a row, and a row is put at the device's  *)
(* place in mac_list, whatever is there: nms_table_insert looks for a free   *)
(* row and then uses the same loop variable again.  Row 0, which the reset   *)
(* gives to the root, belongs to the first device of mac_list as well.       *)
EXTENDS Integers, Sequences, FiniteSets

CONSTANTS MacList,     \* mac_list, the four known addresses
          Root,        \* the root's own address
          Path,        \* address lists a PREQ may reach the root with
          Neighbor,    \* nodes whose Hello frames reach the root
          Channel      \* receiving channels

Known == {MacList[k] : k \in 1 .. Len(MacList)}
Node == Neighbor \cup UNION {{p[k] : k \in 1 .. Len(p)} : p \in Path}

Zero == "zero"         \* the zero address, and no row

ASSUME MacAssumption ==
    /\ MacList \in Seq(Known)
    /\ \A j, k \in 1 .. Len(MacList) : MacList[j] = MacList[k] => j = k
    /\ Root \in Known /\ Zero \notin Known
    /\ Len(MacList) <= 7          \* a neighbour list has eight places
\* A PREQ that reaches the root has not been there before and has no loop, see
\* PreqPathsReal of RouteDiscovery; its ttl is 4.
ASSUME PathAssumption ==
    /\ \A p \in Path : p \in Seq(Node) /\ Len(p) \in 1 .. 4
    /\ \A p \in Path : \A j, k \in 1 .. Len(p) : p[j] = p[k] => j = k
    /\ Root \notin Node /\ Zero \notin Node

Row == 0 .. Len(MacList)
Home(a) == (CHOOSE k \in 1 .. Len(MacList) : MacList[k] = a) - 1

VARIABLES
    nms,               \* nms_t: the rows; those behind the last home stay empty
    receiving_channel, \* the root's global
    reply,             \* PREQs the root will answer: path, and whether it is fresh
    taken,             \* history: the root's row is another device's
    foreign,           \* history: a Hello announced another channel than the root's
    outdated           \* history: devices whose path on display came from a reply
                       \* that was older than a death on it, or than a reset

vars == <<nms, receiving_channel, reply, taken, foreign, outdated>>

\* The channel of a device other than the root is only on display.
Displayed == 0

\* metric, which marks a row as used, is set with the address.
Blank == [addr |-> Zero, state |-> 0, ch |-> 0, nbr |-> << >>, up |-> << >>]

\* nms_table_empty(12): all rows blank but the first, the root's own.
EmptyTable(ch) ==
    [i \in Row |-> IF i = 0 THEN [Blank EXCEPT !.addr = Root, !.state = 1, !.ch = ch]
                   ELSE Blank]

NoReply == [path |-> << >>, fresh |-> TRUE]

Init ==
    /\ receiving_channel \in Channel
    /\ nms = EmptyTable(receiving_channel)
    /\ reply = [n \in Node |-> NoReply]
    /\ taken = FALSE /\ foreign = FALSE /\ outdated = {}
-----------------------------------------------------------------------------
\* The table's functions, on a table t.

nms_table_find(t, a) == {i \in Row : t[i].addr = a}

RowOf(t, a) ==
    LET rows == nms_table_find(t, a) IN CHOOSE i \in rows : \A j \in rows : i <= j

Elems(s) == {s[k] : k \in 1 .. Len(s)}

\* Mutant: a zero address is taken for a neighbour.
WithFirstZero(s, b) == IF s = << >> THEN <<b>> ELSE [s EXCEPT ![1] = b]

\* The neighbour list: the first place is overwritten, a new neighbour goes to
\* the first blank place, a device that is not in mac_list is refused.
WithFirst(s, b) == IF b = Zero THEN s ELSE IF s = << >> THEN <<b>> ELSE [s EXCEPT ![1] = b]

WithNeighbor(s, b) == IF b \in Known \ Elems(s) THEN Append(s, b) ELSE s

\* A Hello marks the device as one hop from the root: the first place of the
\* path is its own address, the places behind it are left as they are.
OwnPath(up, a) == WithFirst(up, a)

nms_table_insert(t, a, b, ch, hello) ==
    IF a \notin Known \/ nms_table_find(t, Zero) = {} THEN t
    ELSE [t EXCEPT ![Home(a)] =
            [addr |-> a, state |-> 1, ch |-> ch, nbr |-> WithFirst(@.nbr, b),
             up |-> IF hello THEN OwnPath(@.up, a) ELSE @.up]]

nms_table_update(t, a, b, ch, hello) ==
    [t EXCEPT ![RowOf(t, a)] =
        [addr |-> @.addr, state |-> 1, ch |-> ch, nbr |-> WithNeighbor(@.nbr, b),
         up |-> IF hello THEN OwnPath(@.up, a) ELSE @.up]]

\* What the handlers do with the two: insert a row, or update the one found.
Note(t, a, b, ch, hello) ==
    IF nms_table_find(t, a) = {} THEN nms_table_insert(t, a, b, ch, hello)
    ELSE nms_table_update(t, a, b, ch, hello)

\* Where the scan of a neighbour list deletes d: each deletion moves the rest of
\* the list one place to the left, and the scan goes on one place to the right,
\* so that of several d side by side every second one stays.
Deleted(s, d) ==
    {k \in 1 .. Len(s) : \E j \in 0 .. k - 1 :
        /\ j = 0 \/ s[j] # d
        /\ \A i \in j + 1 .. k : s[i] = d
        /\ (k - j) % 2 = 1}

\* The k-th smallest member of a set of numbers.
UpTo(K, i) == {j \in K : j <= i}
Nth(K, k) == CHOOSE i \in K : Cardinality(UpTo(K, i)) = k

Without(s, d) ==
    LET kept == 1 .. Len(s) \ Deleted(s, d)
    IN  [k \in 1 .. Cardinality(kept) |-> s[Nth(kept, k)]]

\* Mutant: the dead device's own row is left as it is.
perr_update_others(t, d) ==
    [i \in Row |-> [t[i] EXCEPT !.nbr = Without(@, d),
                               !.up = IF d \in Elems(@) THEN << >> ELSE @]]

\* nms_table_perr_update: the row of the dead device is cleared, and the other
\* rows lose it as a neighbour and every path it is on.
nms_table_perr_update(t, d) ==
    [i \in Row |->
        IF nms_table_find(t, d) # {} /\ i = RowOf(t, d)
        THEN [t[i] EXCEPT !.state = 0, !.nbr = << >>, !.up = << >>]
        ELSE [t[i] EXCEPT !.nbr = Without(@, d),
                          !.up = IF d \in Elems(@) THEN << >> ELSE @]]

\* nms_table_uplink_insert: the path of the PREQ, with a gap for each unknown
\* device.
uplink_insert(up, p) == [k \in 1 .. Len(p) |-> IF p[k] \in Known THEN p[k] ELSE Zero]
-----------------------------------------------------------------------------
\* The handlers.  A write to a row of the root by another device is noted.

Write(t) ==
    /\ nms' = t
    /\ taken' = (taken \/ nms_table_find(t, Root) = {})

\* Hello_process at the root: the root's row gets the neighbour, and the channel
\* the neighbour announced; the neighbour's row gets the root.
Hello_process(n) ==
    \E ch \in Channel :
        /\ Write(Note(Note(nms, Root, n, ch, FALSE), n, Root, Displayed, TRUE))
        /\ foreign' = (foreign \/ ch # receiving_channel)
        /\ UNCHANGED <<receiving_channel, reply, outdated>>

\* Hello_send and SCH_Hello_send, periodically: the root's row is made when it
\* is missing.
Hello_send ==
    /\ nms_table_find(nms, Root) = {}
    /\ Write(nms_table_insert(nms, Root, Zero, receiving_channel, FALSE))
    /\ UNCHANGED <<receiving_channel, reply, foreign, outdated>>

\* Mutant: each pair is noted in one direction.
PairNotedOnce(t, p, k) ==
    IF k >= Len(p) THEN t ELSE Note(t, p[k], p[k + 1], Displayed, FALSE)

\* One pass of the loop over the path: the k-th device and the next are noted as
\* neighbours, in both directions.
PairNoted(t, p, k) ==
    IF k >= Len(p) THEN t
    ELSE Note(Note(t, p[k], p[k + 1], Displayed, FALSE), p[k + 1], p[k], Displayed, FALSE)

\* The end of Preq_process.
PathNoted(p) ==
    LET start == IF Len(p) = 1 /\ nms_table_find(nms, p[1]) = {}
                 THEN nms_table_insert(nms, p[1], Root, Displayed, FALSE) ELSE nms
    IN  PairNoted(PairNoted(PairNoted(start, p, 1), p, 2), p, 3)

\* Whether the PREQ replaces the one kept for its originator, is the first, or
\* is passed over, depends on the route table (see RouteDiscovery).
Preq_process(p) ==
    /\ Write(PathNoted(p))
    /\ reply' \in {reply, [reply EXCEPT ![p[1]] = [path |-> p, fresh |-> TRUE]]}
    /\ UNCHANGED <<receiving_channel, foreign, outdated>>

\* Prep_send, when the selection timer of n's PREQ expires: the path of the PREP
\* goes on display.  A device that has no row gets one with itself as neighbour.
Prep_send(n) ==
    LET p == reply[n].path IN
    /\ p # << >>
    /\ reply' = [reply EXCEPT ![n] = NoReply]
    /\ Write(IF nms_table_find(nms, n) = {}
             THEN nms_table_insert(nms, n, n, Displayed, FALSE)
             ELSE [nms EXCEPT ![RowOf(nms, n)].up = uplink_insert(@, p)])
    /\ outdated' = IF reply[n].fresh THEN outdated \ {n} ELSE outdated \cup {n}
    /\ UNCHANGED <<receiving_channel, foreign>>

\* Hello_timeout_process of a neighbour, or a PERR_UNI about any node.
Death(d) ==
    /\ Write(nms_table_perr_update(nms, d))
    /\ reply' = [n \in Node |->
                    [reply[n] EXCEPT !.fresh = @ /\ d \notin Elems(reply[n].path)]]
    /\ UNCHANGED <<receiving_channel, foreign, outdated>>

\* rt_NMS_reset.  The PREQs to be answered and their timers stay.
Cleared(ch) ==
    /\ nms' = EmptyTable(ch)
    /\ reply' = [n \in Node |-> [reply[n] EXCEPT !.fresh = (reply[n] = NoReply)]]
    /\ taken' = FALSE /\ foreign' = FALSE /\ outdated' = {}

rt_NMS_reset == Cleared(receiving_channel) /\ UNCHANGED receiving_channel

\* Mutant: the root's row gets the new channel before it is compared.
ChangeChannelFirst(ch) ==
    /\ ch # receiving_channel
    /\ receiving_channel' = ch
    /\ UNCHANGED <<reply, taken, foreign, outdated>>
    /\ nms' = [i \in Row |-> IF nms[i].addr = Root THEN [nms[i] EXCEPT !.ch = ch] ELSE nms[i]]

\* A type 0 command with another channel: the tables are emptied when the root's
\* row shows another channel than the new one; without a row nothing is done.
ChangeChannel(ch) ==
    /\ ch # receiving_channel
    /\ receiving_channel' = ch
    /\ IF nms_table_find(nms, Root) # {} /\ nms[RowOf(nms, Root)].ch # ch
       THEN Cleared(ch)
       ELSE UNCHANGED <<nms, reply, taken, foreign, outdated>>

Next ==
    \/ \E n \in Neighbor : Hello_process(n)
    \/ Hello_send
    \/ \E p \in Path : Preq_process(p)
    \/ \E n \in Node : Prep_send(n) \/ Death(n)
    \/ rt_NMS_reset
    \/ \E ch \in Channel : ChangeChannel(ch)

Spec == Init /\ [][Next]_vars
-----------------------------------------------------------------------------
HasRow(a) == nms_table_find(nms, a) # {}

\* Rows, replies and the history variables are what they can be.
TypeOK ==
    /\ receiving_channel \in Channel
    /\ \A i \in Row :
          /\ nms[i].addr \in Known \cup {Zero} /\ nms[i].state \in {0, 1}
          /\ nms[i].ch \in Channel \cup {0}
          /\ nms[i].nbr \in Seq(Node \cup {Root}) /\ nms[i].up \in Seq(Known \cup {Zero})
    /\ \A n \in Node : reply[n].path \in Path \cup {<< >>} /\ reply[n].fresh \in BOOLEAN
    /\ taken \in BOOLEAN /\ foreign \in BOOLEAN /\ outdated \subseteq Node

Links(a) == IF HasRow(a) THEN Elems(nms[RowOf(nms, a)].nbr) \cap Known ELSE {}

HelloLinks == {{<<Root, n>>, <<n, Root>>} : n \in Neighbor}
PathLinks ==
    {UNION {{<<p[k], p[k + 1]>>, <<p[k + 1], p[k]>>} : k \in 1 .. Len(p) - 1} : p \in Path}
\* A neighbour's PREQ when it has no row, and a late reply after a reset.
RowLinks == {{<<n, Root>>} : n \in Node} \cup {{<<n, n>>} : n \in Node}
Reported == HelloLinks \cup PathLinks \cup RowLinks

Map == INSTANCE Topology WITH
    adj <- [a \in Known |-> Links(a)], broken <- taken, Report <- Reported

\* The table is the map of what was reported: each frame adds the links it
\* reports, a death takes the device out of every row, whatever the order of the
\* lists and the deletions by shifting, and a reset clears all; until a device
\* takes the root's row.
ImplementsTopology == Map!MapSpec

Consecutive(s) == {<<s[k], s[k + 1]>> : k \in 1 .. Len(s) - 1}

\* The paths on display lead over links on display: a path is taken from a PREQ
\* that was kept for three seconds while devices died and tables were reset,
\* and only a reply older than such an event shows a path the map does not have.
PathsOnMap ==
    \A a \in Known \ outdated :
        HasRow(a) =>
            \A l \in Consecutive(nms[RowOf(nms, a)].up) :
                l \in Known \X Known => l[2] \in Links(l[1]) /\ l[1] \in Links(l[2])

\* A command that changes the channel empties the tables, as the comment before
\* nms_control_msg_process has it, unless since the last reset the root's row was
\* overwritten, or got the channel of a neighbour that is on another one.
ChannelChangeEmpties ==
    [][receiving_channel' # receiving_channel /\ ~taken /\ ~foreign
          => nms' = EmptyTable(receiving_channel')]_vars
===============================================================================
