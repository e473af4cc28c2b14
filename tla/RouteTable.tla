------------------------------ MODULE RouteTable ------------------------------
(* The route table of one node (struct rt_table_list of aodv.h and the       *)
(* rt_table_* functions of aodv.c) as operators on a function from slots to  *)
(* entries.  A slot number stands for the pointer the functions return.      *)
EXTENDS Integers, FiniteSets

CONSTANTS RT_SIZE    \* slots of the table, 10 in the code

ASSUME TableAssumption == RT_SIZE \in Nat \ {0}

TableSlots == 0 .. RT_SIZE - 1

\* The code's NULL pointer, and its index -1.
NoSlot == -1

\* rt_table_empty: a slot with state 0.
FreeEntry == [state |-> 0]

EmptyTable == [i \in TableSlots |-> FreeEntry]

InUse(t) == {i \in TableSlots : t[i].state = 1}

FirstSlot(S) == IF S = {} THEN NoSlot ELSE CHOOSE i \in S : \A j \in S : i <= j

LastSlot(S) == IF S = {} THEN NoSlot ELSE CHOOSE i \in S : \A j \in S : j <= i

\* rt_table_find with source_consider = 0 and = 1: the first matching slot.
rt_table_find(t, dest) == FirstSlot({i \in InUse(t) : t[i].dest = dest})

rt_table_find_from(t, dest, source) ==
    FirstSlot({i \in InUse(t) : t[i].dest = dest /\ t[i].source = source})

\* rt_table_get_index: the last matching slot.
rt_table_get_index(t, dest) == LastSlot({i \in InUse(t) : t[i].dest = dest})

\* The slot rt_table_insert fills: the first free one, or none ("Routing Table
\* is full!!!!", where the code also looks at an eleventh slot).
FreeSlot(t) == FirstSlot(TableSlots \ InUse(t))

rt_table_insert(t, entry) ==
    IF FreeSlot(t) = NoSlot THEN t ELSE [t EXCEPT ![FreeSlot(t)] = entry]

\* rt_table_update: a new next hop, distance, metric and sequence number.
rt_table_update(t, i, next, hcnt, alm, seqno) ==
    [t EXCEPT ![i] = [@ EXCEPT !.next = next, !.hcnt = hcnt,
                               !.alm = alm, !.seqno = seqno]]
=============================================================================
