------------------------------- MODULE Topology -------------------------------
(* What the NMS table at the root promises the operator: a map of the known  *)
(* devices and their neighbours.  Hello frames and route requests add links, *)
(* a reported death removes a device from the map, a reset clears it.        *)
(*                                                                           *)
(* The row of a device may be put over the root's own (see NmsTable); the    *)
(* map is broken then, and whole again after the next reset.                 *)
EXTENDS Naturals

CONSTANTS Known,       \* the devices on the map
          Report       \* the sets of links one frame may report

VARIABLES adj,         \* per device, the neighbours on the map
          broken       \* the root's row was overwritten

mapVars == <<adj, broken>>

NoLinks == [a \in Known |-> {}]

MapInit == adj = NoLinks /\ broken = FALSE

With(map, links) == [a \in Known |-> map[a] \cup {b \in Known : <<a, b>> \in links}]
Without(map, d) == [a \in Known |-> IF a = d THEN {} ELSE map[a] \ {d}]

\* All links a frame reports are added, and no other.
Learn(links) == UNCHANGED broken /\ adj' = With(adj, links)

\* A dead device has no neighbours and is nobody's neighbour.
Forget(d) == UNCHANGED broken /\ adj' = Without(adj, d)

Clear == broken' = FALSE /\ adj' = NoLinks

\* The named exception: a frame breaks the map, and what follows is unspecified.
Break == broken'

MapNext ==
    \/ Break
    \/ Clear
    \/ \E links \in Report : Learn(links)
    \/ \E d \in Known : Forget(d)

MapSpec == MapInit /\ [][MapNext]_mapVars
===============================================================================
