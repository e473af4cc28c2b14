--------------------------- MODULE MCRouteDiscovery ---------------------------
(* RouteDiscovery on a triangle, alone and with a node behind one of its     *)
(* relays; radio links are symmetric.                                        *)
(* junk is what is read past the end of an address list.                     *)
EXTENDS RouteDiscovery

CONSTANTS R, A, B, C, junk

MCNode == {R, A, B, C}
Both(S) == S \cup {<<p[2], p[1]>> : p \in S}
Paw == Both({<<R, A>>, <<R, B>>, <<A, B>>, <<B, C>>})
MCThree == {R, A, B}
Triangle3 == Both({<<R, A>>, <<R, B>>, <<A, B>>})
HelloAR == {<<A, R>>}
Line == Both({<<R, A>>, <<A, B>>, <<B, C>>})
===============================================================================
