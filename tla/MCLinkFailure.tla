---------------------------- MODULE MCLinkFailure ----------------------------
(* Instances of LinkFailure for TLC: a topology, the paths PREQs may take,   *)
(* and the orders in which the mesh may converge.                            *)
EXTENDS LinkFailure, TLC
CONSTANTS R, A, B, C

Both(S) == S \cup {<<p[2], p[1]>> : p \in S}

\* The Hellos over the links L, the nodes in a given order.
Hellos(order, L) ==
    LET From(m) == SelectSeq([k \in DOMAIN order |-> Hello(m, order[k])],
                             LAMBDA e : <<e.from, e.to>> \in L)
    IN  FlattenSeq([k \in DOMAIN order |-> From(order[k])])

\* Early Hellos, a PREQ of every node, late Hellos, and a Hello over every link.
Setups(order, link, lateLink) ==
    LET Sources == SelectSeq(order, LAMBDA s : s # R)
        Routes == {ps \in [DOMAIN Sources -> Path] : \A k \in DOMAIN ps : ps[k][1] = Sources[k]}
        Asked(ps) == [k \in DOMAIN ps |-> Preq(ps[k])]
    IN  {Hellos(order, link \ late) \o Asked(ps) \o Hellos(order, late) \o Hellos(order, link) :
            late \in SUBSET lateLink, ps \in Routes}

\* The root and two relays in range of one another, and C behind the relays.
MCNode == {R, A, B, C}
Kite == Both({<<R, A>>, <<R, B>>, <<A, B>>, <<A, C>>, <<B, C>>})
KitePath == {<<A>>, <<A, B>>, <<B>>, <<B, A>>, <<C, A>>, <<C, B>>, <<C, A, B>>, <<C, B, A>>}
KiteSetup == Setups(<<C, A, B, R>>, Kite, Both({<<R, A>>, <<R, B>>}))

\* The root, a relay, and a node behind it.
MCThree == {R, A, C}
Line == Both({<<R, A>>, <<A, C>>})
LinePath == {<<A>>, <<C, A>>}
LineSetup == Setups(<<C, A, R>>, Line, Both({<<R, A>>}))
===============================================================================
