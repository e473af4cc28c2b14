--------------------------- MODULE MCRannControl ---------------------------
(* RannControl with two nodes, two metrics and two radio settings. *)
EXTENDS RannControl

Metrics == {1, 2}
Radios == {"ch172", "ch174"}

Periods == {0, 2}
AnyCommand == {0, 1, 2, 3, 99}
=============================================================================
