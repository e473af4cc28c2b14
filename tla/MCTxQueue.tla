------------------------------ MODULE MCTxQueue ------------------------------
(* Instance of TxQueue for TLC: a ring of four slots and three frames.       *)
EXTENDS TxQueue

CONSTANTS f1, f2, f3

MCFrame == {f1, f2, f3}
=============================================================================
