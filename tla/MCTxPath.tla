------------------------------- MODULE MCTxPath -------------------------------
(* TxPath with the reply to a PREQ of A that goes by B, and the report of a   *)
(* death to A.                                                                *)
EXTENDS TxPath, TLC

CONSTANTS reply, report, rx, timer, A, B

MCFrame == {reply, report}
MCFirst == (reply :> A) @@ (report :> Bcast)
MCHop == (reply :> B) @@ (report :> A)
===============================================================================
