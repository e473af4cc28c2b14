--------------------------- MODULE MCConfigTimers ---------------------------
(* ConfigTimers with a single reply slot.  The intervals keep the order and  *)
(* the ties of those of aodv.h: 1 for the second channel, the ratios and the *)
(* reset, 2 for Hello, 3 for a reply (3), the scan, the RANN and the decay   *)
(* of the NMS table (5), and for the data count (10).                        *)
EXTENDS ConfigTimers

Seconds ==
    [t \in Timer |-> CASE t \in {"sch", "check", "alm", "api"} -> 1
                       [] t = "hello" -> 2
                       [] OTHER -> 3]
=============================================================================
