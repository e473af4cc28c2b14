------------------------------ MODULE MCNmsTable ------------------------------
(* NmsTable in a mesh of the root, which is second in mac_list, three known   *)
(* devices and a relay that is not in mac_list.  T is first in mac_list.      *)
EXTENDS NmsTable

CONSTANTS R, A, B, T, X

MCMacList == <<T, R, A, B>>
MCNeighbor == {A}
MCPath == {<<B, A>>, <<B, X>>, <<T>>}
===============================================================================
