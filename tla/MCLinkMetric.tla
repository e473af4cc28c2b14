----------------------------- MODULE MCLinkMetric -----------------------------
(* LinkMetric with short limits.                                              *)
EXTENDS LinkMetric
===============================================================================
