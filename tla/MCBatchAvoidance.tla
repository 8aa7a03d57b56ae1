--------------------------- MODULE MCBatchAvoidance ---------------------------
(* Five pairs from the second on, the last of them missing in the files, and *)
(* distances below, at and above the safety radius.                          *)
EXTENDS BatchAvoidance
==============================================================================
