--------------------------- MODULE MCParallelBatch -----------------------------
(* Two runs, and an input with the digits of the first.                     *)
EXTENDS ParallelBatch

MCOthers == {<<"old", 1>>}
==============================================================================
