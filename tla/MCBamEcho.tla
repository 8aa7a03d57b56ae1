------------------------------ MODULE MCBamEcho -------------------------------
(* Two camera views; one picture may fail to be written.                     *)
EXTENDS BamEcho
==============================================================================
