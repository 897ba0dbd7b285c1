--------------------------- MODULE MCBatchStatus ----------------------------
(* Instances of BatchStatus for TLC. *)
EXTENDS BatchStatus, TLC

CONSTANTS j1, j2, p1, p2
=============================================================================
