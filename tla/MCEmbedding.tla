---------------------------- MODULE MCEmbedding -----------------------------
(* An instance of Embedding for TLC: one job, delivered up to three times,  *)
(* beside two processes that start.                                         *)
EXTENDS Embedding

CONSTANTS r1, s1, s2

=============================================================================
