----------------------------- MODULE MCRegistry -----------------------------
(* An instance of Registry for TLC. *)
EXTENDS Registry, TLC

CONSTANTS c1, c2, u1, u2

MCUrlOf == [r \in Rows |-> IF r = 3 THEN u2 ELSE u1]
MCSymmetry == Permutations(Clients)
=============================================================================
