---------------------------- MODULE MCIngestion -----------------------------
(* Instances of Ingestion and IngestionUse for TLC. *)
EXTENDS IngestionUse, TLC

CONSTANTS d1, d2, a, j1, j2, c1, c2

MCDocsetOf == [d \in Docs |-> a]
MCSymmetry == Permutations(Jobs) \cup Permutations(Clients)

\* Two deliveries in all: one of each job, or the delivery and redelivery of one of them.
MCTwoDeliveries == tries[j1] + tries[j2] <= 2
=============================================================================
