------------------------------ MODULE MCCrawl -------------------------------
(* Instances of Crawl for TLC. *)
EXTENDS Crawl, TLC

CONSTANTS r1, r2, r3, r4, r5, a, b

MCDomainOf == (r1 :> a) @@ (r2 :> a) @@ (r3 :> a) @@ (r4 :> a) @@ (r5 :> b)
=============================================================================
