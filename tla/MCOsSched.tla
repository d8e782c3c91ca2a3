------------------------------ MODULE MCOsSched ------------------------------
(* Bounds for OsSched: a 5-bit clock, whose wrap is reached often, and tables *)
(* with fewer tasks than slots, as many, and more.                            *)
EXTENDS OsSched

MCTaskCount == [p \in Period |-> CASE p = 1 -> 1 [] p = 4 -> 6 [] p = 8 -> 8 [] p = 16 -> 3]
=============================================================================
