------------------------------ MODULE MCCatalog ------------------------------
(* Ids 1 to 3 are the names 1, 2 and 3; 4 is the name 1.jpg.                  *)
EXTENDS Catalog, TLC

MCNormal == [i \in Ids |-> IF i = 4 THEN 1 ELSE i]
Symmetry == Permutations(Requests)
=============================================================================
