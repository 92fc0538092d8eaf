------------------------------ MODULE MCHealth ------------------------------
(***************************************************************************)
(* Health for TLC, with the dependencies picsum-photos configures.         *)
(***************************************************************************)
EXTENDS Health, TLC

MCOrder == <<"database", "cache", "storage">>

\* Check goroutines are interchangeable.
Symmetry == Permutations(Checks)
=============================================================================
