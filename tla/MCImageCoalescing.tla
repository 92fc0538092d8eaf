-------------------------- MODULE MCImageCoalescing --------------------------
(***************************************************************************)
(* ImageCoalescing for TLC.                                                *)
(***************************************************************************)
EXTENDS ImageCoalescing, TLC

\* Requests, and keys, are interchangeable: every step treats them alike.
Symmetry == Permutations(Requests) \union Permutations(Keys)
=============================================================================
