---------------------------- MODULE MCSourceCache ----------------------------
(***************************************************************************)
(* SourceCache for TLC.                                                    *)
(***************************************************************************)
EXTENDS SourceCache, TLC

\* Callers, and keys, are interchangeable: every step treats them alike.
Symmetry == Permutations(Callers) \union Permutations(Keys)
=============================================================================
