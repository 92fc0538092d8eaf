---------------------------- MODULE MCWorkerQueue ----------------------------
(***************************************************************************)
(* WorkerQueue for TLC.                                                    *)
(***************************************************************************)
EXTENDS WorkerQueue, TLC

\* Calls and workers are interchangeable: every step treats them alike.
Symmetry == Permutations(Requests) \union Permutations(Workers)
=============================================================================
