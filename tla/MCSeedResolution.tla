--------------------------- MODULE MCSeedResolution ---------------------------
(***************************************************************************)
(* SeedResolution for TLC. Images are numbers, in the order of their ids.  *)
(***************************************************************************)
EXTENDS SeedResolution, TLC

\* Calls are interchangeable. Images are not: the pick depends on their order.
Symmetry == Permutations(Requests)

\* rand.New(rand.NewSource(seed)).Intn(len(pool)): an index that depends on the
\* seed and on the size of the pool only. Seeds are numbers.
MCPick(s, P) ==
    LET index == (s + Cardinality(P)) % Cardinality(P)
    IN  CHOOSE i \in P : Cardinality({j \in P : j < i}) = index

\* Rows come in the order of the ids.
MCPrefixes(P) == {{j \in P : j < i} : i \in P}
=============================================================================
