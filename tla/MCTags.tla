-------------------------------- MODULE MCTags --------------------------------
EXTENDS Tags, TLC

\* n is a name of its own or an alias of x.
MCRows == {[name |-> "n", aliases |-> {}], [name |-> "x", aliases |-> {"n"}]}
MCInputs == {{}, {"n"}}

Symmetry == Permutations(Merges) \union Permutations(Entries) \union Permutations(Images)
=============================================================================
