------------------------------ MODULE MCAccess -------------------------------
EXTENDS Access, TLC

\* The password is compared alike beside every configuration of OIDC: each of
\* them is taken with one password, and "none" with both.
MCSettings == {<<"none", "">>, <<"none", "secret">>, <<"ids", "secret">>,
               <<"partial", "secret">>, <<"full", "">>}

Symmetry == Permutations(Browsers) \union Permutations(Logins) \union Permutations(Callbacks)
=============================================================================
