------------------------------ MODULE MCStorage ------------------------------
(* Storage with a limit of three characters, ids on both sides of it, and    *)
(* ids of dots, separators and underscores.                                  *)
EXTENDS Storage, TLC

Symmetric == Permutations(Transactions)

MCAppIds == {<< >>, <<"a">>, <<"a", "b">>, <<"a", ".", "b">>, <<"a", "_">>, <<"a", "/">>,
             <<".", "a">>, <<".", ".">>, <<".", ".", "/", "a">>, <<"a", ".", "b", "a">>}
=============================================================================
