------------------------------- MODULE MCTrie -------------------------------
(* Clauses over two literals, a variable and a rest variable. *)
EXTENDS Trie, TLC

MCVariables == {"/x/"}
MCRests == {"/...r/"}
MCBoot == <<"boot">>
Terms == {"a", "b", "/x/", "/...r/"}

\* Clauses with variables, and a chain of clauses that continue each other with
\* one that branches off it.
MCClauses == {<<"a">>, <<"a", "/x/">>, <<"a", "a">>, <<"a", "a", "b">>, <<"b", "/...r/">>}

MCPatterns == UNION {[1 .. n -> Terms] : n \in 1 .. 3}
=============================================================================
