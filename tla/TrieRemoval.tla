---------------------------- MODULE TrieRemoval ----------------------------
(***************************************************************************)
(* What trieRemove (trie.c) takes out of a trie, told of the clauses that  *)
(* are stored in it.  continues is the set of the pairs <<longer, shorter>> *)
(* of clauses where the longer one starts with all terms of the shorter.   *)
(* The module Trie shows that this is what the nodes of the trie come to.  *)
(***************************************************************************)

\* The node of c goes with all that is below it.  On the way back up a node
\* without branches left goes too, even if a clause ends there, and even when c
\* was not stored and the way led to a leaf above it.  But the node of a clause
\* that is not stored stays when others continue it.
Dropped(stored, c, continues) ==
    LET below == {d \in stored : <<d, c>> \in continues}
        above == {p \in stored : <<c, p>> \in continues}
        onTheWay(d) == d = c \/ <<d, c>> \in continues \/ <<c, d>> \in continues
        onlyBranch(p) == \A d \in stored : <<d, p>> \in continues => onTheWay(d)
    IN  IF c \notin stored /\ below # {} THEN {}
        ELSE (stored \cap {c}) \cup below \cup {p \in above : onlyBranch(p)}
=============================================================================
