-------------------------------- MODULE Trie --------------------------------
(***************************************************************************)
(* The trie (trie.c) that indexes statements by clause: adding, removing   *)
(* and looking up, checked against a plain map from clauses to references. *)
(*                                                                         *)
(* A clause is a sequence of terms.  A node's branches are a function from *)
(* keys to nodes: the order of the array only orders the results.  Keys    *)
(* are copies, so the test for an equal pointer never succeeds before the  *)
(* test for an equal term does.                                            *)
(***************************************************************************)
EXTENDS Naturals, Sequences, FiniteSets, TrieRemoval
LOCAL SeqExt == INSTANCE SequencesExt

CONSTANTS Variables,   \* terms like /x/
          Rests,       \* terms like /...x/
          Clauses,     \* clauses that come and go
          Boot,        \* a clause that is there from the start and stays
          Patterns,    \* what is looked up
          Refs         \* values

VARIABLES trie,        \* the root node
          stored       \* clause -> value: what the trie contains

vars == <<trie, stored>>

-----------------------------------------------------------------------------

NoValue == 0

trieNew == [hasValue |-> FALSE, value |-> NoValue, branches |-> <<>>]

WithBranch(node, key, branch) ==
    [node EXCEPT !.branches = [k \in DOMAIN @ \cup {key} |->
                                  IF k = key THEN branch ELSE @[k]]]

\* The node itself when the clause is already present.
PutValue_Overwrites(node, value) == [node EXCEPT !.hasValue = TRUE, !.value = value]
PutValue(node, value) ==
    IF node.hasValue THEN node
    ELSE [node EXCEPT !.hasValue = TRUE, !.value = value]

RECURSIVE trieAdd(_, _, _)
trieAdd(node, terms, value) ==
    IF terms = <<>> THEN PutValue(node, value)
    ELSE LET key == Head(terms)
             branch == IF key \in DOMAIN node.branches THEN node.branches[key]
                       ELSE trieNew
             added == trieAdd(branch, Tail(terms), value)
         IN  IF added = branch THEN node ELSE WithBranch(node, key, added)

ValueOf(node) == IF node.hasValue THEN {node.value} ELSE {}

RECURSIVE trieLookupAll(_)
trieLookupAll(node) ==
    ValueOf(node) \cup UNION {trieLookupAll(node.branches[k]) : k \in DOMAIN node.branches}

\* How a branch with this key is walked for this term of the pattern: not
\* at all, one level down, or down to all its leaves.
Walk_NoVariableKeys(isLiteral, term, key) ==
    CASE ~isLiteral /\ term \in Variables -> "step"
      [] ~isLiteral /\ term \in Rests -> "all"
      [] key = term -> "step"
      [] OTHER -> "skip"
Walk(isLiteral, term, key) ==
    CASE ~isLiteral /\ term \in Variables -> "step"
      [] ~isLiteral /\ term \in Rests -> "all"
      [] ~isLiteral /\ term \notin Variables \cup Rests /\ key \in Rests -> "all"
      [] ~isLiteral /\ term \notin Variables \cup Rests /\ key \in Variables -> "step"
      [] key = term -> "step"
      [] OTHER -> "skip"

RECURSIVE trieLookupImpl(_, _, _)
trieLookupImpl(isLiteral, node, terms) ==
    IF terms = <<>> THEN ValueOf(node)
    ELSE UNION {LET branch == node.branches[k]
                    walk == Walk(isLiteral, Head(terms), k)
                IN  CASE walk = "step" -> trieLookupImpl(isLiteral, branch, Tail(terms))
                      [] walk = "all" -> trieLookupAll(branch)
                      [] OTHER -> {}
                : k \in DOMAIN node.branches}

trieLookup(node, pattern) == trieLookupImpl(FALSE, node, pattern)
trieLookupLiteral(node, clause) == trieLookupImpl(TRUE, node, clause)

\* {} stands for the NULL that makes the parent drop the branch.
RemoveHere_Kept(node) == {node}
RemoveHere(node) == IF node.hasValue THEN {} ELSE {node}

RECURSIVE trieRemoveImpl(_, _)
trieRemoveImpl(node, terms) ==
    IF terms = <<>> THEN RemoveHere(node)
    ELSE LET left(k) == IF Walk(TRUE, Head(terms), k) = "step"
                        THEN trieRemoveImpl(node.branches[k], Tail(terms))
                        ELSE {node.branches[k]}
             kept == {k \in DOMAIN node.branches : left(k) # {}}
         IN  IF kept = {} THEN {}
             ELSE {[node EXCEPT !.branches =
                       [k \in kept |-> CHOOSE branch \in left(k) : TRUE]]}

\* Removal matches literally only.
trieRemove(node, clause) == trieRemoveImpl(node, clause)

-----------------------------------------------------------------------------

BootRef == CHOOSE v \in Refs : TRUE

Init ==
    /\ trie = trieAdd(trieNew, Boot, BootRef)
    /\ stored = [c \in {Boot} |-> BootRef]

StoredRefs == {stored[c] : c \in DOMAIN stored}

\* An insertion tries a fresh reference; what is present stays.
Add(c, v) ==
    /\ v \notin StoredRefs
    /\ trie' = trieAdd(trie, c, v)
    /\ stored' = IF c \in DOMAIN stored THEN stored
                 ELSE [d \in DOMAIN stored \cup {c} |->
                          IF d = c THEN v ELSE stored[d]]

\* The pairs of clauses of which the first continues the second.
Continues ==
    {p \in (Clauses \cup {Boot}) \X (Clauses \cup {Boot}) :
        SeqExt!IsStrictPrefix(p[2], p[1])}

\* What is stored when c is removed.
Left(c) == [d \in DOMAIN stored \ Dropped(DOMAIN stored, c, Continues) |-> stored[d]]

\* A root of NULL would end the process at the next operation.
Remove(c) ==
    /\ trieRemove(trie, c) # {}
    /\ trie' \in trieRemove(trie, c)
    /\ stored' = Left(c)

Next ==
    \/ \E c \in Clauses, v \in Refs : Add(c, v)
    \/ \E c \in Clauses : Remove(c)

Spec == Init /\ [][Next]_vars

-----------------------------------------------------------------------------
(* Properties.                                                             *)

\* Two terms that stand at the same place.
Compatible(p, c) == \/ p \in Variables
                    \/ p \notin Rests /\ (c \in Variables \/ p = c) /\ c \notin Rests

\* A rest variable takes whatever is left, if anything is.
TakesRest(p, c) == \/ p \in Rests
                   \/ p \notin Variables /\ c \in Rests

Matches(p, c) ==
    \/ /\ Len(p) = Len(c)
       /\ \A i \in 1 .. Len(p) : Compatible(p[i], c[i])
    \/ \E i \in 1 .. Len(p) :
          /\ i <= Len(c)
          /\ TakesRest(p[i], c[i])
          /\ \A j \in 1 .. i - 1 : Compatible(p[j], c[j])

\* trieLookup finds exactly the stored clauses that match the pattern, where
\* variables of the pattern and of the clauses both match anything.
LookupFindsMatches ==
    \A p \in Patterns :
        trieLookup(trie, p) = {stored[c] : c \in {d \in DOMAIN stored : Matches(p, d)}}

\* trieLookupLiteral, which insertion relies on, finds the stored reference
\* of the clause and nothing else.
LiteralLookupIsExact ==
    \A c \in Clauses \cup {Boot} :
        trieLookupLiteral(trie, c) = IF c \in DOMAIN stored THEN {stored[c]} ELSE {}

Values(f) == {f[d] : d \in DOMAIN f}

\* trieRemove of c would leave in the trie exactly the references of left.
LeavesExactly(c, left) == \A node \in trieRemove(trie, c) : trieLookupAll(node) = Values(left)

\* Whatever clause is removed now, stored or not, trieRemove takes out of the
\* nodes what Dropped says, which the database is modelled with: the clause, all
\* that continue it, and those it continues when nothing else hangs below them.
RemovalTakesRelated == \A c \in Clauses : LeavesExactly(c, Left(c))
=============================================================================
