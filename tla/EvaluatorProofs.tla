-------------------------- MODULE EvaluatorProofs --------------------------
(***************************************************************************)
(* Theorems about the evaluator: entries of the remove-later table are     *)
(* never forgotten, bodies of a When -serially exclude each other, the     *)
(* root of a version is kept until the version is given up, and the        *)
(* in-flight count of a version is exact.                                  *)
(*                                                                         *)
(* EvaluatorInv is inductive.  The steps that EvaluatorSteps does not call *)
(* calm are the start and the end of a body, the prologues of -serially    *)
(* and -atomically, the writes to the remove-later table, and the reaper.  *)
(* Under it CountsInv is inductive: each step changes a counter by what it *)
(* changes on the stacks and in the queues.                                *)
(***************************************************************************)
EXTENDS EvaluatorSteps

-----------------------------------------------------------------------------
(* The end of a body.                                                      *)

\* The end of runWhenBlock is a thread's last call.
LEMMA AtEnd ==
    ASSUME TypeOK, Stacks, NEW t \in Threads, NEW op \in EndOps, At(t, op)
    PROVE  /\ Len(todo[t]) = 1 /\ Tail(todo[t]) = <<>> /\ todo[t] # <<>>
           /\ todo[t][1] = Top(t) /\ Top(t).ref \in MatchRefs
           /\ EndsIn(todo[t], Top(t).ref)
<1> DEFINE s == todo[t]
<1>1. s \in Seq(Frames) /\ Len(s) \in Nat /\ s # <<>>
  BY StackTyped DEF At
<1>2. 1 \in 1 .. Len(s) /\ s[1] = Top(t)
  BY <1>1, EmptySeq DEF Top
<1>3. Len(s) = 1
  BY <1>2 DEF Stacks, StackOK, At
<1>4. Tail(s) \in Seq(Frames) /\ Len(Tail(s)) = 0
  BY <1>1, <1>3, HeadTailProperties
<1>5. Tail(s) = <<>>
  BY <1>4, EmptySeq
<1>6. op \in MatchOps
  BY DEF EndOps, MatchOps
<1>7. Top(t).ref \in MatchRefs
  BY <1>6, AtMatch
<1>8. EndsIn(s, Top(t).ref)
  BY <1>1, <1>2, <1>3 DEF EndsIn, At
<1> QED BY <1>1, <1>2, <1>3, <1>5, <1>7, <1>8

\* The match is completed when its only thread leaves it.
LEMMA CompletedInv ==
    ASSUME TypeOK, TypeOK', EvaluatorInv, NEW t \in Threads, NEW op \in EndOps, At(t, op),
           matches' = [matches EXCEPT ![Top(t).ref].completed = TRUE], Then(t, <<>>),
           UNCHANGED <<stmts, later, versions, atomicallys>>
    PROVE  EvaluatorInv'
<1> DEFINE m == Top(t).ref
<1>1. /\ Len(todo[t]) = 1 /\ Tail(todo[t]) = <<>> /\ todo[t] # <<>> /\ todo[t][1] = Top(t)
      /\ m \in MatchRefs /\ EndsIn(todo[t], m)
  BY AtEnd DEF EvaluatorInv, BodiesInv
<1>2. todo'[t] = <<>> /\ Moves(t)
  <2>1. todo'[t] = <<>> \o Tail(todo[t]) /\ Moves(t)
    BY ThenMoves
  <2>2. <<>> \o <<>> = <<>>
    OBVIOUS
  <2> QED BY <1>1, <2>1, <2>2
<1>3. Calls(<<>>, BodyOps)
  BY ShortCalls
<1>4. Within(todo[t], todo'[t])
  BY <1>2, <1>3, StartedWithin
<1>5. DOMAIN matches = MatchRefs /\ matches[m] \in Match
  BY <1>1, LensTyped, MatchFields
<1> DEFINE e == [matches[m] EXCEPT !.completed = TRUE]
<1>6. e.parents = matches[m].parents /\ e.version = matches[m].version
  BY <1>5 DEF Match
<1>7. matches' = [matches EXCEPT ![m] = e]
  OBVIOUS
<1>8. Len(matches') = Len(matches)
  BY <1>1, MatchFields DEF KeepsMatches
<1> HIDE DEF e, m
<1>9. SameParents /\ SameVersions /\ SteadyStmts /\ SteadyRoots
  BY <1>1, <1>5, <1>6, <1>7, <1>8, UnchangedSteady DEF SameParents, SameVersions
<1>10. \A k \in MatchRefs : k # m => matches'[k] = matches[k]
  BY <1>5, <1>7
<1>11. RunsOnce'
  <2>1. MatchRefs' = MatchRefs
    BY <1>8 DEF MatchRefs
  <2> SUFFICES ASSUME NEW k \in MatchRefs, NEW u \in Threads, EndsIn(todo'[u], k)
               PROVE  /\ ~matches'[k].completed
                      /\ \A r \in Threads : EndsIn(todo'[r], k) => r = u
    BY <2>1 DEF RunsOnce
  <2>2. u # t
    BY <1>2 DEF EndsIn
  <2>3. EndsIn(todo[u], k)
    BY <2>2, <1>2 DEF Moves
  <2>4. k # m
    BY <1>1, <2>2, <2>3 DEF EvaluatorInv, BodiesInv, RunsOnce
  <2>5. \A r \in Threads : EndsIn(todo'[r], k) => EndsIn(todo[r], k)
    BY <1>2 DEF Moves, EndsIn
  <2> QED BY <1>10, <2>3, <2>4, <2>5 DEF EvaluatorInv, BodiesInv, RunsOnce
<1>12. Inside(todo[t], todo'[t])
  BY <1>4 DEF Within
<1>13. BodiesInv'
  BY <1>2, <1>4, <1>9, <1>11, <1>12, StacksStep, MatchesAgreeStep, SeriallyStep, RootsStep, FreshStep
     DEF BodiesInv, EvaluatorInv
<1>14. EntriesStay(todo[t], todo'[t])
  <2>1. \A j \in 1 .. Len(todo[t]) : todo[t][j].op \in EndOps
    BY <1>1 DEF At
  <2> QED BY <2>1 DEF EntriesStay, EndOps
<1>15. NoReap(todo[t], todo'[t])
  BY <1>2, EmptySeq DEF NoReap
<1> QED BY <1>2, <1>9, <1>13, <1>14, <1>15, EntriesStep, ListsStep DEF EvaluatorInv

LEMMA MatchCompletedInv ==
    ASSUME TypeOK, TypeOK', EvaluatorInv, NEW t \in Threads, MatchCompleted(t)
    PROVE  EvaluatorInv'
BY CompletedInv DEF MatchCompleted, EndOps, sideVars

LEMMA EndBodyInv ==
    ASSUME TypeOK, TypeOK', EvaluatorInv, NEW t \in Threads, EndBody(t)
    PROVE  EvaluatorInv'
<1> DEFINE m == Top(t).ref
           v == matches[m].version
           n == <<InflightFrame(v), RefFrame("completed", m)>>
<1>1. At(t, "endBody") /\ "endBody" \in EndOps
  BY DEF EndBody, EndOps
<1>2. CASE v = NoVersion
  BY <1>1, <1>2, CompletedInv DEF EndBody, sideVars
<1>3. CASE v # NoVersion
  <2>1. /\ Len(todo[t]) = 1 /\ Tail(todo[t]) = <<>> /\ todo[t] # <<>> /\ todo[t][1] = Top(t)
        /\ m \in MatchRefs /\ EndsIn(todo[t], m)
    BY <1>1, AtEnd DEF EvaluatorInv, BodiesInv
  <2>2. Then(t, n) /\ matches' = matches
    BY <1>3 DEF EndBody
  <2>3. /\ Len(n) = 2 /\ n[1].op = "inflightDecr" /\ n[2].op = "completed" /\ n[2].ref = m
        /\ n # <<>>
    BY DEF InflightFrame, RefFrame
  <2>4. n \o <<>> = n
    <3>1. n \in Seq({InflightFrame(v), RefFrame("completed", m)})
      BY ShortSeqs
    <3> HIDE DEF n
    <3> QED BY <3>1
  <2>5. todo'[t] = n /\ Moves(t)
    BY <2>1, <2>2, <2>4, ThenMoves
  <2> HIDE DEF n, m
  <2>6. \A j \in 1 .. Len(n) : j \in {1, 2}
    BY <2>3
  <2>7. StackOK(n)
    BY <2>3, <2>6 DEF StackOK, EndOps
  <2>8. \A j \in 1 .. Len(n) : ~IsFresh(n[j]) /\ n[j].op \notin ReapOps
    BY <2>3, <2>6 DEF IsFresh, ReapOps
  <2>9. \A k : (EndsIn(n, k) => k = m) /\ ~PastPrologue(n, k)
    BY <2>3 DEF EndsIn, PastPrologue, RefFrame
  <2>10. Within(todo[t], n)
    BY <2>1, <2>7, <2>8, <2>9 DEF Within, Inside, FreshOnce
  <2>11. EntriesStay(todo[t], n)
    <3>1. \A j \in 1 .. Len(todo[t]) : todo[t][j].op \in EndOps
      BY <1>1, <2>1 DEF At
    <3> QED BY <3>1 DEF EntriesStay, EndOps
  <2>12. Quiet(t)
    BY <2>5, <2>8, <2>10, <2>11 DEF Quiet, NoReap
  <2>13. Calm(t)
    BY <2>2, <2>12, UnchangedSteady, QuietCalm DEF EndBody, sideVars
  <2> QED BY <2>13, CalmInv
<1> QED BY <1>2, <1>3

-----------------------------------------------------------------------------
(* The prologue of When -serially.                                         *)

\* A set of two different elements has two.
LEMMA PairHasTwo ==
    ASSUME NEW i, NEW j, i # j
    PROVE  Cardinality({i, j}) = 2
<1>1. IsFiniteSet({i}) /\ Cardinality({i}) = 1
  BY FS_Singleton
<1>2. {i, j} = {i} \cup {j} /\ j \notin {i}
  OBVIOUS
<1>3. Cardinality({i} \cup {j}) = Cardinality({i}) + 1
  BY <1>1, <1>2, FS_AddElement, Zenon
<1>4. Cardinality({i} \cup {j}) = 1 + 1
  BY <1>1, <1>3, Zenon
<1>5. 1 + 1 = 2
  OBVIOUS
<1> QED BY <1>2, <1>4, <1>5, Zenon

\* Two children of a statement that have not completed are counted as two.
LEMMA TwoIncomplete ==
    ASSUME TypeOK, NEW m \in MatchRefs, NEW a \in MatchRefs, NEW b \in MatchRefs, a # b,
           matches[m].parents # <<>>, stmts[matches[m].parents[1]].open,
           a \in ToSet(stmts[matches[m].parents[1]].kids), ~matches[a].completed,
           b \in ToSet(stmts[matches[m].parents[1]].kids), ~matches[b].completed
    PROVE  IncompleteChildMatches(m) > 1
<1> DEFINE w == matches[m].parents[1]
           kids == stmts[w].kids
           S == {i \in 1 .. Len(kids) : ~matches[kids[i]].completed}
<1>1. w \in StmtRefs
  BY MatchTyped
<1>2. stmts[w] \in Stmt
  BY <1>1, StmtFields
<1>3. kids \in Seq(MatchRefs)
  BY <1>2 DEF Stmt
<1>4. Len(kids) \in Nat /\ DOMAIN kids = 1 .. Len(kids)
  BY <1>3, LenProperties
<1>5. PICK i \in 1 .. Len(kids) : kids[i] = a
  BY <1>4 DEF ToSet
<1>6. PICK j \in 1 .. Len(kids) : kids[j] = b
  BY <1>4 DEF ToSet
<1>7. IsFiniteSet(1 .. Len(kids))
  BY <1>4, FS_Interval
<1>8. IsFiniteSet(S)
  BY <1>7, FS_Subset
<1>9. {i, j} \subseteq S /\ i # j
  BY <1>5, <1>6
<1>10. IncompleteChildMatches(m) = Cardinality(S)
  BY DEF IncompleteChildMatches
<1> HIDE DEF S
<1>11. Cardinality({i, j}) = 2
  BY <1>9, PairHasTwo
<1>12. Cardinality({i, j}) <= Cardinality(S) /\ Cardinality(S) \in Nat
  BY <1>8, <1>9, FS_Subset, FS_CardinalityType
<1> QED BY <1>10, <1>11, <1>12

LEMMA PastEnds ==
    TypeOK => \A x \in Threads : \A k : PastPrologue(todo[x], k) => EndsIn(todo[x], k)
BY StackTyped

LEMMA RunSeriallyInv ==
    ASSUME TypeOK, TypeOK', EvaluatorInv, NEW t \in Threads, RunSerially(t)
    PROVE  EvaluatorInv'
<1> DEFINE s == todo[t]
           m == Top(t).match
<1> USE DEF EvaluatorInv, BodiesInv
<1>1. CASE IncompleteChildMatches(m) > 1
  BY <1>1, SeriallyLeavesCalm, CalmInv
<1>2. CASE ~(IncompleteChildMatches(m) > 1)
  <2>1. /\ s # <<>> /\ Top(t) = s[1] /\ s[1].op = "command" /\ m \in MatchRefs
        /\ s \in Seq(Frames) /\ Len(s) \in Nat
    BY SeriallyTop, StackTyped
  <2>2. todo'[t] = Tail(s) /\ Moves(t)
    BY <1>2 DEF RunSerially, Moves, TypeOK
  <2>3. Calls(<<>>, BodyOps) /\ \E S : <<>> \in Seq(S)
    BY ShortCalls DEF Calls
  <2>4. Tail(s) \in Seq(Frames)
    BY <2>1, TopTyped
  <2>5. <<>> \o Tail(s) = Tail(s)
    BY <2>4
  <2>6. Inside(s, <<>> \o Tail(s))
    BY <2>1, <2>3, ReplacedWithin DEF Stacks
  <2>7. Inside(s, todo'[t])
    BY <2>2, <2>5, <2>6
  <2>8. SteadyStmts /\ SteadyRoots /\ SameParents /\ SameVersions /\ SameCompleted
    BY UnchangedSteady DEF RunSerially, sideVars, SteadyMatches
  <2>9. EntriesStay(s, todo'[t])
    <3>1. s[1].op \notin EntryOps
      BY <2>1 DEF EntryOps
    <3>2. EntriesStay(s, <<>> \o Tail(s))
      BY <2>1, <2>3, <3>1, ReplacedEntries
    <3> QED BY <2>2, <2>5, <3>2
  <2>10. NoReap(s, todo'[t])
    <3> DEFINE n == Tail(s)
    <3>1. \A j \in 1 .. Len(n) : j + 1 \in 1 .. Len(s) /\ n[j] = s[j + 1]
      BY <2>1, HeadTailProperties
    <3> QED BY <2>2, <3>1 DEF NoReap
  <2>11. s[Len(s)] = RefFrame("endBody", m)
    <3>1. 1 \in 1 .. Len(s)
      BY <2>1, EmptySeq
    <3>2. m # NoRef
      BY <2>1, MatchTyped
    <3> QED BY <2>1, <3>1, <3>2 DEF Stacks, StackOK
  <2>12. \A u \in Threads : \A k : EndsIn(todo'[u], k) => EndsIn(todo[u], k)
    BY <2>2, <2>7 DEF Moves, Inside
  <2>13. SeriallyExclusive'
    <3>1. DOMAIN matches = MatchRefs /\ matches' = matches /\ stmts' = stmts
      BY LensTyped DEF RunSerially
    <3> SUFFICES ASSUME NEW a \in MatchRefs, NEW b \in MatchRefs,
                        stmts[matches[a].parents[1]].open,
                        stmts[matches[a].parents[1]].clause \in SeriallyWhens,
                        matches[b].parents[1] = matches[a].parents[1],
                        NEW r \in Threads, NEW u \in Threads,
                        PastPrologue(todo'[r], a), PastPrologue(todo'[u], b)
                 PROVE  a = b
      BY <3>1 DEF SeriallyExclusive
    <3>2. CASE r # t /\ u # t
      BY <2>2, <3>1, <3>2 DEF Moves, SeriallyExclusive
    <3>3. CASE r = t \/ u = t
      <4>1. EndsIn(todo'[r], a) /\ EndsIn(todo'[u], b)
        <5>1. (\A x \in Threads : \A k : PastPrologue(todo[x], k) => EndsIn(todo[x], k))'
          BY PastEnds, PTL
        <5> QED BY <5>1
      <4>2. EndsIn(todo[r], a) /\ EndsIn(todo[u], b)
        BY <2>12, <4>1
      <4>3. a = m \/ b = m
        BY <2>11, <3>3, <4>2 DEF EndsIn, RefFrame
      <4>4. matches[a].parents[1] = matches[m].parents[1]
        BY <4>3
      <4>5. ~matches[a].completed /\ ~matches[b].completed
        BY <4>2 DEF RunsOnce
      <4>6. /\ matches[m].parents # <<>>
            /\ a \in ToSet(stmts[matches[m].parents[1]].kids)
            /\ b \in ToSet(stmts[matches[m].parents[1]].kids)
        BY <2>1, <4>4 DEF MatchesAgree
      <4> HIDE DEF m
      <4> QED BY <1>2, <2>1, <4>4, <4>5, <4>6, TwoIncomplete
    <3> QED BY <3>2, <3>3
  <2>14. BodiesInv'
    BY <2>2, <2>7, <2>8, <2>13, StacksStep, RunsOnceStep, MatchesAgreeStep, RootsStep, FreshStep
  <2>15. later' = later /\ atomicallys' = atomicallys
    BY DEF RunSerially, sideVars
  <2> QED BY <2>2, <2>8, <2>9, <2>10, <2>14, <2>15, EntriesStep, ListsStep
<1> QED BY <1>1, <1>2

-----------------------------------------------------------------------------
(* A match is made and its body started.                                   *)

LEMMA NewMatch ==
    ASSUME TypeOK, NEW t \in Threads, NEW f, f.when \in StmtRefs,
           f.stmt \in StmtRefs \cup {NoRef}, InsertMatch(t, Parents(f), BlockVersion(f))
    PROVE  LET m == Len(matches) + 1
           IN  /\ MatchRefs' = MatchRefs \cup {m} /\ m \notin MatchRefs /\ m # NoRef
               /\ \A k \in MatchRefs : matches'[k] = matches[k]
               /\ ~matches'[m].completed /\ matches'[m].parents # <<>>
               /\ matches'[m].parents[1] = f.when /\ matches'[m].version = BlockVersion(f)
               /\ \A s \in StmtRefs : /\ stmts'[s].clause = stmts[s].clause
                                      /\ stmts'[s].version = stmts[s].version
                                      /\ stmts'[s].open = stmts[s].open
                                      /\ ToSet(stmts[s].kids) \subseteq ToSet(stmts'[s].kids)
               /\ m \in ToSet(stmts'[f.when].kids)
<1> DEFINE m == Len(matches) + 1
           e == [parents |-> Parents(f), open |-> TRUE,
                 completed |-> FALSE, interrupted |-> FALSE,
                 worker |-> t,
                 version |-> BlockVersion(f), parentWasRemoved |-> FALSE,
                 overlooked |-> FALSE,
                 lock |-> NoThread, kids |-> <<>>]
           ss == Unlocked(t, stmts)
<1>1. e.parents = Parents(f) /\ e.completed = FALSE /\ e.version = BlockVersion(f)
  OBVIOUS
<1>2. /\ Parents(f) \in Seq(StmtRefs) /\ Parents(f)[1] = f.when /\ Len(Parents(f)) \in {1, 2}
      /\ f.when \in ToSet(Parents(f))
  BY ParentsTyped
<1>3. Parents(f) # <<>>
  BY <1>2, EmptySeq
<1>4. matches' = Append(matches, e)
  BY DEF InsertMatch
<1> HIDE DEF e
<1>5. matches \in Seq(Match \cup {e}) /\ Len(matches) \in Nat
  BY LensTyped, SeqMonotonic
<1>6. /\ Len(matches') = m /\ matches'[m] = e
      /\ \A k \in 1 .. Len(matches) : matches'[k] = matches[k]
  BY <1>4, <1>5, AppendProperties
<1>7. MatchRefs' = MatchRefs \cup {m} /\ m \notin MatchRefs /\ m # NoRef
  BY <1>5, <1>6 DEF MatchRefs, NoRef
<1>8. /\ DOMAIN stmts = StmtRefs
      /\ \A s \in StmtRefs : /\ ss[s] \in Stmt /\ ss[s].clause = stmts[s].clause
                             /\ ss[s].kids = stmts[s].kids /\ ss[s].open = stmts[s].open
                             /\ ss[s].version = stmts[s].version
  BY LensTyped, UnlockedTyped
<1>9. \A s \in StmtRefs :
         stmts'[s] = IF s \in ToSet(Parents(f))
                     THEN [ss[s] EXCEPT !.kids = Append(@, m)] ELSE stmts[s]
  BY <1>8 DEF InsertMatch
<1> HIDE DEF m, ss
<1>10. ASSUME NEW s \in StmtRefs, s \in ToSet(Parents(f))
       PROVE  /\ stmts'[s].clause = stmts[s].clause /\ stmts'[s].open = stmts[s].open
              /\ stmts'[s].kids = Append(stmts[s].kids, m)
              /\ stmts'[s].version = stmts[s].version
  <2>1. ss[s] \in Stmt /\ stmts'[s] = [ss[s] EXCEPT !.kids = Append(@, m)]
    BY <1>8, <1>9, <1>10
  <2>2. /\ [ss[s] EXCEPT !.kids = Append(@, m)].clause = ss[s].clause
        /\ [ss[s] EXCEPT !.kids = Append(@, m)].open = ss[s].open
        /\ [ss[s] EXCEPT !.kids = Append(@, m)].kids = Append(ss[s].kids, m)
        /\ [ss[s] EXCEPT !.kids = Append(@, m)].version = ss[s].version
    BY <2>1 DEF Stmt
  <2> QED BY <1>8, <2>1, <2>2
<1>11. ASSUME NEW s \in StmtRefs
       PROVE  ToSet(Append(stmts[s].kids, m)) = ToSet(stmts[s].kids) \cup {m}
  <2>1. stmts[s] \in Stmt
    BY StmtFields
  <2>2. stmts[s].kids \in Seq(MatchRefs)
    BY <2>1 DEF Stmt
  <2>3. stmts[s].kids \in Seq(MatchRefs \cup {m})
    BY <2>2, SeqMonotonic
  <2> DEFINE old == stmts[s].kids
             new == Append(old, m)
  <2>4. /\ new \in Seq(MatchRefs \cup {m}) /\ Len(new) = Len(old) + 1 /\ Len(old) \in Nat
        /\ \A i \in 1 .. Len(old) : new[i] = old[i]
        /\ new[Len(old) + 1] = m
    BY <2>3, AppendProperties, LenProperties
  <2>5. DOMAIN old = 1 .. Len(old) /\ DOMAIN new = 1 .. Len(new)
    BY <2>3, <2>4, LenProperties
  <2> HIDE DEF old, new
  <2>6. DOMAIN new = DOMAIN old \cup {Len(old) + 1}
    BY <2>4, <2>5
  <2>7. {new[i] : i \in DOMAIN new} = {old[i] : i \in DOMAIN old} \cup {m}
    BY <2>4, <2>5, <2>6
  <2> QED BY <2>7 DEF ToSet, old, new
<1>12. \A s \in StmtRefs : /\ stmts'[s].clause = stmts[s].clause
                           /\ stmts'[s].version = stmts[s].version
                           /\ stmts'[s].open = stmts[s].open
                           /\ ToSet(stmts[s].kids) \subseteq ToSet(stmts'[s].kids)
  <2> SUFFICES ASSUME NEW s \in StmtRefs
               PROVE  /\ stmts'[s].clause = stmts[s].clause
                      /\ stmts'[s].version = stmts[s].version
                      /\ stmts'[s].open = stmts[s].open
                      /\ ToSet(stmts[s].kids) \subseteq ToSet(stmts'[s].kids)
    OBVIOUS
  <2>1. CASE s \in ToSet(Parents(f))
    BY <1>10, <1>11, <2>1
  <2>2. CASE s \notin ToSet(Parents(f))
    BY <1>9, <2>2
  <2> QED BY <2>1, <2>2
<1>13. m \in ToSet(stmts'[f.when].kids)
  BY <1>2, <1>10, <1>11
<1>14. ~matches'[m].completed /\ matches'[m].parents # <<>> /\ matches'[m].parents[1] = f.when
       /\ matches'[m].version = BlockVersion(f)
  BY <1>1, <1>2, <1>3, <1>6
<1>15. \A k \in MatchRefs : matches'[k] = matches[k]
  BY <1>6 DEF MatchRefs
<1> QED BY <1>7, <1>12, <1>13, <1>14, <1>15 DEF m

LEMMA MatchDomain == TypeOK => DOMAIN matches = MatchRefs
BY LensTyped

LEMMA RunInv ==
    ASSUME TypeOK, TypeOK', EvaluatorInv, NEW t \in Threads, Idle(t), NEW f,
           f.when \in RefsOf(Whens), f.stmt \in StmtRefs \cup {NoRef},
           InsertMatch(t, Parents(f), BlockVersion(f)), Start(t, RunFrames(f, Len(matches) + 1)),
           UNCHANGED <<later, sideVars>>
    PROVE  EvaluatorInv'
<1> DEFINE m == Len(matches) + 1
           n == RunFrames(f, m)
<1> USE DEF EvaluatorInv, BodiesInv
<1>1. /\ StackOK(n) /\ FreshOnce(n) /\ n # <<>>
      /\ n[Len(n)] = RefFrame("endBody", m)
      /\ \A j \in 1 .. Len(n) : n[j].op \in {"inflightDecr", "command", "endBody"}
                                /\ (n[j].op = "command" => n[j].match = m)
      /\ stmts[f.when].clause \in SeriallyWhens => \A k : ~PastPrologue(n, k)
  BY RunFramesStack
<1>2. todo'[t] = n /\ Moves(t)
  BY StartMoves
<1>3. f.when \in StmtRefs
  BY DEF RefsOf
<1>4. /\ MatchRefs' = MatchRefs \cup {m} /\ m \notin MatchRefs /\ m # NoRef
      /\ \A k \in MatchRefs : matches'[k] = matches[k]
      /\ ~matches'[m].completed /\ matches'[m].parents # <<>>
      /\ matches'[m].parents[1] = f.when
      /\ \A s \in StmtRefs : /\ stmts'[s].clause = stmts[s].clause
                             /\ stmts'[s].open = stmts[s].open
                             /\ ToSet(stmts[s].kids) \subseteq ToSet(stmts'[s].kids)
      /\ m \in ToSet(stmts'[f.when].kids)
  BY <1>3, NewMatch
<1> HIDE DEF m, n
<1>5. \A k : (EndsIn(n, k) => k = m) /\ (PastPrologue(n, k) => k = m)
  <2>1. \A k : RefFrame("endBody", k).ref = k
    BY DEF RefFrame
  <2> QED BY <1>1, <2>1 DEF EndsIn, PastPrologue
<1>6. \A u \in Threads : u # t => todo'[u] = todo[u]
  BY <1>2 DEF Moves
<1>7. \A u \in Threads : \A k : /\ EndsIn(todo[u], k) => k \in MatchRefs
                                /\ PastPrologue(todo[u], k) => k \in MatchRefs
  BY StackTyped
<1>8. Stacks'
  BY <1>1, <1>2, <1>6 DEF Stacks
<1>9. RunsOnce'
  <2> SUFFICES ASSUME NEW k \in MatchRefs', NEW u \in Threads, EndsIn(todo'[u], k),
                      NEW r \in Threads, EndsIn(todo'[r], k)
               PROVE  ~matches'[k].completed /\ r = u
    BY DEF RunsOnce
  <2>1. \A x \in Threads : EndsIn(todo'[x], k) => IF x = t THEN k = m ELSE EndsIn(todo[x], k)
    BY <1>2, <1>5, <1>6
  <2>2. CASE k = m
    BY <1>4, <1>7, <2>1, <2>2
  <2>3. CASE k # m
    BY <1>4, <2>1, <2>3 DEF RunsOnce
  <2> QED BY <2>2, <2>3
<1>10. MatchesAgree'
  <2> SUFFICES ASSUME NEW k \in MatchRefs'
               PROVE  /\ matches'[k].parents # <<>>
                      /\ k \in ToSet(stmts'[matches'[k].parents[1]].kids)
    BY DEF MatchesAgree
  <2>1. CASE k = m
    BY <1>4, <2>1
  <2>2. CASE k # m
    <3>1. k \in MatchRefs /\ matches'[k] = matches[k]
      BY <1>4, <2>2
    <3>2. /\ matches[k].parents # <<>>
          /\ k \in ToSet(stmts[matches[k].parents[1]].kids)
      BY <3>1 DEF MatchesAgree
    <3>3. matches[k].parents[1] \in StmtRefs
      BY <3>1, <3>2, MatchTyped
    <3> QED BY <1>4, <3>1, <3>2, <3>3
  <2> QED BY <2>1, <2>2
<1>11. SeriallyExclusive'
  <2>1. DOMAIN matches = MatchRefs
    BY LensTyped
  <2>2. (DOMAIN matches = MatchRefs)'
    BY MatchDomain, PTL
  <2> SUFFICES ASSUME NEW a \in MatchRefs', NEW b \in MatchRefs',
                      stmts'[matches'[a].parents[1]].open,
                      stmts'[matches'[a].parents[1]].clause \in SeriallyWhens,
                      matches'[b].parents[1] = matches'[a].parents[1],
                      NEW r \in Threads, NEW u \in Threads,
                      PastPrologue(todo'[r], a), PastPrologue(todo'[u], b)
               PROVE  a = b
    BY <2>2 DEF SeriallyExclusive
  <2>3. r # t /\ u # t
    <3> SUFFICES ASSUME r = t \/ u = t PROVE FALSE
      OBVIOUS
    <3>1. a = m \/ b = m
      BY <1>2, <1>5
    <3>2. matches'[a].parents[1] = f.when
      BY <1>4, <3>1
    <3>3. stmts[f.when].clause \in SeriallyWhens
      BY <1>3, <1>4, <3>2
    <3> QED BY <1>1, <1>2, <3>3
  <2>4. /\ PastPrologue(todo[r], a) /\ PastPrologue(todo[u], b)
        /\ a \in MatchRefs /\ b \in MatchRefs
    BY <1>6, <1>7, <2>3
  <2>5. matches'[a] = matches[a] /\ matches'[b] = matches[b] /\ matches[a].parents # <<>>
    BY <1>4, <2>4 DEF MatchesAgree
  <2>6. matches[a].parents[1] \in StmtRefs
    BY <2>4, <2>5, MatchTyped
  <2>7. /\ stmts[matches[a].parents[1]].open
        /\ stmts[matches[a].parents[1]].clause \in SeriallyWhens
    BY <1>4, <2>5, <2>6
  <2> QED BY <2>1, <2>4, <2>5, <2>7 DEF SeriallyExclusive
<1>12. versions' = versions /\ Versions' = Versions /\ later' = later /\ atomicallys' = atomicallys
  BY DEF sideVars, Versions
<1>13. \A v \in Versions : versions[v].root \in MatchRefs \cup {NoRef}
  BY VersionFields DEF Version
<1>14. RootsAgree'
  BY <1>4, <1>12, <1>13 DEF RootsAgree
<1>15. FreshFirst'
  <2> SUFFICES ASSUME NEW u \in Threads, NEW j \in 1 .. Len(todo'[u]), IsFresh(todo'[u][j]),
                      NEW v \in Versions
               PROVE  versions[v].root # todo'[u][j].match
    BY <1>12 DEF FreshFirst
  <2>1. CASE u = t
    BY <1>1, <1>2, <1>4, <1>13, <2>1 DEF IsFresh
  <2>2. CASE u # t
    BY <1>6, <2>2 DEF FreshFirst
  <2> QED BY <2>1, <2>2
<1>16. EntriesStay(todo[t], todo'[t])
  BY IdleEntries
<1>17. NoReap(todo[t], todo'[t])
  BY <1>1, <1>2 DEF NoReap, ReapOps
<1>18. EntryWillFire'
  BY <1>2, <1>12, <1>16, EntriesStep
<1>19. ListsAgree'
  BY <1>2, <1>12, <1>17, UnchangedSteady, ListsStep
<1> QED BY <1>8, <1>9, <1>10, <1>11, <1>14, <1>15, <1>18, <1>19

LEMMA LockAndRunInv ==
    ASSUME TypeOK, TypeOK', EvaluatorInv, NEW t \in Threads, Idle(t), NEW f,
           f.when \in RefsOf(Whens), f.stmt \in StmtRefs \cup {NoRef},
           NEW i \in 1 .. Len(Parents(f)), todo[t] = <<>> \/ i = Len(Parents(f)),
           LockAndRun(t, f, i)
    PROVE  EvaluatorInv'
<1> DEFINE parents == Parents(f)
<1>1. f.when \in StmtRefs
  BY DEF RefsOf
<1>2. parents[i] \in StmtRefs /\ Len(parents) \in Nat
  BY <1>1, ParentsTyped, ElementOfSeq
<1>3. UNCHANGED <<later, versions, atomicallys>>
  BY DEF LockAndRun
<1>4. CASE AbortMatch(t) /\ Start(t, AbortFrames(f))
  BY <1>3, <1>4, AbortCalm, CalmInv
<1>5. CASE /\ i < Len(parents) /\ LockParent(t, parents[i]) /\ UNCHANGED <<matches, signals>>
           /\ Start(t, <<[op |-> "lockStmt", when |-> f.when, stmt |-> f.stmt]>>)
  <2>1. todo[t] = <<>>
    BY <1>2, <1>5
  <2> DEFINE g == [op |-> "lockStmt", when |-> f.when, stmt |-> f.stmt]
  <2>2. g.op = "lockStmt" /\ Start(t, <<g>>)
    BY <1>5
  <2> HIDE DEF g
  <2>3. Calm(t)
    BY <1>2, <1>3, <1>5, <2>1, <2>2, LockCalm DEF sideVars
  <2> QED BY <2>3, CalmInv
<1>6. CASE /\ InsertMatch(t, parents, BlockVersion(f)) /\ UNCHANGED signals
           /\ Start(t, RunFrames(f, Len(matches) + 1))
  BY <1>3, <1>6, RunInv DEF sideVars
<1> QED BY <1>4, <1>5, <1>6 DEF LockAndRun

LEMMA TakeRunWhenInv ==
    ASSUME TypeOK, TypeOK', EvaluatorInv, NEW t \in Threads, NEW item, TakeRunWhen(t, item)
    PROVE  EvaluatorInv'
<1>1. item \in WorkItems /\ item.cmd = "runWhen" /\ todo[t] = <<>>
  BY TakeItemKeeps DEF TakeRunWhen, TakeItem
<1>2. item.when \in RefsOf(Whens) /\ item.stmt \in StmtRefs \cup {NoRef}
  BY <1>1, ItemFields
<1>3. 1 \in 1 .. Len(Parents(item))
  BY <1>2, ParentsTyped DEF RefsOf
<1>4. Idle(t)
  BY <1>1 DEF Idle
<1> QED BY <1>1, <1>2, <1>3, <1>4, LockAndRunInv DEF TakeRunWhen

LEMMA LockStmtInv ==
    ASSUME TypeOK, TypeOK', EvaluatorInv, NEW t \in Threads, LockStmt(t)
    PROVE  EvaluatorInv'
<1> DEFINE f == Top(t)
<1>1. todo[t] # <<>> /\ f.op = "lockStmt" /\ f \in Frames
  BY TopTyped DEF LockStmt, At
<1>2. f.when \in RefsOf(Whens) /\ f.stmt \in StmtRefs
  BY <1>1, FrameFields
<1>3. f.when \in StmtRefs /\ f.stmt # NoRef
  BY <1>2 DEF RefsOf, StmtRefs, NoRef
<1>4. Len(Parents(f)) = 2
  BY <1>2, <1>3, ParentsTyped
<1>5. todo[t] \in Seq(Frames) /\ Len(todo[t]) \in Nat /\ 1 \in 1 .. Len(todo[t])
  BY <1>1, StackTyped, EmptySeq
<1>6. todo[t][1] = f
  BY <1>1, <1>5 DEF Top
<1>7. Len(todo[t]) = 1
  BY <1>1, <1>5, <1>6 DEF EvaluatorInv, BodiesInv, Stacks, StackOK
<1>8. Idle(t)
  BY <1>1, <1>6, <1>7 DEF Idle
<1>9. 2 \in 1 .. Len(Parents(f)) /\ 2 = Len(Parents(f))
  BY <1>4
<1>10. LockAndRun(t, f, 2)
  BY DEF LockStmt
<1> HIDE DEF f
<1> QED BY <1>2, <1>8, <1>9, <1>10, LockAndRunInv

-----------------------------------------------------------------------------
(* The prologue of When -atomically.                                       *)

\* What a thread has left of its calls when the innermost one returns.
LEMMA Returned ==
    ASSUME TypeOK, Stacks, NEW t \in Threads, todo[t] # <<>>, Then(t, <<>>)
    PROVE  /\ Moves(t) /\ Inside(todo[t], todo'[t])
           /\ (Top(t).op = "command" => Top(t).cmd # SeriallyCmd) => Within(todo[t], todo'[t])
           /\ Top(t).op \notin EntryOps => EntriesStay(todo[t], todo'[t])
           /\ \A j \in 1 .. Len(todo'[t]) : j + 1 \in 2 .. Len(todo[t])
                                            /\ todo'[t][j] = todo[t][j + 1]
           /\ \A j \in 2 .. Len(todo[t]) : j - 1 \in 1 .. Len(todo'[t])
                                           /\ todo'[t][j - 1] = todo[t][j]
           /\ NoReap(todo[t], todo'[t])
           /\ Len(todo[t]) \in Nat \ {0} /\ Top(t) = todo[t][1]
<1> DEFINE s == todo[t]
           n == <<>> \o Tail(s)
<1>1. s \in Seq(Frames) /\ Calls(<<>>, BodyOps) /\ StackOK(s) /\ FreshOnce(s)
  BY StackTyped, ShortCalls DEF Stacks
<1>2. todo'[t] = n /\ Moves(t)
  BY ThenMoves
<1>3. \E S : <<>> \in Seq(S)
  BY <1>1 DEF Calls
<1>4. Len(<<>>) = 0
  OBVIOUS
<1>5. /\ Len(s) \in Nat \ {0} /\ s[1] = Head(s)
      /\ Len(n) = Len(<<>>) + Len(s) - 1
      /\ \A j \in 2 .. Len(s) : n[Len(<<>>) + j - 1] = s[j]
      /\ \A j \in 1 .. Len(n) : j > Len(<<>>) =>
            /\ j - Len(<<>>) + 1 \in 2 .. Len(s) /\ n[j] = s[j - Len(<<>>) + 1]
  BY <1>1, <1>3, ReplacedTop
<1>6. Top(t) = s[1]
  BY <1>5 DEF Top
<1>7. Inside(s, n) /\ ((s[1].op = "command" => s[1].cmd # SeriallyCmd) => Within(s, n))
  BY <1>1, ReplacedWithin
<1>8. s[1].op \notin EntryOps => EntriesStay(s, n)
  BY <1>1, <1>3, ReplacedEntries
<1> HIDE DEF n
<1>9. \A j \in 1 .. Len(n) : j + 1 \in 2 .. Len(s) /\ n[j] = s[j + 1]
  <2> SUFFICES ASSUME NEW j \in 1 .. Len(n) PROVE j + 1 \in 2 .. Len(s) /\ n[j] = s[j + 1]
    OBVIOUS
  <2>1. j > Len(<<>>) /\ j - Len(<<>>) + 1 = j + 1
    BY <1>4
  <2> QED BY <1>5, <2>1
<1>10. \A j \in 2 .. Len(s) : j - 1 \in 1 .. Len(n) /\ n[j - 1] = s[j]
  <2> SUFFICES ASSUME NEW j \in 2 .. Len(s) PROVE j - 1 \in 1 .. Len(n) /\ n[j - 1] = s[j]
    OBVIOUS
  <2>1. Len(<<>>) + j - 1 = j - 1 /\ j - 1 \in 1 .. Len(n)
    BY <1>4, <1>5
  <2> QED BY <1>5, <2>1
<1>11. NoReap(s, n)
  <2>1. \A j \in 2 .. Len(s) : j \in 1 .. Len(s)
    BY <1>5
  <2> QED BY <1>9, <2>1 DEF NoReap
<1> QED BY <1>2, <1>5, <1>6, <1>7, <1>8, <1>9, <1>10, <1>11

\* The new version and what becomes of the others.
LEMMA NewVersion ==
    ASSUME TypeOK, NEW t \in Threads, NEW m \in MatchRefs, NEW k \in AtomicallyKeys,
           FreshVersion(t, m, k)
    PROVE  LET v == Len(versions) + 1
           IN  /\ Versions' = Versions \cup {v} /\ v \notin Versions
               /\ versions'[v].key = k /\ versions'[v].root = m
               /\ \A x \in Versions : /\ versions'[x].key = versions[x].key
                                      /\ versions'[x].root = versions[x].root
               /\ SameParents /\ SameCompleted /\ matches'[m].version = v
               /\ \A x \in MatchRefs : x # m => matches'[x].version = matches[x].version
<1> DEFINE v == Len(versions) + 1
           vs == Lose(versions, matches[m].version)
           e == [key |-> k, inflight |-> 1, root |-> m, lost |-> 0]
<1>1. matches[m] \in Match /\ DOMAIN matches = MatchRefs /\ Len(versions) \in Nat
      /\ versions \in Seq(Version)
  BY MatchFields, LensTyped
<1>2. matches[m].version \in Versions \cup {NoVersion}
  BY <1>1 DEF Match
<1>3. vs \in Seq(Version) /\ Len(vs) = Len(versions)
  BY <1>2, LoseTyped
<1>4. \A x \in Versions : vs[x].key = versions[x].key /\ vs[x].root = versions[x].root
  BY <1>1, <1>2, LoseRoots
<1>5. versions' = Append(vs, e) /\ e.key = k /\ e.root = m
  BY DEF FreshVersion
<1> HIDE DEF vs, e
<1>6. vs \in Seq(Version \cup {e})
  BY <1>3, SeqMonotonic
<1>7. /\ Len(versions') = v /\ versions'[v] = e
      /\ \A x \in 1 .. Len(versions) : versions'[x] = vs[x]
  BY <1>3, <1>5, <1>6, AppendProperties
<1>8. Versions' = Versions \cup {v} /\ v \notin Versions
  BY <1>1, <1>7 DEF Versions
<1>9. \A x \in Versions : versions'[x] = vs[x]
  BY <1>7 DEF Versions
<1> DEFINE g == [matches[m] EXCEPT !.version = v]
<1>10. g.parents = matches[m].parents /\ g.completed = matches[m].completed /\ g.version = v
  BY <1>1 DEF Match
<1>11. matches' = [matches EXCEPT ![m] = g]
  BY DEF FreshVersion
<1> HIDE DEF g, v
<1>12. matches'[m] = g /\ \A x \in MatchRefs : x # m => matches'[x] = matches[x]
  BY <1>1, <1>11
<1>13. Len(matches') = Len(matches)
  <2>1. matches \in Seq(Match \cup {g}) /\ MatchRefs = 1 .. Len(matches)
    BY LensTyped, SeqMonotonic DEF MatchRefs
  <2> QED BY <1>11, <2>1, ExceptSeq
<1>14. /\ SameParents /\ SameCompleted /\ matches'[m].version = v
       /\ \A x \in MatchRefs : x # m => matches'[x].version = matches[x].version
  BY <1>10, <1>12, <1>13 DEF SameParents, SameCompleted
<1> QED BY <1>4, <1>5, <1>7, <1>8, <1>9, <1>14 DEF v

\* A state's lists agree if each of the frames does.
LEMMA ListsNext ==
    ASSUME \A q \in AtomicallyKeys : /\ atomicallys'[q].all \subseteq OfKey(q)'
                                     /\ atomicallys'[q].latest <= atomicallys'[q].newest,
           \A u \in Threads : \A j \in 1 .. Len(todo'[u]) : \A f :
              f = todo'[u][j] => ReapAgrees(f)'
    PROVE  ListsAgree'
<1>1. \A u \in Threads : \A j \in 1 .. Len(todo'[u]) : ReapAgrees(todo[u][j])'
  BY DEF ReapAgrees
<1> QED BY <1>1 DEF ListsAgree

LEMMA NotReap ==
    ASSUME NEW f, f.op \notin ReapOps
    PROVE  ReapAgrees(f)'
BY DEF ReapAgrees, ReapOps

LEMMA AddedToList ==
    ASSUME TypeOK, ListsAgree, NEW t \in Threads, Moves(t), NoReap(todo[t], todo'[t]),
           NEW k \in AtomicallyKeys, NEW v, Versions' = Versions \cup {v}, v \notin Versions,
           versions'[v].key = k, \A x \in Versions : versions'[x].key = versions[x].key,
           atomicallys' = [atomicallys EXCEPT ![k].all = @ \cup {v}]
    PROVE  ListsAgree'
<1>1. \A q : OfKey(q) \subseteq OfKey(q)'
  BY DEF OfKey
<1>2. v \in OfKey(k)'
  BY DEF OfKey
<1> DEFINE e == [atomicallys[k] EXCEPT !.all = @ \cup {v}]
<1>3. atomicallys' = [atomicallys EXCEPT ![k] = e] /\ DOMAIN atomicallys = AtomicallyKeys
  BY DEF TypeOK, DbTypeOK
<1>4. /\ e.all = atomicallys[k].all \cup {v} /\ e.latest = atomicallys[k].latest
      /\ e.newest = atomicallys[k].newest
  BY AtomicallyFields DEF Atomically
<1> HIDE DEF e
<1>5. \A q \in AtomicallyKeys :
         /\ atomicallys'[q].latest = atomicallys[q].latest
         /\ atomicallys'[q].newest = atomicallys[q].newest
         /\ atomicallys'[q].all \subseteq OfKey(q)'
  BY <1>1, <1>2, <1>3, <1>4 DEF ListsAgree
<1>6. ASSUME NEW u \in Threads, NEW j \in 1 .. Len(todo'[u]), NEW f, f = todo'[u][j],
             f.op \in ReapOps
      PROVE  ReapAgrees(f)'
  <2>1. PICK i \in 1 .. Len(todo[u]) : todo[u][i] = f
    BY <1>6 DEF Moves, NoReap
  <2>2. ReapAgrees(f) /\ f \in Frames
    BY <2>1, StackTyped DEF ListsAgree
  <2>3. CASE f.op \in {"reap", "reapEach"}
    <3>1. f.key \in AtomicallyKeys
      BY <2>2, <2>3, FrameFields
    <3> QED BY <1>1, <1>5, <2>2, <2>3, <3>1 DEF ReapAgrees
  <2>4. CASE f.op \in {"converged", "clearRoot"}
    <3>1. f.version \in Versions /\ Passed(f.version)
      BY <2>2, <2>4 DEF ReapAgrees
    <3>2. versions[f.version].key \in AtomicallyKeys
      BY <3>1, VersionFields DEF Version
    <3>3. f.version \in Versions' /\ Passed(f.version)'
      BY <1>5, <3>1, <3>2 DEF Passed
    <3> QED BY <2>4, <3>3 DEF ReapAgrees
  <2> QED BY <1>6, <2>3, <2>4 DEF ReapOps
<1>7. \A u \in Threads : \A j \in 1 .. Len(todo'[u]) : \A f : f = todo'[u][j] => ReapAgrees(f)'
  BY <1>6, NotReap
<1> QED BY <1>5, <1>7, ListsNext DEF ListsAgree

LEMMA RunFreshInv ==
    ASSUME TypeOK, TypeOK', EvaluatorInv, NEW t \in Threads, RunFresh(t)
    PROVE  EvaluatorInv'
<1> DEFINE m == Top(t).match
           k == Top(t).cmd.key
           v == Len(versions) + 1
<1> USE DEF EvaluatorInv, BodiesInv
<1>1. AtCommand(t, "fresh") /\ FreshVersion(t, m, k)
  BY DEF RunFresh
<1>2. /\ todo[t] # <<>> /\ Top(t).cmd.cmd = "fresh" /\ Top(t).cmd \in Commands
      /\ m \in MatchRefs
  BY <1>1, AtCommandTyped, InBody
<1>3. k \in AtomicallyKeys /\ Top(t).cmd \notin FreeCommands /\ Top(t).cmd # SeriallyCmd
  BY <1>2 DEF Commands, FreeCommands, SeriallyCmd
<1>4. Top(t).op = "command"
  <2>1. Top(t) \in Frames /\ Top(t).op \in {"command", "eval"}
    BY <1>1, <1>2, TopTyped DEF AtCommand, At
  <2> QED BY <1>3, <2>1 DEF Frames, DbFrames, AtomicallyFrames, StmtOps, MatchOps, EntryOps
<1>5. Then(t, <<>>) /\ UNCHANGED <<stmts, later>>
      /\ atomicallys' = [atomicallys EXCEPT ![k].all = @ \cup {v}]
  BY <1>1 DEF FreshVersion
<1>6. /\ Versions' = Versions \cup {v} /\ v \notin Versions
      /\ versions'[v].key = k /\ versions'[v].root = m
      /\ \A x \in Versions : /\ versions'[x].key = versions[x].key
                             /\ versions'[x].root = versions[x].root
      /\ SameParents /\ SameCompleted /\ matches'[m].version = v
      /\ \A x \in MatchRefs : x # m => matches'[x].version = matches[x].version
  BY <1>1, <1>2, <1>3, NewVersion
<1>7. /\ Moves(t) /\ Inside(todo[t], todo'[t]) /\ Within(todo[t], todo'[t])
      /\ EntriesStay(todo[t], todo'[t]) /\ NoReap(todo[t], todo'[t])
      /\ \A j \in 1 .. Len(todo'[t]) : j + 1 \in 2 .. Len(todo[t])
                                       /\ todo'[t][j] = todo[t][j + 1]
      /\ Len(todo[t]) \in Nat \ {0} /\ Top(t) = todo[t][1]
  <2>1. Top(t).op \notin EntryOps /\ (Top(t).op = "command" => Top(t).cmd # SeriallyCmd)
    BY <1>3, <1>4 DEF EntryOps
  <2> QED BY <1>2, <1>5, <2>1, Returned
<1>8. 1 \in 1 .. Len(todo[t]) /\ IsFresh(todo[t][1]) /\ todo[t][1].match = m
  BY <1>2, <1>4, <1>7 DEF IsFresh
<1> HIDE DEF m, k, v
<1>9. \A x \in Versions : versions[x].root # m
  BY <1>8 DEF FreshFirst
<1>10. \A x \in Versions : versions[x].root \in MatchRefs \cup {NoRef}
  BY VersionFields DEF Version
<1>11. m # NoRef
  BY <1>2, MatchTyped
<1>12. \A u \in Threads : \A j \in 1 .. Len(todo[u]) :
          todo[u][j].op = "command" /\ todo[u][j].match = m => EndsIn(todo[u], m)
  <2> SUFFICES ASSUME NEW u \in Threads, NEW j \in 1 .. Len(todo[u]),
                      todo[u][j].op = "command", todo[u][j].match = m
               PROVE  EndsIn(todo[u], m)
    OBVIOUS
  <2>1. todo[u][Len(todo[u])] = RefFrame("endBody", m)
    BY <1>11 DEF Stacks, StackOK
  <2>2. todo[u] # <<>>
    BY EmptySeq
  <2>3. RefFrame("endBody", m).op = "endBody" /\ RefFrame("endBody", m).ref = m
    BY DEF RefFrame
  <2> QED BY <2>1, <2>2, <2>3 DEF EndsIn, EndOps
<1>13. RootsAgree'
  <2> SUFFICES ASSUME NEW x \in Versions', versions'[x].root # NoRef
               PROVE  matches'[versions'[x].root].version = x
    BY DEF RootsAgree
  <2>1. CASE x = v
    BY <1>6, <2>1
  <2>2. CASE x # v
    BY <1>6, <1>9, <1>10, <2>2 DEF RootsAgree
  <2> QED BY <2>1, <2>2
<1>14. FreshFirst'
  <2> SUFFICES ASSUME NEW u \in Threads, NEW j \in 1 .. Len(todo'[u]), IsFresh(todo'[u][j]),
                      NEW x \in Versions'
               PROVE  versions'[x].root # todo'[u][j].match
    BY DEF FreshFirst
  <2>1. u # t
    <3> SUFFICES ASSUME u = t PROVE FALSE
      OBVIOUS
    <3>1. j + 1 \in 2 .. Len(todo[t]) /\ IsFresh(todo[t][j + 1])
      BY <1>7
    <3>2. j + 1 \in 1 .. Len(todo[t]) /\ j + 1 # 1
      BY <1>7, <3>1
    <3> QED BY <1>8, <3>1, <3>2 DEF Stacks, FreshOnce
  <2>2. todo'[u] = todo[u]
    BY <1>7, <2>1 DEF Moves
  <2>3. CASE x # v
    BY <1>6, <2>2, <2>3 DEF FreshFirst
  <2>4. CASE x = v
    <3> SUFFICES ASSUME todo[u][j].match = m PROVE FALSE
      BY <1>6, <2>2, <2>4
    <3>1. EndsIn(todo[u], m) /\ EndsIn(todo[t], m)
      BY <1>8, <1>12, <2>2 DEF IsFresh
    <3> QED BY <1>2, <2>1, <3>1 DEF RunsOnce, m
  <2> QED BY <2>3, <2>4
<1>15. SteadyStmts
  BY <1>5, UnchangedSteady
<1>16. BodiesInv'
  BY <1>6, <1>7, <1>13, <1>14, <1>15, StacksStep, RunsOnceStep, MatchesAgreeStep, SeriallyStep
<1>17. EntryWillFire'
  BY <1>5, <1>7, EntriesStep
<1>18. ListsAgree'
  BY <1>3, <1>5, <1>6, <1>7, AddedToList DEF k
<1> QED BY <1>16, <1>17, <1>18

-----------------------------------------------------------------------------
(* Writes to the remove-later table.                                       *)

\* The call that will write entry i is still to be made.
WillWrite(i) ==
    \E u \in Threads : \E j \in 1 .. Len(todo[u]) :
        todo[u][j] \in {RefFrame("setDue", i), RefFrame("clearStmt", i)}

LEMMA StillWillWrite ==
    ASSUME NEW t \in Threads, Moves(t), NEW i, WillWrite(i), EntriesStay(todo[t], todo'[t])
    PROVE  WillWrite(i)'
<1>1. PICK u \in Threads : \E j \in 1 .. Len(todo[u]) :
         todo[u][j] \in {RefFrame("setDue", i), RefFrame("clearStmt", i)}
  BY DEF WillWrite
<1>2. PICK j \in 1 .. Len(todo[u]) :
         todo[u][j] \in {RefFrame("setDue", i), RefFrame("clearStmt", i)}
  BY <1>1
<1>3. todo[u][j].op \in {"setDue", "clearStmt"}
  BY <1>2 DEF RefFrame
<1>4. PICK k \in 1 .. Len(todo'[u]) : todo'[u][k] = todo[u][j]
  BY <1>3 DEF Moves, EntriesStay
<1> QED BY <1>2, <1>4 DEF WillWrite

\* It is another call that returns.
LEMMA OthersWillWrite ==
    ASSUME TypeOK, Stacks, NEW t \in Threads, todo[t] # <<>>, Then(t, <<>>),
           NEW i, WillWrite(i), Top(t) \notin {RefFrame("setDue", i), RefFrame("clearStmt", i)}
    PROVE  WillWrite(i)'
<1>1. PICK u \in Threads : \E j \in 1 .. Len(todo[u]) :
         todo[u][j] \in {RefFrame("setDue", i), RefFrame("clearStmt", i)}
  BY DEF WillWrite
<1>2. PICK j \in 1 .. Len(todo[u]) :
         todo[u][j] \in {RefFrame("setDue", i), RefFrame("clearStmt", i)}
  BY <1>1
<1>3. /\ Moves(t) /\ Top(t) = todo[t][1] /\ Len(todo[t]) \in Nat
      /\ \A l \in 2 .. Len(todo[t]) : l - 1 \in 1 .. Len(todo'[t])
                                      /\ todo'[t][l - 1] = todo[t][l]
  BY Returned
<1>4. CASE u # t
  BY <1>2, <1>3, <1>4 DEF Moves, WillWrite
<1>5. CASE u = t
  <2>1. j # 1
    BY <1>2, <1>3, <1>5
  <2>2. j \in 2 .. Len(todo[t])
    BY <1>3, <1>5, <2>1
  <2> QED BY <1>2, <1>3, <1>5, <2>2 DEF WillWrite
<1> QED BY <1>4, <1>5

\* Of the table only entry i changes.
LEMMA EntryInv ==
    ASSUME NEW i, later' \in [1 .. LaterSlots -> Later'],
           \A l \in 1 .. LaterSlots : l # i => later'[l] = later[l],
           EntryWillFire, \A l \in 1 .. LaterSlots : l # i /\ WillWrite(l) => WillWrite(l)',
           i \in 1 .. LaterSlots /\ later'[i].stmt # NoRef /\ ~later'[i].due => WillWrite(i)'
    PROVE  EntryWillFire'
<1> SUFFICES ASSUME NEW l \in 1 .. LaterSlots, later'[l].stmt # NoRef, ~later'[l].due
             PROVE  WillWrite(l)'
  BY DEF EntryWillFire, WillWrite
<1>1. CASE l = i
  BY <1>1
<1>2. CASE l # i
  <2>1. WillWrite(l)
    BY <1>2 DEF EntryWillFire, WillWrite
  <2> QED BY <1>2, <2>1
<1> QED BY <1>1, <1>2

LEMMA LaterTyped == TypeOK => later \in [1 .. LaterSlots -> Later]
BY DEF TypeOK, DbTypeOK

LEMMA ScheduleRemoveInv ==
    ASSUME TypeOK, TypeOK', EvaluatorInv, NEW t \in Threads, ScheduleRemove(t)
    PROVE  EvaluatorInv'
<1> USE DEF EvaluatorInv, BodiesInv
<1>1. At(t, "schedule") /\ "schedule" \in PlainOps
  BY DEF ScheduleRemove, PlainOps, StmtOps
<1>2. SteadyStmts /\ SteadyMatches /\ SteadyRoots /\ atomicallys' = atomicallys
  BY UnchangedSteady DEF ScheduleRemove, sideVars
<1>3. CASE FreeEntries = {}
  <2>1. later' = later /\ todo' = todo
    BY <1>3 DEF ScheduleRemove
  <2>2. Calm(t)
    BY <1>2, <2>1, UnchangedQuiet DEF Calm, Moves
  <2> QED BY <2>2, CalmInv
<1>4. CASE FreeEntries # {}
  <2>1. PICK i \in FreeEntries : /\ later' = [later EXCEPT ![i].stmt = Top(t).ref]
                                 /\ Then(t, <<RefFrame("setDue", i)>>)
    BY <1>4 DEF ScheduleRemove
  <2>2. Quiet(t)
    BY <1>1, <2>1, PlainCalls, PlainThen, PlainlyQuiet
  <2>3. BodiesInv' /\ ListsAgree'
    BY <1>2, <2>2, BodiesStep, ListsStep DEF Quiet
  <2>4. WillWrite(i)'
    <3> DEFINE n == <<RefFrame("setDue", i)>> \o Tail(todo[t])
    <3>1. todo'[t] = n
      BY <2>1, ThenMoves
    <3>2. Tail(todo[t]) \in Seq(Frames) /\ RefFrame("setDue", i) \in Frames
      <4>1. i \in 1 .. LaterSlots
        BY DEF FreeEntries
      <4>2. "setDue" \in EntryOps
        BY DEF EntryOps
      <4> QED BY <1>1, <4>1, <4>2, TopTyped, RefFrames DEF At
    <3>3. 1 \in 1 .. Len(n) /\ n[1] = RefFrame("setDue", i)
      <4> HIDE DEF Frames
      <4>1. <<RefFrame("setDue", i)>> \in Seq(Frames)
        BY <3>2, ShortSeqs
      <4>2. Len(<<RefFrame("setDue", i)>>) = 1 /\ <<RefFrame("setDue", i)>>[1] = RefFrame("setDue", i)
        OBVIOUS
      <4>3. Len(Tail(todo[t])) \in Nat
        BY <3>2, LenProperties
      <4> QED BY <3>2, <4>1, <4>2, <4>3, ConcatProperties
    <3> HIDE DEF n
    <3> QED BY <3>1, <3>3 DEF WillWrite
  <2>5. \A l \in 1 .. LaterSlots : l # i => later'[l] = later[l]
    BY <2>1
  <2>6. \A l \in 1 .. LaterSlots : WillWrite(l) => WillWrite(l)'
    BY <2>2, StillWillWrite DEF Quiet
  <2>7. later' \in [1 .. LaterSlots -> Later']
    <3>1. (later \in [1 .. LaterSlots -> Later])'
      BY LaterTyped, PTL
    <3> QED BY <3>1
  <2>8. EntryWillFire'
    BY <2>4, <2>5, <2>6, <2>7, EntryInv
  <2> QED BY <2>3, <2>8
<1> QED BY <1>3, <1>4

\* A call that writes entry i, and then returns.
LEMMA WrittenInv ==
    ASSUME TypeOK, TypeOK', EvaluatorInv, NEW t \in Threads, NEW op \in EntryOps, At(t, op),
           NEW i, i = Top(t).ref, Then(t, <<>>), UNCHANGED <<stmts, matches, sideVars>>,
           \A l \in 1 .. LaterSlots : l # i => later'[l] = later[l],
           later'[i].stmt # NoRef /\ ~later'[i].due => WillWrite(i)'
    PROVE  EvaluatorInv'
<1> USE DEF EvaluatorInv, BodiesInv
<1>1. todo[t] # <<>> /\ Top(t).op = op /\ Top(t).op # "command"
  BY DEF At, EntryOps
<1>2. Moves(t) /\ Within(todo[t], todo'[t]) /\ NoReap(todo[t], todo'[t])
  BY <1>1, Returned
<1>3. SteadyStmts /\ SteadyMatches /\ SteadyRoots /\ atomicallys' = atomicallys
  BY UnchangedSteady DEF sideVars
<1>4. BodiesInv' /\ ListsAgree'
  BY <1>2, <1>3, BodiesStep, ListsStep
<1>5. \A l : l # i => Top(t) \notin {RefFrame("setDue", l), RefFrame("clearStmt", l)}
  <2>1. \A o, l : RefFrame(o, l).ref = l
    BY DEF RefFrame
  <2> QED BY <2>1
<1>6. \A l \in 1 .. LaterSlots : l # i /\ WillWrite(l) => WillWrite(l)'
  BY <1>1, <1>5, OthersWillWrite
<1>7. later' \in [1 .. LaterSlots -> Later']
  <2>1. (later \in [1 .. LaterSlots -> Later])'
    BY LaterTyped, PTL
  <2> QED BY <2>1
<1>8. EntryWillFire'
  BY <1>6, <1>7, EntryInv
<1> QED BY <1>4, <1>8

LEMMA EntryFields ==
    ASSUME TypeOK, NEW i \in 1 .. LaterSlots, NEW x
    PROVE  /\ \A l \in 1 .. LaterSlots :
                 l # i => /\ [later EXCEPT ![i].due = x][l] = later[l]
                          /\ [later EXCEPT ![i].stmt = x][l] = later[l]
           /\ [later EXCEPT ![i].due = TRUE][i].due
           /\ [later EXCEPT ![i].stmt = x][i].stmt = x
<1>1. later \in [1 .. LaterSlots -> Later] /\ later[i] \in Later
  BY LaterTyped
<1>2. [later[i] EXCEPT !.due = TRUE].due /\ [later[i] EXCEPT !.stmt = x].stmt = x
  BY <1>1 DEF Later
<1> QED BY <1>1, <1>2

LEMMA SetDueInv ==
    ASSUME TypeOK, TypeOK', EvaluatorInv, NEW t \in Threads, SetDue(t)
    PROVE  EvaluatorInv'
<1>1. At(t, "setDue") /\ "setDue" \in EntryOps
  BY DEF SetDue, EntryOps
<1>2. PICK i \in 1 .. LaterSlots : i = Top(t).ref
  BY <1>1, AtEntry
<1>3. later' = [later EXCEPT ![i].due = TRUE] /\ Then(t, <<>>)
      /\ UNCHANGED <<stmts, matches, sideVars>>
  BY <1>2 DEF SetDue
<1>4. later'[i].due /\ \A l \in 1 .. LaterSlots : l # i => later'[l] = later[l]
  BY <1>3, EntryFields
<1> QED BY <1>1, <1>2, <1>3, <1>4, WrittenInv

LEMMA ClearEntryInv ==
    ASSUME TypeOK, TypeOK', EvaluatorInv, NEW t \in Threads, ClearEntry(t)
    PROVE  EvaluatorInv'
<1>1. "clearDue" \in EntryOps /\ "clearStmt" \in EntryOps
  BY DEF EntryOps
<1>2. PICK i \in 1 .. LaterSlots : i = Top(t).ref
  BY <1>1, AtEntry DEF ClearEntry
<1>3. Then(t, <<>>) /\ UNCHANGED <<stmts, matches, sideVars>>
  BY DEF ClearEntry
<1>4. CASE At(t, "clearStmt") /\ later' = [later EXCEPT ![i].stmt = NoRef]
  <2>1. later'[i].stmt = NoRef /\ \A l \in 1 .. LaterSlots : l # i => later'[l] = later[l]
    BY <1>4, EntryFields
  <2> QED BY <1>1, <1>2, <1>3, <1>4, <2>1, WrittenInv
<1>5. CASE At(t, "clearDue") /\ later' = [later EXCEPT ![i].due = FALSE]
  <2>1. \A l \in 1 .. LaterSlots : l # i => later'[l] = later[l]
    BY <1>5, EntryFields
  <2>2. todo[t] # <<>> /\ Stacks
    BY <1>5 DEF At, EvaluatorInv, BodiesInv
  <2>3. /\ Len(todo[t]) \in Nat \ {0} /\ Top(t) = todo[t][1]
        /\ \A j \in 2 .. Len(todo[t]) : j - 1 \in 1 .. Len(todo'[t])
                                        /\ todo'[t][j - 1] = todo[t][j]
    BY <1>3, <2>2, Returned
  <2>4. 1 < Len(todo[t]) /\ todo[t][1 + 1] = RefFrame("clearStmt", i)
    <3>1. 1 \in 1 .. Len(todo[t]) /\ todo[t][1].op = "clearDue" /\ todo[t][1].ref = i
      BY <1>2, <1>5, <2>3 DEF At
    <3> QED BY <2>2, <3>1 DEF Stacks, StackOK
  <2>5. 1 \in 1 .. Len(todo'[t]) /\ todo'[t][1] = RefFrame("clearStmt", i)
    <3>1. 2 \in 2 .. Len(todo[t]) /\ 2 - 1 = 1 /\ 1 + 1 = 2
      BY <2>3, <2>4
    <3> QED BY <2>3, <2>4, <3>1
  <2>6. WillWrite(i)'
    BY <2>5 DEF WillWrite
  <2> QED BY <1>1, <1>2, <1>3, <1>5, <2>1, <2>6, WrittenInv
<1> QED BY <1>2, <1>4, <1>5 DEF ClearEntry

-----------------------------------------------------------------------------
(* A version with nothing in flight has converged.                         *)

LEMMA NewestTyped == TypeOK => \A q \in AtomicallyKeys : atomicallys[q].newest \in Int
<1>1. \A x \in Versions \cup {NoVersion} : x \in Int
  BY DEF Versions, NoVersion
<1> QED BY <1>1, AtomicallyFields DEF Atomically

Settled == \A v \in Versions : versions[v].inflight <= 0 => Passed(v)

\* No counter goes down and no version is made.
NoFewer ==
    /\ Versions' = Versions
    /\ \A v \in Versions : /\ versions'[v].key = versions[v].key
                           /\ versions'[v].inflight >= versions[v].inflight

NewestStays == \A q \in AtomicallyKeys : atomicallys'[q].newest = atomicallys[q].newest

CountFields ==
    \A v \in Versions : versions[v].inflight \in Int /\ versions[v].key \in AtomicallyKeys

LEMMA CountTyped == TypeOK => CountFields
BY VersionFields DEF Version, CountFields

\* Passed of one version, as long as its key and the newest one stay.
LEMMA PassedStays ==
    ASSUME TypeOK, NewestStays, NEW v \in Versions, versions'[v].key = versions[v].key, Passed(v)
    PROVE  Passed(v)'
BY CountTyped DEF CountFields, NewestStays, Passed

LEMMA SettledStep ==
    ASSUME TypeOK, TypeOK', Settled, NoFewer, NewestStays
    PROVE  Settled'
<1> SUFFICES ASSUME NEW v \in Versions', versions'[v].inflight <= 0 PROVE Passed(v)'
  BY DEF Settled
<1>1. v \in Versions
  BY DEF NoFewer
<1>2. CountFields'
  BY CountTyped, PTL
<1>3. versions'[v].inflight \in Int /\ versions[v].inflight \in Int
  BY <1>1, <1>2, CountTyped DEF CountFields
<1>4. versions[v].inflight <= 0 /\ versions'[v].key = versions[v].key
  BY <1>1, <1>3 DEF NoFewer
<1> QED BY <1>1, <1>4, PassedStays DEF Settled

LEMMA NoFewerSame == TypeOK /\ versions' = versions => NoFewer
BY CountTyped DEF CountFields, NoFewer, Versions

\* One counter goes up or stays.
LEMMA NoFewerEntry ==
    ASSUME TypeOK, NEW v \in Versions, NEW e, e.key = versions[v].key,
           e.inflight >= versions[v].inflight, versions' = [versions EXCEPT ![v] = e]
    PROVE  NoFewer
<1>1. DOMAIN versions = Versions /\ versions \in Seq(Version) /\ Versions = 1 .. Len(versions)
  BY LensTyped DEF Versions, TypeOK, DbTypeOK
<1>2. versions \in Seq(Version \cup {e})
  BY <1>1, SeqMonotonic
<1>3. Len(versions') = Len(versions)
  BY <1>1, <1>2, ExceptSeq
<1>4. \A x \in Versions : x # v => versions'[x] = versions[x]
  BY <1>1
<1>5. versions'[v] = e
  BY <1>1
<1>6. \A x \in Versions : versions[x].inflight >= versions[x].inflight
  BY CountTyped DEF CountFields
<1> QED BY <1>3, <1>4, <1>5, <1>6 DEF NoFewer, Versions

LEMMA LoseCounts ==
    ASSUME NEW vs \in Seq(Version), NEW w \in 1 .. Len(vs) \cup {NoVersion}
    PROVE  /\ Lose(vs, w) \in Seq(Version) /\ Len(Lose(vs, w)) = Len(vs)
           /\ \A v \in 1 .. Len(vs) : /\ Lose(vs, w)[v].key = vs[v].key
                                      /\ Lose(vs, w)[v].inflight = vs[v].inflight
<1>1. CASE w = NoVersion
  BY <1>1 DEF Lose
<1>2. CASE w # NoVersion
  <2> DEFINE e == [vs[w] EXCEPT !.lost = @ + 1]
  <2>1. w \in 1 .. Len(vs) /\ DOMAIN vs = 1 .. Len(vs) /\ vs[w] \in Version
    BY <1>2, LenProperties, ElementOfSeq
  <2>2. e \in Version /\ e.key = vs[w].key /\ e.inflight = vs[w].inflight
    <3>1. vs[w].lost \in Nat
      BY <2>1 DEF Version
    <3>2. vs[w].lost + 1 \in Nat
      BY <3>1
    <3> QED BY <2>1, <3>2 DEF Version
  <2>3. Lose(vs, w) = [vs EXCEPT ![w] = e]
    BY <1>2 DEF Lose
  <2> HIDE DEF e
  <2> QED BY <2>1, <2>2, <2>3, ExceptSeq
<1> QED BY <1>1, <1>2

\* The ways counters change but for a decrement.
LEMMA NoFewerCounts ==
    ASSUME TypeOK, NEW v \in Versions \cup {NoVersion}
    PROVE  /\ versions' = Incr(versions, v) => NoFewer
           /\ v # NoVersion /\ versions' = [versions EXCEPT ![v].root = NoRef] => NoFewer
<1>1. CASE v = NoVersion
  BY <1>1, NoFewerSame DEF Incr
<1>2. CASE v # NoVersion
  <2>1. v \in Versions /\ versions[v] \in Version /\ versions[v].inflight \in Int
    BY <1>2, VersionFields
  <2>2. ASSUME versions' = Incr(versions, v) PROVE NoFewer
    <3> DEFINE e == [versions[v] EXCEPT !.inflight = @ + 1]
    <3>1. e.key = versions[v].key /\ e.inflight = versions[v].inflight + 1
      BY <2>1 DEF Version
    <3>2. versions' = [versions EXCEPT ![v] = e]
      BY <1>2, <2>2 DEF Incr
    <3> HIDE DEF e
    <3>3. e.inflight >= versions[v].inflight
      BY <2>1, <3>1
    <3> QED BY <2>1, <3>1, <3>2, <3>3, NoFewerEntry
  <2>3. ASSUME versions' = [versions EXCEPT ![v].root = NoRef] PROVE NoFewer
    <3> DEFINE e == [versions[v] EXCEPT !.root = NoRef]
    <3>1. e.key = versions[v].key /\ e.inflight = versions[v].inflight
      BY <2>1 DEF Version
    <3>2. versions' = [versions EXCEPT ![v] = e]
      BY <2>3
    <3> HIDE DEF e
    <3>3. e.inflight >= versions[v].inflight
      BY <2>1, <3>1
    <3> QED BY <2>1, <3>1, <3>2, <3>3, NoFewerEntry
  <2> QED BY <2>2, <2>3
<1> QED BY <1>1, <1>2

LEMMA NoFewerPush ==
    ASSUME TypeOK, NEW pairs, pairs \subseteq RefsOf(Whens) \X (StmtRefs \cup {NoRef}),
           PushRunWhens(pairs)
    PROVE  NoFewer
<1> DEFINE pushes(v) == Cardinality({p \in pairs : VersionOf(p[1]) = v})
                        + Cardinality({p \in pairs : VersionOf(p[2]) = v})
<1>1. IsFiniteSet(StmtRefs)
  BY LenProperties, FS_Interval DEF TypeOK, DbTypeOK, StmtRefs
<1>2. IsFiniteSet(RefsOf(Whens)) /\ IsFiniteSet(StmtRefs \cup {NoRef})
  BY <1>1, FS_Subset, FS_AddElement DEF RefsOf
<1>3. IsFiniteSet(RefsOf(Whens) \X (StmtRefs \cup {NoRef}))
  BY <1>2, FS_Product
<1>4. \A v : pushes(v) \in Nat
  <2> TAKE v
  <2>1. IsFiniteSet({p \in pairs : VersionOf(p[1]) = v})
    BY <1>3, FS_Subset
  <2>2. IsFiniteSet({p \in pairs : VersionOf(p[2]) = v})
    BY <1>3, FS_Subset
  <2> QED BY <2>1, <2>2, FS_CardinalityType
<1>5. versions' = [v \in DOMAIN versions |-> [versions[v] EXCEPT !.inflight = @ + pushes(v)]]
  BY DEF PushRunWhens
<1> HIDE DEF pushes
<1>6. DOMAIN versions = Versions /\ Versions' = Versions
  BY PushRunWhensKeeps, LensTyped DEF KeepsVersions, Versions
<1>7. ASSUME NEW v \in Versions
      PROVE  versions'[v].key = versions[v].key /\ versions'[v].inflight >= versions[v].inflight
  <2>1. versions[v] \in Version /\ versions[v].inflight \in Int /\ pushes(v) \in Nat
    BY <1>4, VersionFields
  <2>2. versions'[v] = [versions[v] EXCEPT !.inflight = @ + pushes(v)]
    BY <1>5, <1>6
  <2>3. versions'[v].key = versions[v].key /\ versions'[v].inflight = versions[v].inflight + pushes(v)
    BY <2>1, <2>2 DEF Version
  <2> QED BY <2>1, <2>3
<1> QED BY <1>6, <1>7 DEF NoFewer

LEMMA ReactAsWhenNoFewer ==
    ASSUME TypeOK, NEW t \in Threads, ReactAsWhen(t)
    PROVE  NoFewer
<1> DEFINE w == Top(t).ref
           pattern == Reacts[stmts[w].clause]
           pairs == {<<w, s>> : s \in StatementsFor(pattern)}
<1>1. w \in StmtRefs
  BY AtStmt DEF ReactAsWhen, StmtOps
<1>2. w \in RefsOf(Whens)
  BY <1>1 DEF ReactAsWhen, RefsOf
<1>3. StatementsFor(pattern) \subseteq StmtRefs \cup {NoRef}
  BY QueryTyped DEF StatementsFor, RefsOf
<1>4. pairs \subseteq RefsOf(Whens) \X (StmtRefs \cup {NoRef})
  BY <1>2, <1>3
<1>5. PushRunWhens(pairs)
  BY DEF ReactAsWhen
<1> HIDE DEF pairs
<1> QED BY <1>4, <1>5, NoFewerPush

LEMMA ReactAsStmtNoFewer ==
    ASSUME TypeOK, NEW t \in Threads, ReactAsStmt(t)
    PROVE  NoFewer
<1> DEFINE s == Top(t).ref
           c == stmts[s].clause
           found == IF c \in Subscribes THEN {} ELSE Query(WhensFor(c))
           pairs == {<<w, s>> : w \in {r \in found : Live(r)}}
<1>1. s \in StmtRefs
  BY AtStmt DEF ReactAsStmt, StmtOps
<1>2. found \subseteq RefsOf(Whens)
  BY QueryTyped DEF WhensFor, RefsOf
<1>3. pairs \subseteq RefsOf(Whens) \X (StmtRefs \cup {NoRef})
  BY <1>1, <1>2
<1>4. PushRunWhens(pairs)
  BY DEF ReactAsStmt
<1> HIDE DEF pairs
<1> QED BY <1>3, <1>4, NoFewerPush

-----------------------------------------------------------------------------
(* The reaper.                                                             *)

\* What the calls of the reaper are about stays as it was, for versions keep
\* their key and the newest version to have converged only gets newer.
LEMMA ReapStays ==
    ASSUME TypeOK, TypeOK', ListsAgree, SteadyRoots,
           \A q \in AtomicallyKeys : atomicallys[q].newest <= atomicallys'[q].newest,
           NEW u \in Threads, NEW j \in 1 .. Len(todo[u]), NEW f, f = todo[u][j]
    PROVE  ReapAgrees(f)'
<1>1. Versions' = Versions /\ \A q : OfKey(q)' = OfKey(q)
  BY DEF Versions, OfKey, SteadyRoots
<1>2. ReapAgrees(f) /\ f \in Frames
  BY StackTyped DEF ListsAgree
<1>3. \A x \in Versions \cup {NoVersion} : x \in Int
  BY DEF Versions, NoVersion
<1>4. \A x \in Versions \cup {NoVersion} : \A q \in AtomicallyKeys :
         x <= atomicallys[q].newest => x <= atomicallys'[q].newest
  <2>1. (\A q \in AtomicallyKeys : atomicallys[q].newest \in Int)'
    BY NewestTyped, PTL
  <2>2. \A x, y, z \in Int : x <= y /\ y <= z => x <= z
    OBVIOUS
  <2> QED BY <1>3, <2>1, <2>2, NewestTyped
<1>5. CASE f.op \in {"reap", "reapEach"}
  <2>1. f.key \in AtomicallyKeys /\ f.newer \in Versions \cup {NoVersion}
    BY <1>2, <1>5, FrameFields
  <2>2. f.newer <= atomicallys[f.key].newest => f.newer <= atomicallys'[f.key].newest
    BY <1>4, <2>1
  <2> QED BY <1>1, <1>2, <1>5, <2>2 DEF ReapAgrees
<1>6. CASE f.op \in {"converged", "clearRoot"}
  <2>1. f.version \in Versions /\ Passed(f.version)
    BY <1>2, <1>6 DEF ReapAgrees
  <2>2. versions[f.version].key \in AtomicallyKeys
    BY <2>1, VersionFields DEF Version
  <2>3. f.version <= atomicallys[versions[f.version].key].newest
    BY <2>1 DEF Passed
  <2>4. f.version <= atomicallys'[versions[f.version].key].newest
    BY <1>4, <2>1, <2>2, <2>3
  <2>5. Passed(f.version)'
    BY <2>1, <2>4 DEF Passed, SteadyRoots
  <2> QED BY <1>1, <1>6, <2>1, <2>5 DEF ReapAgrees
<1>7. CASE f.op \notin ReapOps
  BY <1>7, NotReap
<1> QED BY <1>5, <1>6, <1>7 DEF ReapOps

LEMMA ReaperInv ==
    ASSUME TypeOK, TypeOK', EvaluatorInv, NEW t \in Threads, todo[t] # <<>>,
           Top(t).op \notin EntryOps, Top(t).op # "command",
           NEW frames, Calls(frames, BodyOps), Then(t, frames),
           UNCHANGED <<stmts, matches, later>>, SteadyRoots,
           \A q \in AtomicallyKeys : /\ atomicallys'[q].all \subseteq OfKey(q)
                                     /\ atomicallys'[q].latest <= atomicallys'[q].newest
                                     /\ atomicallys[q].newest <= atomicallys'[q].newest,
           \A j \in 1 .. Len(frames) : ReapAgrees(frames[j])'
    PROVE  EvaluatorInv'
<1> DEFINE s == todo[t]
           n == frames \o Tail(s)
<1> USE DEF EvaluatorInv, BodiesInv
<1>1. s \in Seq(Frames) /\ Len(s) \in Nat /\ s[1] = Top(t) /\ StackOK(s) /\ FreshOnce(s)
  BY StackTyped DEF Top, Stacks
<1>2. todo'[t] = n /\ Moves(t)
  BY ThenMoves
<1>3. \E S : frames \in Seq(S)
  BY DEF Calls
<1>4. Within(s, n)
  BY <1>1, ReplacedWithin
<1>5. EntriesStay(s, n)
  BY <1>1, <1>3, ReplacedEntries
<1>6. \A j \in 1 .. Len(n) : n[j].op \in ReapOps =>
         \/ \E k \in 2 .. Len(s) : s[k] = n[j]
         \/ \E k \in 1 .. Len(frames) : frames[k] = n[j]
  BY <1>1, <1>3, ReplacedReaps
<1> HIDE DEF n
<1>7. SteadyStmts /\ SteadyMatches
  BY UnchangedSteady
<1>8. BodiesInv' /\ EntryWillFire'
  BY <1>2, <1>4, <1>5, <1>7, BodiesStep, EntriesStep
<1>9. \A q : OfKey(q)' = OfKey(q)
  BY DEF Versions, OfKey, SteadyRoots
<1>10. ASSUME NEW u \in Threads, NEW j \in 1 .. Len(todo'[u]), NEW f, f = todo'[u][j],
              f.op \in ReapOps
       PROVE  ReapAgrees(f)'
  <2>1. ASSUME NEW i \in 1 .. Len(todo[u]), f = todo[u][i] PROVE ReapAgrees(f)'
    BY <2>1, ReapStays
  <2>2. CASE u # t
    BY <1>2, <1>10, <2>1, <2>2 DEF Moves
  <2>3. CASE u = t
    <3>1. CASE \E k \in 2 .. Len(s) : s[k] = f
      <4>1. PICK k \in 2 .. Len(s) : s[k] = f
        BY <3>1
      <4>2. k \in 1 .. Len(s)
        BY <1>1
      <4> QED BY <2>1, <2>3, <4>1, <4>2
    <3>2. CASE \E k \in 1 .. Len(frames) : frames[k] = f
      BY <3>2
    <3> QED BY <1>2, <1>6, <1>10, <2>3, <3>1, <3>2
  <2> QED BY <2>2, <2>3
<1>11. \A u \in Threads : \A j \in 1 .. Len(todo'[u]) : \A f : f = todo'[u][j] => ReapAgrees(f)'
  BY <1>10, NotReap
<1>12. ListsAgree'
  BY <1>9, <1>11, ListsNext
<1> QED BY <1>8, <1>12

\* The fields of a key that a step leaves alone, or sets.
ListBecomes(k, vs) == atomicallys' = [atomicallys EXCEPT ![k].all = vs]

LEMMA ListSet ==
    ASSUME TypeOK, NEW k \in AtomicallyKeys, NEW vs, ListBecomes(k, vs)
    PROVE  \A q \in AtomicallyKeys :
              /\ atomicallys'[q].latest = atomicallys[q].latest
              /\ atomicallys'[q].newest = atomicallys[q].newest
              /\ atomicallys'[q].all = IF q = k THEN vs ELSE atomicallys[q].all
<1>1. atomicallys[k] \in Atomically /\ DOMAIN atomicallys = AtomicallyKeys
  BY AtomicallyFields DEF TypeOK, DbTypeOK
<1> DEFINE e == [atomicallys[k] EXCEPT !.all = vs]
<1>2. e.all = vs /\ e.latest = atomicallys[k].latest /\ e.newest = atomicallys[k].newest
  BY <1>1 DEF Atomically
<1>3. atomicallys' = [atomicallys EXCEPT ![k] = e]
  BY DEF ListBecomes
<1> HIDE DEF e
<1>4. \A q \in AtomicallyKeys : atomicallys'[q] = IF q = k THEN e ELSE atomicallys[q]
  BY <1>1, <1>3
<1> QED BY <1>2, <1>4

NewestBecomes(k, v) == atomicallys' = [atomicallys EXCEPT ![k].newest = v]

LEMMA NewestSet ==
    ASSUME TypeOK, NEW k \in AtomicallyKeys, NEW v, NewestBecomes(k, v)
    PROVE  \A q \in AtomicallyKeys :
              /\ atomicallys'[q].all = atomicallys[q].all
              /\ atomicallys'[q].latest = atomicallys[q].latest
              /\ atomicallys'[q].newest = IF q = k THEN v ELSE atomicallys[q].newest
<1>1. atomicallys[k] \in Atomically /\ DOMAIN atomicallys = AtomicallyKeys
  BY AtomicallyFields DEF TypeOK, DbTypeOK
<1> DEFINE e == [atomicallys[k] EXCEPT !.newest = v]
<1>2. e.all = atomicallys[k].all /\ e.latest = atomicallys[k].latest /\ e.newest = v
  BY <1>1 DEF Atomically
<1>3. atomicallys' = [atomicallys EXCEPT ![k] = e]
  BY DEF NewestBecomes
<1> HIDE DEF e
<1>4. \A q \in AtomicallyKeys : atomicallys'[q] = IF q = k THEN e ELSE atomicallys[q]
  BY <1>1, <1>3
<1> QED BY <1>2, <1>4

LatestBecomes(k, v) == atomicallys' = [atomicallys EXCEPT ![k].latest = v]

LEMMA LatestSet ==
    ASSUME TypeOK, NEW k \in AtomicallyKeys, NEW v, LatestBecomes(k, v)
    PROVE  \A q \in AtomicallyKeys :
              /\ atomicallys'[q].all = atomicallys[q].all
              /\ atomicallys'[q].newest = atomicallys[q].newest
              /\ atomicallys'[q].latest = IF q = k THEN v ELSE atomicallys[q].latest
<1>1. atomicallys[k] \in Atomically /\ DOMAIN atomicallys = AtomicallyKeys
  BY AtomicallyFields DEF TypeOK, DbTypeOK
<1> DEFINE e == [atomicallys[k] EXCEPT !.latest = v]
<1>2. e.all = atomicallys[k].all /\ e.newest = atomicallys[k].newest /\ e.latest = v
  BY <1>1 DEF Atomically
<1>3. atomicallys' = [atomicallys EXCEPT ![k] = e]
  BY DEF LatestBecomes
<1> HIDE DEF e
<1>4. \A q \in AtomicallyKeys : atomicallys'[q] = IF q = k THEN e ELSE atomicallys[q]
  BY <1>1, <1>3
<1> QED BY <1>2, <1>4

LEMMA InflightDecrInv ==
    ASSUME TypeOK, TypeOK', EvaluatorInv, NEW t \in Threads, InflightDecr(t)
    PROVE  EvaluatorInv'
<1>1. At(t, "inflightDecr") /\ "inflightDecr" \in PlainOps
  BY DEF InflightDecr, PlainOps
<1>2. todo[t] # <<>> /\ Top(t).op = "inflightDecr" /\ Top(t) \in Frames
  BY <1>1, TopTyped DEF At
<1>3. PICK v \in Versions : v = Top(t).version
  BY <1>2, FrameFields
<1>4. versions[v] \in Version /\ versions[v].key \in AtomicallyKeys
  BY VersionFields DEF Version
<1>5. PICK k \in AtomicallyKeys : k = versions[v].key
  BY <1>4
<1>6. versions' = [versions EXCEPT ![v].inflight = @ - 1] /\ UNCHANGED <<stmts, matches, later>>
  BY <1>3 DEF InflightDecr
<1>7. SteadyRoots
  BY <1>6, VersionSteady
<1>8. CASE versions[v].inflight = 1
  <2> DEFINE newest == atomicallys[k].newest
             newer == IF v > newest THEN v ELSE newest
             r == VersionFrame("converged", v)
  <2>1. atomicallys' = [atomicallys EXCEPT ![k].newest = newer] /\ Then(t, <<r>>)
    BY <1>3, <1>5, <1>8 DEF InflightDecr
  <2>2. newest \in Int /\ v \in Int /\ \A q \in AtomicallyKeys : atomicallys[q].latest \in Int
    BY NewestTyped, AtomicallyFields DEF Versions, NoVersion, Atomically
  <2>3. v <= newer /\ newest <= newer /\ newer \in Int
    BY <2>2
  <2> HIDE DEF newer, newest
  <2>4. \A q \in AtomicallyKeys :
           /\ atomicallys'[q].all = atomicallys[q].all
           /\ atomicallys'[q].latest = atomicallys[q].latest
           /\ atomicallys'[q].newest = IF q = k THEN newer ELSE atomicallys[q].newest
    <3>1. NewestBecomes(k, newer)
      BY <2>1 DEF NewestBecomes
    <3> QED BY <3>1, NewestSet
  <2>5. \A x, y, z \in Int : x <= y /\ y <= z => x <= z
    OBVIOUS
  <2>6. \A q \in AtomicallyKeys : /\ atomicallys'[q].all \subseteq OfKey(q)
                                  /\ atomicallys'[q].latest <= atomicallys'[q].newest
                                  /\ atomicallys[q].newest <= atomicallys'[q].newest
    <3> SUFFICES ASSUME NEW q \in AtomicallyKeys
                 PROVE  /\ atomicallys'[q].all \subseteq OfKey(q)
                        /\ atomicallys'[q].latest <= atomicallys'[q].newest
                        /\ atomicallys[q].newest <= atomicallys'[q].newest
      OBVIOUS
    <3>1. atomicallys[q].all \subseteq OfKey(q) /\ atomicallys[q].latest <= atomicallys[q].newest
      BY DEF EvaluatorInv, ListsAgree
    <3>2. CASE q = k
      BY <2>2, <2>3, <2>4, <2>5, <3>1, <3>2 DEF newest
    <3>3. CASE q # k
      <4>1. atomicallys[q].newest <= atomicallys[q].newest
        BY NewestTyped
      <4> QED BY <2>4, <3>1, <3>3, <4>1
    <3> QED BY <3>2, <3>3
  <2>7. r.op = "converged" /\ r.version = v
    BY DEF VersionFrame
  <2> HIDE DEF r
  <2>8. ReapAgrees(r)'
    <3>1. v \in Versions' /\ versions'[v].key = k
      BY <1>5, <1>7 DEF SteadyRoots, Versions
    <3>2. Passed(v)'
      BY <2>3, <2>4, <3>1 DEF Passed
    <3> QED BY <2>7, <3>1, <3>2 DEF ReapAgrees
  <2>9. Calls(<<r>>, BodyOps)
    <3>1. r.op \notin BodyOps
      BY <2>7 DEF BodyOps, EndOps
    <3> QED BY <3>1, ShortCalls
  <2>10. \A j \in 1 .. Len(<<r>>) : ReapAgrees(<<r>>[j])'
    <3>1. \A j \in 1 .. Len(<<r>>) : <<r>>[j] = r
      OBVIOUS
    <3> QED BY <2>8, <3>1 DEF ReapAgrees
  <2> QED BY <1>1, <1>2, <1>6, <1>7, <2>1, <2>6, <2>9, <2>10, PlainCalls, ReaperInv
<1>9. CASE versions[v].inflight # 1
  <2>1. atomicallys' = atomicallys /\ Then(t, <<>>)
    BY <1>3, <1>9 DEF InflightDecr
  <2>2. Plainly(t)
    BY <1>1, <2>1, PlainCalls, PlainThen
  <2>3. Steady(t)
    BY <1>6, <1>7, <2>1, <2>2, UnchangedSteady DEF Steady
  <2> QED BY <2>3, SteadyCalm, CalmInv DEF EvaluatorInv, BodiesInv
<1> QED BY <1>8, <1>9

LEMMA ConvergedInv ==
    ASSUME TypeOK, TypeOK', EvaluatorInv, NEW t \in Threads, Converged(t)
    PROVE  EvaluatorInv'
<1>1. At(t, "converged")
  BY DEF Converged
<1>2. PICK f : f = Top(t)
  OBVIOUS
<1>3. /\ todo[t] # <<>> /\ f.op = "converged" /\ f.version \in Versions
      /\ versions[f.version].key \in AtomicallyKeys
  BY <1>1, <1>2, AtVersion
<1>4. PICK v \in Versions : v = f.version
  BY <1>3
<1>5. PICK k \in AtomicallyKeys : k = versions[v].key
  BY <1>3, <1>4
<1>6. v <= atomicallys[k].newest
  <2>1. 1 \in 1 .. Len(todo[t]) /\ todo[t][1] = f
    BY <1>2, <1>3, StackTyped, EmptySeq DEF Top
  <2>2. ReapAgrees(f)
    BY <2>1 DEF EvaluatorInv, ListsAgree
  <2> QED BY <1>3, <1>4, <1>5, <2>2 DEF ReapAgrees, Passed
<1> DEFINE r == ReapFrame(k, v, FALSE)
<1>7. /\ atomicallys' = [atomicallys EXCEPT ![k].latest = v] /\ Then(t, <<r>>)
      /\ UNCHANGED <<stmts, matches, later, versions>>
  BY <1>2, <1>4, <1>5 DEF Converged
<1>8. SteadyRoots /\ \A q : OfKey(q)' = OfKey(q)
  BY <1>7, UnchangedSteady DEF OfKey, Versions
<1>9. \A q \in AtomicallyKeys :
         /\ atomicallys'[q].all = atomicallys[q].all
         /\ atomicallys'[q].newest = atomicallys[q].newest
         /\ atomicallys'[q].latest = IF q = k THEN v ELSE atomicallys[q].latest
  <2>1. LatestBecomes(k, v)
    BY <1>7 DEF LatestBecomes
  <2> QED BY <2>1, LatestSet
<1>10. \A q \in AtomicallyKeys : atomicallys[q].newest <= atomicallys[q].newest
  BY NewestTyped
<1>11. \A q \in AtomicallyKeys : /\ atomicallys'[q].all \subseteq OfKey(q)
                                 /\ atomicallys'[q].latest <= atomicallys'[q].newest
                                 /\ atomicallys[q].newest <= atomicallys'[q].newest
  BY <1>6, <1>9, <1>10 DEF EvaluatorInv, ListsAgree
<1>12. /\ r.op = "reap" /\ r.key = k /\ r.newer = v /\ r.rest = {} /\ r.kept = {}
  BY DEF ReapFrame
<1> HIDE DEF r
<1>13. ReapAgrees(r)'
  <2>1. r.newer # NoVersion /\ r.newer <= atomicallys'[r.key].newest
    BY <1>6, <1>9, <1>12 DEF Versions, NoVersion
  <2> QED BY <1>12, <2>1 DEF ReapAgrees
<1>14. Calls(<<r>>, BodyOps) /\ Top(t).op \notin EntryOps /\ Top(t).op # "command"
  <2>1. r.op \notin BodyOps
    BY <1>12 DEF BodyOps, EndOps
  <2> QED BY <1>2, <1>3, <2>1, ShortCalls DEF EntryOps
<1>15. \A j \in 1 .. Len(<<r>>) : ReapAgrees(<<r>>[j])'
  <2>1. \A j \in 1 .. Len(<<r>>) : <<r>>[j] = r
    OBVIOUS
  <2> QED BY <1>13, <2>1 DEF ReapAgrees
<1> QED BY <1>3, <1>7, <1>8, <1>11, <1>14, <1>15, ReaperInv

LEMMA ReapTakeListInv ==
    ASSUME TypeOK, TypeOK', EvaluatorInv, NEW t \in Threads, ReapTakeList(t)
    PROVE  EvaluatorInv'
<1>1. At(t, "reap")
  BY DEF ReapTakeList
<1>2. PICK f : f = Top(t)
  OBVIOUS
<1>3. /\ todo[t] # <<>> /\ f.op = "reap"
      /\ f \in [op : {"reap", "reapEach"}, key : AtomicallyKeys, newer : Versions \cup {NoVersion},
                onlyConverged : BOOLEAN, rest : SUBSET Versions, kept : SUBSET Versions]
  BY <1>1, <1>2, AtReap DEF At
<1>4. f.key \in AtomicallyKeys /\ ReapAgrees(f)
  <2>1. 1 \in 1 .. Len(todo[t]) /\ todo[t][1] = f
    BY <1>2, <1>3, StackTyped, EmptySeq DEF Top
  <2> QED BY <1>3, <2>1 DEF EvaluatorInv, ListsAgree
<1>5. PICK all : all = atomicallys[f.key].all
  OBVIOUS
<1> DEFINE g == [f EXCEPT !.op = "reapEach", !.rest = all]
<1>6. atomicallys' = [atomicallys EXCEPT ![f.key].all = {}] /\ Then(t, <<g>>)
      /\ UNCHANGED <<stmts, matches, later, versions>>
  BY <1>2, <1>5 DEF ReapTakeList
<1>7. /\ g.op = "reapEach" /\ g.key = f.key /\ g.newer = f.newer
      /\ g.onlyConverged = f.onlyConverged /\ g.rest = all /\ g.kept = f.kept
  BY <1>3
<1> HIDE DEF g
<1>8. SteadyRoots
  BY <1>6, UnchangedSteady
<1>9. \A q : OfKey(q)' = OfKey(q)
  BY <1>6 DEF OfKey, Versions
<1>10. \A q \in AtomicallyKeys :
          /\ atomicallys'[q].latest = atomicallys[q].latest
          /\ atomicallys'[q].newest = atomicallys[q].newest
          /\ atomicallys'[q].all = IF q = f.key THEN {} ELSE atomicallys[q].all
  <2>1. ListBecomes(f.key, {})
    BY <1>6 DEF ListBecomes
  <2> QED BY <1>4, <2>1, ListSet
<1>11. \A q \in AtomicallyKeys : atomicallys[q].newest <= atomicallys[q].newest
  BY NewestTyped
<1>12. \A q \in AtomicallyKeys : /\ atomicallys'[q].all \subseteq OfKey(q)
                                 /\ atomicallys'[q].latest <= atomicallys'[q].newest
                                 /\ atomicallys[q].newest <= atomicallys'[q].newest
  BY <1>10, <1>11 DEF EvaluatorInv, ListsAgree
<1>13. ReapAgrees(g)'
  <2>1. all \subseteq OfKey(f.key) /\ f.op \in {"reap", "reapEach"}
    BY <1>3, <1>4, <1>5 DEF EvaluatorInv, ListsAgree
  <2> QED BY <1>4, <1>7, <1>9, <1>10, <2>1 DEF ReapAgrees
<1>14. Calls(<<g>>, BodyOps) /\ Top(t).op \notin EntryOps /\ Top(t).op # "command"
  <2>1. g.op \notin BodyOps
    BY <1>7 DEF BodyOps, EndOps
  <2> QED BY <1>2, <1>3, <2>1, ShortCalls DEF EntryOps
<1>15. \A j \in 1 .. Len(<<g>>) : ReapAgrees(<<g>>[j])'
  <2>1. \A j \in 1 .. Len(<<g>>) : <<g>>[j] = g
    OBVIOUS
  <2> QED BY <1>13, <2>1 DEF ReapAgrees
<1> QED BY <1>3, <1>6, <1>8, <1>12, <1>14, <1>15, ReaperInv

\* The innermost call of a reaper.
LEMMA AtReapEach ==
    ASSUME TypeOK, EvaluatorInv, NEW t \in Threads, At(t, "reapEach")
    PROVE  /\ todo[t] # <<>> /\ Top(t).op \notin EntryOps /\ Top(t).op # "command"
           /\ \E f : /\ f = Top(t) /\ f.op = "reapEach" /\ ReapAgrees(f)
                     /\ f.key \in AtomicallyKeys /\ f.rest \subseteq Versions
                     /\ f.rest \subseteq OfKey(f.key) /\ f.kept \subseteq OfKey(f.key)
                     /\ \A r : LET g == [f EXCEPT !.rest = r]
                               IN  /\ g.op = "reapEach" /\ g.key = f.key /\ g.newer = f.newer
                                   /\ g.onlyConverged = f.onlyConverged
                                   /\ g.rest = r /\ g.kept = f.kept
                                   /\ \A x : LET h == [g EXCEPT !.kept = x]
                                             IN  /\ h.op = "reapEach" /\ h.key = f.key
                                                 /\ h.newer = f.newer
                                                 /\ h.onlyConverged = f.onlyConverged
                                                 /\ h.rest = r /\ h.kept = x
<1>1. PICK f : f = Top(t)
  OBVIOUS
<1>2. /\ todo[t] # <<>> /\ f.op = "reapEach"
      /\ f \in [op : {"reap", "reapEach"}, key : AtomicallyKeys, newer : Versions \cup {NoVersion},
                onlyConverged : BOOLEAN, rest : SUBSET Versions, kept : SUBSET Versions]
  BY <1>1, AtReap DEF At
<1>3. ReapAgrees(f)
  <2>1. 1 \in 1 .. Len(todo[t]) /\ todo[t][1] = f
    BY <1>1, <1>2, StackTyped, EmptySeq DEF Top
  <2> QED BY <2>1 DEF EvaluatorInv, ListsAgree
<1>4. f.rest \subseteq OfKey(f.key) /\ f.kept \subseteq OfKey(f.key)
  BY <1>2, <1>3 DEF ReapAgrees
<1>5. \A r : LET g == [f EXCEPT !.rest = r]
             IN  /\ g.op = "reapEach" /\ g.key = f.key /\ g.newer = f.newer
                 /\ g.onlyConverged = f.onlyConverged /\ g.rest = r /\ g.kept = f.kept
                 /\ \A x : LET h == [g EXCEPT !.kept = x]
                           IN  /\ h.op = "reapEach" /\ h.key = f.key /\ h.newer = f.newer
                               /\ h.onlyConverged = f.onlyConverged
                               /\ h.rest = r /\ h.kept = x
  BY <1>2
<1>6. f.key \in AtomicallyKeys /\ f.rest \subseteq Versions
  BY <1>2
<1> QED BY <1>1, <1>2, <1>3, <1>4, <1>5, <1>6 DEF EntryOps

\* A call with the same range of versions, and fewer of them or more kept.
LEMMA ReapGoesOn ==
    ASSUME ListsAgree, NEW f, ReapAgrees(f), f.op = "reapEach", SteadyRoots,
           atomicallys' = atomicallys, NEW g, g.op = f.op, g.key = f.key, g.newer = f.newer,
           g.onlyConverged = f.onlyConverged,
           g.rest \subseteq OfKey(f.key), g.kept \subseteq OfKey(f.key)
    PROVE  ReapAgrees(g)'
<1>1. \A q : OfKey(q)' = OfKey(q)
  BY DEF Versions, OfKey, SteadyRoots
<1> QED BY <1>1 DEF ReapAgrees

LEMMA ReapEachInv ==
    ASSUME TypeOK, TypeOK', EvaluatorInv, Settled, NEW t \in Threads, ReapEach(t)
    PROVE  EvaluatorInv'
<1>1. At(t, "reapEach")
  BY DEF ReapEach
<1>2. todo[t] # <<>> /\ Top(t).op \notin EntryOps /\ Top(t).op # "command"
  BY <1>1, AtReapEach
<1>3. PICK f : /\ f = Top(t) /\ f.op = "reapEach" /\ ReapAgrees(f)
               /\ f.key \in AtomicallyKeys /\ f.rest \subseteq Versions
               /\ f.rest \subseteq OfKey(f.key) /\ f.kept \subseteq OfKey(f.key)
               /\ \A r : LET g == [f EXCEPT !.rest = r]
                         IN  /\ g.op = "reapEach" /\ g.key = f.key /\ g.newer = f.newer
                             /\ g.onlyConverged = f.onlyConverged
                             /\ g.rest = r /\ g.kept = f.kept
                             /\ \A x : LET h == [g EXCEPT !.kept = x]
                                       IN  /\ h.op = "reapEach" /\ h.key = f.key
                                           /\ h.newer = f.newer
                                           /\ h.onlyConverged = f.onlyConverged
                                           /\ h.rest = r /\ h.kept = x
  BY <1>1, AtReapEach
<1>4. PICK v \in f.rest :
         LET next == [f EXCEPT !.rest = @ \ {v}]
         IN  Then(t, IF Reapable(f, v) THEN <<VersionFrame("clearRoot", v), next>>
                     ELSE <<[next EXCEPT !.kept = @ \cup {v}]>>)
  BY <1>3 DEF ReapEach
<1> DEFINE next == [f EXCEPT !.rest = @ \ {v}]
           done == [next EXCEPT !.kept = @ \cup {v}]
           call == VersionFrame("clearRoot", v)
<1>6. /\ next.op = "reapEach" /\ next.key = f.key /\ next.newer = f.newer
      /\ next.onlyConverged = f.onlyConverged /\ next.rest = f.rest \ {v} /\ next.kept = f.kept
      /\ done.op = "reapEach" /\ done.key = f.key /\ done.newer = f.newer
      /\ done.onlyConverged = f.onlyConverged /\ done.rest = f.rest \ {v}
      /\ done.kept = next.kept \cup {v}
  BY <1>3
<1>7. UNCHANGED <<stmts, matches, later, versions, atomicallys>>
  BY DEF ReapEach, sideVars
<1>8. SteadyRoots /\ IF Reapable(f, v) THEN Then(t, <<call, next>>) ELSE Then(t, <<done>>)
  BY <1>4, <1>7, UnchangedSteady
<1>9. call.op = "clearRoot" /\ call.version = v
  BY DEF VersionFrame
<1> HIDE DEF next, done, call
<1>10. ReapAgrees(next)' /\ ReapAgrees(done)' /\ (Reapable(f, v) => ReapAgrees(call)')
  <2>1. ListsAgree
    BY DEF EvaluatorInv
  <2>2. next.rest \subseteq OfKey(f.key) /\ next.kept \subseteq OfKey(f.key)
    BY <1>3, <1>6
  <2>3. done.rest \subseteq OfKey(f.key) /\ done.kept \subseteq OfKey(f.key)
    BY <1>3, <1>6
  <2>4. ReapAgrees(next)' /\ ReapAgrees(done)'
    BY <1>3, <1>6, <1>7, <1>8, <2>1, <2>2, <2>3, ReapGoesOn
  <2>5. ASSUME Reapable(f, v) PROVE ReapAgrees(call)'
    <3>1. v \in Versions /\ versions[v].key = f.key /\ v \in Int
      BY <1>3 DEF OfKey, Versions
    <3>2. Passed(v)
      <4>1. CASE f.newer = NoVersion
        <5>1. versions[v].inflight = 0
          BY <1>3, <2>5, <4>1 DEF ReapAgrees, Reapable
        <5> QED BY <3>1, <5>1 DEF Settled
      <4>2. CASE f.newer # NoVersion
        <5>1. v < f.newer /\ f.newer <= atomicallys[f.key].newest
          BY <1>3, <2>5, <4>2 DEF ReapAgrees, Reapable
        <5>2. f.newer \in Int /\ atomicallys[f.key].newest \in Int
          <6>1. f.newer \in Versions \cup {NoVersion}
            BY <1>1, <1>3, AtReap
          <6> QED BY <1>3, <6>1, NewestTyped DEF Versions, NoVersion
        <5> QED BY <3>1, <5>1, <5>2 DEF Passed
      <4> QED BY <4>1, <4>2
    <3>3. v \in Versions' /\ Passed(v)'
      BY <1>7, <3>1, <3>2 DEF Versions, Passed
    <3> QED BY <1>9, <3>3 DEF ReapAgrees
  <2> QED BY <2>4, <2>5
<1>11. call.op \notin BodyOps /\ next.op \notin BodyOps /\ done.op \notin BodyOps
  BY <1>6, <1>9 DEF BodyOps, EndOps
<1>12. \A q \in AtomicallyKeys : /\ atomicallys'[q].all \subseteq OfKey(q)
                                 /\ atomicallys'[q].latest <= atomicallys'[q].newest
                                 /\ atomicallys[q].newest <= atomicallys'[q].newest
  BY <1>7, NewestTyped DEF EvaluatorInv, ListsAgree
<1>13. ASSUME NEW frames, Calls(frames, BodyOps), Then(t, frames),
              \A j \in 1 .. Len(frames) : ReapAgrees(frames[j])'
       PROVE  EvaluatorInv'
  BY <1>2, <1>7, <1>8, <1>12, <1>13, ReaperInv
<1>14. CASE Reapable(f, v)
  <2>1. \A j \in 1 .. Len(<<call, next>>) : <<call, next>>[j] \in {call, next}
    OBVIOUS
  <2>2. Calls(<<call, next>>, BodyOps)
    BY <1>11, ShortCalls
  <2>3. \A j \in 1 .. Len(<<call, next>>) : ReapAgrees(<<call, next>>[j])'
    BY <1>10, <1>14, <2>1 DEF ReapAgrees
  <2> QED BY <1>8, <1>13, <1>14, <2>2, <2>3
<1>15. CASE ~Reapable(f, v)
  <2>1. \A j \in 1 .. Len(<<done>>) : <<done>>[j] = done
    OBVIOUS
  <2>2. Calls(<<done>>, BodyOps)
    BY <1>11, ShortCalls
  <2>3. \A j \in 1 .. Len(<<done>>) : ReapAgrees(<<done>>[j])'
    BY <1>10, <2>1 DEF ReapAgrees
  <2> QED BY <1>8, <1>13, <1>15, <2>2, <2>3
<1> QED BY <1>14, <1>15

LEMMA ClearRootInv ==
    ASSUME TypeOK, TypeOK', EvaluatorInv, NEW t \in Threads, ClearRoot(t)
    PROVE  EvaluatorInv'
<1>1. At(t, "clearRoot")
  BY DEF ClearRoot
<1>2. todo[t] # <<>> /\ Top(t).op = "clearRoot" /\ Top(t).version \in Versions
  BY <1>1, AtVersion
<1>3. PICK v \in Versions : v = Top(t).version
  BY <1>2
<1>4. PICK call : call = RefFrame("reapRoot", versions[v].root)
  OBVIOUS
<1>5. /\ versions' = [versions EXCEPT ![v].root = NoRef] /\ UNCHANGED <<stmts, matches, later, atomicallys>>
      /\ Then(t, <<>>) \/ Then(t, <<call>>)
  BY <1>3, <1>4 DEF ClearRoot
<1>6. SteadyRoots
  BY <1>5, VersionSteady
<1>7. call.op = "reapRoot"
  BY <1>4 DEF RefFrame
<1>8. Calls(<<>>, BodyOps) /\ Calls(<<call>>, BodyOps)
  <2>1. call.op \notin BodyOps
    BY <1>7 DEF BodyOps, EndOps
  <2> QED BY <2>1, ShortCalls
<1>9. ReapAgrees(call)'
  BY <1>7, NotReap DEF ReapOps
<1>10. /\ \A j \in 1 .. Len(<<>>) : ReapAgrees(<<>>[j])'
       /\ \A j \in 1 .. Len(<<call>>) : ReapAgrees(<<call>>[j])'
  <2>1. \A j \in 1 .. Len(<<call>>) : <<call>>[j] = call
    OBVIOUS
  <2> QED BY <1>9, <2>1 DEF ReapAgrees
<1>11. \A q \in AtomicallyKeys : /\ atomicallys'[q].all \subseteq OfKey(q)
                                 /\ atomicallys'[q].latest <= atomicallys'[q].newest
                                 /\ atomicallys[q].newest <= atomicallys'[q].newest
  BY <1>5, NewestTyped DEF EvaluatorInv, ListsAgree
<1>12. Top(t).op \notin EntryOps /\ Top(t).op # "command"
  BY <1>2 DEF EntryOps
<1> QED BY <1>2, <1>5, <1>6, <1>8, <1>10, <1>11, <1>12, ReaperInv

LEMMA ReapPutBackInv ==
    ASSUME TypeOK, TypeOK', EvaluatorInv, NEW t \in Threads, ReapPutBack(t)
    PROVE  EvaluatorInv'
<1>1. At(t, "reapEach")
  BY DEF ReapPutBack
<1>2. todo[t] # <<>> /\ Top(t).op \notin EntryOps /\ Top(t).op # "command"
  BY <1>1, AtReapEach
<1>3. PICK f : f = Top(t) /\ f.key \in AtomicallyKeys /\ f.kept \subseteq OfKey(f.key)
  BY <1>1, AtReapEach
<1>4. PICK vs : vs = atomicallys[f.key].all \cup f.kept
  OBVIOUS
<1>5. ListBecomes(f.key, vs) /\ Then(t, <<>>) /\ UNCHANGED <<stmts, matches, later, versions>>
  BY <1>3, <1>4 DEF ReapPutBack, ListBecomes
<1>6. \A q \in AtomicallyKeys :
         /\ atomicallys'[q].latest = atomicallys[q].latest
         /\ atomicallys'[q].newest = atomicallys[q].newest
         /\ atomicallys'[q].all = IF q = f.key THEN vs ELSE atomicallys[q].all
  BY <1>3, <1>5, ListSet
<1>7. \A q \in AtomicallyKeys : atomicallys[q].newest <= atomicallys[q].newest
  BY NewestTyped
<1>8. \A q \in AtomicallyKeys : /\ atomicallys'[q].all \subseteq OfKey(q)
                                /\ atomicallys'[q].latest <= atomicallys'[q].newest
                                /\ atomicallys[q].newest <= atomicallys'[q].newest
  BY <1>3, <1>4, <1>6, <1>7 DEF EvaluatorInv, ListsAgree
<1>9. Calls(<<>>, BodyOps) /\ SteadyRoots
  BY <1>5, ShortCalls, UnchangedSteady
<1>10. \A j \in 1 .. Len(<<>>) : ReapAgrees(<<>>[j])'
  OBVIOUS
<1> QED BY <1>2, <1>5, <1>8, <1>9, <1>10, ReaperInv

LEMMA SysmonCollectsInv ==
    ASSUME TypeOK, TypeOK', EvaluatorInv, NEW k \in AtomicallyKeys, SysmonCollects(k)
    PROVE  EvaluatorInv'
<1> DEFINE s == todo[Sysmon]
           r == ReapFrame(k, NoVersion, TRUE)
           c == RefFrame("collected", NoRef)
           n == <<r, c>>
<1> USE DEF EvaluatorInv, BodiesInv
<1>1. Sysmon \in Threads /\ Idle(Sysmon) /\ Start(Sysmon, n)
      /\ UNCHANGED <<stmts, matches, later, versions, atomicallys>>
  BY DEF SysmonCollects, Threads, Idle, Start, sideVars
<1>2. /\ r.op = "reap" /\ r.key = k /\ r.newer = NoVersion /\ r.onlyConverged = TRUE
      /\ r.rest = {} /\ r.kept = {} /\ c.op = "collected"
  BY DEF ReapFrame, RefFrame
<1> HIDE DEF r, c
<1>3. r.op \notin BodyOps /\ c.op \notin BodyOps /\ c.op \notin ReapOps
  BY <1>2 DEF BodyOps, EndOps, ReapOps
<1>4. Calls(n, BodyOps)
  BY <1>3, ShortCalls
<1>5. \A j \in 1 .. Len(n) : n[j] \in {r, c}
  OBVIOUS
<1> HIDE DEF n
<1>6. todo'[Sysmon] = n /\ Moves(Sysmon) /\ Within(s, n) /\ EntriesStay(s, n)
  BY <1>1, <1>4, StartMoves, StartedWithin, IdleEntries
<1>7. SteadyStmts /\ SteadyMatches /\ SteadyRoots
  BY <1>1, UnchangedSteady
<1>8. BodiesInv' /\ EntryWillFire'
  BY <1>1, <1>6, <1>7, BodiesStep, EntriesStep
<1>9. ReapAgrees(r)' /\ ReapAgrees(c)'
  <2>1. ReapAgrees(r)'
    BY <1>2 DEF ReapAgrees
  <2> QED BY <1>3, <2>1, NotReap
<1>10. ASSUME NEW u \in Threads, NEW j \in 1 .. Len(todo'[u]), NEW f, f = todo'[u][j]
       PROVE  ReapAgrees(f)'
  <2>1. CASE u = Sysmon
    BY <1>5, <1>6, <1>9, <1>10, <2>1
  <2>2. CASE u # Sysmon
    <3>1. j \in 1 .. Len(todo[u]) /\ f = todo[u][j]
      BY <1>6, <1>10, <2>2 DEF Moves
    <3>2. \A q \in AtomicallyKeys : atomicallys[q].newest <= atomicallys'[q].newest
      BY <1>1, NewestTyped
    <3> QED BY <1>7, <3>1, <3>2, ReapStays
  <2> QED BY <2>1, <2>2
<1>11. \A q \in AtomicallyKeys : /\ atomicallys'[q].all \subseteq OfKey(q)'
                                 /\ atomicallys'[q].latest <= atomicallys'[q].newest
  <2>1. \A q : OfKey(q)' = OfKey(q)
    BY <1>1 DEF OfKey, Versions
  <2> QED BY <1>1, <2>1 DEF ListsAgree
<1>12. ListsAgree'
  BY <1>10, <1>11, ListsNext
<1> QED BY <1>8, <1>12

-----------------------------------------------------------------------------
(* Settled is invariant.                                                   *)

LEMMA NoFewerLose ==
    ASSUME TypeOK, NEW v \in Versions \cup {NoVersion}, versions' = Lose(versions, v)
    PROVE  NoFewer
<1>1. versions \in Seq(Version) /\ Versions = 1 .. Len(versions)
  BY LensTyped DEF Versions
<1>2. CountFields
  BY CountTyped
<1>3. /\ Len(versions') = Len(versions)
      /\ \A x \in Versions : /\ versions'[x].key = versions[x].key
                             /\ versions'[x].inflight = versions[x].inflight
  BY <1>1, LoseCounts
<1> QED BY <1>2, <1>3 DEF NoFewer, Versions, CountFields

LEMMA SkipItemNoFewer ==
    ASSUME TypeOK, NEW t \in Threads, NEW item, SkipItem(t, item)
    PROVE  NoFewer
<1>1. item \in WorkItems /\ item.cmd = "runWhen"
  BY TakeItemKeeps DEF SkipItem
<1>2. item.when \in StmtRefs /\ item.stmt \in StmtRefs \cup {NoRef}
  BY <1>1, ItemFields DEF RefsOf
<1>3. /\ VersionOf(item.when) \in Versions \cup {NoVersion}
      /\ VersionOf(item.stmt) \in Versions \cup {NoVersion}
  BY <1>2, VersionOfTyped
<1>4. versions \in Seq(Version) /\ Versions = 1 .. Len(versions)
  BY LensTyped DEF Versions
<1>5. PICK vs : vs = Lose(versions, VersionOf(item.when))
  OBVIOUS
<1>6. versions' = Lose(vs, VersionOf(item.stmt))
  BY <1>5 DEF SkipItem
<1>7. /\ vs \in Seq(Version) /\ Len(vs) = Len(versions)
      /\ \A x \in Versions : vs[x].key = versions[x].key /\ vs[x].inflight = versions[x].inflight
  BY <1>3, <1>4, <1>5, LoseCounts
<1>8. /\ Len(versions') = Len(vs)
      /\ \A x \in Versions : versions'[x].key = vs[x].key /\ versions'[x].inflight = vs[x].inflight
  <2>1. Versions = 1 .. Len(vs) /\ VersionOf(item.stmt) \in 1 .. Len(vs) \cup {NoVersion}
    BY <1>3, <1>4, <1>7
  <2> QED BY <1>6, <1>7, <2>1, LoseCounts
<1>9. CountFields
  BY CountTyped
<1> QED BY <1>7, <1>8, <1>9 DEF NoFewer, Versions, CountFields

LEMMA InsertNoFewer ==
    ASSUME TypeOK, NEW t \in Threads, InsertReuse(t)
    PROVE  NoFewer
<1>1. PICK f : f = Top(t)
  OBVIOUS
<1>2. f \in Frames /\ f.op \in {"place", "reuse", "adopt"}
  BY <1>1, TopTyped DEF InsertReuse, At
<1>3. f.version \in Versions \cup {NoVersion}
  BY <1>2, FrameFields
<1>4. versions' = versions \/ versions' = Lose(versions, f.version)
  BY <1>1 DEF InsertReuse
<1> QED BY <1>3, <1>4, NoFewerSame, NoFewerLose

LEMMA RunSayNoFewer ==
    ASSUME TypeOK, NEW t \in Threads, RunSay(t)
    PROVE  NoFewer
<1> DEFINE m == Top(t).match
           cmd == Top(t).cmd
           version == IF cmd.clause \in Unversioned THEN NoVersion ELSE matches[m].version
           f == InsertFrame(cmd.clause, m, cmd.keep, version, NoKey, NoRef)
<1>1. AtCommand(t, "say") /\ InsertUnder(t, f)
  BY DEF RunSay
<1>2. m \in MatchRefs
  BY <1>1, InBody
<1>3. matches[m] \in Match
  BY <1>2, MatchFields
<1>4. version \in Versions \cup {NoVersion}
  BY <1>3 DEF Match
<1>5. f.version = version
  BY DEF InsertFrame
<1> HIDE DEF f, m, version
<1>6. versions' = versions \/ versions' = Incr(versions, version)
  BY <1>1, <1>5 DEF InsertUnder
<1> QED BY <1>4, <1>6, NoFewerSame, NoFewerCounts

\* The last of a version: it is then one of the converged ones.
LEMMA InflightDecrSettled ==
    ASSUME TypeOK, TypeOK', Settled, NEW t \in Threads, InflightDecr(t)
    PROVE  Settled'
<1>1. PICK v : v = Top(t).version
  OBVIOUS
<1>2. v \in Versions /\ versions[v] \in Version /\ versions[v].key \in AtomicallyKeys
  BY <1>1, AtVersion DEF InflightDecr
<1>3. PICK k \in AtomicallyKeys : k = versions[v].key
  BY <1>2
<1>4. PICK newer : newer = IF v > atomicallys[k].newest THEN v ELSE atomicallys[k].newest
  OBVIOUS
<1>5. /\ versions' = [versions EXCEPT ![v].inflight = @ - 1]
      /\ versions[v].inflight = 1 => NewestBecomes(k, newer)
      /\ versions[v].inflight # 1 => atomicallys' = atomicallys
  BY <1>1, <1>3, <1>4 DEF InflightDecr, NewestBecomes
<1>6. v \in Int /\ \A q \in AtomicallyKeys : atomicallys[q].newest \in Int
  BY <1>2, NewestTyped DEF Versions
<1>7. newer \in Int /\ v <= newer /\ atomicallys[k].newest <= newer
  BY <1>4, <1>6
<1>8. /\ \A q \in AtomicallyKeys : atomicallys[q].newest <= atomicallys'[q].newest
      /\ versions[v].inflight = 1 => v <= atomicallys'[k].newest
      /\ \A q \in AtomicallyKeys : atomicallys'[q].newest \in Int
  <2>1. CASE versions[v].inflight = 1
    <3>1. \A q \in AtomicallyKeys :
             atomicallys'[q].newest = IF q = k THEN newer ELSE atomicallys[q].newest
      BY <1>5, <2>1, NewestSet
    <3> QED BY <1>6, <1>7, <3>1
  <2>2. CASE versions[v].inflight # 1
    BY <1>5, <1>6, <2>2
  <2> QED BY <2>1, <2>2
<1>9. /\ Versions' = Versions
      /\ \A x \in Versions : x # v => versions'[x] = versions[x]
      /\ versions'[v].key = k /\ versions'[v].inflight = versions[v].inflight - 1
  <2> DEFINE e == [versions[v] EXCEPT !.inflight = @ - 1]
  <2>1. e.key = k /\ e.inflight = versions[v].inflight - 1
    BY <1>2, <1>3 DEF Version
  <2>2. versions' = [versions EXCEPT ![v] = e]
    BY <1>5
  <2> HIDE DEF e
  <2>3. versions \in Seq(Version) /\ DOMAIN versions = Versions /\ Versions = 1 .. Len(versions)
    BY LensTyped DEF Versions
  <2>4. versions \in Seq(Version \cup {e})
    BY <2>3, SeqMonotonic
  <2>5. Len(versions') = Len(versions)
    BY <1>2, <2>2, <2>3, <2>4, ExceptSeq
  <2> QED BY <1>2, <2>1, <2>2, <2>3, <2>5 DEF Versions
<1>10. CountFields
  BY CountTyped
<1> SUFFICES ASSUME NEW x \in Versions, versions'[x].inflight <= 0
             PROVE  x <= atomicallys'[versions'[x].key].newest
  BY <1>9 DEF Settled, Passed
<1>11. x \in Int /\ versions[x].key \in AtomicallyKeys /\ versions[x].inflight \in Int
  BY <1>10 DEF CountFields, Versions
<1>12. versions'[x].key = versions[x].key
  BY <1>3, <1>9
<1>13. CASE versions[x].inflight <= 0
  <2>1. x <= atomicallys[versions[x].key].newest
    BY <1>13 DEF Settled, Passed
  <2> QED BY <1>6, <1>8, <1>11, <1>12, <2>1
<1>14. CASE ~(versions[x].inflight <= 0)
  <2>1. x = v
    BY <1>9, <1>14
  <2>2. versions[v].inflight = 1
    BY <1>9, <1>11, <1>14, <2>1
  <2> QED BY <1>3, <1>8, <1>12, <2>1, <2>2
<1> QED BY <1>13, <1>14

\* A version is born with its own run in flight.
LEMMA RunFreshSettled ==
    ASSUME TypeOK, TypeOK', Settled, NEW t \in Threads, RunFresh(t)
    PROVE  Settled'
<1>1. PICK m : m = Top(t).match
  OBVIOUS
<1>2. PICK k : k = Top(t).cmd.key
  OBVIOUS
<1>3. AtCommand(t, "fresh") /\ FreshVersion(t, m, k)
  BY <1>1, <1>2 DEF RunFresh
<1>4. Top(t).cmd.cmd = "fresh" /\ Top(t).cmd \in Commands /\ m \in MatchRefs
  BY <1>1, <1>3, AtCommandTyped, InBody
<1>5. k \in AtomicallyKeys
  BY <1>2, <1>4 DEF Commands, FreeCommands, SeriallyCmd
<1>6. PICK vs : vs = Lose(versions, matches[m].version)
  OBVIOUS
<1>7. PICK e : e = [key |-> k, inflight |-> 1, root |-> m, lost |-> 0]
  OBVIOUS
<1>8. versions' = Append(vs, e) /\ e.inflight = 1
  BY <1>3, <1>6, <1>7 DEF FreshVersion
<1>9. versions \in Seq(Version) /\ Versions = 1 .. Len(versions) /\ Len(versions) \in Nat
  BY LensTyped DEF Versions
<1>10. matches[m].version \in Versions \cup {NoVersion}
  <2>1. matches[m] \in Match
    BY <1>4, MatchFields
  <2> QED BY <2>1 DEF Match
<1>11. /\ vs \in Seq(Version) /\ Len(vs) = Len(versions)
       /\ \A x \in Versions : vs[x].key = versions[x].key /\ vs[x].inflight = versions[x].inflight
  BY <1>6, <1>9, <1>10, LoseCounts
<1>12. vs \in Seq(Version \cup {e})
  BY <1>11, SeqMonotonic
<1>13. /\ Len(versions') = Len(versions) + 1 /\ versions'[Len(versions) + 1] = e
       /\ \A x \in Versions : versions'[x] = vs[x]
  BY <1>8, <1>9, <1>11, <1>12, AppendProperties
<1>14. \A q \in AtomicallyKeys : atomicallys'[q].newest = atomicallys[q].newest
  <2>1. PICK w : w = Len(versions) + 1
    OBVIOUS
  <2>2. atomicallys' = [atomicallys EXCEPT ![k].all = @ \cup {w}]
    BY <1>3, <2>1 DEF FreshVersion
  <2>3. ListBecomes(k, atomicallys[k].all \cup {w})
    BY <2>2 DEF ListBecomes
  <2> QED BY <1>5, <2>3, ListSet
<1> SUFFICES ASSUME NEW x \in Versions', versions'[x].inflight <= 0 PROVE Passed(x)'
  BY DEF Settled
<1>15. x # Len(versions) + 1
  BY <1>8, <1>13
<1>16. x \in Versions
  BY <1>9, <1>13, <1>15 DEF Versions
<1>17. versions'[x].key = versions[x].key /\ versions[x].inflight <= 0
  BY <1>11, <1>13, <1>16
<1>18. Passed(x)
  BY <1>16, <1>17 DEF Settled
<1> QED BY <1>14, <1>16, <1>17, <1>18, PassedStays DEF NewestStays

LEMMA ClearRootNoFewer ==
    ASSUME TypeOK, NEW t \in Threads, ClearRoot(t)
    PROVE  NoFewer
<1>1. PICK v : v = Top(t).version
  OBVIOUS
<1>2. v \in Versions /\ v # NoVersion
  BY <1>1, AtVersion DEF ClearRoot, Versions, NoVersion
<1>3. versions' = [versions EXCEPT ![v].root = NoRef]
  BY <1>1 DEF ClearRoot
<1> QED BY <1>2, <1>3, NoFewerCounts

LEMMA ReaperNewest ==
    ASSUME TypeOK, NEW t \in Threads, Converged(t) \/ ReapTakeList(t) \/ ReapPutBack(t)
    PROVE  NewestStays /\ versions' = versions
<1>1. CASE Converged(t)
  <2>1. PICK v : v = Top(t).version
    OBVIOUS
  <2>2. v \in Versions /\ versions[v].key \in AtomicallyKeys
    BY <1>1, <2>1, AtVersion DEF Converged
  <2>3. LatestBecomes(versions[v].key, v)
    BY <1>1, <2>1 DEF Converged, LatestBecomes
  <2> QED BY <1>1, <2>2, <2>3, LatestSet DEF NewestStays, Converged
<1>2. CASE ReapTakeList(t) \/ ReapPutBack(t)
  <2>1. PICK f : f = Top(t)
    OBVIOUS
  <2>2. f.key \in AtomicallyKeys
    BY <1>2, <2>1, AtReap DEF ReapTakeList, ReapPutBack
  <2>3. ListBecomes(f.key, {}) \/ ListBecomes(f.key, atomicallys[f.key].all \cup f.kept)
    BY <1>2, <2>1 DEF ReapTakeList, ReapPutBack, ListBecomes
  <2>4. NewestStays
    BY <2>2, <2>3, ListSet DEF NewestStays
  <2> QED BY <1>2, <2>4 DEF ReapTakeList, ReapPutBack
<1> QED BY <1>1, <1>2

LEMMA StepSettled ==
    ASSUME TypeOK, TypeOK', Settled, NEW t \in Threads, Step(t)
    PROVE  Settled'
<1>1. CASE InflightDecr(t) \/ RunFresh(t)
  BY <1>1, InflightDecrSettled, RunFreshSettled
<1>2. ASSUME DbStep(t) PROVE NoFewer /\ NewestStays
  <2>1. atomicallys' = atomicallys
    BY <1>2 DEF DbStep, InsertPlace, InsertReuse, InsertAdopt, Decr, DecrKept, DecrScheduled,
                DecrThen, TestAgain, NegateKeep, StoreKeep, ScheduleRemove, SetDue, ClearEntry,
                RecountKept, RemoveSelf, CloseStatement, RemoveMatch, MarkRemoved, CloseMatch,
                SignalWorker, RetractOne, HoldSet, sideVars
  <2>2. CASE InsertReuse(t)
    BY <2>1, <2>2, InsertNoFewer DEF NewestStays
  <2>3. CASE ~InsertReuse(t)
    <3>1. versions' = versions
      BY <1>2, <2>3 DEF DbStep, InsertPlace, InsertAdopt, Decr, DecrKept, DecrScheduled,
                DecrThen, TestAgain, NegateKeep, StoreKeep, ScheduleRemove, SetDue, ClearEntry,
                RecountKept, RemoveSelf, CloseStatement, RemoveMatch, MarkRemoved, CloseMatch,
                SignalWorker, RetractOne, HoldSet, sideVars
    <3> QED BY <2>1, <3>1, NoFewerSame DEF NewestStays
  <2> QED BY <2>2, <2>3
<1>3. ASSUME Converged(t) \/ ReapTakeList(t) \/ ReapPutBack(t) PROVE NoFewer /\ NewestStays
  BY <1>3, ReaperNewest, NoFewerSame
<1>4. ASSUME ClearRoot(t) \/ RunSay(t) \/ ReactAsWhen(t) \/ ReactAsStmt(t)
      PROVE  NoFewer /\ NewestStays
  <2>1. atomicallys' = atomicallys
    BY <1>4 DEF ClearRoot, RunSay, ReactAsWhen, ReactAsStmt
  <2> QED BY <1>4, <2>1, ClearRootNoFewer, RunSayNoFewer, ReactAsWhenNoFewer, ReactAsStmtNoFewer
          DEF NewestStays
<1>5. ASSUME \/ ReapEach(t) \/ ReapRoot(t) \/ SysmonCollected(t) \/ RunHold(t) \/ RunPush(t)
             \/ RunSerially(t) \/ Notify(t) \/ Interrupted(t) \/ LockStmt(t) \/ EndBody(t)
             \/ MatchCompleted(t)
      PROVE  NoFewer /\ NewestStays
  <2>1. versions' = versions /\ atomicallys' = atomicallys
    BY <1>5 DEF ReapEach, ReapRoot, SysmonCollected, RunHold, HoldLock, RunPush, RunSerially,
                Notify, Interrupted, LockStmt, LockAndRun, EndBody, MatchCompleted, sideVars
  <2> QED BY <2>1, NoFewerSame DEF NewestStays
<1> QED BY <1>1, <1>2, <1>3, <1>4, <1>5, SettledStep DEF Step, AtomicallyStep

LEMMA NextSettled ==
    ASSUME TypeOK, Settled, [Next]_vars
    PROVE  Settled'
<1>1. TypeOK'
  BY NextTypeOK
<1>2. CASE \E t \in Threads : Step(t)
  BY <1>1, <1>2, StepSettled
<1>3. ASSUME NEW t \in Workers, WorkerTakes(t) PROVE NoFewer /\ NewestStays
  <2>1. PICK item \in BagToSet(work) :
          \/ TakeAssert(t, item)
          \/ TakeRetract(t, item)
          \/ TakeEval(t, item)
          \/ TakeSubscribe(t, item)
          \/ SkipItem(t, item)
          \/ TakeRunWhen(t, item)
    BY <1>3 DEF WorkerTakes
  <2>2. atomicallys' = atomicallys
    BY <2>1 DEF TakeAssert, TakeRetract, TakeEval, TakeSubscribe, SkipItem, TakeRunWhen,
                LockAndRun, sideVars
  <2>3. CASE SkipItem(t, item)
    BY <2>2, <2>3, SkipItemNoFewer DEF NewestStays, Threads
  <2>4. CASE ~SkipItem(t, item)
    <3>1. versions' = versions
      BY <2>1, <2>4 DEF TakeAssert, TakeRetract, TakeEval, TakeSubscribe, TakeRunWhen,
                        LockAndRun, sideVars
    <3> QED BY <2>2, <3>1, NoFewerSame DEF NewestStays
  <2> QED BY <2>3, <2>4
<1>4. CASE SysmonTick
  <2>1. versions' = versions /\ atomicallys' = atomicallys
    BY <1>4 DEF SysmonTick, SysmonRemoves, SysmonCollects, sideVars
  <2> QED BY <1>1, <2>1, NoFewerSame, SettledStep DEF NewestStays
<1>5. CASE UNCHANGED vars
  <2>1. versions' = versions /\ atomicallys' = atomicallys
    BY <1>5 DEF vars, sideVars
  <2> QED BY <1>1, <2>1, NoFewerSame, SettledStep DEF NewestStays
<1> QED BY <1>1, <1>2, <1>3, <1>4, <1>5, SettledStep DEF Next, Stopped

LEMMA SettledInvariant == Spec => [](TypeOK /\ Settled)
<1>1. Init => Settled
  <2> SUFFICES ASSUME Init PROVE Versions = {}
    BY DEF Settled
  <2>1. Len(<<>>) = 0 /\ 1 .. 0 = {}
    BY EmptySeq
  <2> QED BY <2>1 DEF Init, DbInit, Versions
<1>2. Init => TypeOK
  BY InitTypeOK
<1>3. TypeOK /\ Settled /\ [Next]_vars => (TypeOK /\ Settled)'
  BY NextTypeOK, NextSettled
<1> QED BY <1>1, <1>2, <1>3, PTL DEF Spec

-----------------------------------------------------------------------------
(* All steps.                                                              *)

LEMMA InitEvaluatorInv == Init => EvaluatorInv
<1> SUFFICES ASSUME Init PROVE EvaluatorInv
  OBVIOUS
<1>1. \A t \in Threads : todo[t] = <<>>
  BY DEF Init, DbInit
<1>2. Len(<<>>) = 0 /\ 1 .. 0 = {} /\ DOMAIN <<>> = {} /\ ~(0 > 1)
  BY EmptySeq
<1>3. MatchRefs = {} /\ Versions = {} /\ DOMAIN matches = {}
  BY <1>2 DEF Init, DbInit, MatchRefs, Versions
<1>4. Stacks
  BY <1>1, <1>2 DEF Stacks, StackOK, FreshOnce
<1>5. RunsOnce /\ MatchesAgree /\ SeriallyExclusive /\ RootsAgree
  BY <1>3 DEF RunsOnce, MatchesAgree, SeriallyExclusive, RootsAgree
<1>6. FreshFirst
  BY <1>1, <1>2 DEF FreshFirst
<1>7. EntryWillFire
  BY DEF Init, DbInit, EntryWillFire
<1>8. ListsAgree
  <2>1. \A k \in AtomicallyKeys : /\ atomicallys[k].all = {}
                                  /\ atomicallys[k].latest = 0 /\ atomicallys[k].newest = 0
    BY DEF Init, DbInit, NoVersion
  <2> QED BY <1>1, <1>2, <2>1 DEF ListsAgree
<1> QED BY <1>4, <1>5, <1>6, <1>7, <1>8 DEF EvaluatorInv, BodiesInv

LEMMA DbStepInv ==
    ASSUME TypeOK, TypeOK', EvaluatorInv, NEW t \in Threads, DbStep(t)
    PROVE  EvaluatorInv'
<1>1. CASE ScheduleRemove(t) \/ SetDue(t) \/ ClearEntry(t)
  BY <1>1, ScheduleRemoveInv, SetDueInv, ClearEntryInv
<1>2. ASSUME ~(ScheduleRemove(t) \/ SetDue(t) \/ ClearEntry(t)) PROVE Steady(t)
  BY <1>2, InsertPlaceSteady, InsertReuseSteady, InsertAdoptSteady, DecrSteady, DecrKeptSteady,
     DecrScheduledSteady, TestAgainSteady, NegateKeepSteady, StoreKeepSteady, RecountKeptSteady,
     RemoveSelfSteady, CloseStatementSteady, RemoveMatchSteady, MarkRemovedSteady,
     CloseMatchSteady, SignalWorkerSteady, RetractOneSteady, HoldSetSteady
  DEF DbStep
<1> QED BY <1>1, <1>2, SteadyCalm, CalmInv DEF EvaluatorInv, BodiesInv

LEMMA StepInv ==
    ASSUME TypeOK, TypeOK', EvaluatorInv, Settled, NEW t \in Threads, Step(t)
    PROVE  EvaluatorInv'
<1>1. CASE DbStep(t)
  BY <1>1, DbStepInv
<1>2. CASE InflightDecr(t) \/ Converged(t) \/ ReapTakeList(t) \/ ReapEach(t) \/ ClearRoot(t)
           \/ ReapPutBack(t)
  BY <1>2, InflightDecrInv, ConvergedInv, ReapTakeListInv, ReapEachInv, ClearRootInv,
     ReapPutBackInv
<1>3. CASE ReapRoot(t) \/ SysmonCollected(t) \/ RunSay(t) \/ RunHold(t) \/ RunPush(t) \/ Notify(t)
           \/ ReactAsWhen(t) \/ ReactAsStmt(t)
  <2>1. Steady(t)
    BY <1>3, ReapRootSteady, SysmonCollectedSteady, RunSaySteady, RunHoldSteady, RunPushSteady, NotifySteady,
       ReactAsWhenSteady, ReactAsStmtSteady
  <2> QED BY <2>1, SteadyCalm, CalmInv DEF EvaluatorInv, BodiesInv
<1>4. CASE RunFresh(t) \/ RunSerially(t) \/ LockStmt(t) \/ EndBody(t) \/ MatchCompleted(t)
  BY <1>4, RunFreshInv, RunSeriallyInv, LockStmtInv, EndBodyInv, MatchCompletedInv
<1>5. CASE Interrupted(t)
  BY <1>5, InterruptedCalm, CalmInv DEF EvaluatorInv, BodiesInv
<1> QED BY <1>1, <1>2, <1>3, <1>4, <1>5 DEF Step, AtomicallyStep

LEMMA WorkerTakesInv ==
    ASSUME TypeOK, TypeOK', EvaluatorInv, NEW t \in Threads, WorkerTakes(t)
    PROVE  EvaluatorInv'
<1>1. PICK item \in BagToSet(work) :
        \/ TakeAssert(t, item)
        \/ TakeRetract(t, item)
        \/ TakeEval(t, item)
        \/ TakeSubscribe(t, item)
        \/ SkipItem(t, item)
        \/ TakeRunWhen(t, item)
  BY DEF WorkerTakes
<1>2. CASE TakeRunWhen(t, item)
  BY <1>2, TakeRunWhenInv
<1>3. ASSUME ~TakeRunWhen(t, item) PROVE Calm(t)
  BY <1>1, <1>3, TakeAssertCalm, TakeRetractCalm, TakeEvalCalm, TakeSubscribeCalm, SkipItemCalm
  DEF EvaluatorInv, BodiesInv
<1> QED BY <1>2, <1>3, CalmInv

LEMMA SysmonTickInv ==
    ASSUME TypeOK, TypeOK', EvaluatorInv, SysmonTick
    PROVE  EvaluatorInv'
<1>1. Sysmon \in Threads
  BY DEF Threads
<1>2. CASE \E i \in 1 .. LaterSlots : SysmonRemoves(i)
  BY <1>1, <1>2, SysmonRemovesCalm, CalmInv
<1>3. CASE \E k \in AtomicallyKeys : SysmonCollects(k)
  BY <1>3, SysmonCollectsInv
<1> QED BY <1>2, <1>3 DEF SysmonTick

LEMMA NextInv ==
    ASSUME TypeOK, EvaluatorInv, Settled, [Next]_vars
    PROVE  EvaluatorInv'
<1>1. TypeOK'
  BY NextTypeOK
<1>2. CASE \E t \in Threads : Step(t)
  BY <1>1, <1>2, StepInv
<1>3. CASE \E t \in Workers : WorkerTakes(t)
  BY <1>1, <1>3, WorkerTakesInv DEF Threads
<1>4. CASE SysmonTick
  BY <1>1, <1>4, SysmonTickInv
<1>5. CASE UNCHANGED vars
  <2>1. Sysmon \in Threads
    BY DEF Threads
  <2>2. Quiet(Sysmon)
    BY <1>5, <2>1, UnchangedQuiet DEF vars, EvaluatorInv, BodiesInv, Moves
  <2>3. Calm(Sysmon)
    BY <1>5, <2>2, UnchangedSteady DEF vars, sideVars, Calm
  <2> QED BY <1>1, <2>1, <2>3, CalmInv
<1> QED BY <1>2, <1>3, <1>4, <1>5 DEF Next, Stopped

LEMMA EvaluatorInvariant == Spec => [](TypeOK /\ EvaluatorInv)
<1>1. Init => TypeOK /\ EvaluatorInv
  BY InitTypeOK, InitEvaluatorInv
<1>2. TypeOK /\ EvaluatorInv /\ Settled /\ [Next]_vars => (TypeOK /\ EvaluatorInv)'
  BY NextTypeOK, NextInv
<1> QED BY <1>1, <1>2, SettledInvariant, PTL DEF Spec

-----------------------------------------------------------------------------
(* Theorems.                                                               *)

\* An entry that a thread has taken in the remove-later table always gets its due
\* time, or is freed by sysmon: the two stores of sysmonScheduleRemoveAfter and
\* the two stores with which sysmon frees an entry never cancel each other.
THEOREM EntryWillFireCorrect == Spec => []EntryWillFire
<1>1. EvaluatorInv => EntryWillFire
  BY DEF EvaluatorInv
<1> QED BY <1>1, EvaluatorInvariant, PTL

\* Of the bodies of an open When -serially at most one is beyond the prologue that
\* counts the incomplete matches of the When, whatever the programs are and
\* however many workers there are.
THEOREM SeriallyExclusiveCorrect == Spec => []SeriallyExclusive
<1>1. EvaluatorInv => SeriallyExclusive
  BY DEF EvaluatorInv, BodiesInv
<1> QED BY <1>1, EvaluatorInvariant, PTL

-----------------------------------------------------------------------------
(* Roots.                                                                  *)

\* What RootsKept says of version v.
RootKept(v) ==
    LET m == versions[v].root
        newest == atomicallys[versions[v].key].newest
    IN  m # NoRef =>
          /\ versions'[v].root # m => v <= newest
          /\ matches[m].open /\ ~matches'[m].open
                /\ (\A t \in Threads : todo[t] = <<>> \/ Top(t) # RefFrame("closeMatch", m))
             => v < newest

SameRoots == \A v \in Versions : versions'[v].root = versions[v].root

SameOpen == \A m \in MatchRefs : matches'[m].open = matches[m].open

\* Most steps take no root from a version and close no match.
LEMMA RootsSame ==
    ASSUME TypeOK, SameRoots, SameOpen
    PROVE  \A v \in Versions : RootKept(v)
<1>1. \A v \in Versions : versions[v].root \in MatchRefs \cup {NoRef}
  BY VersionFields DEF Version
<1> QED BY <1>1 DEF RootKept, SameRoots, SameOpen

LEMMA UnchangedRoots == (versions' = versions => SameRoots) /\ (matches' = matches => SameOpen)
BY DEF SameRoots, SameOpen

LEMMA CountsRoots ==
    ASSUME TypeOK, NEW v \in Versions \cup {NoVersion}
    PROVE  /\ versions' = Incr(versions, v) => SameRoots
           /\ versions' = Lose(versions, v) => SameRoots
           /\ v # NoVersion => \A x : versions' = [versions EXCEPT ![v].inflight = x] => SameRoots
<1>1. DOMAIN versions = Versions /\ versions \in Seq(Version)
  BY LensTyped
<1>2. versions' = Lose(versions, v) => SameRoots
  BY <1>1, LoseRoots DEF SameRoots
<1>3. ASSUME v # NoVersion, NEW x, versions' = [versions EXCEPT ![v].inflight = x]
      PROVE  SameRoots
  <2>1. v \in Versions
    BY <1>3
  <2>2. versions'[v].root = versions[v].root
    BY <1>3, <2>1, VersionSteady
  <2>3. \A w \in Versions : w # v => versions'[w] = versions[w]
    BY <1>1, <1>3
  <2> QED BY <2>2, <2>3 DEF SameRoots
<1>4. versions' = Incr(versions, v) => SameRoots
  BY <1>3, UnchangedRoots DEF Incr
<1> QED BY <1>2, <1>3, <1>4

LEMMA MatchOpen ==
    ASSUME TypeOK, NEW m \in MatchRefs, NEW x
    PROVE  /\ matches' = [matches EXCEPT ![m].lock = x] => SameOpen
           /\ matches' = [matches EXCEPT ![m].completed = x] => SameOpen
           /\ matches' = [matches EXCEPT ![m].version = x] => SameOpen
           /\ \A y : matches' = [matches EXCEPT ![m].parentWasRemoved = x, ![m].overlooked = y]
                    => SameOpen
           /\ matches' = [matches EXCEPT ![m].kids = Append(@, x), ![m].lock = NoThread]
                    => SameOpen
<1>1. DOMAIN matches = MatchRefs /\ matches[m] \in Match
  BY LensTyped, MatchFields
<1>2. ASSUME NEW e, e.open = matches[m].open, matches' = [matches EXCEPT ![m] = e]
      PROVE  SameOpen
  BY <1>1, <1>2 DEF SameOpen
<1>3. /\ [matches[m] EXCEPT !.lock = x].open = matches[m].open
      /\ [matches[m] EXCEPT !.completed = x].open = matches[m].open
      /\ [matches[m] EXCEPT !.version = x].open = matches[m].open
  BY <1>1 DEF Match
<1>4. ASSUME NEW y, matches' = [matches EXCEPT ![m].parentWasRemoved = x, ![m].overlooked = y]
      PROVE  SameOpen
  <2> DEFINE e == [matches[m] EXCEPT !.parentWasRemoved = x, !.overlooked = y]
  <2>1. [matches EXCEPT ![m].parentWasRemoved = x, ![m].overlooked = y] = [matches EXCEPT ![m] = e]
    OBVIOUS
  <2>2. e.open = matches[m].open
    BY <1>1 DEF Match
  <2> HIDE DEF e
  <2> QED BY <1>2, <1>4, <2>1, <2>2
<1>5. ASSUME matches' = [matches EXCEPT ![m].kids = Append(@, x), ![m].lock = NoThread]
      PROVE  SameOpen
  <2> DEFINE e == [matches[m] EXCEPT !.kids = Append(@, x), !.lock = NoThread]
  <2>1. [matches EXCEPT ![m].kids = Append(@, x), ![m].lock = NoThread] = [matches EXCEPT ![m] = e]
    OBVIOUS
  <2>2. e.open = matches[m].open
    BY <1>1 DEF Match
  <2> HIDE DEF e
  <2> QED BY <1>2, <1>5, <2>1, <2>2
<1> QED BY <1>2, <1>3, <1>4, <1>5

\* A statement is inserted under a match.
LEMMA InsertRoots ==
    ASSUME TypeOK, NEW t \in Threads, InsertReuse(t) \/ InsertAdopt(t)
    PROVE  SameRoots /\ SameOpen
<1> DEFINE f == Top(t)
<1>1. f \in Frames /\ f.op \in {"place", "reuse", "adopt"}
  BY TopTyped DEF InsertReuse, InsertAdopt, At
<1>2. f.parent \in MatchRefs \cup {NoRef} /\ f.version \in Versions \cup {NoVersion}
  BY <1>1, FrameFields
<1> HIDE DEF f
<1>3. \A s : AddChildAndUnlock(f.parent, s) => SameOpen
  BY <1>2, MatchOpen, UnchangedRoots DEF AddChildAndUnlock
<1>4. SameOpen
  BY <1>3, UnchangedRoots DEF InsertReuse, InsertAdopt, f
<1>5. SameRoots
  BY <1>2, CountsRoots, UnchangedRoots DEF InsertReuse, InsertAdopt, sideVars, f
<1> QED BY <1>4, <1>5

LEMMA RunSayRoots ==
    ASSUME TypeOK, NEW t \in Threads, RunSay(t)
    PROVE  SameRoots /\ SameOpen
<1> DEFINE m == Top(t).match
           cmd == Top(t).cmd
           version == IF cmd.clause \in Unversioned THEN NoVersion ELSE matches[m].version
           f == InsertFrame(cmd.clause, m, cmd.keep, version, NoKey, NoRef)
<1>1. AtCommand(t, "say") /\ InsertUnder(t, f)
  BY DEF RunSay
<1>2. m \in MatchRefs
  BY <1>1, InBody
<1>3. matches[m] \in Match
  BY <1>2, MatchFields
<1>4. version \in Versions \cup {NoVersion}
  BY <1>3 DEF Match
<1>5. f.parent = m /\ f.version = version
  BY DEF InsertFrame
<1> HIDE DEF f, m, version
<1>6. SameOpen
  BY <1>1, <1>2, <1>5, MatchOpen, UnchangedRoots DEF InsertUnder
<1>7. SameRoots
  BY <1>1, <1>4, <1>5, CountsRoots, UnchangedRoots DEF InsertUnder
<1> QED BY <1>6, <1>7

LEMMA MarkRemovedRoots ==
    ASSUME TypeOK, NEW t \in Threads, MarkRemoved(t)
    PROVE  SameRoots /\ SameOpen
<1>1. At(t, "markRemoved") /\ "markRemoved" \in MatchOps
  BY DEF MarkRemoved, MatchOps
<1>2. Top(t).ref \in MatchRefs
  BY <1>1, AtMatch
<1> QED BY <1>2, MatchOpen, UnchangedRoots DEF MarkRemoved, sideVars

\* matchRemoveSelf closes the root of an overtaken version only.
LEMMA RemoveMatchRoots ==
    ASSUME TypeOK, EvaluatorInv, NEW t \in Threads, RemoveMatch(t)
    PROVE  \A v \in Versions : RootKept(v)
<1> SUFFICES ASSUME NEW v \in Versions, versions[v].root # NoRef,
                    matches[versions[v].root].open, ~matches'[versions[v].root].open
             PROVE  v < atomicallys[versions[v].key].newest
  BY DEF RootKept, RemoveMatch, sideVars
<1>1. PICK m : m = versions[v].root
  OBVIOUS
<1>2. versions[v] \in Version
  BY VersionFields
<1>3. m \in MatchRefs /\ versions[v].key \in AtomicallyKeys
  BY <1>1, <1>2 DEF Version
<1>4. matches[m].version = v
  BY <1>1 DEF EvaluatorInv, BodiesInv, RootsAgree
<1>5. DOMAIN matches = MatchRefs
  BY LensTyped
<1>6. m = Top(t).ref /\ ~IsKeptRoot(m)
  <2>1. matches' # matches
    BY <1>1
  <2>2. ~IsKeptRoot(Top(t).ref) /\ matches' = [matches EXCEPT ![Top(t).ref].open = FALSE]
    BY <2>1 DEF RemoveMatch, Close
  <2> QED BY <1>1, <1>3, <1>5, <2>2
<1>7. v \in Int /\ v # NoVersion
  BY DEF Versions, NoVersion
<1>8. /\ atomicallys[versions[v].key].latest \in Int /\ atomicallys[versions[v].key].newest \in Int
  BY <1>3, AtomicallyFields DEF Atomically, Versions, NoVersion
<1>9. atomicallys[versions[v].key].latest <= atomicallys[versions[v].key].newest
  BY <1>3 DEF EvaluatorInv, ListsAgree
<1>10. ~(v >= atomicallys[versions[v].key].latest)
  BY <1>1, <1>4, <1>6, <1>7 DEF IsKeptRoot
<1> QED BY <1>7, <1>8, <1>9, <1>10

\* A removal that had been decided before.
LEMMA CloseMatchRoots ==
    ASSUME TypeOK, NEW t \in Threads, CloseMatch(t)
    PROVE  \A v \in Versions : RootKept(v)
<1> SUFFICES ASSUME NEW v \in Versions, versions[v].root # NoRef,
                    matches[versions[v].root].open, ~matches'[versions[v].root].open
             PROVE  todo[t] # <<>> /\ Top(t) = RefFrame("closeMatch", versions[v].root)
  BY DEF RootKept, CloseMatch, sideVars
<1>1. PICK m : m = versions[v].root
  OBVIOUS
<1>2. versions[v] \in Version
  BY VersionFields
<1>3. m \in MatchRefs /\ DOMAIN matches = MatchRefs
  BY <1>1, <1>2, LensTyped DEF Version
<1>4. m = Top(t).ref
  <2>1. matches' # matches
    BY <1>1
  <2>2. matches' = [matches EXCEPT ![Top(t).ref].open = FALSE]
    BY <2>1 DEF CloseMatch, Close
  <2> QED BY <1>1, <1>3, <2>2
<1>5. Top(t) \in Frames /\ Top(t).op = "closeMatch" /\ todo[t] # <<>>
  BY TopTyped DEF CloseMatch, At
<1>6. Top(t) \in [op : MatchOps, ref : MatchRefs]
  BY <1>5 DEF Frames, DbFrames, AtomicallyFrames, StmtOps, EntryOps, MatchOps
<1>7. Top(t) = [op |-> Top(t).op, ref |-> Top(t).ref]
  BY <1>6
<1> QED BY <1>1, <1>4, <1>5, <1>7 DEF RefFrame

\* The reaper gives up versions that have converged or been overtaken.
LEMMA ClearRootRoots ==
    ASSUME TypeOK, EvaluatorInv, NEW t \in Threads, ClearRoot(t)
    PROVE  \A v \in Versions : RootKept(v)
<1> SUFFICES ASSUME NEW v \in Versions, versions'[v].root # versions[v].root
             PROVE  v <= atomicallys[versions[v].key].newest
  BY DEF RootKept, ClearRoot
<1>1. PICK f : f = Top(t)
  OBVIOUS
<1>2. todo[t] # <<>> /\ f.op = "clearRoot" /\ f.version \in Versions
  BY <1>1, AtVersion DEF ClearRoot
<1>3. versions' = [versions EXCEPT ![f.version].root = NoRef]
  BY <1>1 DEF ClearRoot
<1>4. v = f.version
  BY <1>3, LensTyped
<1>5. 1 \in 1 .. Len(todo[t]) /\ todo[t][1] = f
  BY <1>1, <1>2, StackTyped, EmptySeq DEF Top
<1>6. ReapAgrees(f)
  BY <1>5 DEF EvaluatorInv, ListsAgree
<1> QED BY <1>2, <1>4, <1>6 DEF ReapAgrees, Passed

LEMMA PushRoots ==
    ASSUME TypeOK, NEW pairs, PushRunWhens(pairs)
    PROVE  SameRoots
<1>1. DOMAIN versions = Versions
  BY LensTyped
<1>2. \A v \in Versions : \A x : [versions[v] EXCEPT !.inflight = x].root = versions[v].root
  BY VersionFields DEF Version
<1>3. ASSUME NEW v \in Versions
      PROVE  \E x : versions'[v] = [versions[v] EXCEPT !.inflight = x]
  BY <1>1 DEF PushRunWhens
<1>4. ASSUME NEW v \in Versions PROVE versions'[v].root = versions[v].root
  <2>1. PICK x : versions'[v] = [versions[v] EXCEPT !.inflight = x]
    BY <1>3
  <2>2. [versions[v] EXCEPT !.inflight = x].root = versions[v].root
    BY <1>2
  <2> QED BY <2>1, <2>2
<1> QED BY <1>4 DEF SameRoots

LEMMA SkipItemRoots ==
    ASSUME TypeOK, NEW t \in Threads, NEW item, SkipItem(t, item)
    PROVE  SameRoots /\ SameOpen
<1>1. item \in WorkItems /\ item.cmd = "runWhen"
  BY TakeItemKeeps DEF SkipItem
<1>2. item.when \in StmtRefs /\ item.stmt \in StmtRefs \cup {NoRef}
  BY <1>1, ItemFields DEF RefsOf
<1>3. /\ VersionOf(item.when) \in Versions \cup {NoVersion}
      /\ VersionOf(item.stmt) \in Versions \cup {NoVersion}
  BY <1>2, VersionOfTyped
<1> DEFINE vs == Lose(versions, VersionOf(item.when))
<1>4. vs \in Seq(Version) /\ Len(vs) = Len(versions)
  BY <1>3, LoseTyped
<1>5. versions' = Lose(vs, VersionOf(item.stmt))
  BY DEF SkipItem
<1>6. versions \in Seq(Version)
  BY LensTyped
<1>7. \A v \in Versions : vs[v].key = versions[v].key /\ vs[v].root = versions[v].root
  BY <1>3, <1>6, LoseRoots
<1> HIDE DEF vs
<1>8. SameRoots
  BY <1>3, <1>4, <1>5, <1>7, LoseRoots DEF SameRoots
<1> QED BY <1>8, UnchangedRoots DEF SkipItem

LEMMA InterruptedRoots ==
    ASSUME TypeOK, NEW t \in Threads, Interrupted(t)
    PROVE  SameRoots /\ SameOpen
<1>1. DOMAIN matches = MatchRefs
  BY LensTyped
<1>2. \A m \in MatchRefs : [matches[m] EXCEPT !.interrupted = TRUE].open = matches[m].open
  BY MatchFields DEF Match
<1>3. \A m \in MatchRefs : \/ matches'[m] = matches[m]
                           \/ matches'[m] = [matches[m] EXCEPT !.interrupted = TRUE]
  BY <1>1 DEF Interrupted
<1>4. SameOpen
  BY <1>2, <1>3 DEF SameOpen
<1> QED BY <1>4, UnchangedRoots DEF Interrupted

\* The match that is made is a new one.
LEMMA LockAndRunRoots ==
    ASSUME TypeOK, NEW t \in Threads, NEW f, f.when \in StmtRefs, f.stmt \in StmtRefs \cup {NoRef},
           NEW i, LockAndRun(t, f, i)
    PROVE  SameRoots /\ SameOpen
<1>1. versions' = versions
  BY DEF LockAndRun
<1>2. CASE InsertMatch(t, Parents(f), BlockVersion(f))
  <2>1. \A k \in MatchRefs : matches'[k] = matches[k]
    BY <1>2, NewMatch
  <2> QED BY <1>1, <2>1, UnchangedRoots DEF SameOpen
<1>3. CASE matches' = matches
  BY <1>1, <1>3, UnchangedRoots
<1> QED BY <1>2, <1>3 DEF LockAndRun, AbortMatch

LEMMA RunFreshRoots ==
    ASSUME TypeOK, NEW t \in Threads, RunFresh(t)
    PROVE  SameRoots /\ SameOpen
<1> DEFINE m == Top(t).match
           k == Top(t).cmd.key
<1>1. AtCommand(t, "fresh") /\ FreshVersion(t, m, k)
  BY DEF RunFresh
<1>2. Top(t).cmd.cmd = "fresh" /\ Top(t).cmd \in Commands /\ m \in MatchRefs
  BY <1>1, AtCommandTyped, InBody
<1>3. k \in AtomicallyKeys
  BY <1>2 DEF Commands, FreeCommands, SeriallyCmd
<1> HIDE DEF m, k
<1>4. \A x \in Versions : versions'[x].root = versions[x].root
  BY <1>1, <1>2, <1>3, NewVersion
<1>5. SameOpen
  BY <1>1, <1>2, MatchOpen DEF FreshVersion
<1> QED BY <1>4, <1>5 DEF SameRoots

LEMMA EndRoots ==
    ASSUME TypeOK, NEW t \in Threads, EndBody(t) \/ MatchCompleted(t)
    PROVE  SameRoots /\ SameOpen
<1>1. \E op \in EndOps : At(t, op)
  BY DEF EndBody, MatchCompleted, EndOps
<1>2. Top(t).ref \in MatchRefs
  BY <1>1, AtMatch DEF EndOps, MatchOps
<1>3. matches' = matches \/ matches' = [matches EXCEPT ![Top(t).ref].completed = TRUE]
  BY DEF EndBody, MatchCompleted
<1>4. SameOpen
  BY <1>2, <1>3, MatchOpen, UnchangedRoots
<1> QED BY <1>4, UnchangedRoots DEF EndBody, MatchCompleted, sideVars

LEMMA DbStepRoots ==
    ASSUME TypeOK, EvaluatorInv, NEW t \in Threads, DbStep(t)
    PROVE  \A v \in Versions : RootKept(v)
<1>1. CASE InsertReuse(t) \/ InsertAdopt(t) \/ MarkRemoved(t)
  BY <1>1, InsertRoots, MarkRemovedRoots, RootsSame
<1>2. CASE RemoveMatch(t) \/ CloseMatch(t)
  BY <1>2, RemoveMatchRoots, CloseMatchRoots
<1>3. CASE InsertPlace(t) \/ Decr(t) \/ DecrKept(t) \/ DecrScheduled(t) \/ TestAgain(t)
           \/ NegateKeep(t) \/ StoreKeep(t) \/ ScheduleRemove(t) \/ SetDue(t) \/ ClearEntry(t)
           \/ RecountKept(t) \/ RemoveSelf(t) \/ CloseStatement(t) \/ SignalWorker(t)
           \/ RetractOne(t) \/ HoldSet(t)
  <2>1. versions' = versions /\ matches' = matches
    BY <1>3 DEF InsertPlace, Decr, DecrKept, DecrScheduled, DecrThen, TestAgain, NegateKeep,
                StoreKeep, ScheduleRemove, SetDue, ClearEntry, RecountKept, RemoveSelf,
                CloseStatement, SignalWorker, RetractOne, HoldSet, sideVars
  <2> QED BY <2>1, UnchangedRoots, RootsSame
<1> QED BY <1>1, <1>2, <1>3 DEF DbStep

LEMMA StepRoots ==
    ASSUME TypeOK, EvaluatorInv, NEW t \in Threads, Step(t)
    PROVE  \A v \in Versions : RootKept(v)
<1>1. CASE DbStep(t)
  BY <1>1, DbStepRoots
<1>2. CASE ClearRoot(t)
  BY <1>2, ClearRootRoots
<1>3. CASE InflightDecr(t)
  <2>1. Top(t).version \in Versions
    BY <1>3, TopTyped, FrameFields DEF InflightDecr, At
  <2>2. Top(t).version # NoVersion
    BY <2>1 DEF Versions, NoVersion
  <2>3. SameRoots
    BY <1>3, <2>1, <2>2, CountsRoots DEF InflightDecr
  <2> QED BY <1>3, <2>3, UnchangedRoots, RootsSame DEF InflightDecr
<1>4. CASE ReactAsWhen(t) \/ ReactAsStmt(t)
  BY <1>4, PushRoots, UnchangedRoots, RootsSame DEF ReactAsWhen, ReactAsStmt
<1>5. CASE RunSay(t) \/ RunFresh(t) \/ Interrupted(t) \/ EndBody(t) \/ MatchCompleted(t)
  BY <1>5, RunSayRoots, RunFreshRoots, InterruptedRoots, EndRoots, RootsSame
<1>6. CASE LockStmt(t)
  <2>1. Top(t).when \in StmtRefs /\ Top(t).stmt \in StmtRefs
    BY <1>6, TopTyped, FrameFields DEF LockStmt, At, RefsOf
  <2> QED BY <1>6, <2>1, LockAndRunRoots, RootsSame DEF LockStmt
<1>7. CASE Converged(t) \/ ReapTakeList(t) \/ ReapEach(t) \/ ReapRoot(t) \/ ReapPutBack(t)
           \/ SysmonCollected(t) \/ RunHold(t) \/ RunPush(t) \/ RunSerially(t) \/ Notify(t)
  <2>1. versions' = versions /\ matches' = matches
    BY <1>7 DEF Converged, ReapTakeList, ReapEach, ReapRoot, ReapPutBack, SysmonCollected, RunHold, HoldLock, RunPush,
                RunSerially, Notify, sideVars
  <2> QED BY <2>1, UnchangedRoots, RootsSame
<1> QED BY <1>1, <1>2, <1>3, <1>4, <1>5, <1>6, <1>7 DEF Step, AtomicallyStep

LEMMA WorkerTakesRoots ==
    ASSUME TypeOK, NEW t \in Threads, WorkerTakes(t)
    PROVE  \A v \in Versions : RootKept(v)
<1>1. PICK item \in BagToSet(work) :
        \/ TakeAssert(t, item)
        \/ TakeRetract(t, item)
        \/ TakeEval(t, item)
        \/ TakeSubscribe(t, item)
        \/ SkipItem(t, item)
        \/ TakeRunWhen(t, item)
  BY DEF WorkerTakes
<1>2. CASE TakeRunWhen(t, item)
  <2>1. item.when \in StmtRefs /\ item.stmt \in StmtRefs \cup {NoRef}
    BY <1>2, TakeItemKeeps, ItemFields DEF TakeRunWhen, RefsOf
  <2> QED BY <1>2, <2>1, LockAndRunRoots, RootsSame DEF TakeRunWhen
<1>3. CASE SkipItem(t, item)
  BY <1>3, SkipItemRoots, RootsSame
<1>4. CASE TakeAssert(t, item) \/ TakeRetract(t, item) \/ TakeEval(t, item)
           \/ TakeSubscribe(t, item)
  BY <1>4, UnchangedRoots, RootsSame DEF TakeAssert, TakeRetract, TakeEval, TakeSubscribe, sideVars
<1> QED BY <1>1, <1>2, <1>3, <1>4

LEMMA NextRoots ==
    ASSUME TypeOK, EvaluatorInv, Next
    PROVE  \A v \in Versions : RootKept(v)
<1>1. CASE \E t \in Threads : Step(t)
  BY <1>1, StepRoots
<1>2. CASE \E t \in Workers : WorkerTakes(t)
  BY <1>2, WorkerTakesRoots DEF Threads
<1>3. CASE SysmonTick
  BY <1>3, UnchangedRoots, RootsSame DEF SysmonTick, SysmonRemoves, SysmonCollects, sideVars
<1>4. CASE Stopped
  BY <1>4, UnchangedRoots, RootsSame DEF Stopped, vars, sideVars
<1> QED BY <1>1, <1>2, <1>3, <1>4 DEF Next

\* A version of When -atomically loses its root only when it or a newer version of
\* its key has converged; before a newer one has, its root is closed only by a
\* call of matchRemoveSelf that had decided so before.
THEOREM RootsKeptCorrect == Spec => RootsKept
<1>1. TypeOK /\ EvaluatorInv /\ [Next]_vars => [\A v \in DOMAIN versions : RootKept(v)]_vars
  <2> SUFFICES ASSUME TypeOK, EvaluatorInv, Next PROVE \A v \in DOMAIN versions : RootKept(v)
    OBVIOUS
  <2> QED BY NextRoots, LensTyped
<1>2. RootsKept <=> [][\A v \in DOMAIN versions : RootKept(v)]_vars
  BY DEF RootsKept, RootKept
<1> QED BY <1>1, <1>2, EvaluatorInvariant, PTL DEF Spec

-----------------------------------------------------------------------------
(* Counting.                                                               *)

\* The places in a sequence, in a family of sequences (the stacks of the threads,
\* say), and in a bag, of what is in S.
Hits(s, S) == {i \in 1 .. Len(s) : s[i] \in S}

AllHits(stacks, S) ==
    {p \in UNION {{t} \X DOMAIN stacks[t] : t \in DOMAIN stacks} : stacks[p[1]][p[2]] \in S}

BagHits(B, S) ==
    {p \in UNION {{x} \X (1 .. B[x]) : x \in BagToSet(B)} : p[1] \in S}

\* Two disjoint sets.
LEMMA DisjointUnion ==
    ASSUME NEW A, NEW B, IsFiniteSet(A), IsFiniteSet(B), A \cap B = {}
    PROVE  IsFiniteSet(A \cup B) /\ Cardinality(A \cup B) = Cardinality(A) + Cardinality(B)
           /\ Cardinality(A) \in Nat /\ Cardinality(B) \in Nat
<1>1. Cardinality(A) \in Nat /\ Cardinality(B) \in Nat
  BY FS_CardinalityType
<1>2. Cardinality({}) = 0
  BY FS_EmptySet
<1>3. IsFiniteSet(A \cup B)
      /\ Cardinality(A \cup B) = Cardinality(A) + Cardinality(B) - Cardinality(A \cap B)
  BY FS_Union, Zenon
<1>4. Cardinality(A \cap B) = 0
  BY <1>2
<1> QED BY <1>1, <1>3, <1>4

\* The places in one stack are finitely many.
LEMMA HitsFinite ==
    ASSUME NEW F, NEW s \in Seq(F), NEW S
    PROVE  IsFiniteSet(Hits(s, S)) /\ Cardinality(Hits(s, S)) \in Nat
<1>1. IsFiniteSet(1 .. Len(s))
  BY FS_Interval, LenProperties
<1>2. Hits(s, S) \in SUBSET (1 .. Len(s))
  BY DEF Hits
<1> QED BY <1>1, <1>2, FS_Subset, FS_CardinalityType

\* The places in a concatenation are those in its parts.
LEMMA HitsConcat ==
    ASSUME NEW F, NEW a \in Seq(F), NEW c \in Seq(F), NEW S
    PROVE  Cardinality(Hits(a \o c, S)) = Cardinality(Hits(a, S)) + Cardinality(Hits(c, S))
<1>1. Len(a) \in Nat /\ Len(c) \in Nat
  BY LenProperties
<1>2. /\ Len(a \o c) = Len(a) + Len(c)
      /\ \A i \in 1 .. Len(a) + Len(c) :
            (a \o c)[i] = IF i <= Len(a) THEN a[i] ELSE c[i - Len(a)]
  BY ConcatProperties
<1> DEFINE up == {i \in Len(a) + 1 .. Len(a) + Len(c) : c[i - Len(a)] \in S}
           g == [i \in Hits(c, S) |-> i + Len(a)]
<1>3. Hits(a \o c, S) = Hits(a, S) \cup up
  BY <1>1, <1>2 DEF Hits
<1>4. Hits(a, S) \cap up = {}
  BY <1>1 DEF Hits
<1>5. g \in Bijection(Hits(c, S), up)
  <2>1. g \in [Hits(c, S) -> up]
    BY <1>1 DEF Hits
  <2>2. \A i, j \in Hits(c, S) : g[i] = g[j] => i = j
    BY <1>1 DEF Hits
  <2>3. \A k \in up : \E i \in Hits(c, S) : g[i] = k
    <3> SUFFICES ASSUME NEW k \in up PROVE \E i \in Hits(c, S) : g[i] = k
      OBVIOUS
    <3>1. k - Len(a) \in Hits(c, S) /\ k - Len(a) + Len(a) = k
      BY <1>1 DEF Hits
    <3> QED BY <3>1
  <2> QED BY <2>1, <2>2, <2>3 DEF Bijection, Injection, Surjection, IsInjective
<1> HIDE DEF up, g
<1>6. IsFiniteSet(up) /\ Cardinality(up) = Cardinality(Hits(c, S))
  BY <1>5, HitsFinite, FS_Bijection DEF ExistsBijection
<1> QED BY <1>3, <1>4, <1>6, HitsFinite, DisjointUnion

\* Everything in T has a stack, before and after.
AreStacks(T, old, new, F) == old \in [T -> Seq(F)] /\ new \in [T -> Seq(F)]

\* One thread's stack and the other threads'.
OtherHits(stacks, S, t) == {p \in AllHits(stacks, S) : p[1] # t}

\* The places in all stacks are those in one thread's and those in the others'.
LEMMA AllHitsSplit ==
    ASSUME NEW F, NEW T, NEW stacks, AreStacks(T, stacks, stacks, F), NEW t \in T, NEW S,
           IsFiniteSet(OtherHits(stacks, S, t))
    PROVE  /\ IsFiniteSet(AllHits(stacks, S))
           /\ Cardinality(AllHits(stacks, S))
              = Cardinality(OtherHits(stacks, S, t)) + Cardinality(Hits(stacks[t], S))
<1> DEFINE own == {t} \X Hits(stacks[t], S)
           g == [i \in Hits(stacks[t], S) |-> <<t, i>>]
<1>1. stacks[t] \in Seq(F) /\ DOMAIN stacks[t] = 1 .. Len(stacks[t]) /\ DOMAIN stacks = T
  BY LenProperties DEF AreStacks
<1>2. AllHits(stacks, S) = OtherHits(stacks, S, t) \cup own
  BY <1>1 DEF AllHits, OtherHits, Hits
<1>3. OtherHits(stacks, S, t) \cap own = {}
  BY DEF OtherHits
<1>6. g \in [Hits(stacks[t], S) -> own]
  OBVIOUS
<1>7. /\ \A i, j \in Hits(stacks[t], S) : g[i] = g[j] => i = j
      /\ \A p \in own : \E i \in Hits(stacks[t], S) : g[i] = p
  OBVIOUS
<1>4. g \in Bijection(Hits(stacks[t], S), own)
  BY <1>6, <1>7, Zenon DEF Bijection, Injection, Surjection, IsInjective
<1> HIDE DEF own, g
<1>5. IsFiniteSet(own) /\ Cardinality(own) = Cardinality(Hits(stacks[t], S))
  BY <1>1, <1>4, HitsFinite, FS_Bijection DEF ExistsBijection
<1> QED BY <1>2, <1>3, <1>5, DisjointUnion

\* One thread goes from a \o c to b \o c, while what counts stays the same in all
\* frames that stay.
Becomes(old, new, t, a, b, c) ==
    /\ \A u \in DOMAIN old \ {t} : new[u] = old[u]
    /\ old[t] = a \o c /\ new[t] = b \o c

\* The frames that stay are in S before the step as they are in R after it.
Agrees(old, t, c, S, R) ==
    /\ \A i \in 1 .. Len(c) : c[i] \in S <=> c[i] \in R
    /\ \A u \in DOMAIN old \ {t} : \A i \in 1 .. Len(old[u]) : old[u][i] \in S <=> old[u][i] \in R

\* So the number of places changes by what the thread leaves and what it calls.
LEMMA StackChange ==
    ASSUME NEW F, NEW T, NEW old, NEW new, AreStacks(T, old, new, F),
           NEW t \in T, NEW a \in Seq(F), NEW b \in Seq(F), NEW c \in Seq(F),
           Becomes(old, new, t, a, b, c),
           NEW S, NEW R, Agrees(old, t, c, S, R), IsFiniteSet(AllHits(old, S))
    PROVE  /\ IsFiniteSet(AllHits(new, R))
           /\ Cardinality(AllHits(new, R))
              = Cardinality(AllHits(old, S)) - Cardinality(Hits(a, S)) + Cardinality(Hits(b, R))
<1>0. AreStacks(T, old, old, F) /\ AreStacks(T, new, new, F)
  BY DEF AreStacks
<1>1. OtherHits(new, R, t) = OtherHits(old, S, t)
  <2>1. /\ \A u \in T : DOMAIN old[u] = 1 .. Len(old[u]) /\ DOMAIN new[u] = 1 .. Len(new[u])
        /\ DOMAIN old = T /\ DOMAIN new = T
    BY LenProperties DEF AreStacks
  <2>2. ASSUME NEW u \in T \ {t}, NEW i
        PROVE  i \in DOMAIN old[u] /\ old[u][i] \in S <=> i \in DOMAIN new[u] /\ new[u][i] \in R
    BY <2>1 DEF Becomes, Agrees
  <2> QED BY <2>1, <2>2 DEF OtherHits, AllHits
<1>2. IsFiniteSet(OtherHits(old, S, t)) /\ Cardinality(OtherHits(old, S, t)) \in Nat
  <2>1. OtherHits(old, S, t) \in SUBSET AllHits(old, S)
    BY DEF OtherHits
  <2> QED BY <2>1, FS_Subset, FS_CardinalityType
<1>3. Cardinality(AllHits(old, S)) = Cardinality(OtherHits(old, S, t)) + Cardinality(Hits(old[t], S))
  BY <1>0, <1>2, AllHitsSplit
<1>4. IsFiniteSet(AllHits(new, R))
      /\ Cardinality(AllHits(new, R)) = Cardinality(OtherHits(old, S, t)) + Cardinality(Hits(new[t], R))
  BY <1>0, <1>1, <1>2, AllHitsSplit
<1>5. Hits(c, S) = Hits(c, R)
  BY DEF Hits, Agrees
<1>6. Cardinality(Hits(old[t], S)) = Cardinality(Hits(a, S)) + Cardinality(Hits(c, S))
  BY HitsConcat DEF Becomes
<1>7. Cardinality(Hits(new[t], R)) = Cardinality(Hits(b, R)) + Cardinality(Hits(c, R))
  BY HitsConcat DEF Becomes
<1>8. /\ Cardinality(Hits(a, S)) \in Nat /\ Cardinality(Hits(c, S)) \in Nat
      /\ Cardinality(Hits(b, R)) \in Nat
  BY HitsFinite
<1> QED BY <1>2, <1>3, <1>4, <1>5, <1>6, <1>7, <1>8

\* One more copy of each element of a set.
LEMMA BagGrows ==
    ASSUME NEW B, IsABag(B), NEW A, NEW S, NEW R,
           \A x \in BagToSet(B) : x \in S <=> x \in R,
           IsFiniteSet(A \cap R), IsFiniteSet(BagHits(B, S))
    PROVE  /\ IsFiniteSet(BagHits(B (+) SetToBag(A), R))
           /\ Cardinality(BagHits(B (+) SetToBag(A), R))
              = Cardinality(BagHits(B, S)) + Cardinality(A \cap R)
<1> DEFINE copies(x) == IF x \in BagToSet(B) THEN B[x] ELSE 0
           C == B (+) SetToBag(A)
           g == [x \in A \cap R |-> <<x, copies(x) + 1>>]
           added == {<<x, copies(x) + 1>> : x \in A \cap R}
<1>1. \A x : copies(x) \in Nat
  BY DEF IsABag, BagToSet
<1>2. BagToSet(C) = BagToSet(B) \cup A
  BY DEF (+), SetToBag, BagToSet
<1>3. \A x \in BagToSet(C) : C[x] = copies(x) + (IF x \in A THEN 1 ELSE 0)
  BY DEF (+), SetToBag, BagToSet
<1>4. \A x \in BagToSet(B) : B[x] = copies(x)
  OBVIOUS
<1>5. \A x : x \notin BagToSet(B) => 1 .. copies(x) = {}
  OBVIOUS
<1> HIDE DEF copies, C
<1>6. BagHits(C, R) = BagHits(B, S) \cup added
  <2>1. ASSUME NEW p \in BagHits(C, R) PROVE p \in BagHits(B, S) \cup added
    <3>1. PICK x \in BagToSet(C), n \in Nat : n \in 1 .. C[x] /\ p = <<x, n>> /\ x \in R
      BY DEF BagHits
    <3>2. CASE n \in 1 .. copies(x)
      <4>1. x \in BagToSet(B)
        BY <1>5, <3>2
      <4> QED BY <1>4, <3>1, <3>2, <4>1 DEF BagHits
    <3>3. CASE n \notin 1 .. copies(x)
      <4>1. x \in A /\ n = copies(x) + 1
        BY <1>1, <1>3, <3>1, <3>3
      <4> QED BY <3>1, <4>1
    <3> QED BY <3>2, <3>3
  <2>2. ASSUME NEW p \in BagHits(B, S) PROVE p \in BagHits(C, R)
    <3>1. PICK x \in BagToSet(B), n \in Nat : n \in 1 .. B[x] /\ p = <<x, n>> /\ x \in S
      BY DEF BagHits
    <3>2. x \in BagToSet(C) /\ n \in 1 .. C[x] /\ x \in R
      BY <1>1, <1>2, <1>3, <1>4, <3>1
    <3> QED BY <3>1, <3>2 DEF BagHits
  <2>3. ASSUME NEW x \in A \cap R PROVE <<x, copies(x) + 1>> \in BagHits(C, R)
    <3>1. x \in BagToSet(C) /\ copies(x) + 1 \in 1 .. C[x]
      BY <1>1, <1>2, <1>3
    <3> QED BY <3>1 DEF BagHits
  <2> QED BY <2>1, <2>2, <2>3
<1>7. BagHits(B, S) \cap added = {}
  <2> SUFFICES ASSUME NEW x \in A \cap R, <<x, copies(x) + 1>> \in BagHits(B, S) PROVE FALSE
    OBVIOUS
  <2>1. x \in BagToSet(B) /\ copies(x) + 1 \in 1 .. B[x]
    BY DEF BagHits
  <2> QED BY <1>1, <1>4, <2>1
<1>8. g \in Bijection(A \cap R, added)
  BY DEF Bijection, Injection, Surjection, IsInjective
<1> HIDE DEF g, added
<1>9. IsFiniteSet(added) /\ Cardinality(added) = Cardinality(A \cap R)
  BY <1>8, FS_Bijection DEF ExistsBijection
<1> QED BY <1>6, <1>7, <1>9, DisjointUnion DEF C

\* One copy less.
LEMMA BagShrinks ==
    ASSUME NEW B, IsABag(B), NEW x \in BagToSet(B), NEW S, NEW R,
           \A y \in BagToSet(B) : y \in S <=> y \in R,
           IsFiniteSet(BagHits(B, S))
    PROVE  /\ IsFiniteSet(BagHits(B (-) SetToBag({x}), R))
           /\ Cardinality(BagHits(B (-) SetToBag({x}), R))
              = Cardinality(BagHits(B, S)) - (IF x \in S THEN 1 ELSE 0)
           /\ Cardinality(BagHits(B, S)) \in Nat
<1> DEFINE C == B (-) SetToBag({x})
           place == <<x, B[x]>>
<1>1. \A y \in BagToSet(B) : B[y] \in Nat /\ B[y] > 0
  BY DEF IsABag, BagToSet
<1>2. /\ BagToSet(C) = {y \in BagToSet(B) : y = x => B[x] > 1}
      /\ \A y \in BagToSet(C) : C[y] = IF y = x THEN B[x] - 1 ELSE B[y]
  BY <1>1 DEF (-), SetToBag, BagToSet
<1> HIDE DEF C
<1>3. BagHits(C, R) = BagHits(B, S) \ {place}
  <2>1. ASSUME NEW p \in BagHits(C, R) PROVE p \in BagHits(B, S) \ {place}
    <3>1. PICK y \in BagToSet(C), n \in Nat : n \in 1 .. C[y] /\ p = <<y, n>> /\ y \in R
      BY DEF BagHits
    <3>2. y \in BagToSet(B) /\ n \in 1 .. B[y] /\ y \in S /\ (y = x => n # B[x])
      BY <1>1, <1>2, <3>1
    <3>3. p # place
      BY <3>1, <3>2
    <3> QED BY <3>1, <3>2, <3>3 DEF BagHits
  <2>2. ASSUME NEW p \in BagHits(B, S), p # place PROVE p \in BagHits(C, R)
    <3>1. PICK y \in BagToSet(B), n \in Nat : n \in 1 .. B[y] /\ p = <<y, n>> /\ y \in S
      BY DEF BagHits
    <3>2. y = x => n # B[x]
      BY <2>2, <3>1
    <3>3. y \in BagToSet(C) /\ n \in 1 .. C[y] /\ y \in R
      BY <1>1, <1>2, <3>1, <3>2
    <3> QED BY <3>1, <3>3 DEF BagHits
  <2> QED BY <2>1, <2>2
<1>4. place \in BagHits(B, S) <=> x \in S
  <2>1. B[x] \in 1 .. B[x]
    BY <1>1
  <2> QED BY <2>1 DEF BagHits
<1> HIDE DEF place
<1>5. /\ IsFiniteSet(BagHits(B, S) \ {place})
      /\ Cardinality(BagHits(B, S) \ {place})
         = IF place \in BagHits(B, S) THEN Cardinality(BagHits(B, S)) - 1
           ELSE Cardinality(BagHits(B, S))
  BY FS_RemoveElement
<1>6. Cardinality(BagHits(B, S)) \in Nat
  BY FS_CardinalityType
<1>7. Cardinality(BagHits(B, S) \ {place})
      = Cardinality(BagHits(B, S)) - (IF x \in S THEN 1 ELSE 0)
  BY <1>4, <1>5, <1>6
<1> QED BY <1>3, <1>5, <1>6, <1>7 DEF C

-----------------------------------------------------------------------------
(* What counts for version v, on the stacks and in the queues.             *)

\* The frames and items that count for v; those with a When and a statement of v
\* are in both sets of their kind.
OnStack(v) == {f \in Frames : FrameCounts(f, v)}
OnStackWhen(v) == {f \in Frames : FrameCountsWhen(f, v)}
Queued(v) == {item \in WorkItems : ItemCounts(item, v)}
QueuedWhen(v) == {item \in WorkItems : ItemCountsWhen(item, v)}

\* They are at finitely many places, so that these can be counted.
FiniteStacks(v) ==
    IsFiniteSet(AllHits(todo, OnStack(v))) /\ IsFiniteSet(AllHits(todo, OnStackWhen(v)))
StackWeight(v) ==
    Cardinality(AllHits(todo, OnStack(v))) + Cardinality(AllHits(todo, OnStackWhen(v)))

FiniteQueue(v) ==
    IsFiniteSet(BagHits(work, Queued(v))) /\ IsFiniteSet(BagHits(work, QueuedWhen(v)))
QueueWeight(v) ==
    Cardinality(BagHits(work, Queued(v))) + Cardinality(BagHits(work, QueuedWhen(v)))

\* The counter of v is what goes on in v, plus the increments that are lost.
Balanced(v) ==
    /\ FiniteStacks(v) /\ FiniteQueue(v)
    /\ versions[v].inflight = StackWeight(v) + QueueWeight(v) + versions[v].lost

\* A statement that is to be hung under its parent has the version it was made for.
AdoptsAgree ==
    \A t \in Threads : \A i \in 1 .. Len(todo[t]) :
        todo[t][i].op = "adopt" =>
            /\ todo[t][i].ref \in StmtRefs
            /\ stmts[todo[t][i].ref].version = todo[t][i].version

\* The inductive invariant of InflightCounts.
CountsInv == AdoptsAgree /\ \A v \in Versions : Balanced(v)

\* It says what InflightCounts says: the places are those InProgress counts.
LEMMA CountsAreExact ==
    ASSUME TypeOK, CountsInv
    PROVE  InflightCounts
<1> SUFFICES ASSUME NEW v \in DOMAIN versions
             PROVE  versions[v].inflight = InProgress(v) + versions[v].lost
  BY DEF InflightCounts
<1>1. Balanced(v)
  BY LensTyped DEF CountsInv, Versions
<1>2. /\ \A t \in Threads : \A i \in DOMAIN todo[t] : todo[t][i] \in Frames
      /\ DOMAIN todo = Threads
  BY ElementOfSeq DEF TypeOK
<1>3. BagToSet(work) \subseteq WorkItems
  BY DEF TypeOK
<1>4. {p \in FramePlaces : FrameCounts(todo[p[1]][p[2]], v)} = AllHits(todo, OnStack(v))
  BY <1>2 DEF FramePlaces, AllHits, OnStack
<1>5. {p \in FramePlaces : FrameCountsWhen(todo[p[1]][p[2]], v)} = AllHits(todo, OnStackWhen(v))
  BY <1>2 DEF FramePlaces, AllHits, OnStackWhen
<1>6. {p \in ItemPlaces : ItemCounts(p[1], v)} = BagHits(work, Queued(v))
  BY <1>3 DEF ItemPlaces, BagHits, Queued
<1>7. {p \in ItemPlaces : ItemCountsWhen(p[1], v)} = BagHits(work, QueuedWhen(v))
  BY <1>3 DEF ItemPlaces, BagHits, QueuedWhen
<1>8. /\ Cardinality(AllHits(todo, OnStack(v))) \in Nat
      /\ Cardinality(AllHits(todo, OnStackWhen(v))) \in Nat
      /\ Cardinality(BagHits(work, Queued(v))) \in Nat
      /\ Cardinality(BagHits(work, QueuedWhen(v))) \in Nat
  BY <1>1, FS_CardinalityType DEF Balanced, FiniteStacks, FiniteQueue
<1>9. versions[v].inflight = StackWeight(v) + QueueWeight(v) + versions[v].lost
  BY <1>1 DEF Balanced
<1>11. InProgress(v) = Cardinality(AllHits(todo, OnStack(v)))
                       + Cardinality(AllHits(todo, OnStackWhen(v)))
                       + Cardinality(BagHits(work, Queued(v)))
                       + Cardinality(BagHits(work, QueuedWhen(v)))
  BY <1>4, <1>5, <1>6, <1>7, Zenon DEF InProgress
<1>10. InProgress(v) = StackWeight(v) + QueueWeight(v)
  BY <1>8, <1>11 DEF StackWeight, QueueWeight
<1> QED BY <1>9, <1>10

\* How often frames count.
Weight(frames, S, R) == Cardinality(Hits(frames, S)) + Cardinality(Hits(frames, R))

\* The frame counts after the step as it did before.
Same(f, v) ==
    /\ FrameCounts(f, v)' <=> FrameCounts(f, v)
    /\ FrameCountsWhen(f, v)' <=> FrameCountsWhen(f, v)

\* Thread t goes from a \o c to b \o c, and only the frames in X count otherwise
\* than before.
Goes(t, a, b, c) == Moves(t) /\ todo[t] = a \o c /\ todo'[t] = b \o c

\* Only frames in X may count otherwise than before, and none of those that stay
\* is one.
SameBut(X, v) == \A f \in Frames \ X : Same(f, v)

Avoids(t, c, X) ==
    /\ \A i \in 1 .. Len(c) : c[i] \notin X
    /\ \A u \in Threads \ {t} : \A i \in 1 .. Len(todo[u]) : todo[u][i] \notin X

\* What the stacks count then changes by what a and b count.
LEMMA StackStep ==
    ASSUME TypeOK, TypeOK', NEW v, FiniteStacks(v), NEW t \in Threads,
           NEW F, NEW a \in Seq(F), NEW b \in Seq(F), NEW c \in Seq(F), Goes(t, a, b, c),
           NEW X, SameBut(X, v), Avoids(t, c, X)
    PROVE  /\ FiniteStacks(v)'
           /\ StackWeight(v)' = StackWeight(v) - Weight(a, OnStack(v), OnStackWhen(v))
                                + Weight(b, OnStack(v)', OnStackWhen(v)')
<1> DEFINE G == F \cup Frames \cup Frames'
           S == OnStack(v)
           R == OnStack(v)'
           SW == OnStackWhen(v)
           RW == OnStackWhen(v)'
<1> USE DEF Goes
<1>1. PICK new : new = todo'
  OBVIOUS
<1>2. Seq(F) \subseteq Seq(G) /\ Seq(Frames) \subseteq Seq(G) /\ Seq(Frames') \subseteq Seq(G)
  BY SeqMonotonic
<1>3. todo \in [Threads -> Seq(Frames)] /\ new \in [Threads -> Seq(Frames')]
  BY <1>1 DEF TypeOK
<1>4. todo \in [Threads -> Seq(G)] /\ new \in [Threads -> Seq(G)]
  BY <1>2, <1>3
<1>5. a \in Seq(G) /\ b \in Seq(G) /\ c \in Seq(G)
  BY <1>2
<1>6. \A u \in Threads \ {t} : new[u] = todo[u]
  BY <1>1 DEF Moves
<1>7. \A u \in Threads : \A i \in 1 .. Len(todo[u]) : todo[u][i] \in Frames
  BY <1>3, ElementOfSeq
<1>8. \A u \in Threads : \A i \in 1 .. Len(new[u]) : new[u][i] \in Frames'
  BY <1>3, ElementOfSeq
<1>9. \A f \in Frames \cap Frames' : f \notin X => (f \in S <=> f \in R) /\ (f \in SW <=> f \in RW)
  BY DEF Same, SameBut, OnStack, OnStackWhen
<1> HIDE DEF G, S, R, SW, RW
<1>10. \A i \in 1 .. Len(c) : c[i] \in Frames \cap Frames'
  <2> SUFFICES ASSUME NEW i \in 1 .. Len(c) PROVE c[i] \in Frames \cap Frames'
    OBVIOUS
  <2>1. Len(a) \in Nat /\ Len(b) \in Nat /\ Len(c) \in Nat
    BY LenProperties
  <2>2. Len(a) + i \in 1 .. Len(todo[t]) /\ todo[t][Len(a) + i] = c[i]
    BY <2>1, ConcatProperties
  <2>3. Len(b) + i \in 1 .. Len(new[t]) /\ new[t][Len(b) + i] = c[i]
    BY <1>1, <2>1, ConcatProperties
  <2> QED BY <1>7, <1>8, <2>2, <2>3
<1>11. /\ \A i \in 1 .. Len(c) : c[i] \in S <=> c[i] \in R
       /\ \A i \in 1 .. Len(c) : c[i] \in SW <=> c[i] \in RW
  BY <1>9, <1>10 DEF Avoids
<1>12. /\ \A u \in Threads \ {t} : \A i \in 1 .. Len(todo[u]) : todo[u][i] \in S <=> todo[u][i] \in R
       /\ \A u \in Threads \ {t} : \A i \in 1 .. Len(todo[u]) : todo[u][i] \in SW <=> todo[u][i] \in RW
  <2> SUFFICES ASSUME NEW u \in Threads \ {t}, NEW i \in 1 .. Len(todo[u])
               PROVE  (todo[u][i] \in S <=> todo[u][i] \in R) /\ (todo[u][i] \in SW <=> todo[u][i] \in RW)
    OBVIOUS
  <2>1. todo[u][i] \in Frames /\ todo[u][i] \in Frames'
    BY <1>6, <1>7, <1>8
  <2> QED BY <1>9, <2>1 DEF Avoids
<1>13. IsFiniteSet(AllHits(todo, S)) /\ IsFiniteSet(AllHits(todo, SW))
  BY DEF FiniteStacks, S, SW
<1>22. AreStacks(Threads, todo, new, G) /\ DOMAIN todo = Threads
  BY <1>4 DEF AreStacks
<1>18. Becomes(todo, new, t, a, b, c)
  BY <1>1, <1>6, <1>22 DEF Becomes
<1>19. Agrees(todo, t, c, S, R) /\ Agrees(todo, t, c, SW, RW)
  BY <1>11, <1>12, <1>22 DEF Agrees
<1>14. /\ IsFiniteSet(AllHits(new, R))
       /\ Cardinality(AllHits(new, R))
          = Cardinality(AllHits(todo, S)) - Cardinality(Hits(a, S)) + Cardinality(Hits(b, R))
  BY <1>5, <1>13, <1>18, <1>19, <1>22, StackChange
<1>15. /\ IsFiniteSet(AllHits(new, RW))
       /\ Cardinality(AllHits(new, RW))
          = Cardinality(AllHits(todo, SW)) - Cardinality(Hits(a, SW)) + Cardinality(Hits(b, RW))
  BY <1>5, <1>13, <1>18, <1>19, <1>22, StackChange
<1>16. /\ FiniteStacks(v)' = (IsFiniteSet(AllHits(new, R)) /\ IsFiniteSet(AllHits(new, RW)))
       /\ StackWeight(v)' = Cardinality(AllHits(new, R)) + Cardinality(AllHits(new, RW))
  BY <1>1 DEF FiniteStacks, StackWeight, R, RW, AllHits
<1>17. /\ Cardinality(AllHits(todo, S)) \in Nat /\ Cardinality(AllHits(todo, SW)) \in Nat
       /\ Cardinality(Hits(a, S)) \in Nat /\ Cardinality(Hits(a, SW)) \in Nat
       /\ Cardinality(Hits(b, R)) \in Nat /\ Cardinality(Hits(b, RW)) \in Nat
  BY <1>13, HitsFinite, FS_CardinalityType
<1>20. /\ StackWeight(v) = Cardinality(AllHits(todo, S)) + Cardinality(AllHits(todo, SW))
       /\ Weight(a, OnStack(v), OnStackWhen(v)) = Cardinality(Hits(a, S)) + Cardinality(Hits(a, SW))
       /\ Weight(b, OnStack(v)', OnStackWhen(v)') = Cardinality(Hits(b, R)) + Cardinality(Hits(b, RW))
  BY DEF StackWeight, Weight, S, SW, R, RW
<1>21. FiniteStacks(v)'
  BY <1>14, <1>15, <1>16
<1> QED BY <1>14, <1>15, <1>16, <1>17, <1>20, <1>21

\* The frames that can count.
CountedOps == {"place", "reuse", "adopt", "inflightDecr", "react", "reactAsStmt", "endBody",
               "lockStmt"}

\* No other frame counts.
LEMMA OnStackOps ==
    ASSUME NEW v
    PROVE  /\ \A f \in OnStack(v) \cup OnStackWhen(v) : f.op \in CountedOps
           /\ \A f \in OnStack(v)' \cup OnStackWhen(v)' : f.op \in CountedOps
BY DEF OnStack, OnStackWhen, FrameCounts, FrameCountsWhen, CountedOps

LEMMA NoWeight ==
    ASSUME NEW frames, Calls(frames, CountedOps), NEW S, NEW R,
           \A f \in S \cup R : f.op \in CountedOps
    PROVE  Weight(frames, S, R) = 0
<1>1. Hits(frames, S) = {} /\ Hits(frames, R) = {}
  BY DEF Hits, Calls
<1>2. Cardinality({}) = 0
  BY FS_EmptySet
<1> QED BY <1>1, <1>2 DEF Weight

LEMMA OneHit ==
    ASSUME NEW f, NEW S
    PROVE  Cardinality(Hits(<<f>>, S)) = IF f \in S THEN 1 ELSE 0
<1>1. Len(<<f>>) = 1 /\ <<f>>[1] = f /\ 1 .. 1 = {1}
  OBVIOUS
<1>2. CASE f \in S
  <2>1. Hits(<<f>>, S) = {1}
    BY <1>1, <1>2 DEF Hits
  <2> QED BY <1>2, <2>1, FS_Singleton
<1>3. CASE f \notin S
  <2>1. Hits(<<f>>, S) = {}
    BY <1>1, <1>3 DEF Hits
  <2> QED BY <1>3, <2>1, FS_EmptySet
<1> QED BY <1>2, <1>3

LEMMA OneWeight ==
    ASSUME NEW f, NEW S, NEW R
    PROVE  Weight(<<f>>, S, R) = (IF f \in S THEN 1 ELSE 0) + (IF f \in R THEN 1 ELSE 0)
BY OneHit DEF Weight

LEMMA WeightConcat ==
    ASSUME NEW F, NEW a \in Seq(F), NEW b \in Seq(F), NEW S, NEW R
    PROVE  /\ Weight(a \o b, S, R) = Weight(a, S, R) + Weight(b, S, R)
           /\ Weight(a, S, R) \in Nat /\ Weight(b, S, R) \in Nat
<1>1. /\ Cardinality(Hits(a, S)) \in Nat /\ Cardinality(Hits(a, R)) \in Nat
      /\ Cardinality(Hits(b, S)) \in Nat /\ Cardinality(Hits(b, R)) \in Nat
  BY HitsFinite
<1>2. /\ Cardinality(Hits(a \o b, S)) = Cardinality(Hits(a, S)) + Cardinality(Hits(b, S))
      /\ Cardinality(Hits(a \o b, R)) = Cardinality(Hits(a, R)) + Cardinality(Hits(b, R))
  BY HitsConcat
<1> QED BY <1>1, <1>2 DEF Weight

\* Statements keep their versions, and frames and items count as before, but for
\* the end of a body whose match gets another version.
StmtVersions == \A s \in StmtRefs : stmts'[s].version = stmts[s].version

LEMMA SameFrames ==
    ASSUME TypeOK, StmtVersions, NEW v, NEW f \in Frames,
           f.op = "endBody" => matches'[f.ref].version = matches[f.ref].version
    PROVE  Same(f, v)
<1>1. f.op \in {"react", "reactAsStmt"} => stmts'[f.ref].version = stmts[f.ref].version
  BY FrameFields DEF StmtOps, StmtVersions
<1>2. f.op = "lockStmt" => VersionOf(f.stmt)' = VersionOf(f.stmt) /\ VersionOf(f.when)' = VersionOf(f.when)
  BY FrameFields DEF StmtVersions, VersionOf, RefsOf
<1> QED BY <1>1, <1>2 DEF Same, FrameCounts, FrameCountsWhen

LEMMA SameFramesAll ==
    ASSUME TypeOK, StmtVersions, SameVersions, NEW v
    PROVE  \A f \in Frames : Same(f, v)
<1> SUFFICES ASSUME NEW f \in Frames PROVE Same(f, v)
  OBVIOUS
<1>1. f.op = "endBody" => matches'[f.ref].version = matches[f.ref].version
  BY FrameFields DEF MatchOps, SameVersions
<1> QED BY <1>1, SameFrames

LEMMA SameItems ==
    ASSUME TypeOK, StmtVersions, NEW v
    PROVE  \A item \in WorkItems : /\ ItemCounts(item, v)' <=> ItemCounts(item, v)
                                   /\ ItemCountsWhen(item, v)' <=> ItemCountsWhen(item, v)
<1> SUFFICES ASSUME NEW item \in WorkItems, item.cmd = "runWhen"
             PROVE  VersionOf(item.stmt)' = VersionOf(item.stmt)
                    /\ VersionOf(item.when)' = VersionOf(item.when)
  BY DEF ItemCounts, ItemCountsWhen
<1> QED BY ItemFields DEF StmtVersions, VersionOf, RefsOf

\* The innermost call is replaced.
LEMMA ThenStep ==
    ASSUME TypeOK, TypeOK', NEW v, FiniteStacks(v), NEW t \in Threads, todo[t] # <<>>,
           NEW frames, \E G : frames \in Seq(G), Then(t, frames), StmtVersions, SameVersions
    PROVE  /\ FiniteStacks(v)'
           /\ StackWeight(v)' = StackWeight(v) - Weight(<<Top(t)>>, OnStack(v), OnStackWhen(v))
                                + Weight(frames, OnStack(v)', OnStackWhen(v)')
<1>1. PICK G : frames \in Seq(G)
  OBVIOUS
<1> DEFINE F == G \cup Frames
           a == <<Top(t)>>
           c == Tail(todo[t])
<1>2. Top(t) \in Frames /\ c \in Seq(Frames) /\ todo[t] \in Seq(Frames)
  BY TopTyped DEF TypeOK
<1>3. a \in Seq(Frames)
  BY <1>2, ShortSeqs
<1>4. frames \in Seq(F) /\ a \in Seq(F) /\ c \in Seq(F)
  BY <1>1, <1>2, <1>3, SeqMonotonic
<1>5. todo[t] = a \o c
  BY <1>2, HeadTailProperties DEF Top
<1>6. todo'[t] = frames \o c
  BY DEF Then, TypeOK
<1>7. Goes(t, a, frames, c)
  BY <1>5, <1>6, ThenMoves DEF Goes
<1>8. SameBut({}, v)
  BY SameFramesAll DEF SameBut
<1> HIDE DEF F, a, c
<1>9. Avoids(t, c, {})
  BY DEF Avoids
<1>10. /\ FiniteStacks(v)'
       /\ StackWeight(v)' = StackWeight(v) - Weight(a, OnStack(v), OnStackWhen(v))
                            + Weight(frames, OnStack(v)', OnStackWhen(v)')
  BY <1>4, <1>7, <1>8, <1>9, StackStep
<1> QED BY <1>10 DEF a

\* The whole stack is.
LEMMA WholeStep ==
    ASSUME TypeOK, TypeOK', NEW v, FiniteStacks(v), NEW t \in Threads, Moves(t),
           NEW X, SameBut(X, v), Avoids(t, <<>>, X)
    PROVE  /\ FiniteStacks(v)'
           /\ StackWeight(v)' = StackWeight(v) - Weight(todo[t], OnStack(v), OnStackWhen(v))
                                + Weight(todo'[t], OnStack(v)', OnStackWhen(v)')
<1> DEFINE F == Frames \cup Frames'
           c == <<>>
<1>1. PICK a : a = todo[t]
  OBVIOUS
<1>2. PICK b : b = todo'[t]
  OBVIOUS
<1>3. a \in Seq(Frames) /\ b \in Seq(Frames')
  BY <1>1, <1>2 DEF TypeOK
<1>4. a \in Seq(F) /\ b \in Seq(F) /\ c \in Seq(F)
  BY <1>3, SeqMonotonic, EmptySeq
<1>5. a \o c = a /\ b \o c = b
  BY <1>4, ConcatEmptySeq
<1>6. Goes(t, a, b, c) /\ Avoids(t, c, X)
  BY <1>1, <1>2, <1>5 DEF Goes
<1> HIDE DEF F, c
<1>7. /\ FiniteStacks(v)'
      /\ StackWeight(v)' = StackWeight(v) - Weight(a, OnStack(v), OnStackWhen(v))
                           + Weight(b, OnStack(v)', OnStackWhen(v)')
  BY <1>4, <1>6, StackStep
<1> QED BY <1>1, <1>2, <1>7

-----------------------------------------------------------------------------
(* The queues and the counters.                                            *)

\* The queues count as before when nothing is pushed or taken.
LEMMA QueueSame ==
    ASSUME TypeOK, TypeOK', StmtVersions, work' = work, NEW v, FiniteQueue(v)
    PROVE  FiniteQueue(v)' /\ QueueWeight(v)' = QueueWeight(v)
<1>1. BagToSet(work) \subseteq WorkItems /\ BagToSet(work) \subseteq WorkItems'
  BY DEF TypeOK
<1>2. \A x \in BagToSet(work) : /\ x \in Queued(v)' <=> x \in Queued(v)
                                /\ x \in QueuedWhen(v)' <=> x \in QueuedWhen(v)
  BY <1>1, SameItems DEF Queued, QueuedWhen
<1>3. /\ BagHits(work, Queued(v)') = BagHits(work, Queued(v))
      /\ BagHits(work, QueuedWhen(v)') = BagHits(work, QueuedWhen(v))
  BY <1>2 DEF BagHits
<1>4. /\ FiniteQueue(v)' = (IsFiniteSet(BagHits(work, Queued(v)')) /\ IsFiniteSet(BagHits(work, QueuedWhen(v)')))
      /\ QueueWeight(v)' = Cardinality(BagHits(work, Queued(v)')) + Cardinality(BagHits(work, QueuedWhen(v)'))
  BY DEF FiniteQueue, QueueWeight, BagHits
<1> QED BY <1>3, <1>4 DEF FiniteQueue, QueueWeight

\* Items are pushed.
LEMMA QueueGrows ==
    ASSUME TypeOK, TypeOK', StmtVersions, NEW A, work' = work (+) SetToBag(A),
           NEW v, FiniteQueue(v),
           IsFiniteSet(A \cap Queued(v)'), IsFiniteSet(A \cap QueuedWhen(v)')
    PROVE  /\ FiniteQueue(v)'
           /\ QueueWeight(v)' = QueueWeight(v) + Cardinality(A \cap Queued(v)')
                                + Cardinality(A \cap QueuedWhen(v)')
<1>1. /\ IsABag(work) /\ BagToSet(work) \subseteq WorkItems
      /\ IsABag(work') /\ BagToSet(work') \subseteq WorkItems'
  BY DEF TypeOK
<1>2. BagToSet(work) \subseteq BagToSet(work')
  BY DEF BagToSet, (+)
<1>3. /\ \A x \in BagToSet(work) : x \in Queued(v) <=> x \in Queued(v)'
      /\ \A x \in BagToSet(work) : x \in QueuedWhen(v) <=> x \in QueuedWhen(v)'
  BY <1>1, <1>2, SameItems DEF Queued, QueuedWhen
<1>4. PICK new : new = work'
  OBVIOUS
<1>5. /\ FiniteQueue(v)' = (IsFiniteSet(BagHits(new, Queued(v)')) /\ IsFiniteSet(BagHits(new, QueuedWhen(v)')))
      /\ QueueWeight(v)' = Cardinality(BagHits(new, Queued(v)')) + Cardinality(BagHits(new, QueuedWhen(v)'))
  BY <1>4 DEF FiniteQueue, QueueWeight, BagHits, BagToSet
<1>6. IsFiniteSet(BagHits(work, Queued(v))) /\ IsFiniteSet(BagHits(work, QueuedWhen(v)))
  BY DEF FiniteQueue
<1>7. new = work (+) SetToBag(A)
  BY <1>4
<1>8. /\ IsFiniteSet(BagHits(new, Queued(v)'))
      /\ Cardinality(BagHits(new, Queued(v)'))
         = Cardinality(BagHits(work, Queued(v))) + Cardinality(A \cap Queued(v)')
  BY <1>1, <1>3, <1>6, <1>7, BagGrows
<1>9. /\ IsFiniteSet(BagHits(new, QueuedWhen(v)'))
      /\ Cardinality(BagHits(new, QueuedWhen(v)'))
         = Cardinality(BagHits(work, QueuedWhen(v))) + Cardinality(A \cap QueuedWhen(v)')
  BY <1>1, <1>3, <1>6, <1>7, BagGrows
<1>10. /\ Cardinality(BagHits(work, Queued(v))) \in Nat
       /\ Cardinality(BagHits(work, QueuedWhen(v))) \in Nat
       /\ Cardinality(A \cap Queued(v)') \in Nat /\ Cardinality(A \cap QueuedWhen(v)') \in Nat
  BY <1>6, FS_CardinalityType
<1>11. FiniteQueue(v)'
  BY <1>5, <1>8, <1>9
<1> QED BY <1>5, <1>8, <1>9, <1>10, <1>11 DEF QueueWeight

\* An item is taken.
ItemWeight(item, v) ==
    (IF ItemCounts(item, v) THEN 1 ELSE 0) + (IF ItemCountsWhen(item, v) THEN 1 ELSE 0)

LEMMA QueueShrinks ==
    ASSUME TypeOK, TypeOK', StmtVersions, NEW item \in BagToSet(work),
           work' = work (-) SetToBag({item}), StmtRefs \subseteq StmtRefs', RefsOf(Whens) \subseteq RefsOf(Whens)',
           NEW v, FiniteQueue(v)
    PROVE  FiniteQueue(v)' /\ QueueWeight(v)' = QueueWeight(v) - ItemWeight(item, v)
<1>1. /\ IsABag(work) /\ BagToSet(work) \subseteq WorkItems
  BY DEF TypeOK
<1>2. \A x \in WorkItems : x.cmd = "runWhen" => x \in WorkItems'
  BY DEF WorkItems, FreeCommands
<1>3. /\ \A x \in BagToSet(work) : x \in Queued(v) <=> x \in Queued(v)'
      /\ \A x \in BagToSet(work) : x \in QueuedWhen(v) <=> x \in QueuedWhen(v)'
  BY <1>1, <1>2, SameItems DEF Queued, QueuedWhen, ItemCounts, ItemCountsWhen
<1>4. PICK new : new = work'
  OBVIOUS
<1>5. /\ FiniteQueue(v)' = (IsFiniteSet(BagHits(new, Queued(v)')) /\ IsFiniteSet(BagHits(new, QueuedWhen(v)')))
      /\ QueueWeight(v)' = Cardinality(BagHits(new, Queued(v)')) + Cardinality(BagHits(new, QueuedWhen(v)'))
  BY <1>4 DEF FiniteQueue, QueueWeight, BagHits, BagToSet
<1>6. IsFiniteSet(BagHits(work, Queued(v))) /\ IsFiniteSet(BagHits(work, QueuedWhen(v)))
  BY DEF FiniteQueue
<1>7. new = work (-) SetToBag({item})
  BY <1>4
<1>8. /\ IsFiniteSet(BagHits(new, Queued(v)'))
      /\ Cardinality(BagHits(new, Queued(v)'))
         = Cardinality(BagHits(work, Queued(v))) - (IF item \in Queued(v) THEN 1 ELSE 0)
      /\ Cardinality(BagHits(work, Queued(v))) \in Nat
  BY <1>1, <1>3, <1>6, <1>7, BagShrinks
<1>9. /\ IsFiniteSet(BagHits(new, QueuedWhen(v)'))
      /\ Cardinality(BagHits(new, QueuedWhen(v)'))
         = Cardinality(BagHits(work, QueuedWhen(v))) - (IF item \in QueuedWhen(v) THEN 1 ELSE 0)
      /\ Cardinality(BagHits(work, QueuedWhen(v))) \in Nat
  BY <1>1, <1>3, <1>6, <1>7, BagShrinks
<1>10. ItemWeight(item, v) = (IF item \in Queued(v) THEN 1 ELSE 0)
                             + (IF item \in QueuedWhen(v) THEN 1 ELSE 0)
  BY <1>1 DEF ItemWeight, Queued, QueuedWhen
<1>11. FiniteQueue(v)'
  BY <1>5, <1>8, <1>9
<1> QED BY <1>5, <1>8, <1>9, <1>10, <1>11 DEF QueueWeight

\* What the counters owe: an increment that is lost is never given back.
Owed(v) == versions[v].inflight - versions[v].lost

\* The counters are numbers.
CountersTyped ==
    \A v \in Versions : versions[v].inflight \in Int /\ versions[v].lost \in Nat

LEMMA OwedTyped == TypeOK => CountersTyped
BY VersionFields DEF Version, CountersTyped

LEMMA WeightsTyped ==
    ASSUME NEW v
    PROVE  /\ FiniteStacks(v) => StackWeight(v) \in Nat
           /\ FiniteQueue(v) => QueueWeight(v) \in Nat
BY FS_CardinalityType DEF FiniteStacks, FiniteQueue, StackWeight, QueueWeight

\* A step keeps the balance that adds to a counter what it adds to the stacks and
\* queues.
LEMMA BalancedStep ==
    ASSUME TypeOK, TypeOK', NEW v, v \in Versions, v \in Versions', Balanced(v),
           FiniteStacks(v)', FiniteQueue(v)',
           Owed(v)' = Owed(v) + (StackWeight(v)' - StackWeight(v))
                      + (QueueWeight(v)' - QueueWeight(v))
    PROVE  Balanced(v)'
<1>1. versions[v].inflight \in Int /\ versions[v].lost \in Nat
  BY OwedTyped DEF CountersTyped
<1>2. CountersTyped'
  BY OwedTyped, PTL
<1>3. versions'[v].inflight \in Int /\ versions'[v].lost \in Nat
  BY <1>2 DEF CountersTyped
<1>4. StackWeight(v) \in Nat /\ QueueWeight(v) \in Nat
  BY WeightsTyped DEF Balanced
<1>5. (FiniteStacks(v) => StackWeight(v) \in Nat)' /\ (FiniteQueue(v) => QueueWeight(v) \in Nat)'
  BY WeightsTyped, PTL
<1>6. StackWeight(v)' \in Nat /\ QueueWeight(v)' \in Nat
  BY <1>5
<1>7. versions[v].inflight = StackWeight(v) + QueueWeight(v) + versions[v].lost
  BY DEF Balanced
<1>8. versions'[v].inflight - versions'[v].lost
      = versions[v].inflight - versions[v].lost + (StackWeight(v)' - StackWeight(v))
        + (QueueWeight(v)' - QueueWeight(v))
  BY DEF Owed
<1>9. versions'[v].inflight = StackWeight(v)' + QueueWeight(v)' + versions'[v].lost
  BY <1>1, <1>3, <1>4, <1>6, <1>7, <1>8
<1> QED BY <1>9 DEF Balanced

-----------------------------------------------------------------------------
(* Steps.                                                                  *)

\* 1 if b holds, and 0 otherwise.
One(b) == IF b THEN 1 ELSE 0

\* What thread t's innermost call, and the calls it is replaced by, count.
StepWeights(t, frames, v, a, b) ==
    /\ a \in Nat /\ b \in Nat
    /\ Weight(<<Top(t)>>, OnStack(v), OnStackWhen(v)) = a
    /\ Weight(frames, OnStack(v)', OnStackWhen(v)') = b

\* The queues change by d, and the counters by what the stacks and queues do.
QueueBy(v, d) == d \in Int /\ FiniteQueue(v)' /\ QueueWeight(v)' = QueueWeight(v) + d

LEMMA BalancedBy ==
    ASSUME TypeOK, TypeOK', NEW v \in Versions, v \in Versions', Balanced(v), FiniteStacks(v)',
           NEW a \in Nat, NEW b \in Nat, StackWeight(v)' = StackWeight(v) - a + b,
           NEW d, QueueBy(v, d), Owed(v)' = Owed(v) - a + b + d
    PROVE  Balanced(v)'
<1>1. versions[v].inflight \in Int /\ versions[v].lost \in Nat
  BY OwedTyped DEF CountersTyped
<1>2. StackWeight(v) \in Nat /\ QueueWeight(v) \in Nat
  BY WeightsTyped DEF Balanced
<1>3. d \in Int /\ FiniteQueue(v)' /\ QueueWeight(v)' = QueueWeight(v) + d
  BY DEF QueueBy
<1>4. Owed(v) \in Int
  BY <1>1 DEF Owed
<1>5. Owed(v)' = Owed(v) + (StackWeight(v)' - StackWeight(v)) + (QueueWeight(v)' - QueueWeight(v))
  BY <1>2, <1>3, <1>4
<1> QED BY <1>3, <1>5, BalancedStep

\* The same for a step that replaces a thread's innermost call by frames.
LEMMA ThenBalanced ==
    ASSUME TypeOK, TypeOK', NEW v \in Versions, v \in Versions', Balanced(v),
           NEW t \in Threads, todo[t] # <<>>, NEW frames, \E G : frames \in Seq(G),
           Then(t, frames), StmtVersions, SameVersions,
           NEW a, NEW b, StepWeights(t, frames, v, a, b),
           NEW d, QueueBy(v, d), Owed(v)' = Owed(v) - a + b + d
    PROVE  Balanced(v)'
<1>1. FiniteStacks(v)
  BY DEF Balanced
<1>2. FiniteStacks(v)' /\ StackWeight(v)' = StackWeight(v) - a + b
  BY <1>1, ThenStep DEF StepWeights
<1> QED BY <1>2, BalancedBy DEF StepWeights

\* The same for a step that replaces the thread's whole stack.
LEMMA WholeBalanced ==
    ASSUME TypeOK, TypeOK', NEW v \in Versions, v \in Versions', Balanced(v),
           NEW t \in Threads, Moves(t), NEW X, SameBut(X, v), Avoids(t, <<>>, X),
           NEW a \in Nat, NEW b \in Nat,
           Weight(todo[t], OnStack(v), OnStackWhen(v)) = a,
           Weight(todo'[t], OnStack(v)', OnStackWhen(v)') = b,
           NEW d, QueueBy(v, d), Owed(v)' = Owed(v) - a + b + d
    PROVE  Balanced(v)'
<1>1. FiniteStacks(v)
  BY DEF Balanced
<1>2. FiniteStacks(v)' /\ StackWeight(v)' = StackWeight(v) - a + b
  BY <1>1, WholeStep
<1> QED BY <1>2, BalancedBy

\* The queues stay as they are.
LEMMA QueueByNone ==
    ASSUME TypeOK, TypeOK', StmtVersions, work' = work, NEW v, Balanced(v)
    PROVE  QueueBy(v, 0)
<1>1. FiniteQueue(v) /\ QueueWeight(v) \in Nat
  BY WeightsTyped DEF Balanced
<1> QED BY <1>1, QueueSame DEF QueueBy

\* Counters.
LEMMA CountersStep ==
    ASSUME TypeOK, NEW v \in Versions
    PROVE  /\ Owed(v) \in Int
           /\ versions' = versions => Owed(v)' = Owed(v)
           /\ \A w \in Versions \cup {NoVersion} :
                /\ versions' = Incr(versions, w) => Owed(v)' = Owed(v) + One(v = w)
                /\ versions' = Lose(versions, w) => Owed(v)' = Owed(v) - One(v = w)
           /\ \A w \in Versions :
                /\ versions' = [versions EXCEPT ![w].inflight = @ - 1]
                     => Owed(v)' = Owed(v) - One(v = w)
                /\ versions' = [versions EXCEPT ![w].root = NoRef] => Owed(v)' = Owed(v)
<1>1. versions[v].inflight \in Int /\ versions[v].lost \in Nat
  BY OwedTyped DEF CountersTyped
<1>2. DOMAIN versions = Versions /\ v # NoVersion
  BY LensTyped DEF Versions, NoVersion
<1>3. versions[v] \in Version
  BY VersionFields
<1>4. /\ \A x : /\ [versions[v] EXCEPT !.inflight = x].inflight = x
                /\ [versions[v] EXCEPT !.inflight = x].lost = versions[v].lost
                /\ [versions[v] EXCEPT !.lost = x].inflight = versions[v].inflight
                /\ [versions[v] EXCEPT !.lost = x].lost = x
                /\ [versions[v] EXCEPT !.root = x].inflight = versions[v].inflight
                /\ [versions[v] EXCEPT !.root = x].lost = versions[v].lost
  BY <1>3 DEF Version
<1>5. ASSUME NEW w \in Versions \cup {NoVersion}, versions' = Incr(versions, w)
      PROVE  Owed(v)' = Owed(v) + One(v = w)
  <2>1. CASE v = w
    <3>1. versions'[v] = [versions[v] EXCEPT !.inflight = versions[v].inflight + 1]
      BY <1>2, <1>5, <2>1 DEF Incr
    <3> QED BY <1>1, <1>4, <2>1, <3>1 DEF Owed, One
  <2>2. CASE v # w
    <3>1. versions'[v] = versions[v]
      BY <1>2, <1>5, <2>2 DEF Incr
    <3> QED BY <1>1, <2>2, <3>1 DEF Owed, One
  <2> QED BY <2>1, <2>2
<1>6. ASSUME NEW w \in Versions \cup {NoVersion}, versions' = Lose(versions, w)
      PROVE  Owed(v)' = Owed(v) - One(v = w)
  <2>1. CASE v = w
    <3>1. versions'[v] = [versions[v] EXCEPT !.lost = versions[v].lost + 1]
      BY <1>2, <1>6, <2>1 DEF Lose
    <3> QED BY <1>1, <1>4, <2>1, <3>1 DEF Owed, One
  <2>2. CASE v # w
    <3>1. versions'[v] = versions[v]
      BY <1>2, <1>6, <2>2 DEF Lose
    <3> QED BY <1>1, <2>2, <3>1 DEF Owed, One
  <2> QED BY <2>1, <2>2
<1>7. ASSUME NEW w \in Versions, versions' = [versions EXCEPT ![w].inflight = @ - 1]
      PROVE  Owed(v)' = Owed(v) - One(v = w)
  <2>1. CASE v = w
    <3>1. versions'[v] = [versions[v] EXCEPT !.inflight = versions[v].inflight - 1]
      BY <1>2, <1>7, <2>1
    <3> QED BY <1>1, <1>4, <2>1, <3>1 DEF Owed, One
  <2>2. CASE v # w
    <3>1. versions'[v] = versions[v]
      BY <1>2, <1>7, <2>2
    <3> QED BY <1>1, <2>2, <3>1 DEF Owed, One
  <2> QED BY <2>1, <2>2
<1>8. ASSUME NEW w \in Versions, versions' = [versions EXCEPT ![w].root = NoRef]
      PROVE  Owed(v)' = Owed(v)
  <2>1. versions'[v] = versions[v] \/ versions'[v] = [versions[v] EXCEPT !.root = NoRef]
    BY <1>2, <1>8
  <2> QED BY <1>4, <2>1 DEF Owed
<1>9. Owed(v) \in Int /\ (versions' = versions => Owed(v)' = Owed(v))
  BY <1>1 DEF Owed
<1> QED BY <1>5, <1>6, <1>7, <1>8, <1>9

\* Frames that count for no version.
Light(f) == f.op \notin CountedOps \/ (f.op = "place" /\ f.version = NoVersion)
Weightless(frames) ==
    (\E S : frames \in Seq(S)) /\ \A j \in 1 .. Len(frames) : Light(frames[j])

LEMMA LightCounts ==
    ASSUME NEW f, Light(f), NEW v, v # NoVersion
    PROVE  /\ f \notin OnStack(v) /\ f \notin OnStackWhen(v)
           /\ f \notin OnStack(v)' /\ f \notin OnStackWhen(v)'
BY DEF Light, CountedOps, OnStack, OnStackWhen, FrameCounts, FrameCountsWhen

LEMMA WeightlessIsZero ==
    ASSUME NEW frames, Weightless(frames), NEW v, v # NoVersion
    PROVE  /\ Weight(frames, OnStack(v), OnStackWhen(v)) = 0
           /\ Weight(frames, OnStack(v)', OnStackWhen(v)') = 0
<1>1. /\ Hits(frames, OnStack(v)) = {} /\ Hits(frames, OnStackWhen(v)) = {}
      /\ Hits(frames, OnStack(v)') = {} /\ Hits(frames, OnStackWhen(v)') = {}
  BY LightCounts DEF Hits, Weightless
<1>2. Cardinality({}) = 0
  BY FS_EmptySet
<1> QED BY <1>1, <1>2 DEF Weight

LEMMA CallsWeightless ==
    ASSUME NEW frames, Calls(frames, CountedOps)
    PROVE  Weightless(frames)
BY DEF Calls, Weightless, Light

\* Most steps keep the versions of all statements and matches.
LEMMA SteadyKeeps ==
    /\ SteadyStmts => StmtVersions
    /\ SteadyMatches => SameVersions
    /\ SteadyRoots => Versions' = Versions
BY DEF SteadyStmts, StmtVersions, SteadyMatches, SteadyRoots, Versions

\* The stacks stay as they are.
LEMMA SameStacks ==
    ASSUME TypeOK, TypeOK', NEW v, FiniteStacks(v), NEW t \in Threads, todo' = todo,
           StmtVersions, SameVersions, v # NoVersion
    PROVE  FiniteStacks(v)' /\ StackWeight(v)' = StackWeight(v)
<1> DEFINE c == todo[t]
           e == <<>>
<1>1. c \in Seq(Frames) /\ e \in Seq(Frames)
  BY EmptySeq DEF TypeOK
<1>2. e \o c = c
  BY <1>1, ConcatEmptySeq
<1>3. Goes(t, e, e, c)
  BY <1>2 DEF Goes, Moves
<1>4. SameBut({}, v) /\ Avoids(t, c, {})
  BY SameFramesAll DEF SameBut, Avoids
<1>5. Weightless(e)
  BY <1>1 DEF Weightless
<1> HIDE DEF c, e
<1>6. Weight(e, OnStack(v), OnStackWhen(v)) = 0 /\ Weight(e, OnStack(v)', OnStackWhen(v)') = 0
  BY <1>5, WeightlessIsZero
<1>7. /\ FiniteStacks(v)'
      /\ StackWeight(v)' = StackWeight(v) - Weight(e, OnStack(v), OnStackWhen(v))
                           + Weight(e, OnStack(v)', OnStackWhen(v)')
  BY <1>1, <1>3, <1>4, StackStep
<1>8. StackWeight(v) \in Nat
  BY WeightsTyped
<1> QED BY <1>6, <1>7, <1>8

\* The same for a step that leaves the stacks alone.
LEMMA SameBalanced ==
    ASSUME TypeOK, TypeOK', NEW v \in Versions, v \in Versions', Balanced(v),
           NEW t \in Threads, todo' = todo, StmtVersions, SameVersions,
           NEW d, QueueBy(v, d), Owed(v)' = Owed(v) + d
    PROVE  Balanced(v)'
<1>1. FiniteStacks(v) /\ v # NoVersion
  BY DEF Balanced, Versions, NoVersion
<1>2. FiniteStacks(v)' /\ StackWeight(v)' = StackWeight(v)
  BY <1>1, SameStacks
<1>3. StackWeight(v) \in Nat /\ Owed(v) \in Int
  BY <1>1, WeightsTyped, CountersStep
<1>4. StackWeight(v)' = StackWeight(v) - 0 + 0 /\ Owed(v)' = Owed(v) - 0 + 0 + d
  BY <1>2, <1>3 DEF QueueBy
<1> QED BY <1>2, <1>4, BalancedBy

-----------------------------------------------------------------------------
(* Statements to be hung under their parents.                              *)

\* The stack n has no statement to be hung that s does not have.
NoAdopt(s, n) ==
    \A j \in 1 .. Len(n) : n[j].op = "adopt" => \E k \in 1 .. Len(s) : s[k] = n[j]

\* The stacks hold frames.
StackTypes == \A t \in Threads : \A j \in 1 .. Len(todo[t]) : todo[t][j] \in Frames
LEMMA StackTypesHold == TypeOK => StackTypes
BY StackTyped DEF StackTypes

\* A step that calls no new adopt keeps AdoptsAgree.
LEMMA AdoptsStep ==
    ASSUME TypeOK, TypeOK', AdoptsAgree, NEW t \in Threads, Moves(t),
           NoAdopt(todo[t], todo'[t]), StmtVersions
    PROVE  AdoptsAgree'
<1> SUFFICES ASSUME NEW u \in Threads, NEW i \in 1 .. Len(todo'[u]), NEW f, f = todo'[u][i],
                    f.op = "adopt"
             PROVE  f.ref \in StmtRefs' /\ stmts'[f.ref].version = f.version
  BY DEF AdoptsAgree
<1>1. f.ref \in StmtRefs /\ stmts[f.ref].version = f.version
  <2>1. CASE u = t
    <3>1. PICK k \in 1 .. Len(todo[t]) : todo[t][k] = f
      BY <2>1 DEF NoAdopt
    <3> QED BY <3>1 DEF AdoptsAgree
  <2>2. CASE u # t
    BY <2>2 DEF AdoptsAgree, Moves
  <2> QED BY <2>1, <2>2
<1>2. StackTypes'
  BY StackTypesHold, PTL
<1>3. f \in Frames'
  BY <1>2 DEF StackTypes
<1>4. f.ref \in StmtRefs' \cup {NoRef}
  BY <1>3 DEF Frames, DbFrames, AtomicallyFrames, StmtOps, MatchOps, EntryOps
<1>5. f.ref # NoRef
  BY <1>1 DEF StmtRefs, NoRef
<1> QED BY <1>1, <1>4, <1>5 DEF StmtVersions

LEMMA ThenNoAdopt ==
    ASSUME TypeOK, NEW t \in Threads, todo[t] # <<>>, NEW frames, Then(t, frames),
           Calls(frames, {"adopt"})
    PROVE  Moves(t) /\ NoAdopt(todo[t], todo'[t])
<1>1. todo[t] \in Seq(Frames)
  BY DEF TypeOK
<1>2. todo'[t] = frames \o Tail(todo[t]) /\ Moves(t)
  BY ThenMoves
<1> DEFINE s == todo[t]
           n == frames \o Tail(s)
<1>3. /\ Len(frames) \in Nat
      /\ \A j \in 1 .. Len(frames) : n[j] = frames[j]
      /\ \A j \in 1 .. Len(n) : j > Len(frames) => /\ j - Len(frames) + 1 \in 2 .. Len(s)
                                                   /\ n[j] = s[j - Len(frames) + 1]
  BY <1>1, ReplacedTop DEF Calls
<1>4. \A j \in 2 .. Len(s) : j \in 1 .. Len(s)
  OBVIOUS
<1>5. NoAdopt(s, n)
  <2> SUFFICES ASSUME NEW j \in 1 .. Len(n), n[j].op = "adopt"
               PROVE  \E k \in 1 .. Len(s) : s[k] = n[j]
    BY DEF NoAdopt
  <2>1. CASE j > Len(frames)
    BY <1>3, <1>4, <2>1
  <2>2. CASE ~(j > Len(frames))
    <3>1. j \in 1 .. Len(frames)
      BY <1>3, <2>2
    <3> QED BY <1>3, <3>1 DEF Calls
  <2> QED BY <2>1, <2>2
<1> QED BY <1>2, <1>5

LEMMA SameAdopts ==
    ASSUME TypeOK, TypeOK', AdoptsAgree, todo' = todo, StmtVersions, NEW t \in Threads
    PROVE  AdoptsAgree'
<1>1. Moves(t) /\ NoAdopt(todo[t], todo'[t])
  BY DEF Moves, NoAdopt
<1> QED BY <1>1, AdoptsStep

-----------------------------------------------------------------------------
(* Steps that count for no version.                                        *)

LEMMA WeightlessCalls ==
    ASSUME NEW frames, Weightless(frames)
    PROVE  Calls(frames, {"adopt"})
BY DEF Weightless, Light, CountedOps, Calls

\* A step whose innermost call and whose new calls count for nothing, that changes
\* no counter and no count of the queues.
Idly(t) ==
    \/ todo' = todo
    \/ /\ todo[t] # <<>> /\ Light(Top(t))
       /\ \E frames : Weightless(frames) /\ Then(t, frames)

Unowed == \A v \in Versions : Owed(v)' = Owed(v)

Unqueued == \A v \in Versions : Balanced(v) => QueueBy(v, 0)

LEMMA TopWeight ==
    ASSUME NEW f, Light(f), NEW v, v # NoVersion
    PROVE  Weight(<<f>>, OnStack(v), OnStackWhen(v)) = 0
BY LightCounts, OneWeight

\* It keeps CountsInv.
LEMMA IdlyCounts ==
    ASSUME TypeOK, TypeOK', CountsInv, NEW t \in Threads, Idly(t),
           SteadyStmts, SameVersions, SteadyRoots, Unowed, Unqueued
    PROVE  CountsInv'
<1>1. StmtVersions /\ SameVersions /\ Versions' = Versions
  BY SteadyKeeps
<1>2. CASE todo' = todo
  <2>1. AdoptsAgree'
    BY <1>1, <1>2, SameAdopts DEF CountsInv
  <2>2. ASSUME NEW v \in Versions PROVE Balanced(v)'
    <3>1. Balanced(v) /\ QueueBy(v, 0) /\ Owed(v)' = Owed(v) + 0
      BY CountersStep DEF CountsInv, Unqueued, Unowed
    <3> QED BY <1>1, <1>2, <3>1, SameBalanced
  <2> QED BY <1>1, <2>1, <2>2 DEF CountsInv
<1>3. ASSUME todo[t] # <<>>, Light(Top(t)), NEW frames, Weightless(frames), Then(t, frames)
      PROVE  CountsInv'
  <2>1. Moves(t) /\ NoAdopt(todo[t], todo'[t])
    BY <1>3, WeightlessCalls, ThenNoAdopt
  <2>2. AdoptsAgree'
    BY <1>1, <2>1, AdoptsStep DEF CountsInv
  <2>3. ASSUME NEW v \in Versions PROVE Balanced(v)'
    <3>1. Balanced(v) /\ QueueBy(v, 0) /\ Owed(v)' = Owed(v) - 0 + 0 + 0 /\ v # NoVersion
      BY CountersStep DEF CountsInv, Unqueued, Unowed, Versions, NoVersion
    <3>2. StepWeights(t, frames, v, 0, 0)
      BY <1>3, <3>1, TopWeight, WeightlessIsZero DEF StepWeights
    <3>3. \E G : frames \in Seq(G)
      BY <1>3 DEF Weightless
    <3> QED BY <1>1, <1>3, <3>1, <3>2, <3>3, ThenBalanced
  <2> QED BY <1>1, <2>2, <2>3 DEF CountsInv
<1> QED BY <1>2, <1>3 DEF Idly

LEMMA SameOwed ==
    ASSUME TypeOK, versions' = versions
    PROVE  Unowed
BY CountersStep DEF Unowed

LEMMA SameQueue ==
    ASSUME TypeOK, TypeOK', SteadyStmts, work' = work
    PROVE  Unqueued
BY SteadyKeeps, QueueByNone DEF Unqueued

LEMMA ShortWeightless ==
    /\ Weightless(<<>>)
    /\ \A f : Light(f) => Weightless(<<f>>)
    /\ \A op : op \notin CountedOps => \A r : Light(RefFrame(op, r)) /\ Weightless(<<RefFrame(op, r)>>)
<1>1. Weightless(<<>>)
  BY ShortCalls, CallsWeightless
<1>2. ASSUME NEW f, Light(f) PROVE Weightless(<<f>>)
  <2>1. \E S : <<f>> \in Seq(S)
    <3>1. <<f>> \in Seq({f})
      BY ShortSeqs
    <3> QED BY <3>1
  <2>2. \A j \in 1 .. Len(<<f>>) : <<f>>[j] = f
    OBVIOUS
  <2> QED BY <1>2, <2>1, <2>2 DEF Weightless
<1>3. \A op : op \notin CountedOps => \A r : Light(RefFrame(op, r))
  BY DEF Light, RefFrame
<1> QED BY <1>1, <1>2, <1>3

LEMMA WeightlessConcat ==
    ASSUME NEW a, Weightless(a), NEW b, Weightless(b)
    PROVE  Weightless(a \o b)
<1>1. PICK S : a \in Seq(S)
  BY DEF Weightless
<1>2. PICK R : b \in Seq(R)
  BY DEF Weightless
<1>3. a \in Seq(S \cup R) /\ b \in Seq(S \cup R)
  BY <1>1, <1>2, SeqMonotonic
<1>4. Len(a) \in Nat /\ Len(b) \in Nat
  BY <1>3, LenProperties
<1>5. /\ a \o b \in Seq(S \cup R) /\ Len(a \o b) = Len(a) + Len(b)
      /\ \A i \in 1 .. Len(a) + Len(b) : (a \o b)[i] = IF i <= Len(a) THEN a[i] ELSE b[i - Len(a)]
  BY <1>3, ConcatProperties
<1>6. ASSUME NEW i \in 1 .. Len(a \o b) PROVE Light((a \o b)[i])
  <2>1. CASE i <= Len(a)
    <3>1. i \in 1 .. Len(a) /\ (a \o b)[i] = a[i]
      BY <1>4, <1>5, <2>1
    <3> QED BY <3>1 DEF Weightless
  <2>2. CASE ~(i <= Len(a))
    <3>1. i - Len(a) \in 1 .. Len(b) /\ (a \o b)[i] = b[i - Len(a)]
      BY <1>4, <1>5, <2>2
    <3> QED BY <3>1 DEF Weightless
  <2> QED BY <2>1, <2>2
<1> QED BY <1>5, <1>6 DEF Weightless

LEMMA AtIdly ==
    ASSUME NEW t, NEW op, op \notin CountedOps, At(t, op)
    PROVE  \A frames : Weightless(frames) /\ Then(t, frames) => Idly(t)
BY DEF At, Idly, Light

LEMMA AtCommandIdly ==
    ASSUME NEW t, NEW name, AtCommand(t, name)
    PROVE  \A frames : Weightless(frames) /\ Then(t, frames) => Idly(t)
<1>1. At(t, "command") \/ At(t, "eval")
  BY DEF AtCommand
<1>2. "command" \notin CountedOps /\ "eval" \notin CountedOps
  BY DEF CountedOps
<1> QED BY <1>1, <1>2, AtIdly

LEMMA DecrIdly ==
    ASSUME NEW t, Decr(t)
    PROVE  Idly(t)
<1>1. {"decr", "removeSelf", "decrKept", "testAgain"} \cap CountedOps = {}
  BY DEF CountedOps
<1>2. \A frames : Weightless(frames) /\ Then(t, frames) => Idly(t)
  BY <1>1, AtIdly DEF Decr
<1>3. Weightless(<<>>) /\ \A op \in {"removeSelf", "decrKept", "testAgain"} :
                             \A r : Weightless(<<RefFrame(op, r)>>)
  BY <1>1, ShortWeightless
<1> QED BY <1>2, <1>3 DEF Decr

LEMMA DecrThenIdly ==
    ASSUME NEW t, DecrKept(t) \/ DecrScheduled(t)
    PROVE  Idly(t)
<1> DEFINE s == Top(t).ref
<1>1. {"decrKept", "decrScheduled", "removeSelf", "negateKeep", "schedule", "recount"} \cap CountedOps = {}
  BY DEF CountedOps
<1>2. \A frames : Weightless(frames) /\ Then(t, frames) => Idly(t)
  BY <1>1, AtIdly DEF DecrKept, DecrScheduled
<1>3. Weightless(<<>>) /\ \A op \in {"removeSelf", "negateKeep"} : Weightless(<<RefFrame(op, s)>>)
  BY <1>1, ShortWeightless
<1>4. \A op \in {"negateKeep", "schedule", "recount"} : RefFrame(op, s).op \notin CountedOps
  BY <1>1 DEF RefFrame
<1>5. Weightless(<<RefFrame("negateKeep", s), RefFrame("schedule", s), RefFrame("recount", s)>>)
  BY <1>4, ShortCalls, CallsWeightless
<1> QED BY <1>2, <1>3, <1>5 DEF DecrKept, DecrScheduled, DecrThen

LEMMA KeepIdly ==
    ASSUME NEW t, TestAgain(t) \/ NegateKeep(t) \/ StoreKeep(t) \/ RecountKept(t)
    PROVE  Idly(t)
<1>1. {"testAgain", "decrScheduled", "negateKeep", "storeKeep", "recount"} \cap CountedOps = {}
  BY DEF CountedOps
<1>2. \A frames : Weightless(frames) /\ Then(t, frames) => Idly(t)
  BY <1>1, AtIdly DEF TestAgain, NegateKeep, StoreKeep, RecountKept
<1>3. Weightless(<<>>) /\ \A r : Weightless(<<RefFrame("decrScheduled", r)>>)
  BY <1>1, ShortWeightless
<1>4. \A r, k : Weightless(<<[op |-> "storeKeep", ref |-> r, keep |-> k]>>)
  BY <1>1, ShortWeightless DEF Light
<1> QED BY <1>2, <1>3, <1>4 DEF TestAgain, NegateKeep, StoreKeep, RecountKept

LEMMA LaterIdly ==
    ASSUME NEW t, ScheduleRemove(t) \/ SetDue(t) \/ ClearEntry(t)
    PROVE  Idly(t)
<1>1. {"schedule", "setDue", "clearDue", "clearStmt"} \cap CountedOps = {}
  BY DEF CountedOps
<1>2. \A frames : Weightless(frames) /\ Then(t, frames) => Idly(t)
  BY <1>1, AtIdly DEF ScheduleRemove, SetDue, ClearEntry
<1>3. Weightless(<<>>) /\ \A r : Weightless(<<RefFrame("setDue", r)>>)
  BY <1>1, ShortWeightless
<1> QED BY <1>2, <1>3 DEF ScheduleRemove, SetDue, ClearEntry, Idly

LEMMA RemoveIdly ==
    ASSUME TypeOK, NEW t \in Threads, RemoveSelf(t) \/ CloseStatement(t) \/ RetractOne(t) \/ HoldSet(t)
    PROVE  Idly(t)
<1>1. {"removeSelf", "close", "unmatch", "retractOne", "decr", "holdSet"} \cap CountedOps = {}
  BY DEF CountedOps
<1>2. \A frames : Weightless(frames) /\ Then(t, frames) => Idly(t)
  BY <1>1, AtIdly DEF RemoveSelf, CloseStatement, RetractOne, HoldSet
<1>3. Weightless(<<>>) /\ \A op \in {"close", "decr"} : \A r : Weightless(<<RefFrame(op, r)>>)
  BY <1>1, ShortWeightless
<1>4. CASE CloseStatement(t)
  <2>1. stmts[Top(t).ref] \in Stmt
    BY <1>4, AtStmt DEF CloseStatement, StmtOps
  <2>2. stmts[Top(t).ref].kids \in Seq(MatchRefs)
    BY <2>1 DEF Stmt
  <2>3. Weightless(FramesFor("unmatch", stmts[Top(t).ref].kids))
    BY <1>1, <2>2, FramesForCalls, CallsWeightless
  <2> QED BY <1>2, <1>4, <2>3 DEF CloseStatement, Idly
<1> QED BY <1>2, <1>3, <1>4 DEF RemoveSelf, RetractOne, HoldSet, Idly

LEMMA MatchIdly ==
    ASSUME TypeOK, NEW t \in Threads,
           RemoveMatch(t) \/ MarkRemoved(t) \/ CloseMatch(t) \/ SignalWorker(t)
    PROVE  Idly(t)
<1>1. {"unmatch", "markRemoved", "closeMatch", "signal", "decr"} \cap CountedOps = {}
  BY DEF CountedOps
<1>2. \A frames : Weightless(frames) /\ Then(t, frames) => Idly(t)
  BY <1>1, AtIdly DEF RemoveMatch, MarkRemoved, CloseMatch, SignalWorker
<1>3. Weightless(<<>>) /\ \A op \in {"markRemoved", "closeMatch", "signal"} :
                             \A r : Weightless(<<RefFrame(op, r)>>)
  BY <1>1, ShortWeightless
<1>4. ASSUME NEW m \in MatchRefs, Close(t, m) PROVE Idly(t)
  <2>1. matches[m] \in Match
    BY MatchFields
  <2>2. matches[m].kids \in Seq(StmtRefs)
    BY <2>1 DEF Match
  <2>3. Weightless(FramesFor("decr", matches[m].kids))
    BY <1>1, <2>2, FramesForCalls, CallsWeightless
  <2>4. Weightless(FramesFor("decr", matches[m].kids)
                   \o IF matches[m].completed THEN <<>> ELSE <<RefFrame("signal", m)>>)
    BY <1>3, <2>3, WeightlessConcat
  <2> QED BY <1>2, <1>4, <2>4 DEF Close
<1>5. Top(t).ref \in MatchRefs
  BY AtMatch DEF RemoveMatch, MarkRemoved, CloseMatch, SignalWorker, MatchOps
<1> QED BY <1>2, <1>3, <1>4, <1>5 DEF RemoveMatch, MarkRemoved, CloseMatch, SignalWorker

LEMMA AtomicallyIdly ==
    ASSUME TypeOK, NEW t \in Threads,
           Converged(t) \/ ReapTakeList(t) \/ ReapEach(t) \/ ClearRoot(t) \/ ReapRoot(t)
           \/ ReapPutBack(t) \/ SysmonCollected(t) \/ MatchCompleted(t)
    PROVE  Idly(t)
<1>1. {"converged", "reap", "reapEach", "clearRoot", "reapRoot", "collected", "completed",
       "unmatch"} \cap CountedOps = {}
  BY DEF CountedOps
<1>2. \A frames : Weightless(frames) /\ Then(t, frames) => Idly(t)
  BY <1>1, AtIdly DEF Converged, ReapTakeList, ReapEach, ClearRoot, ReapRoot, ReapPutBack,
                      SysmonCollected, MatchCompleted
<1>3. Weightless(<<>>)
  BY ShortWeightless
<1>4. CASE ReapTakeList(t)
  <2>1. Top(t) \in [op : {"reap", "reapEach"}, key : AtomicallyKeys,
                    newer : Versions \cup {NoVersion}, onlyConverged : BOOLEAN,
                    rest : SUBSET Versions, kept : SUBSET Versions]
    BY <1>4, AtReap DEF ReapTakeList
  <2>2. \A x : [Top(t) EXCEPT !.op = "reapEach", !.rest = x].op = "reapEach"
    BY <2>1
  <2>3. \A x : Weightless(<<[Top(t) EXCEPT !.op = "reapEach", !.rest = x]>>)
    BY <1>1, <2>2, ShortWeightless DEF Light
  <2> QED BY <1>2, <1>4, <2>3 DEF ReapTakeList
<1>5. CASE ReapEach(t)
  <2>1. Top(t) \in [op : {"reap", "reapEach"}, key : AtomicallyKeys,
                    newer : Versions \cup {NoVersion}, onlyConverged : BOOLEAN,
                    rest : SUBSET Versions, kept : SUBSET Versions]
        /\ Top(t).op = "reapEach"
    BY <1>5, AtReap DEF ReapEach, At
  <2>2. \A x, y : /\ [Top(t) EXCEPT !.rest = x].op = "reapEach"
                  /\ [[Top(t) EXCEPT !.rest = x] EXCEPT !.kept = y].op = "reapEach"
    BY <2>1
  <2>3. \A x, y : /\ Weightless(<<[Top(t) EXCEPT !.rest = x]>>)
                  /\ Weightless(<<[[Top(t) EXCEPT !.rest = x] EXCEPT !.kept = y]>>)
    BY <1>1, <2>2, ShortWeightless DEF Light
  <2>4. ASSUME NEW v, NEW x
        PROVE  Weightless(<<VersionFrame("clearRoot", v), [Top(t) EXCEPT !.rest = x]>>)
    <3>1. /\ VersionFrame("clearRoot", v).op \notin CountedOps
          /\ [Top(t) EXCEPT !.rest = x].op \notin CountedOps
      BY <1>1, <2>2 DEF VersionFrame
    <3> QED BY <3>1, ShortCalls, CallsWeightless
  <2>5. PICK v \in Top(t).rest :
          LET next == [Top(t) EXCEPT !.rest = @ \ {v}]
          IN  \/ Then(t, <<VersionFrame("clearRoot", v), next>>)
              \/ Then(t, <<[next EXCEPT !.kept = @ \cup {v}]>>)
    BY <1>5 DEF ReapEach
  <2> QED BY <1>2, <2>3, <2>4, <2>5
<1>6. CASE Converged(t) \/ ClearRoot(t) \/ ReapRoot(t)
  <2>1. \A k, v, r : /\ Light(ReapFrame(k, v, FALSE)) /\ Light(RefFrame("reapRoot", r))
                     /\ Light(RefFrame("unmatch", r))
    BY <1>1 DEF Light, ReapFrame, RefFrame
  <2>2. \A k, v, r : /\ Weightless(<<ReapFrame(k, v, FALSE)>>)
                     /\ Weightless(<<RefFrame("reapRoot", r)>>)
                     /\ Weightless(<<RefFrame("unmatch", r)>>)
    BY <2>1, ShortWeightless
  <2> QED BY <1>2, <1>3, <1>6, <2>2 DEF Converged, ClearRoot, ReapRoot
<1> QED BY <1>2, <1>3, <1>4, <1>5, <1>6 DEF ReapPutBack, SysmonCollected, MatchCompleted

LEMMA PushIdly ==
    ASSUME NEW t, RunPush(t) \/ Notify(t)
    PROVE  Idly(t)
<1>1. \A frames : Weightless(frames) /\ Then(t, frames) => Idly(t)
  BY AtCommandIdly DEF RunPush, Notify
<1> QED BY <1>1, ShortWeightless DEF RunPush, Notify

LEMMA RunHoldIdly ==
    ASSUME NEW t, RunHold(t)
    PROVE  Idly(t)
<1> DEFINE f == Top(t).cmd
           old == HoldOf(f.key).statement
           acquired == IF Live(old) THEN old ELSE NoRef
           dropOld == IF old = NoRef THEN <<>> ELSE <<RefFrame("decr", old)>>
           first == InsertFrame(f.clause, NoRef, f.keep, NoVersion, f.key, acquired)
<1>1. \A frames : Weightless(frames) /\ Then(t, frames) => Idly(t)
  BY AtCommandIdly DEF RunHold
<1>2. Weightless(<<>>) /\ Weightless(dropOld)
  BY ShortWeightless DEF CountedOps
<1>3. Light(first)
  BY DEF Light, InsertFrame
<1>4. Weightless(<<first>>)
  BY <1>3, ShortWeightless
<1>5. Weightless(<<first>> \o dropOld)
  BY <1>2, <1>4, WeightlessConcat
<1>6. Then(t, <<>>) \/ Then(t, dropOld) \/ Then(t, <<first>> \o dropOld)
  BY DEF RunHold, HoldLock
<1> HIDE DEF dropOld, first
<1> QED BY <1>1, <1>2, <1>5, <1>6

\* The items that are pushed are no work for a When.
LEMMA OtherItems ==
    ASSUME TypeOK, TypeOK', SteadyStmts, NEW A, work' = work (+) SetToBag(A),
           \A item \in A : item.cmd # "runWhen"
    PROVE  Unqueued
<1>1. StmtVersions
  BY SteadyKeeps
<1> SUFFICES ASSUME NEW v \in Versions, Balanced(v) PROVE QueueBy(v, 0)
  BY DEF Unqueued
<1>2. A \cap Queued(v)' = {} /\ A \cap QueuedWhen(v)' = {}
  BY DEF Queued, QueuedWhen, ItemCounts, ItemCountsWhen
<1>3. IsFiniteSet({}) /\ Cardinality({}) = 0
  BY FS_EmptySet
<1>4. IsFiniteSet(A \cap Queued(v)') /\ IsFiniteSet(A \cap QueuedWhen(v)')
  BY <1>2, <1>3
<1>5. FiniteQueue(v) /\ QueueWeight(v) \in Nat
  BY WeightsTyped DEF Balanced
<1>6. /\ FiniteQueue(v)'
      /\ QueueWeight(v)' = QueueWeight(v) + Cardinality(A \cap Queued(v)')
                           + Cardinality(A \cap QueuedWhen(v)')
  BY <1>1, <1>4, <1>5, QueueGrows
<1>7. Cardinality(A \cap Queued(v)') = 0 /\ Cardinality(A \cap QueuedWhen(v)') = 0
  BY <1>2, <1>3
<1> QED BY <1>5, <1>6, <1>7 DEF QueueBy

LEMMA RunPushCounts ==
    ASSUME TypeOK, TypeOK', CountsInv, NEW t \in Threads, RunPush(t)
    PROVE  CountsInv'
<1>1. SteadyStmts /\ SteadyMatches /\ SteadyRoots
  BY RunPushSteady DEF Steady
<1>2. Top(t).cmd.cmd # "runWhen"
  BY DEF RunPush, AtCommand
<1>3. work' = work (+) SetToBag({Top(t).cmd}) /\ versions' = versions
  BY DEF RunPush, sideVars
<1>4. Unqueued
  BY <1>1, <1>2, <1>3, OtherItems
<1> QED BY <1>1, <1>3, <1>4, SameOwed, PushIdly, IdlyCounts DEF SteadyMatches

LEMMA NotifyCounts ==
    ASSUME TypeOK, TypeOK', CountsInv, NEW t \in Threads, Notify(t)
    PROVE  CountsInv'
<1>1. SteadyStmts /\ SteadyMatches /\ SteadyRoots
  BY NotifySteady DEF Steady
<1>2. PICK S, e : work' = work (+) SetToBag({RunSubscribeItem(s, e) : s \in S})
  BY DEF Notify
<1>3. \A item \in {RunSubscribeItem(s, e) : s \in S} : item.cmd # "runWhen"
  BY DEF RunSubscribeItem
<1>4. versions' = versions
  BY DEF Notify, sideVars
<1>5. Unqueued
  BY <1>1, <1>2, <1>3, OtherItems
<1> QED BY <1>1, <1>4, <1>5, SameOwed, PushIdly, IdlyCounts DEF SteadyMatches

\* The steps inside the database that count for nothing.
LEMMA DbIdleCounts ==
    ASSUME TypeOK, TypeOK', CountsInv, NEW t \in Threads, work' = work,
           Decr(t) \/ DecrKept(t) \/ DecrScheduled(t) \/ TestAgain(t) \/ NegateKeep(t)
           \/ StoreKeep(t) \/ ScheduleRemove(t) \/ SetDue(t) \/ ClearEntry(t) \/ RecountKept(t)
           \/ RemoveSelf(t) \/ CloseStatement(t) \/ RemoveMatch(t) \/ MarkRemoved(t)
           \/ CloseMatch(t) \/ SignalWorker(t) \/ RetractOne(t) \/ HoldSet(t)
    PROVE  CountsInv'
<1>1. Idly(t)
  BY DecrIdly, DecrThenIdly, KeepIdly, LaterIdly, RemoveIdly, MatchIdly
<1>2. versions' = versions
  BY DEF Decr, DecrKept, DecrScheduled, DecrThen, TestAgain, NegateKeep, StoreKeep,
         ScheduleRemove, SetDue, ClearEntry, RecountKept, RemoveSelf, CloseStatement,
         RemoveMatch, MarkRemoved, CloseMatch, SignalWorker, RetractOne, HoldSet, sideVars
<1>3. SteadyStmts /\ SteadyMatches
  <2>1. CASE ScheduleRemove(t) \/ SetDue(t) \/ ClearEntry(t)
    BY <2>1, UnchangedSteady DEF ScheduleRemove, SetDue, ClearEntry
  <2>2. CASE ~(ScheduleRemove(t) \/ SetDue(t) \/ ClearEntry(t))
    <3>1. Steady(t)
      BY <2>2, DecrSteady, DecrKeptSteady, DecrScheduledSteady, TestAgainSteady,
         NegateKeepSteady, StoreKeepSteady, RecountKeptSteady, RemoveSelfSteady,
         CloseStatementSteady, RemoveMatchSteady, MarkRemovedSteady, CloseMatchSteady,
         SignalWorkerSteady, RetractOneSteady, HoldSetSteady
    <3> QED BY <3>1 DEF Steady
  <2> QED BY <2>1, <2>2
<1> QED BY <1>1, <1>2, <1>3, UnchangedSteady, SameOwed, SameQueue, IdlyCounts DEF SteadyMatches

LEMMA StepIdleCounts ==
    ASSUME TypeOK, TypeOK', CountsInv, NEW t \in Threads, work' = work,
           Converged(t) \/ ReapTakeList(t) \/ ReapEach(t) \/ ReapRoot(t) \/ ReapPutBack(t)
           \/ SysmonCollected(t) \/ RunHold(t)
    PROVE  CountsInv'
<1>1. Idly(t)
  BY AtomicallyIdly, RunHoldIdly
<1>2. UNCHANGED <<stmts, matches, versions>>
  BY DEF Converged, ReapTakeList, ReapEach, ReapRoot, ReapPutBack, SysmonCollected, RunHold,
         HoldLock, sideVars
<1> QED BY <1>1, <1>2, UnchangedSteady, SameOwed, SameQueue, IdlyCounts DEF SteadyMatches

LEMMA ClearRootCounts ==
    ASSUME TypeOK, TypeOK', CountsInv, NEW t \in Threads, ClearRoot(t), work' = work
    PROVE  CountsInv'
<1>1. Top(t).version \in Versions
  BY AtVersion DEF ClearRoot
<1>2. \E w \in Versions : versions' = [versions EXCEPT ![w].root = NoRef]
  BY <1>1 DEF ClearRoot
<1>3. Unowed
  BY <1>2, CountersStep DEF Unowed
<1>4. SteadyRoots
  BY <1>2, VersionSteady
<1>5. stmts' = stmts /\ matches' = matches
  BY DEF ClearRoot
<1> QED BY <1>3, <1>4, <1>5, AtomicallyIdly, UnchangedSteady, SameQueue, IdlyCounts DEF SteadyMatches

LEMMA CompletedVersions ==
    ASSUME TypeOK, NEW m \in MatchRefs, matches' = [matches EXCEPT ![m].completed = TRUE]
    PROVE  SameVersions
<1>1. DOMAIN matches = MatchRefs /\ matches[m] \in Match
  BY LensTyped, MatchFields
<1>2. [matches[m] EXCEPT !.completed = TRUE].version = matches[m].version
  BY <1>1 DEF Match
<1> QED BY <1>1, <1>2 DEF SameVersions

LEMMA MatchCompletedCounts ==
    ASSUME TypeOK, TypeOK', CountsInv, NEW t \in Threads, MatchCompleted(t)
    PROVE  CountsInv'
<1>1. At(t, "completed") /\ "completed" \in MatchOps
  BY DEF MatchCompleted, MatchOps
<1>2. Top(t).ref \in MatchRefs
  BY <1>1, AtMatch
<1>3. SameVersions
  BY <1>2, CompletedVersions DEF MatchCompleted
<1>4. UNCHANGED <<stmts, versions, work>>
  BY DEF MatchCompleted, sideVars
<1> QED BY <1>3, <1>4, AtomicallyIdly, UnchangedSteady, SameQueue, SameOwed, IdlyCounts

-----------------------------------------------------------------------------
(* A thread starts, or drops what is left of a body.                       *)

\* The thread's whole stack counts the same before and after.
SameWeight(t) ==
    \A v \in Versions : \E n \in Nat :
        /\ Weight(todo[t], OnStack(v), OnStackWhen(v)) = n
        /\ Weight(todo'[t], OnStack(v)', OnStackWhen(v)') = n

\* Such a step keeps CountsInv.
LEMMA WholeCounts ==
    ASSUME TypeOK, TypeOK', CountsInv, NEW t \in Threads, Moves(t), SameWeight(t),
           NoAdopt(todo[t], todo'[t]), SteadyStmts, SameVersions, SteadyRoots, Unowed, Unqueued
    PROVE  CountsInv'
<1>1. StmtVersions /\ Versions' = Versions
  BY SteadyKeeps
<1>2. AdoptsAgree'
  BY <1>1, AdoptsStep DEF CountsInv
<1>3. ASSUME NEW v \in Versions PROVE Balanced(v)'
  <2>1. PICK n \in Nat : /\ Weight(todo[t], OnStack(v), OnStackWhen(v)) = n
                         /\ Weight(todo'[t], OnStack(v)', OnStackWhen(v)') = n
    BY DEF SameWeight
  <2>2. Balanced(v) /\ QueueBy(v, 0) /\ Owed(v)' = Owed(v) - n + n + 0
    BY CountersStep DEF CountsInv, Unqueued, Unowed
  <2>3. SameBut({}, v) /\ Avoids(t, <<>>, {})
    BY <1>1, SameFramesAll DEF SameBut, Avoids
  <2> QED BY <1>1, <2>1, <2>2, <2>3, WholeBalanced
<1> QED BY <1>1, <1>2, <1>3 DEF CountsInv

LEMMA StartCounts ==
    ASSUME TypeOK, TypeOK', CountsInv, NEW t \in Threads, todo[t] = <<>>, NEW frames,
           Start(t, frames), Weightless(frames), UNCHANGED <<stmts, matches, versions>>, Unqueued
    PROVE  CountsInv'
<1>1. todo'[t] = frames /\ Moves(t)
  BY StartMoves
<1>2. Weightless(<<>>)
  BY ShortWeightless
<1>3. SameWeight(t)
  <2> SUFFICES ASSUME NEW v \in Versions
               PROVE  /\ Weight(todo[t], OnStack(v), OnStackWhen(v)) = 0
                      /\ Weight(todo'[t], OnStack(v)', OnStackWhen(v)') = 0
    BY DEF SameWeight
  <2>1. v # NoVersion
    BY DEF Versions, NoVersion
  <2>2. Weight(<<>>, OnStack(v), OnStackWhen(v)) = 0
    BY <1>2, <2>1, WeightlessIsZero
  <2>3. Weight(frames, OnStack(v)', OnStackWhen(v)') = 0
    BY <2>1, WeightlessIsZero
  <2> QED BY <1>1, <2>2, <2>3
<1>4. NoAdopt(todo[t], todo'[t])
  BY <1>1, WeightlessCalls DEF NoAdopt, Calls
<1>5. SteadyStmts /\ SameVersions /\ SteadyRoots /\ Unowed
  BY UnchangedSteady, SameOwed DEF SteadyMatches
<1> QED BY <1>1, <1>3, <1>4, <1>5, WholeCounts

LEMMA TakeOther ==
    ASSUME TypeOK, TypeOK', NEW t \in Threads, NEW item, TakeItem(t, item), item.cmd # "runWhen",
           stmts' = stmts
    PROVE  Unqueued /\ todo[t] = <<>>
<1> SUFFICES ASSUME NEW v \in Versions, Balanced(v) PROVE QueueBy(v, 0)
  BY DEF Unqueued, TakeItem
<1>1. item \in BagToSet(work) /\ work' = work (-) SetToBag({item})
  BY DEF TakeItem
<1>2. StmtVersions /\ StmtRefs \subseteq StmtRefs' /\ RefsOf(Whens) \subseteq RefsOf(Whens)'
  BY DEF StmtVersions, StmtRefs, RefsOf
<1>3. ItemWeight(item, v) = 0
  BY DEF ItemWeight, ItemCounts, ItemCountsWhen
<1>4. FiniteQueue(v) /\ QueueWeight(v) \in Nat
  BY WeightsTyped DEF Balanced
<1>5. FiniteQueue(v)' /\ QueueWeight(v)' = QueueWeight(v) - ItemWeight(item, v)
  BY <1>1, <1>2, <1>4, QueueShrinks
<1> QED BY <1>3, <1>4, <1>5 DEF QueueBy

LEMMA BodyFramesCalls ==
    ASSUME NEW m, NEW C, NEW cmds \in Seq(C), NEW ops, "command" \notin ops
    PROVE  Calls(BodyFrames(m, cmds), ops)
<1> DEFINE S == {[op |-> "command", match |-> m, cmd |-> e] : e \in C}
<1>1. BodyFrames(m, cmds) \in Seq(S)
  BY BodyFramesTyped
<1>2. \A j \in 1 .. Len(BodyFrames(m, cmds)) : BodyFrames(m, cmds)[j] \in S
  BY <1>1, ElementOfSeq
<1>3. \A f \in S : f.op = "command"
  OBVIOUS
<1> HIDE DEF S
<1> QED BY <1>1, <1>2, <1>3 DEF Calls

LEMMA TakeAssertCounts ==
    ASSUME TypeOK, TypeOK', CountsInv, NEW t \in Threads, NEW item, TakeAssert(t, item)
    PROVE  CountsInv'
<1> DEFINE f == InsertFrame(item.clause, NoRef, "none", NoVersion, NoKey, NoRef)
<1>1. Light(f)
  BY DEF Light, InsertFrame
<1>2. Weightless(<<f>>)
  BY <1>1, ShortWeightless
<1>3. TakeItem(t, item) /\ item.cmd # "runWhen" /\ UNCHANGED <<stmts, matches, versions>>
      /\ Start(t, <<f>>)
  BY DEF TakeAssert, sideVars
<1> HIDE DEF f
<1> QED BY <1>2, <1>3, TakeOther, StartCounts

LEMMA TakeRetractCounts ==
    ASSUME TypeOK, TypeOK', CountsInv, NEW t \in Threads, NEW item, TakeRetract(t, item)
    PROVE  CountsInv'
<1>1. RetractFrames(item.pattern) \in Seq(Frames)
  BY RetractFramesTyped
<1>2. Weightless(RetractFrames(item.pattern))
  <2>1. \A j \in 1 .. Len(RetractFrames(item.pattern)) :
           RetractFrames(item.pattern)[j].op = "retractOne"
    <3> DEFINE refs == SetToSeq({index[c] : c \in DOMAIN index \cap item.pattern})
    <3>1. RetractFrames(item.pattern) = [i \in 1 .. Len(refs) |-> RefFrame("retractOne", refs[i])]
      BY DEF RetractFrames, FramesFor
    <3> HIDE DEF refs
    <3>2. DOMAIN RetractFrames(item.pattern) = 1 .. Len(RetractFrames(item.pattern))
      BY <1>1, LenProperties
    <3> QED BY <3>1, <3>2 DEF RefFrame
  <2>2. "retractOne" \notin CountedOps
    BY DEF CountedOps
  <2> QED BY <1>1, <2>1, <2>2 DEF Weightless, Light
<1>3. TakeItem(t, item) /\ item.cmd # "runWhen" /\ UNCHANGED <<stmts, matches, versions>>
      /\ Start(t, RetractFrames(item.pattern))
  BY DEF TakeRetract, sideVars
<1> QED BY <1>2, <1>3, TakeOther, StartCounts

LEMMA TakeEvalCounts ==
    ASSUME TypeOK, TypeOK', CountsInv, NEW t \in Threads, NEW item, TakeEval(t, item)
    PROVE  CountsInv'
<1>1. Light(EvalFrame(item))
  BY DEF Light, EvalFrame, CountedOps
<1>2. Weightless(<<EvalFrame(item)>>)
  BY <1>1, ShortWeightless
<1>3. TakeItem(t, item) /\ item.cmd # "runWhen" /\ UNCHANGED <<stmts, matches, versions>>
      /\ Start(t, <<EvalFrame(item)>>)
  BY DEF TakeEval, sideVars
<1> QED BY <1>2, <1>3, TakeOther, StartCounts

LEMMA TakeSubscribeCounts ==
    ASSUME TypeOK, TypeOK', CountsInv, NEW t \in Threads, NEW item, TakeSubscribe(t, item)
    PROVE  CountsInv'
<1> DEFINE cmds == Body[stmts[item.ref].clause][item.event]
           frames == IF Live(item.ref) THEN BodyFrames(NoRef, cmds) ELSE <<>>
<1>1. item \in WorkItems /\ item.cmd = "runSubscribe"
  BY TakeItemKeeps DEF TakeSubscribe
<1>2. item.ref \in RefsOf(Subscribes) /\ item.event \in Events
  BY <1>1 DEF WorkItems, FreeCommands
<1>3. cmds \in Seq(FreeCommands)
  BY <1>2, ProgramsAssumption DEF RefsOf
<1>4. Weightless(frames)
  <2>1. "command" \notin CountedOps
    BY DEF CountedOps
  <2>2. Weightless(BodyFrames(NoRef, cmds))
    BY <1>3, <2>1, BodyFramesCalls, CallsWeightless
  <2> QED BY <2>2, ShortWeightless
<1>5. TakeItem(t, item) /\ item.cmd # "runWhen" /\ UNCHANGED <<stmts, matches, versions>>
      /\ Start(t, frames)
  BY DEF TakeSubscribe, sideVars
<1> HIDE DEF frames
<1> QED BY <1>4, <1>5, TakeOther, StartCounts

LEMMA SysmonTickCounts ==
    ASSUME TypeOK, TypeOK', CountsInv, SysmonTick
    PROVE  CountsInv'
<1>1. Sysmon \in Threads
  BY DEF Threads
<1>2. {"decr", "clearDue", "clearStmt", "reap", "collected"} \cap CountedOps = {}
  BY DEF CountedOps
<1>3. UNCHANGED <<stmts, matches, versions>> /\ todo[Sysmon] = <<>> /\ work' = work
  BY DEF SysmonTick, SysmonRemoves, SysmonCollects, sideVars
<1>4. Unqueued
  BY <1>3, UnchangedSteady, SameQueue
<1>5. ASSUME NEW i \in 1 .. LaterSlots, SysmonRemoves(i) PROVE CountsInv'
  <2> DEFINE frames == <<RefFrame("decr", later[i].stmt), RefFrame("clearDue", i),
                         RefFrame("clearStmt", i)>>
  <2>1. \A op \in {"decr", "clearDue", "clearStmt"} : \A r : RefFrame(op, r).op \notin CountedOps
    BY <1>2 DEF RefFrame
  <2>2. Weightless(frames)
    BY <2>1, ShortCalls, CallsWeightless
  <2>3. Start(Sysmon, frames)
    BY <1>5 DEF SysmonRemoves, Start
  <2> HIDE DEF frames
  <2> QED BY <1>1, <1>3, <1>4, <2>2, <2>3, StartCounts
<1>6. ASSUME NEW k \in AtomicallyKeys, SysmonCollects(k) PROVE CountsInv'
  <2> DEFINE frames == <<ReapFrame(k, NoVersion, TRUE), RefFrame("collected", NoRef)>>
  <2>1. ReapFrame(k, NoVersion, TRUE).op \notin CountedOps
        /\ RefFrame("collected", NoRef).op \notin CountedOps
    BY <1>2 DEF RefFrame, ReapFrame
  <2>2. Weightless(frames)
    BY <2>1, ShortCalls, CallsWeightless
  <2>3. Start(Sysmon, frames)
    BY <1>6 DEF SysmonCollects, Start
  <2> HIDE DEF frames
  <2> QED BY <1>1, <1>3, <1>4, <2>2, <2>3, StartCounts
<1> QED BY <1>5, <1>6 DEF SysmonTick

\* Only the last frame of a stack counts.
LEMMA LastWeight ==
    ASSUME NEW F, NEW s \in Seq(F), s # <<>>, NEW S, NEW R,
           \A f \in S \cup R : f.op \in CountedOps,
           \A j \in 1 .. Len(s) : j < Len(s) => s[j].op \notin CountedOps
    PROVE  Weight(s, S, R) = One(s[Len(s)] \in S) + One(s[Len(s)] \in R)
<1>1. Len(s) \in Nat \ {0}
  BY EmptySeq, LenProperties
<1>2. Hits(s, S) = (IF s[Len(s)] \in S THEN {Len(s)} ELSE {})
  BY <1>1 DEF Hits
<1>3. Hits(s, R) = (IF s[Len(s)] \in R THEN {Len(s)} ELSE {})
  BY <1>1 DEF Hits
<1>4. Cardinality({}) = 0 /\ Cardinality({Len(s)}) = 1
  BY FS_EmptySet, FS_Singleton
<1>5. Cardinality(Hits(s, S)) = One(s[Len(s)] \in S)
  BY <1>2, <1>4 DEF One
<1>6. Cardinality(Hits(s, R)) = One(s[Len(s)] \in R)
  BY <1>3, <1>4 DEF One
<1> QED BY <1>5, <1>6 DEF Weight

\* A body is cut short: its commands go, and its end stays.
LEMMA CutShortWeight ==
    ASSUME TypeOK, TypeOK', Stacks, NEW t \in Threads, todo[t] = <<>> \/ todo[t][1].op = "command",
           todo' = [todo EXCEPT ![t] = NoCommands(@)], StmtVersions, SameVersions
    PROVE  Moves(t) /\ SameWeight(t) /\ NoAdopt(todo[t], todo'[t])
<1>1. PICK s : s = todo[t]
  OBVIOUS
<1>2. Moves(t) /\ todo'[t] = NoCommands(s)
  BY <1>1 DEF Moves, TypeOK
<1>3. s \in Seq(Frames) /\ StackOK(s)
  BY <1>1 DEF TypeOK, Stacks
<1>4. CASE s = <<>>
  <2>1. todo'[t] = <<>>
    BY <1>2, <1>4 DEF NoCommands
  <2>2. \A v \in Versions : /\ Weight(<<>>, OnStack(v), OnStackWhen(v)) = 0
                            /\ Weight(<<>>, OnStack(v)', OnStackWhen(v)') = 0
    BY ShortWeightless, WeightlessIsZero DEF Versions, NoVersion
  <2> QED BY <1>1, <1>2, <1>4, <2>1, <2>2 DEF SameWeight, NoAdopt
<1>5. CASE s # <<>>
  <2>1. Len(s) \in Nat \ {0} /\ s[1].op = "command" /\ 1 \in 1 .. Len(s)
    BY <1>1, <1>3, <1>5, EmptySeq, LenProperties
  <2>2. \A k \in 1 .. Len(s) : k < Len(s) => s[k].op = "command"
    BY <1>3, <2>1 DEF StackOK
  <2>3. "command" \notin CountedOps
    BY DEF CountedOps
  <2>4. PICK last : last = s[Len(s)]
    OBVIOUS
  <2>5. last \in Frames
    BY <1>3, <2>1, <2>4, ElementOfSeq
  <2>6. Last(s) = last
    BY <2>4 DEF Last
  <2>7. \A v : Weight(s, OnStack(v), OnStackWhen(v)) = One(last \in OnStack(v)) + One(last \in OnStackWhen(v))
    BY <1>3, <1>5, <2>2, <2>3, <2>4, LastWeight, OnStackOps
  <2>8. CASE last.op = "command"
    <3>1. todo'[t] = <<>>
      BY <1>2, <2>6, <2>8 DEF NoCommands
    <3>2. ASSUME NEW v \in Versions
          PROVE  /\ Weight(s, OnStack(v), OnStackWhen(v)) = 0
                 /\ Weight(<<>>, OnStack(v)', OnStackWhen(v)') = 0
      <4>1. v # NoVersion
        BY DEF Versions, NoVersion
      <4>2. last \notin OnStack(v) /\ last \notin OnStackWhen(v)
        BY <2>3, <2>8, OnStackOps
      <4> QED BY <2>7, <4>1, <4>2, ShortWeightless, WeightlessIsZero DEF One
    <3> QED BY <1>1, <1>2, <3>1, <3>2 DEF SameWeight, NoAdopt
  <2>9. CASE last.op # "command"
    <3>1. todo'[t] = <<last>>
      BY <1>2, <1>5, <2>6, <2>9 DEF NoCommands
    <3>2. StackTypes'
      BY StackTypesHold, PTL
    <3>3. last \in Frames'
      <4>1. 1 \in 1 .. Len(todo'[t]) /\ todo'[t][1] = last
        BY <3>1
      <4> QED BY <3>2, <4>1 DEF StackTypes
    <3>4. ASSUME NEW v \in Versions
          PROVE  \E n \in Nat : /\ Weight(s, OnStack(v), OnStackWhen(v)) = n
                                /\ Weight(<<last>>, OnStack(v)', OnStackWhen(v)') = n
      <4>1. Same(last, v)
        BY <2>5, SameFramesAll
      <4>2. /\ last \in OnStack(v) <=> last \in OnStack(v)'
            /\ last \in OnStackWhen(v) <=> last \in OnStackWhen(v)'
        BY <2>5, <3>3, <4>1 DEF Same, OnStack, OnStackWhen
      <4>3. Weight(<<last>>, OnStack(v)', OnStackWhen(v)')
            = One(last \in OnStack(v)') + One(last \in OnStackWhen(v)')
        BY OneWeight DEF One
      <4> QED BY <2>7, <4>2, <4>3 DEF One
    <3>5. NoAdopt(s, <<last>>)
      <4>1. \A j \in 1 .. Len(<<last>>) : <<last>>[j] = s[Len(s)]
        BY <2>4
      <4>2. Len(s) \in 1 .. Len(s)
        BY <2>1
      <4> QED BY <4>1, <4>2 DEF NoAdopt
    <3> QED BY <1>1, <1>2, <3>1, <3>4, <3>5 DEF SameWeight
  <2> QED BY <2>8, <2>9
<1> QED BY <1>4, <1>5

LEMMA InterruptedCounts ==
    ASSUME TypeOK, TypeOK', Stacks, CountsInv, NEW t \in Threads, Interrupted(t)
    PROVE  CountsInv'
<1>1. SteadyStmts /\ SteadyMatches /\ SteadyRoots
  BY InterruptedCalm DEF Calm
<1>2. StmtVersions /\ SameVersions
  BY <1>1, SteadyKeeps
<1>3. todo[t] = <<>> \/ todo[t][1].op = "command"
  <2>1. CASE todo[t] # <<>>
    <3>1. todo[t] \in Seq(Frames)
      BY DEF TypeOK
    <3>2. Top(t) = todo[t][1]
      BY <2>1, <3>1 DEF Top
    <3> QED BY <2>1, <3>2 DEF Interrupted, At
  <2> QED BY <2>1
<1>4. todo' = [todo EXCEPT ![t] = NoCommands(@)] /\ versions' = versions /\ work' = work
  BY DEF Interrupted
<1>5. Moves(t) /\ SameWeight(t) /\ NoAdopt(todo[t], todo'[t])
  BY <1>2, <1>3, <1>4, CutShortWeight
<1> QED BY <1>1, <1>2, <1>4, <1>5, SameOwed, SameQueue, WholeCounts

LEMMA RunSeriallyCounts ==
    ASSUME TypeOK, TypeOK', Stacks, CountsInv, NEW t \in Threads, RunSerially(t)
    PROVE  CountsInv'
<1>1. UNCHANGED <<stmts, matches, versions, work>>
  BY DEF RunSerially, sideVars
<1>2. SteadyStmts /\ SameVersions /\ SteadyRoots /\ StmtVersions
  BY <1>1, UnchangedSteady, SteadyKeeps
<1>3. todo[t] # <<>> /\ todo[t][1].op = "command" /\ Light(Top(t))
  BY SeriallyTop DEF Light, CountedOps
<1>4. CASE todo' = [todo EXCEPT ![t] = NoCommands(@)]
  <2>1. Moves(t) /\ SameWeight(t) /\ NoAdopt(todo[t], todo'[t])
    BY <1>2, <1>3, <1>4, CutShortWeight
  <2> QED BY <1>1, <1>2, <2>1, SameOwed, SameQueue, WholeCounts
<1>5. CASE todo' = [todo EXCEPT ![t] = Tail(@)]
  <2>1. todo[t] \in Seq(Frames)
    BY DEF TypeOK
  <2>2. Tail(todo[t]) \in Seq(Frames)
    BY <1>3, TopTyped
  <2>3. <<>> \o Tail(todo[t]) = Tail(todo[t])
    BY <2>2, ConcatEmptySeq
  <2>4. Then(t, <<>>)
    BY <1>5, <2>3 DEF Then
  <2>5. Idly(t)
    BY <1>3, <2>4, ShortWeightless DEF Idly
  <2> QED BY <1>1, <1>2, <2>5, SameOwed, SameQueue, IdlyCounts
<1> QED BY <1>4, <1>5 DEF RunSerially

-----------------------------------------------------------------------------
(* Steps that count.                                                       *)

\* What each kind of frame counts.
LEMMA FrameWeights ==
    ASSUME NEW f, NEW v
    PROVE  /\ f \in Frames => Weight(<<f>>, OnStack(v), OnStackWhen(v))
                              = One(FrameCounts(f, v)) + One(FrameCountsWhen(f, v))
           /\ f \in Frames' => Weight(<<f>>, OnStack(v)', OnStackWhen(v)')
                               = One(FrameCounts(f, v)') + One(FrameCountsWhen(f, v)')
<1>1. f \in Frames => (f \in OnStack(v) <=> FrameCounts(f, v)) /\ (f \in OnStackWhen(v) <=> FrameCountsWhen(f, v))
  BY DEF OnStack, OnStackWhen
<1>2. f \in Frames' => (f \in OnStack(v)' <=> FrameCounts(f, v)') /\ (f \in OnStackWhen(v)' <=> FrameCountsWhen(f, v)')
  BY DEF OnStack, OnStackWhen
<1> QED BY <1>1, <1>2, OneWeight DEF One

LEMMA VersionWeight ==
    ASSUME NEW f, f.op \in {"place", "reuse", "adopt", "inflightDecr"}, NEW v
    PROVE  /\ f \in Frames => Weight(<<f>>, OnStack(v), OnStackWhen(v)) = One(v = f.version)
           /\ f \in Frames' => Weight(<<f>>, OnStack(v)', OnStackWhen(v)') = One(v = f.version)
<1>1. (FrameCounts(f, v) <=> v = f.version) /\ ~FrameCountsWhen(f, v)
  BY DEF FrameCounts, FrameCountsWhen
<1>2. (FrameCounts(f, v)' <=> v = f.version) /\ ~FrameCountsWhen(f, v)'
  BY DEF FrameCounts, FrameCountsWhen
<1> QED BY <1>1, <1>2, FrameWeights DEF One

LEMMA ReactWeight ==
    ASSUME NEW f, f.op \in {"react", "reactAsStmt"}, NEW v
    PROVE  /\ f \in Frames => Weight(<<f>>, OnStack(v), OnStackWhen(v)) = One(v = stmts[f.ref].version)
           /\ f \in Frames' => Weight(<<f>>, OnStack(v)', OnStackWhen(v)') = One(v = stmts'[f.ref].version)
<1>1. (FrameCounts(f, v) <=> v = stmts[f.ref].version) /\ ~FrameCountsWhen(f, v)
  BY DEF FrameCounts, FrameCountsWhen
<1>2. (FrameCounts(f, v)' <=> v = stmts'[f.ref].version) /\ ~FrameCountsWhen(f, v)'
  BY DEF FrameCounts, FrameCountsWhen
<1> QED BY <1>1, <1>2, FrameWeights DEF One

LEMMA EndWeight ==
    ASSUME NEW f, f.op = "endBody", NEW v
    PROVE  /\ f \in Frames => Weight(<<f>>, OnStack(v), OnStackWhen(v)) = One(v = matches[f.ref].version)
           /\ f \in Frames' => Weight(<<f>>, OnStack(v)', OnStackWhen(v)') = One(v = matches'[f.ref].version)
<1>1. (FrameCounts(f, v) <=> v = matches[f.ref].version) /\ ~FrameCountsWhen(f, v)
  BY DEF FrameCounts, FrameCountsWhen
<1>2. (FrameCounts(f, v)' <=> v = matches'[f.ref].version) /\ ~FrameCountsWhen(f, v)'
  BY DEF FrameCounts, FrameCountsWhen
<1> QED BY <1>1, <1>2, FrameWeights DEF One

\* The calls that take the place of the innermost one are of the right type.
LEMMA NewFrames ==
    ASSUME TypeOK, TypeOK', NEW t \in Threads, todo[t] # <<>>, NEW frames,
           \E G : frames \in Seq(G), Then(t, frames)
    PROVE  \A j \in 1 .. Len(frames) : frames[j] \in Frames'
<1>1. StackTypes'
  BY StackTypesHold, PTL
<1>2. todo'[t] = frames \o Tail(todo[t]) /\ todo[t] \in Seq(Frames)
  BY ThenMoves DEF TypeOK
<1>3. /\ Len(frames) \in Nat /\ Len(todo[t]) \in Nat \ {0}
      /\ Len(frames \o Tail(todo[t])) = Len(frames) + Len(todo[t]) - 1
      /\ \A j \in 1 .. Len(frames) : (frames \o Tail(todo[t]))[j] = frames[j]
  BY <1>2, ReplacedTop
<1>4. ASSUME NEW j \in 1 .. Len(frames) PROVE frames[j] \in Frames'
  <2>1. j \in 1 .. Len(todo'[t]) /\ todo'[t][j] = frames[j]
    BY <1>2, <1>3
  <2> QED BY <1>1, <2>1 DEF StackTypes
<1> QED BY <1>4

\* Each counter changes by what the call, the calls it is replaced by, and the
\* queues count.
Settles(t, frames) ==
    \A v \in Versions : Balanced(v) =>
        \E a, b, d : /\ StepWeights(t, frames, v, a, b) /\ QueueBy(v, d)
                     /\ Owed(v)' = Owed(v) - a + b + d

\* Such a step keeps CountsInv.
LEMMA SettledCounts ==
    ASSUME TypeOK, TypeOK', CountsInv, NEW t \in Threads, todo[t] # <<>>, NEW frames,
           \E G : frames \in Seq(G), Then(t, frames), StmtVersions, SameVersions,
           Versions' = Versions, Settles(t, frames), AdoptsAgree'
    PROVE  CountsInv'
<1>1. ASSUME NEW v \in Versions PROVE Balanced(v)'
  <2>1. Balanced(v)
    BY DEF CountsInv
  <2>2. PICK a, b, d : /\ StepWeights(t, frames, v, a, b) /\ QueueBy(v, d)
                       /\ Owed(v)' = Owed(v) - a + b + d
    BY <2>1 DEF Settles
  <2> QED BY <2>1, <2>2, ThenBalanced
<1> QED BY <1>1 DEF CountsInv

\* The queues stay as they are.
Exchanges(t, frames) ==
    \A v \in Versions : \E a, b :
        StepWeights(t, frames, v, a, b) /\ Owed(v)' = Owed(v) - a + b

LEMMA ExchangeCounts ==
    ASSUME TypeOK, TypeOK', CountsInv, NEW t \in Threads, todo[t] # <<>>, NEW frames,
           \E G : frames \in Seq(G), Then(t, frames), StmtVersions, SameVersions,
           Versions' = Versions, work' = work, Exchanges(t, frames), AdoptsAgree'
    PROVE  CountsInv'
<1>1. Settles(t, frames)
  <2> SUFFICES ASSUME NEW v \in Versions, Balanced(v)
               PROVE  \E a, b, d : /\ StepWeights(t, frames, v, a, b) /\ QueueBy(v, d)
                                   /\ Owed(v)' = Owed(v) - a + b + d
    BY DEF Settles
  <2>1. PICK a, b : StepWeights(t, frames, v, a, b) /\ Owed(v)' = Owed(v) - a + b
    BY DEF Exchanges
  <2>2. QueueBy(v, 0)
    BY QueueByNone
  <2>3. Owed(v) \in Int
    BY CountersStep
  <2>4. Owed(v)' = Owed(v) - a + b + 0
    BY <2>1, <2>3 DEF StepWeights
  <2> QED BY <2>1, <2>2, <2>4
<1> QED BY <1>1, SettledCounts

LEMMA ThenAdopts ==
    ASSUME TypeOK, TypeOK', CountsInv, NEW t \in Threads, todo[t] # <<>>, NEW frames,
           Then(t, frames), Calls(frames, {"adopt"}), StmtVersions
    PROVE  AdoptsAgree' /\ \E G : frames \in Seq(G)
<1>1. Moves(t) /\ NoAdopt(todo[t], todo'[t])
  BY ThenNoAdopt
<1> QED BY <1>1, AdoptsStep DEF CountsInv, Calls

LEMMA OneFrame ==
    ASSUME NEW g
    PROVE  /\ \E G : <<g>> \in Seq(G)
           /\ Len(<<g>>) = 1 /\ <<g>>[1] = g
<1>1. <<g>> \in Seq({g})
  BY ShortSeqs
<1> QED BY <1>1

LEMMA NewFrame ==
    ASSUME TypeOK, TypeOK', NEW t \in Threads, todo[t] # <<>>, NEW g, Then(t, <<g>>)
    PROVE  g \in Frames'
<1>1. \A j \in 1 .. Len(<<g>>) : <<g>>[j] \in Frames'
  BY OneFrame, NewFrames
<1> QED BY <1>1

\* A Say's statement is in flight.
LEMMA RunSayCounts ==
    ASSUME TypeOK, TypeOK', CountsInv, NEW t \in Threads, RunSay(t)
    PROVE  CountsInv'
<1> DEFINE m == Top(t).match
           cmd == Top(t).cmd
           version == IF cmd.clause \in Unversioned THEN NoVersion ELSE matches[m].version
<1>1. PICK g : g = InsertFrame(cmd.clause, m, cmd.keep, version, NoKey, NoRef)
  OBVIOUS
<1>2. AtCommand(t, "say") /\ InsertUnder(t, g) /\ work' = work
  BY <1>1 DEF RunSay
<1>3. m \in MatchRefs
  BY <1>2, InBody
<1>4. matches[m] \in Match
  BY <1>3, MatchFields
<1>5. g.op = "place" /\ g.version = version /\ version \in Versions \cup {NoVersion}
  BY <1>1, <1>4 DEF InsertFrame, Match
<1>6. todo[t] # <<>> /\ Light(Top(t))
  BY <1>2 DEF AtCommand, At, Light, CountedOps
<1> HIDE DEF m, cmd, version
<1>7. SteadyStmts /\ SteadyMatches /\ SteadyRoots
  BY RunSaySteady DEF Steady
<1>8. StmtVersions /\ SameVersions /\ Versions' = Versions
  BY <1>7, SteadyKeeps
<1>9. CASE Then(t, <<>>) /\ versions' = versions
  <2>1. Idly(t)
    BY <1>6, <1>9, ShortWeightless DEF Idly
  <2> QED BY <1>2, <1>7, <1>8, <1>9, <2>1, SameOwed, SameQueue, IdlyCounts
<1>10. CASE Then(t, <<g>>) /\ versions' = Incr(versions, g.version)
  <2>1. g \in Frames'
    BY <1>6, <1>10, NewFrame
  <2>2. Exchanges(t, <<g>>)
    <3> SUFFICES ASSUME NEW v \in Versions
                 PROVE  StepWeights(t, <<g>>, v, 0, One(v = g.version))
                        /\ Owed(v)' = Owed(v) - 0 + One(v = g.version)
      BY DEF Exchanges
    <3>1. v # NoVersion
      BY DEF Versions, NoVersion
    <3>2. Weight(<<Top(t)>>, OnStack(v), OnStackWhen(v)) = 0
      BY <1>6, <3>1, TopWeight
    <3>3. Weight(<<g>>, OnStack(v)', OnStackWhen(v)') = One(v = g.version)
      BY <1>5, <2>1, VersionWeight
    <3>4. Owed(v)' = Owed(v) + One(v = g.version) /\ Owed(v) \in Int
      BY <1>5, <1>10, CountersStep
    <3> QED BY <3>2, <3>3, <3>4 DEF StepWeights, One
  <2>3. Calls(<<g>>, {"adopt"})
    BY <1>5, ShortCalls
  <2>4. AdoptsAgree'
    BY <1>6, <1>8, <1>10, <2>3, ThenAdopts
  <2> QED BY <1>2, <1>6, <1>8, <1>10, <2>2, <2>4, OneFrame, ExchangeCounts
<1> QED BY <1>2, <1>9, <1>10 DEF InsertUnder

\* The frame of an insertion keeps its version.
LEMMA InsertVersions ==
    ASSUME NEW f \in Frames, f.op \in {"place", "reuse", "adopt"}
    PROVE  /\ f.version \in Versions \cup {NoVersion}
           /\ [f EXCEPT !.op = "place"].version = f.version
           /\ [f EXCEPT !.op = "place"].op = "place"
           /\ \A r : /\ [f EXCEPT !.op = "reuse", !.ref = r].version = f.version
                     /\ [f EXCEPT !.op = "reuse", !.ref = r].op = "reuse"
                     /\ [f EXCEPT !.op = "adopt", !.ref = r].version = f.version
                     /\ [f EXCEPT !.op = "adopt", !.ref = r].op = "adopt"
                     /\ [f EXCEPT !.op = "adopt", !.ref = r].ref = r
<1>1. f \in [op : {"place", "reuse", "adopt"}, clause : Clauses,
             parent : MatchRefs \cup {NoRef}, keep : {"none", "keep"},
             version : Versions \cup {NoVersion}, key : Keys \cup {NoKey},
             old : StmtRefs \cup {NoRef}, ref : StmtRefs \cup {NoRef}]
  BY FrameFields
<1> QED BY <1>1

LEMMA InsertExchanges ==
    ASSUME TypeOK, TypeOK', NEW t \in Threads, todo[t] # <<>>,
           NEW f, f = Top(t), f.op \in {"place", "reuse", "adopt"},
           NEW g, g.op \in {"place", "reuse", "adopt"}, g.version = f.version,
           Then(t, <<g>>), versions' = versions
    PROVE  Exchanges(t, <<g>>)
<1>1. g \in Frames' /\ f \in Frames
  BY NewFrame, TopTyped
<1> SUFFICES ASSUME NEW v \in Versions
             PROVE  StepWeights(t, <<g>>, v, One(v = f.version), One(v = f.version))
                    /\ Owed(v)' = Owed(v) - One(v = f.version) + One(v = f.version)
  BY DEF Exchanges
<1>2. /\ Weight(<<f>>, OnStack(v), OnStackWhen(v)) = One(v = f.version)
      /\ Weight(<<g>>, OnStack(v)', OnStackWhen(v)') = One(v = f.version)
  BY <1>1, VersionWeight
<1>3. Owed(v)' = Owed(v) /\ Owed(v) \in Int
  BY CountersStep
<1> QED BY <1>2, <1>3 DEF StepWeights, One

\* The count of a statement to be inserted goes on to the calls that insert it.
LEMMA InsertPlaceCounts ==
    ASSUME TypeOK, TypeOK', CountsInv, NEW t \in Threads, InsertPlace(t), work' = work
    PROVE  CountsInv'
<1>1. PICK f : f = Top(t)
  OBVIOUS
<1>2. todo[t] # <<>> /\ f \in Frames /\ f.op = "place"
  BY <1>1, TopTyped DEF InsertPlace, At
<1>3. versions' = versions
  BY DEF InsertPlace, sideVars
<1>4. StmtVersions /\ SameVersions /\ Versions' = Versions
  BY InsertPlaceSteady, SteadyKeeps DEF Steady
<1>5. CASE Present(f.clause)
  <2>1. PICK g : g = [f EXCEPT !.op = "reuse", !.ref = index[f.clause]]
    OBVIOUS
  <2>2. Then(t, <<g>>)
    BY <1>1, <1>5, <2>1 DEF InsertPlace
  <2>3. g.op = "reuse" /\ g.version = f.version
    BY <1>2, <2>1, InsertVersions
  <2>4. Exchanges(t, <<g>>)
    BY <1>1, <1>2, <1>3, <2>2, <2>3, InsertExchanges
  <2>5. Calls(<<g>>, {"adopt"})
    BY <2>3, ShortCalls
  <2>6. AdoptsAgree'
    BY <1>2, <1>4, <2>2, <2>5, ThenAdopts
  <2> QED BY <1>2, <1>4, <2>2, <2>4, <2>6, OneFrame, ExchangeCounts
<1>6. CASE ~Present(f.clause)
  <2>1. PICK new : new = Len(stmts) + 1
    OBVIOUS
  <2>2. PICK g : g = [f EXCEPT !.op = "adopt", !.ref = new]
    OBVIOUS
  <2>3. PICK e : e = [clause |-> f.clause, parentCount |-> 1, keep |-> f.keep,
                      version |-> f.version, lock |-> NoThread, open |-> TRUE, kids |-> <<>>]
    OBVIOUS
  <2>4. Then(t, <<g>>) /\ stmts' = Append(stmts, e)
    BY <1>1, <1>6, <2>1, <2>2, <2>3 DEF InsertPlace
  <2>5. g.op = "adopt" /\ g.version = f.version /\ g.ref = new
    BY <1>2, <2>2, InsertVersions
  <2>6. Exchanges(t, <<g>>)
    BY <1>1, <1>2, <1>3, <2>4, <2>5, InsertExchanges
  <2>7. new \in StmtRefs' /\ stmts'[new] = e
    <3>1. stmts \in Seq(Stmt \cup {e}) /\ Len(stmts) \in Nat
      BY LensTyped, SeqMonotonic
    <3>2. Len(stmts') = new /\ stmts'[new] = e
      BY <2>1, <2>4, <3>1, AppendProperties
    <3> QED BY <2>1, <3>1, <3>2 DEF StmtRefs
  <2>8. e.version = f.version
    BY <2>3
  <2>9. AdoptsAgree'
    <3> SUFFICES ASSUME NEW u \in Threads, NEW i \in 1 .. Len(todo'[u]), NEW h, h = todo'[u][i],
                        h.op = "adopt"
                 PROVE  h.ref \in StmtRefs' /\ stmts'[h.ref].version = h.version
      BY DEF AdoptsAgree
    <3>1. h = g \/ (h.ref \in StmtRefs /\ stmts[h.ref].version = h.version)
      <4>1. CASE u # t
        BY <2>4, <4>1, ThenMoves DEF Moves, CountsInv, AdoptsAgree
      <4>2. CASE u = t
        <5>1. todo'[t] = <<g>> \o Tail(todo[t]) /\ todo[t] \in Seq(Frames)
          BY <2>4, ThenMoves DEF TypeOK
        <5>2. /\ (<<g>> \o Tail(todo[t]))[1] = g
              /\ \A j \in 1 .. Len(<<g>> \o Tail(todo[t])) : j > 1 =>
                    /\ j \in 1 .. Len(todo[t])
                    /\ (<<g>> \o Tail(todo[t]))[j] = todo[t][j]
          <6>1. Len(<<g>>) = 1 /\ <<g>>[1] = g
            BY OneFrame
          <6>2. /\ \A j \in 1 .. Len(<<g>>) : (<<g>> \o Tail(todo[t]))[j] = <<g>>[j]
                /\ \A j \in 1 .. Len(<<g>> \o Tail(todo[t])) : j > Len(<<g>>) =>
                      /\ j - Len(<<g>>) + 1 \in 2 .. Len(todo[t])
                      /\ (<<g>> \o Tail(todo[t]))[j] = todo[t][j - Len(<<g>>) + 1]
            BY <1>2, <5>1, OneFrame, ReplacedTop
          <6>3. \A j \in 1 .. Len(<<g>> \o Tail(todo[t])) : j - 1 + 1 = j
            OBVIOUS
          <6> QED BY <6>1, <6>2, <6>3
        <5>3. i = 1 \/ i > 1
          OBVIOUS
        <5> QED BY <4>2, <5>1, <5>2, <5>3 DEF CountsInv, AdoptsAgree
      <4> QED BY <4>1, <4>2
    <3>2. StmtRefs \subseteq StmtRefs'
      BY <2>1, <2>7, LensTyped DEF StmtRefs
    <3> QED BY <1>4, <2>5, <2>7, <2>8, <3>1, <3>2 DEF StmtVersions
  <2> QED BY <1>2, <1>4, <2>4, <2>6, <2>9, OneFrame, ExchangeCounts
<1> QED BY <1>5, <1>6

LEMMA HoldSetWeightless ==
    ASSUME NEW f
    PROVE  Weightless(HoldSetFrames(f))
<1>1. \A k, r, o : Light([op |-> "holdSet", key |-> k, ref |-> r, old |-> o])
  BY DEF Light, CountedOps
<1> QED BY <1>1, ShortWeightless DEF HoldSetFrames

LEMMA WeightlessAdopts ==
    ASSUME TypeOK, TypeOK', CountsInv, NEW t \in Threads, todo[t] # <<>>, NEW frames,
           Then(t, frames), Weightless(frames), StmtVersions
    PROVE  AdoptsAgree' /\ \E G : frames \in Seq(G)
BY WeightlessCalls, ThenAdopts

\* What the provisional statement had counted is lost when another is reused.
LEMMA InsertReuseCounts ==
    ASSUME TypeOK, TypeOK', CountsInv, NEW t \in Threads, InsertReuse(t), work' = work
    PROVE  CountsInv'
<1>1. PICK f : f = Top(t)
  OBVIOUS
<1>2. todo[t] # <<>> /\ f \in Frames /\ f.op = "reuse"
  BY <1>1, TopTyped DEF InsertReuse, At
<1>3. f.version \in Versions \cup {NoVersion}
  BY <1>2, InsertVersions
<1>4. StmtVersions /\ SameVersions /\ Versions' = Versions
  BY InsertReuseSteady, SteadyKeeps DEF Steady
<1>5. CASE CanReuse(f.ref)
  <2>1. PICK frames : frames = HoldSetFrames(f)
    OBVIOUS
  <2>2. Then(t, frames) /\ versions' = Lose(versions, f.version)
    BY <1>1, <1>5, <2>1 DEF InsertReuse
  <2>3. Weightless(frames)
    BY <2>1, HoldSetWeightless
  <2>4. Exchanges(t, frames)
    <3> SUFFICES ASSUME NEW v \in Versions
                 PROVE  StepWeights(t, frames, v, One(v = f.version), 0)
                        /\ Owed(v)' = Owed(v) - One(v = f.version) + 0
      BY DEF Exchanges
    <3>1. v # NoVersion
      BY DEF Versions, NoVersion
    <3>2. Weight(<<f>>, OnStack(v), OnStackWhen(v)) = One(v = f.version)
      BY <1>2, VersionWeight
    <3>3. Weight(frames, OnStack(v)', OnStackWhen(v)') = 0
      BY <2>3, <3>1, WeightlessIsZero
    <3>4. Owed(v)' = Owed(v) - One(v = f.version) /\ Owed(v) \in Int
      BY <1>3, <2>2, CountersStep
    <3> QED BY <1>1, <3>2, <3>3, <3>4 DEF StepWeights, One
  <2>5. AdoptsAgree' /\ \E G : frames \in Seq(G)
    BY <1>2, <1>4, <2>2, <2>3, WeightlessAdopts
  <2> QED BY <1>2, <1>4, <2>2, <2>4, <2>5, ExchangeCounts
<1>6. CASE ~CanReuse(f.ref)
  <2>1. PICK g : g = [f EXCEPT !.op = "place"]
    OBVIOUS
  <2>2. Then(t, <<g>>) /\ versions' = versions
    BY <1>1, <1>6, <2>1 DEF InsertReuse
  <2>3. g.op = "place" /\ g.version = f.version
    BY <1>2, <2>1, InsertVersions
  <2>4. Exchanges(t, <<g>>)
    BY <1>1, <1>2, <2>2, <2>3, InsertExchanges
  <2>5. Calls(<<g>>, {"adopt"})
    BY <2>3, ShortCalls
  <2>6. AdoptsAgree'
    BY <1>2, <1>4, <2>2, <2>5, ThenAdopts
  <2> QED BY <1>2, <1>4, <2>2, <2>4, <2>6, OneFrame, ExchangeCounts
<1> QED BY <1>5, <1>6

\* The statement that was inserted is reacted to, in its version.
LEMMA NewConcat ==
    ASSUME NEW F, NEW a \in Seq(F), NEW b \in Seq(F), NEW v
    PROVE  /\ Weight(a \o b, OnStack(v)', OnStackWhen(v)')
              = Weight(a, OnStack(v)', OnStackWhen(v)') + Weight(b, OnStack(v)', OnStackWhen(v)')
           /\ Weight(a, OnStack(v)', OnStackWhen(v)') \in Nat
           /\ Weight(b, OnStack(v)', OnStackWhen(v)') \in Nat
<1>1. PICK S : S = OnStack(v)'
  OBVIOUS
<1>2. PICK R : R = OnStackWhen(v)'
  OBVIOUS
<1>3. /\ Weight(a \o b, S, R) = Weight(a, S, R) + Weight(b, S, R)
      /\ Weight(a, S, R) \in Nat /\ Weight(b, S, R) \in Nat
  BY WeightConcat
<1> QED BY <1>1, <1>2, <1>3

\* The count of a statement to be hung under its parent goes on to its reaction.
LEMMA InsertAdoptCounts ==
    ASSUME TypeOK, TypeOK', CountsInv, NEW t \in Threads, InsertAdopt(t), work' = work
    PROVE  CountsInv'
<1>1. PICK f : f = Top(t)
  OBVIOUS
<1>2. todo[t] # <<>> /\ f \in Frames /\ f.op = "adopt"
  BY <1>1, TopTyped DEF InsertAdopt, At
<1>3. f.ref \in StmtRefs /\ stmts[f.ref].version = f.version
  <2>1. 1 \in 1 .. Len(todo[t]) /\ todo[t][1] = f
    <3>1. todo[t] \in Seq(Frames)
      BY DEF TypeOK
    <3>2. Len(todo[t]) \in Nat \ {0}
      BY <1>2, <3>1, EmptySeq, LenProperties
    <3> QED BY <1>1, <1>2, <3>1, <3>2 DEF Top
  <2> QED BY <1>2, <2>1 DEF CountsInv, AdoptsAgree
<1>4. SteadyStmts /\ SteadyMatches /\ SteadyRoots
  BY InsertAdoptSteady DEF Steady
<1>5. StmtVersions /\ SameVersions /\ Versions' = Versions
  BY <1>4, SteadyKeeps
<1>6. stmts' = stmts /\ versions' = versions
  BY DEF InsertAdopt, sideVars
<1>7. CASE todo' = todo
  BY <1>4, <1>5, <1>6, <1>7, SameOwed, SameQueue, IdlyCounts DEF Idly
<1>8. CASE Live(f.ref)
  <2>1. PICK g : g = RefFrame("react", f.ref)
    OBVIOUS
  <2>2. PICK h : h = HoldSetFrames(f)
    OBVIOUS
  <2>3. Then(t, h \o <<g>>)
    BY <1>1, <1>8, <2>1, <2>2 DEF InsertAdopt
  <2>4. Weightless(h)
    BY <2>2, HoldSetWeightless
  <2>5. g.op = "react" /\ g.ref = f.ref
    BY <2>1 DEF RefFrame
  <2>6. PICK F : h \in Seq(F) /\ <<g>> \in Seq(F)
    <3>1. PICK H : h \in Seq(H)
      BY <2>4 DEF Weightless
    <3>2. h \in Seq(H \cup {g}) /\ <<g>> \in Seq(H \cup {g})
      BY <3>1, SeqMonotonic, ShortSeqs
    <3> QED BY <3>2
  <2>7. /\ h \o <<g>> \in Seq(F) /\ Len(h) \in Nat /\ Len(h \o <<g>>) = Len(h) + 1
        /\ (h \o <<g>>)[Len(h) + 1] = g
    <3>1. Len(<<g>>) = 1 /\ <<g>>[1] = g /\ Len(h) \in Nat
      BY <2>6, LenProperties
    <3> QED BY <2>6, <3>1, ConcatProperties
  <2>8. g \in Frames'
    <3>1. \A j \in 1 .. Len(h \o <<g>>) : (h \o <<g>>)[j] \in Frames'
      BY <1>2, <2>3, <2>7, NewFrames
    <3> QED BY <2>7, <3>1
  <2>9. Exchanges(t, h \o <<g>>)
    <3> SUFFICES ASSUME NEW v \in Versions
                 PROVE  StepWeights(t, h \o <<g>>, v, One(v = f.version), One(v = f.version))
                        /\ Owed(v)' = Owed(v) - One(v = f.version) + One(v = f.version)
      BY DEF Exchanges
    <3>1. v # NoVersion
      BY DEF Versions, NoVersion
    <3>2. Weight(<<f>>, OnStack(v), OnStackWhen(v)) = One(v = f.version)
      BY <1>2, VersionWeight
    <3>3. Weight(<<g>>, OnStack(v)', OnStackWhen(v)') = One(v = stmts'[g.ref].version)
      BY <2>5, <2>8, ReactWeight
    <3>4. Weight(<<g>>, OnStack(v)', OnStackWhen(v)') = One(v = f.version)
      BY <1>3, <1>6, <2>5, <3>3
    <3>5. Weight(h, OnStack(v)', OnStackWhen(v)') = 0
      BY <2>4, <3>1, WeightlessIsZero
    <3>6. Weight(h \o <<g>>, OnStack(v)', OnStackWhen(v)')
          = Weight(h, OnStack(v)', OnStackWhen(v)') + Weight(<<g>>, OnStack(v)', OnStackWhen(v)')
      <4>1. PICK k : k = <<g>>
        OBVIOUS
      <4>2. Weight(h \o k, OnStack(v)', OnStackWhen(v)')
            = Weight(h, OnStack(v)', OnStackWhen(v)') + Weight(k, OnStack(v)', OnStackWhen(v)')
        BY <2>6, <4>1, NewConcat
      <4> QED BY <4>1, <4>2
    <3>7. Weight(h \o <<g>>, OnStack(v)', OnStackWhen(v)') = One(v = f.version)
      BY <3>4, <3>5, <3>6 DEF One
    <3>8. Owed(v)' = Owed(v) /\ Owed(v) \in Int
      BY <1>6, CountersStep
    <3> QED BY <1>1, <3>2, <3>7, <3>8 DEF StepWeights, One
  <2>10. Calls(h \o <<g>>, {"adopt"})
    BY <2>4, <2>5, WeightlessCalls, ShortCalls, CallsConcat
  <2>11. AdoptsAgree'
    BY <1>2, <1>5, <2>3, <2>10, ThenAdopts
  <2> QED BY <1>2, <1>5, <2>3, <2>7, <2>9, <2>11, ExchangeCounts
<1> QED BY <1>1, <1>7, <1>8 DEF InsertAdopt

\* A decrement to come is given back.
LEMMA InflightDecrCounts ==
    ASSUME TypeOK, TypeOK', CountsInv, NEW t \in Threads, InflightDecr(t), work' = work
    PROVE  CountsInv'
<1>1. PICK f : f = Top(t)
  OBVIOUS
<1>2. todo[t] # <<>> /\ f \in Frames /\ f.op = "inflightDecr"
  BY <1>1, TopTyped DEF InflightDecr, At
<1>3. f.version \in Versions
  BY <1>2, FrameFields
<1>4. UNCHANGED <<stmts, matches>> /\ versions' = [versions EXCEPT ![f.version].inflight = @ - 1]
  BY <1>1 DEF InflightDecr
<1>5. StmtVersions /\ SameVersions /\ Versions' = Versions
  BY <1>3, <1>4, UnchangedSteady, VersionSteady, SteadyKeeps
<1>6. PICK frames : Then(t, frames) /\ Weightless(frames)
  <2>1. \A v : Light(VersionFrame("converged", v))
    BY DEF Light, VersionFrame, CountedOps
  <2>2. \A v : Weightless(<<VersionFrame("converged", v)>>)
    BY <2>1, ShortWeightless
  <2>3. CASE versions[f.version].inflight = 1
    BY <1>1, <2>2, <2>3 DEF InflightDecr
  <2>4. CASE versions[f.version].inflight # 1
    BY <1>1, <2>4, ShortWeightless DEF InflightDecr
  <2> QED BY <2>3, <2>4
<1>7. Exchanges(t, frames)
  <2> SUFFICES ASSUME NEW v \in Versions
               PROVE  StepWeights(t, frames, v, One(v = f.version), 0)
                      /\ Owed(v)' = Owed(v) - One(v = f.version) + 0
    BY DEF Exchanges
  <2>1. v # NoVersion
    BY DEF Versions, NoVersion
  <2>2. Weight(<<f>>, OnStack(v), OnStackWhen(v)) = One(v = f.version)
    BY <1>2, VersionWeight
  <2>3. Weight(frames, OnStack(v)', OnStackWhen(v)') = 0
    BY <1>6, <2>1, WeightlessIsZero
  <2>4. Owed(v)' = Owed(v) - One(v = f.version) /\ Owed(v) \in Int
    BY <1>3, <1>4, CountersStep
  <2> QED BY <1>1, <2>2, <2>3, <2>4 DEF StepWeights, One
<1>8. AdoptsAgree' /\ \E G : frames \in Seq(G)
  BY <1>2, <1>5, <1>6, WeightlessAdopts
<1> QED BY <1>2, <1>5, <1>6, <1>7, <1>8, ExchangeCounts

\* The end of a body: what its match counts is given back.
LEMMA EndBodyCounts ==
    ASSUME TypeOK, TypeOK', CountsInv, NEW t \in Threads, EndBody(t)
    PROVE  CountsInv'
<1>1. PICK f : f = Top(t)
  OBVIOUS
<1>2. todo[t] # <<>> /\ f \in Frames /\ f.op = "endBody"
  BY <1>1, TopTyped DEF EndBody, At
<1>3. f.ref \in MatchRefs
  BY <1>2, FrameFields DEF MatchOps
<1>4. PICK w : w = matches[f.ref].version
  OBVIOUS
<1>5. UNCHANGED <<stmts, versions, work>>
  BY DEF EndBody, sideVars
<1>6. StmtVersions /\ Versions' = Versions
  BY <1>5, UnchangedSteady, SteadyKeeps
<1>7. CASE w = NoVersion
  <2>1. Then(t, <<>>) /\ matches' = [matches EXCEPT ![f.ref].completed = TRUE]
    BY <1>1, <1>4, <1>7 DEF EndBody
  <2>2. SameVersions
    BY <1>3, <2>1, CompletedVersions
  <2>3. Weightless(<<>>)
    BY ShortWeightless
  <2>4. Exchanges(t, <<>>)
    <3> SUFFICES ASSUME NEW v \in Versions
                 PROVE  StepWeights(t, <<>>, v, 0, 0) /\ Owed(v)' = Owed(v) - 0 + 0
      BY DEF Exchanges
    <3>1. v # NoVersion
      BY DEF Versions, NoVersion
    <3>2. Weight(<<f>>, OnStack(v), OnStackWhen(v)) = One(v = w)
      BY <1>2, <1>4, EndWeight
    <3>3. Weight(<<>>, OnStack(v)', OnStackWhen(v)') = 0
      BY <2>3, <3>1, WeightlessIsZero
    <3>4. Owed(v)' = Owed(v) /\ Owed(v) \in Int
      BY <1>5, CountersStep
    <3> QED BY <1>1, <1>7, <3>1, <3>2, <3>3, <3>4 DEF StepWeights, One
  <2>5. AdoptsAgree' /\ \E G : <<>> \in Seq(G)
    BY <1>2, <1>6, <2>1, <2>3, WeightlessAdopts
  <2> QED BY <1>2, <1>5, <1>6, <2>1, <2>2, <2>4, <2>5, ExchangeCounts
<1>8. CASE w # NoVersion
  <2>1. PICK g : g = InflightFrame(w)
    OBVIOUS
  <2>2. PICK h : h = RefFrame("completed", f.ref)
    OBVIOUS
  <2>3. Then(t, <<g, h>>) /\ matches' = matches
    BY <1>1, <1>4, <1>8, <2>1, <2>2 DEF EndBody
  <2>4. SameVersions
    BY <2>3 DEF SameVersions
  <2>5. g.op = "inflightDecr" /\ g.version = w /\ h.op = "completed"
    BY <2>1, <2>2 DEF InflightFrame, RefFrame
  <2>6. /\ <<g, h>> \in Seq({g, h}) /\ <<g>> \in Seq({g, h}) /\ <<h>> \in Seq({g, h})
        /\ <<g, h>> = <<g>> \o <<h>> /\ Len(<<g, h>>) = 2 /\ <<g, h>>[1] = g
    BY ShortSeqs
  <2>7. g \in Frames'
    <3>1. \A j \in 1 .. Len(<<g, h>>) : <<g, h>>[j] \in Frames'
      BY <1>2, <2>3, <2>6, NewFrames
    <3> QED BY <2>6, <3>1
  <2>8. Weightless(<<h>>)
    BY <2>5, ShortWeightless DEF Light, CountedOps
  <2>9. Exchanges(t, <<g, h>>)
    <3> SUFFICES ASSUME NEW v \in Versions
                 PROVE  StepWeights(t, <<g, h>>, v, One(v = w), One(v = w))
                        /\ Owed(v)' = Owed(v) - One(v = w) + One(v = w)
      BY DEF Exchanges
    <3>1. v # NoVersion
      BY DEF Versions, NoVersion
    <3>2. Weight(<<f>>, OnStack(v), OnStackWhen(v)) = One(v = w)
      BY <1>2, <1>4, EndWeight
    <3>3. Weight(<<g>>, OnStack(v)', OnStackWhen(v)') = One(v = w)
      BY <2>5, <2>7, VersionWeight
    <3>4. Weight(<<h>>, OnStack(v)', OnStackWhen(v)') = 0
      BY <2>8, <3>1, WeightlessIsZero
    <3>5. Weight(<<g>> \o <<h>>, OnStack(v)', OnStackWhen(v)')
          = Weight(<<g>>, OnStack(v)', OnStackWhen(v)') + Weight(<<h>>, OnStack(v)', OnStackWhen(v)')
      <4>1. PICK k : k = <<g>>
        OBVIOUS
      <4>2. PICK l : l = <<h>>
        OBVIOUS
      <4>3. k \in Seq({g, h}) /\ l \in Seq({g, h})
        BY <2>6, <4>1, <4>2
      <4>4. Weight(k \o l, OnStack(v)', OnStackWhen(v)')
            = Weight(k, OnStack(v)', OnStackWhen(v)') + Weight(l, OnStack(v)', OnStackWhen(v)')
        BY <4>3, NewConcat
      <4> QED BY <4>1, <4>2, <4>4
    <3>6. Weight(<<g, h>>, OnStack(v)', OnStackWhen(v)') = One(v = w)
      <4>1. Weight(<<g, h>>, OnStack(v)', OnStackWhen(v)') = Weight(<<g>> \o <<h>>, OnStack(v)', OnStackWhen(v)')
        BY <2>6
      <4> QED BY <3>3, <3>4, <3>5, <4>1 DEF One
    <3>7. Owed(v)' = Owed(v) /\ Owed(v) \in Int
      BY <1>5, CountersStep
    <3> QED BY <1>1, <3>2, <3>6, <3>7 DEF StepWeights, One
  <2>10. Calls(<<g, h>>, {"adopt"})
    BY <2>5, ShortCalls
  <2>11. AdoptsAgree' /\ \E G : <<g, h>> \in Seq(G)
    BY <1>2, <1>6, <2>3, <2>10, ThenAdopts
  <2> QED BY <1>2, <1>5, <1>6, <2>3, <2>4, <2>9, <2>11, ExchangeCounts
<1> QED BY <1>7, <1>8

-----------------------------------------------------------------------------
(* reactToNewStatement.                                                    *)

\* What a reaction pushes is counted once for its When and once for its statement.
LEMMA ItemsAreCounted ==
    ASSUME NEW W, NEW S, NEW P, P \subseteq W \X S, IsFiniteSet(P)
    PROVE  LET items == {RunWhenItem(p[1], p[2]) : p \in P}
           IN  IsFiniteSet(items) /\ Cardinality(items) = Cardinality(P)
<1> DEFINE items == {RunWhenItem(p[1], p[2]) : p \in P}
           f == [p \in P |-> RunWhenItem(p[1], p[2])]
<1>1. f \in [P -> items]
  OBVIOUS
<1>2. \A p, q \in P : f[p] = f[q] => p = q
  <2> SUFFICES ASSUME NEW p \in P, NEW q \in P, f[p] = f[q] PROVE p = q
    OBVIOUS
  <2>1. RunWhenItem(p[1], p[2]).when = RunWhenItem(q[1], q[2]).when
        /\ RunWhenItem(p[1], p[2]).stmt = RunWhenItem(q[1], q[2]).stmt
    OBVIOUS
  <2>2. p[1] = q[1] /\ p[2] = q[2]
    BY <2>1 DEF RunWhenItem
  <2>3. p \in W \X S /\ q \in W \X S
    OBVIOUS
  <2> QED BY <2>2, <2>3
<1>3. \A x \in items : \E p \in P : f[p] = x
  OBVIOUS
<1>4. f \in Bijection(P, items)
  BY <1>1, <1>2, <1>3 DEF Bijection, Injection, Surjection, IsInjective
<1>5. ExistsBijection(P, items)
  BY <1>4 DEF ExistsBijection
<1> HIDE DEF items
<1>6. IsFiniteSet(items) /\ Cardinality(items) = Cardinality(P)
  BY <1>5, FS_Bijection
<1> QED BY <1>6 DEF items

\* The counters grow by what the queues do.
LEMMA PushesCount ==
    ASSUME TypeOK, TypeOK', stmts' = stmts, NEW pairs,
           pairs \subseteq RefsOf(Whens) \X (StmtRefs \cup {NoRef}), PushRunWhens(pairs),
           NEW v \in Versions, Balanced(v)
    PROVE  \E d \in Nat : QueueBy(v, d) /\ Owed(v)' = Owed(v) + d
<1> DEFINE A == {RunWhenItem(p[1], p[2]) : p \in pairs}
           W == {p \in pairs : VersionOf(p[1]) = v}
           S == {p \in pairs : VersionOf(p[2]) = v}
           AW == {RunWhenItem(p[1], p[2]) : p \in W}
           AS == {RunWhenItem(p[1], p[2]) : p \in S}
<1>1. IsFiniteSet(StmtRefs)
  BY LenProperties, FS_Interval DEF TypeOK, DbTypeOK, StmtRefs
<1>2. IsFiniteSet(RefsOf(Whens)) /\ IsFiniteSet(StmtRefs \cup {NoRef})
  BY <1>1, FS_Subset, FS_AddElement DEF RefsOf
<1>3. IsFiniteSet(RefsOf(Whens) \X (StmtRefs \cup {NoRef}))
  BY <1>2, FS_Product
<1>4. IsFiniteSet(W) /\ IsFiniteSet(S)
  BY <1>3, FS_Subset
<1>5. W \subseteq RefsOf(Whens) \X (StmtRefs \cup {NoRef})
      /\ S \subseteq RefsOf(Whens) \X (StmtRefs \cup {NoRef})
  OBVIOUS
<1>6. IsFiniteSet(AW) /\ Cardinality(AW) = Cardinality(W)
      /\ IsFiniteSet(AS) /\ Cardinality(AS) = Cardinality(S)
  <2> HIDE DEF W, S
  <2> QED BY <1>4, <1>5, ItemsAreCounted
<1>7. \A w \in RefsOf(Whens) : \A s \in StmtRefs \cup {NoRef} :
         /\ RunWhenItem(w, s) \in Queued(v)' <=> VersionOf(s) = v
         /\ RunWhenItem(w, s) \in QueuedWhen(v)' <=> VersionOf(w) = v
  <2> SUFFICES ASSUME NEW w \in RefsOf(Whens), NEW s \in StmtRefs \cup {NoRef}
               PROVE  /\ RunWhenItem(w, s) \in Queued(v)' <=> VersionOf(s) = v
                      /\ RunWhenItem(w, s) \in QueuedWhen(v)' <=> VersionOf(w) = v
    OBVIOUS
  <2>1. w \in RefsOf(Whens)' /\ s \in StmtRefs' \cup {NoRef}
    BY DEF RefsOf, StmtRefs
  <2>2. RunWhenItem(w, s) \in WorkItems'
    BY <2>1 DEF RunWhenItem, WorkItems
  <2>3. VersionOf(s)' = VersionOf(s) /\ VersionOf(w)' = VersionOf(w)
    BY DEF VersionOf
  <2> QED BY <2>2, <2>3 DEF RunWhenItem, Queued, QueuedWhen, ItemCounts, ItemCountsWhen
<1>8. A \cap Queued(v)' = AS /\ A \cap QueuedWhen(v)' = AW
  BY <1>5, <1>7
<1>9. StmtVersions /\ FiniteQueue(v) /\ QueueWeight(v) \in Nat
  BY WeightsTyped DEF StmtVersions, Balanced
<1>10. work' = work (+) SetToBag(A)
  BY DEF PushRunWhens
<1>11. versions'[v] = [versions[v] EXCEPT !.inflight = @ + (Cardinality(W) + Cardinality(S))]
  BY LensTyped DEF PushRunWhens, Versions
<1>12. Cardinality(W) \in Nat /\ Cardinality(S) \in Nat
  BY <1>4, FS_CardinalityType
<1> HIDE DEF A, AW, AS, W, S
<1>13. /\ FiniteQueue(v)'
       /\ QueueWeight(v)' = QueueWeight(v) + Cardinality(A \cap Queued(v)')
                            + Cardinality(A \cap QueuedWhen(v)')
  BY <1>6, <1>8, <1>9, <1>10, QueueGrows
<1>14. QueueWeight(v)' = QueueWeight(v) + (Cardinality(W) + Cardinality(S))
  <2>1. QueueWeight(v)' = QueueWeight(v) + Cardinality(AS) + Cardinality(AW)
    BY <1>8, <1>13
  <2>2. QueueWeight(v)' = QueueWeight(v) + Cardinality(S) + Cardinality(W)
    BY <1>6, <2>1
  <2> QED BY <1>9, <1>12, <2>2
<1>15. versions[v] \in Version /\ versions[v].inflight \in Int /\ versions[v].lost \in Nat
  BY VersionFields, OwedTyped DEF CountersTyped
<1>16. PICK d \in Nat : d = Cardinality(W) + Cardinality(S)
  BY <1>12
<1>17. versions'[v].inflight = versions[v].inflight + d /\ versions'[v].lost = versions[v].lost
  BY <1>11, <1>15, <1>16 DEF Version
<1>18. Owed(v)' = Owed(v) + d
  BY <1>15, <1>17 DEF Owed
<1>19. QueueBy(v, d)
  BY <1>13, <1>14, <1>16 DEF QueueBy
<1> QED BY <1>18, <1>19

\* The frame that reacts is replaced by one that counts as much.
LEMMA ReactCounts ==
    ASSUME TypeOK, TypeOK', CountsInv, NEW t \in Threads, todo[t] # <<>>, NEW frames,
           \E G : frames \in Seq(G), Then(t, frames), UNCHANGED <<stmts, matches>>, SteadyRoots,
           Calls(frames, {"adopt"}), NEW pairs,
           pairs \subseteq RefsOf(Whens) \X (StmtRefs \cup {NoRef}), PushRunWhens(pairs),
           NEW w, \A v \in Versions : StepWeights(t, frames, v, One(v = w), One(v = w))
    PROVE  CountsInv'
<1>1. StmtVersions /\ SameVersions /\ Versions' = Versions
  BY UnchangedSteady, SteadyKeeps
<1>2. AdoptsAgree'
  BY <1>1, ThenAdopts
<1>3. Settles(t, frames)
  <2> SUFFICES ASSUME NEW v \in Versions, Balanced(v)
               PROVE  \E a, b, d : /\ StepWeights(t, frames, v, a, b) /\ QueueBy(v, d)
                                   /\ Owed(v)' = Owed(v) - a + b + d
    BY DEF Settles
  <2>1. PICK d \in Nat : QueueBy(v, d) /\ Owed(v)' = Owed(v) + d
    BY PushesCount
  <2>2. Owed(v) \in Int
    BY CountersStep
  <2>3. Owed(v)' = Owed(v) - One(v = w) + One(v = w) + d
    BY <2>1, <2>2 DEF One
  <2> QED BY <2>1, <2>3
<1> QED BY <1>1, <1>2, <1>3, SettledCounts

\* A reaction to a When: what it pushes is counted, and it goes on to react as a
\* statement.
LEMMA ReactAsWhenCounts ==
    ASSUME TypeOK, TypeOK', CountsInv, NEW t \in Threads, ReactAsWhen(t)
    PROVE  CountsInv'
<1>1. PICK f : f = Top(t)
  OBVIOUS
<1>2. todo[t] # <<>> /\ f \in Frames /\ f.op = "react" /\ f.ref \in StmtRefs
      /\ f.ref \in RefsOf(Whens)
  BY <1>1, TopTyped, FrameFields DEF ReactAsWhen, At, StmtOps, RefsOf
<1>3. PICK g : g = RefFrame("reactAsStmt", f.ref)
  OBVIOUS
<1>4. Then(t, <<g>>) /\ UNCHANGED <<stmts, matches>> /\ g.op = "reactAsStmt" /\ g.ref = f.ref
  BY <1>1, <1>3 DEF ReactAsWhen, RefFrame
<1>5. SteadyRoots
  BY ReactAsWhenSteady DEF Steady
<1>6. PICK pairs : pairs = {<<f.ref, s>> : s \in StatementsFor(Reacts[stmts[f.ref].clause])}
  OBVIOUS
<1>7. StatementsFor(Reacts[stmts[f.ref].clause]) \subseteq StmtRefs \cup {NoRef}
  BY QueryTyped DEF StatementsFor, RefsOf
<1>8. pairs \subseteq RefsOf(Whens) \X (StmtRefs \cup {NoRef}) /\ PushRunWhens(pairs)
  BY <1>1, <1>2, <1>6, <1>7 DEF ReactAsWhen
<1>9. PICK w : w = stmts[f.ref].version
  OBVIOUS
<1>10. ASSUME NEW v \in Versions PROVE StepWeights(t, <<g>>, v, One(v = w), One(v = w))
  <2>1. g \in Frames'
    BY <1>2, <1>4, NewFrame
  <2>2. Weight(<<f>>, OnStack(v), OnStackWhen(v)) = One(v = w)
    BY <1>2, <1>9, ReactWeight
  <2>3. Weight(<<g>>, OnStack(v)', OnStackWhen(v)') = One(v = stmts'[g.ref].version)
    BY <1>4, <2>1, ReactWeight
  <2>4. Weight(<<g>>, OnStack(v)', OnStackWhen(v)') = One(v = w)
    BY <1>4, <1>9, <2>3
  <2> QED BY <1>1, <2>2, <2>4 DEF StepWeights, One
<1>11. Calls(<<g>>, {"adopt"}) /\ \E G : <<g>> \in Seq(G)
  BY <1>4, ShortCalls, OneFrame
<1> QED BY <1>2, <1>4, <1>5, <1>8, <1>10, <1>11, ReactCounts

LEMMA ReactAsStmtCounts ==
    ASSUME TypeOK, TypeOK', CountsInv, NEW t \in Threads, ReactAsStmt(t)
    PROVE  CountsInv'
<1>1. PICK f : f = Top(t)
  OBVIOUS
<1>2. todo[t] # <<>> /\ f \in Frames /\ f.op \in {"react", "reactAsStmt"}
  BY <1>1, TopTyped DEF ReactAsStmt, At
<1>3. f.ref \in StmtRefs
  BY <1>2, FrameFields DEF StmtOps
<1>4. PICK w : w = stmts[f.ref].version
  OBVIOUS
<1>5. PICK frames : frames = InflightFrames(w)
  OBVIOUS
<1>6. Then(t, frames) /\ UNCHANGED <<stmts, matches>>
  BY <1>1, <1>4, <1>5 DEF ReactAsStmt
<1>7. SteadyRoots
  BY ReactAsStmtSteady DEF Steady
<1>8. PICK found : found = IF stmts[f.ref].clause \in Subscribes THEN {}
                           ELSE Query(WhensFor(stmts[f.ref].clause))
  OBVIOUS
<1>9. found \subseteq RefsOf(Whens)
  BY <1>8, QueryTyped DEF WhensFor, RefsOf
<1>10. PICK pairs : pairs = {<<r, f.ref>> : r \in {r \in found : Live(r)}}
  OBVIOUS
<1>11. pairs \subseteq RefsOf(Whens) \X (StmtRefs \cup {NoRef}) /\ PushRunWhens(pairs)
  <2>1. pairs \subseteq RefsOf(Whens) \X (StmtRefs \cup {NoRef})
    BY <1>3, <1>9, <1>10
  <2>2. PushRunWhens(pairs)
    BY <1>1, <1>8, <1>10 DEF ReactAsStmt
  <2> QED BY <2>1, <2>2
<1>12. ASSUME NEW v \in Versions PROVE Weight(<<f>>, OnStack(v), OnStackWhen(v)) = One(v = w)
  BY <1>2, <1>4, ReactWeight
<1>13. CASE w = NoVersion
  <2>1. frames = <<>>
    BY <1>5, <1>13 DEF InflightFrames
  <2>2. Weightless(frames)
    BY <2>1, ShortWeightless
  <2>3. ASSUME NEW v \in Versions PROVE StepWeights(t, frames, v, One(v = w), One(v = w))
    <3>1. v # NoVersion
      BY DEF Versions, NoVersion
    <3>2. Weight(frames, OnStack(v)', OnStackWhen(v)') = 0
      BY <2>2, <3>1, WeightlessIsZero
    <3>3. One(v = w) = 0
      BY <1>13, <3>1 DEF One
    <3> QED BY <1>1, <1>12, <3>2, <3>3 DEF StepWeights
  <2>4. Calls(frames, {"adopt"}) /\ \E G : frames \in Seq(G)
    BY <2>1, ShortCalls, <2>2 DEF Weightless
  <2> QED BY <1>2, <1>6, <1>7, <1>11, <2>3, <2>4, ReactCounts
<1>14. CASE w # NoVersion
  <2>1. PICK g : g = InflightFrame(w)
    OBVIOUS
  <2>2. frames = <<g>> /\ g.op = "inflightDecr" /\ g.version = w
    BY <1>5, <1>14, <2>1 DEF InflightFrames, InflightFrame
  <2>3. Calls(frames, {"adopt"}) /\ \E G : frames \in Seq(G)
    BY <2>2, ShortCalls, OneFrame
  <2>4. g \in Frames'
    BY <1>2, <1>6, <2>2, NewFrame
  <2>5. ASSUME NEW v \in Versions PROVE StepWeights(t, frames, v, One(v = w), One(v = w))
    <3>1. Weight(<<g>>, OnStack(v)', OnStackWhen(v)') = One(v = w)
      BY <2>2, <2>4, VersionWeight
    <3> QED BY <1>1, <1>12, <2>2, <3>1 DEF StepWeights, One
  <2> QED BY <1>2, <1>6, <1>7, <1>11, <2>3, <2>5, ReactCounts
<1> QED BY <1>13, <1>14

-----------------------------------------------------------------------------
(* Items that are taken: skipped, or locked and run.                       *)

\* What a RUN_WHEN item, or the frame of one, counts.
PairWeight(f, v) == One(v = VersionOf(f.when)) + One(v = VersionOf(f.stmt))

\* An item that is taken is no longer counted by the queues.
LEMMA ItemTaken ==
    ASSUME TypeOK, TypeOK', NEW t \in Threads, NEW item, TakeItem(t, item), item.cmd = "runWhen",
           StmtVersions, StmtRefs \subseteq StmtRefs', RefsOf(Whens) \subseteq RefsOf(Whens)',
           NEW v \in Versions, Balanced(v)
    PROVE  PairWeight(item, v) \in Nat /\ QueueBy(v, 0 - PairWeight(item, v))
<1>1. item \in BagToSet(work) /\ work' = work (-) SetToBag({item})
  BY DEF TakeItem
<1>2. ItemWeight(item, v) = PairWeight(item, v) /\ PairWeight(item, v) \in Nat
  BY DEF ItemWeight, ItemCounts, ItemCountsWhen, PairWeight, One
<1>3. FiniteQueue(v) /\ QueueWeight(v) \in Nat
  BY WeightsTyped DEF Balanced
<1>4. FiniteQueue(v)' /\ QueueWeight(v)' = QueueWeight(v) - ItemWeight(item, v)
  BY <1>1, <1>3, QueueShrinks
<1>5. PICK n \in Nat : n = PairWeight(item, v)
  BY <1>2
<1>6. QueueWeight(v)' = QueueWeight(v) + (0 - n)
  BY <1>2, <1>3, <1>4, <1>5
<1> QED BY <1>4, <1>5, <1>6 DEF QueueBy

\* An item that is skipped loses its increments: they stay in lost.
LEMMA LoseOwes ==
    ASSUME NEW vs \in Seq(Version), NEW v \in 1 .. Len(vs), NEW w \in 1 .. Len(vs) \cup {NoVersion}
    PROVE  /\ vs[v].inflight - vs[v].lost \in Int
           /\ Lose(vs, w)[v].inflight - Lose(vs, w)[v].lost
              = vs[v].inflight - vs[v].lost - One(v = w)
<1>1. vs[v] \in Version /\ DOMAIN vs = 1 .. Len(vs) /\ Len(vs) \in Nat
  BY ElementOfSeq, LenProperties
<1>2. vs[v].inflight \in Int /\ vs[v].lost \in Nat
  BY <1>1 DEF Version
<1>3. v # NoVersion
  BY <1>1 DEF NoVersion
<1>4. CASE v = w
  <2> DEFINE e == [vs[v] EXCEPT !.lost = vs[v].lost + 1]
  <2>1. e.inflight = vs[v].inflight /\ e.lost = vs[v].lost + 1
    BY <1>1 DEF Version
  <2>2. Lose(vs, w)[v] = e
    BY <1>1, <1>3, <1>4 DEF Lose
  <2> HIDE DEF e
  <2> QED BY <1>2, <1>4, <2>1, <2>2 DEF One
<1>5. CASE v # w
  <2>1. Lose(vs, w)[v] = vs[v]
    BY <1>1, <1>5 DEF Lose
  <2> QED BY <1>2, <1>5, <2>1 DEF One
<1> QED BY <1>4, <1>5

\* So CountsInv is kept when an item's When or statement is gone.
LEMMA SkipItemCounts ==
    ASSUME TypeOK, TypeOK', Stacks, CountsInv, NEW t \in Threads, NEW item, SkipItem(t, item)
    PROVE  CountsInv'
<1>1. TakeItem(t, item) /\ item \in WorkItems /\ item.cmd = "runWhen"
      /\ UNCHANGED <<stmts, matches, todo>>
  BY TakeItemKeeps DEF SkipItem
<1>2. item.when \in StmtRefs /\ item.stmt \in StmtRefs \cup {NoRef}
  BY <1>1, ItemFields DEF RefsOf
<1>3. PICK w : w = VersionOf(item.when)
  OBVIOUS
<1>4. PICK s : s = VersionOf(item.stmt)
  OBVIOUS
<1>5. w \in Versions \cup {NoVersion} /\ s \in Versions \cup {NoVersion}
  BY <1>2, <1>3, <1>4, VersionOfTyped
<1>6. PICK vs : vs = Lose(versions, w)
  OBVIOUS
<1>7. vs \in Seq(Version) /\ Len(vs) = Len(versions) /\ versions \in Seq(Version)
  BY <1>5, <1>6, LoseTyped, LensTyped
<1>8. versions' = Lose(vs, s)
  BY <1>3, <1>4, <1>6 DEF SkipItem
<1>9. StmtVersions /\ SameVersions /\ Versions' = Versions
  BY <1>1, UnchangedSteady, SteadyKeeps, SkipItemCalm DEF Calm
<1>10. StmtRefs \subseteq StmtRefs' /\ RefsOf(Whens) \subseteq RefsOf(Whens)'
  BY <1>1 DEF StmtRefs, RefsOf
<1>11. AdoptsAgree'
  BY <1>1, <1>9, SameAdopts DEF CountsInv
<1>12. ASSUME NEW v \in Versions PROVE Balanced(v)'
  <2>1. Balanced(v)
    BY DEF CountsInv
  <2>2. PairWeight(item, v) \in Nat /\ QueueBy(v, 0 - PairWeight(item, v))
    BY <1>1, <1>9, <1>10, <2>1, ItemTaken
  <2>3. /\ versions[v].inflight - versions[v].lost \in Int
        /\ vs[v].inflight - vs[v].lost = versions[v].inflight - versions[v].lost - One(v = w)
    BY <1>5, <1>6, <1>7, LoseOwes DEF Versions
  <2>4. versions'[v].inflight - versions'[v].lost = vs[v].inflight - vs[v].lost - One(v = s)
    <3>1. v \in 1 .. Len(vs) /\ s \in 1 .. Len(vs) \cup {NoVersion}
      BY <1>5, <1>7 DEF Versions
    <3>2. Lose(vs, s)[v].inflight - Lose(vs, s)[v].lost = vs[v].inflight - vs[v].lost - One(v = s)
      BY <1>7, <3>1, LoseOwes
    <3> QED BY <1>8, <3>2
  <2>5. PairWeight(item, v) = One(v = w) + One(v = s)
    BY <1>3, <1>4 DEF PairWeight
  <2>6. Owed(v) \in Int /\ Owed(v)' = Owed(v) - One(v = w) - One(v = s)
    BY <2>3, <2>4 DEF Owed
  <2>7. Owed(v)' = Owed(v) + (0 - PairWeight(item, v))
    BY <2>5, <2>6 DEF One
  <2> QED BY <1>1, <1>9, <2>1, <2>2, <2>7, SameBalanced
<1> QED BY <1>9, <1>11, <1>12 DEF CountsInv

\* The whole stack of a thread is replaced.
WholeSettles(t) ==
    \A v \in Versions : Balanced(v) =>
        \E a, b, d :
            /\ a \in Nat /\ b \in Nat
            /\ Weight(todo[t], OnStack(v), OnStackWhen(v)) = a
            /\ Weight(todo'[t], OnStack(v)', OnStackWhen(v)') = b
            /\ QueueBy(v, d) /\ Owed(v)' = Owed(v) - a + b + d

LEMMA WholeSettled ==
    ASSUME TypeOK, TypeOK', CountsInv, NEW t \in Threads, Moves(t), WholeSettles(t),
           NoAdopt(todo[t], todo'[t]), StmtVersions, SameVersions, Versions' = Versions
    PROVE  CountsInv'
<1>1. AdoptsAgree'
  BY AdoptsStep DEF CountsInv
<1>2. ASSUME NEW v \in Versions PROVE Balanced(v)'
  <2>1. Balanced(v)
    BY DEF CountsInv
  <2>2. PICK a, b, d :
            /\ a \in Nat /\ b \in Nat
            /\ Weight(todo[t], OnStack(v), OnStackWhen(v)) = a
            /\ Weight(todo'[t], OnStack(v)', OnStackWhen(v)') = b
            /\ QueueBy(v, d) /\ Owed(v)' = Owed(v) - a + b + d
    BY <2>1 DEF WholeSettles
  <2>3. SameBut({}, v) /\ Avoids(t, <<>>, {})
    BY SameFramesAll DEF SameBut, Avoids
  <2> QED BY <2>1, <2>2, <2>3, WholeBalanced
<1> QED BY <1>1, <1>2 DEF CountsInv


\* What a concatenation counts.
LEMMA SumOfWeights ==
    ASSUME NEW a, \E A : a \in Seq(A), NEW b, \E B : b \in Seq(B), NEW v
    PROVE  /\ Weight(a \o b, OnStack(v)', OnStackWhen(v)')
              = Weight(a, OnStack(v)', OnStackWhen(v)') + Weight(b, OnStack(v)', OnStackWhen(v)')
           /\ \E F : a \o b \in Seq(F)
<1>1. PICK A : a \in Seq(A)
  OBVIOUS
<1>2. PICK B : b \in Seq(B)
  OBVIOUS
<1>3. a \in Seq(A \cup B) /\ b \in Seq(A \cup B)
  BY <1>1, <1>2, SeqMonotonic
<1>4. a \o b \in Seq(A \cup B)
  BY <1>3, ConcatProperties
<1> QED BY <1>3, <1>4, NewConcat

\* A decrement to come counts once, for its version.
LEMMA InflightWeight ==
    ASSUME NEW w \in Versions' \cup {NoVersion}, NEW v, v # NoVersion
    PROVE  /\ Weight(InflightFrames(w), OnStack(v)', OnStackWhen(v)') = One(v = w)
           /\ \E F : InflightFrames(w) \in Seq(F)
           /\ Calls(InflightFrames(w), {"adopt"})
<1>1. CASE w = NoVersion
  <2>1. InflightFrames(w) = <<>> /\ One(v = w) = 0
    BY <1>1 DEF InflightFrames, One
  <2>2. Weight(<<>>, OnStack(v)', OnStackWhen(v)') = 0 /\ Calls(<<>>, {"adopt"})
    BY ShortWeightless, WeightlessIsZero, ShortCalls
  <2>3. \E F : <<>> \in Seq(F)
    BY ShortWeightless DEF Weightless
  <2> QED BY <2>1, <2>2, <2>3
<1>2. CASE w # NoVersion
  <2>1. PICK g : g = InflightFrame(w)
    OBVIOUS
  <2>2. InflightFrames(w) = <<g>> /\ g.op = "inflightDecr" /\ g.version = w
    BY <1>2, <2>1 DEF InflightFrames, InflightFrame
  <2>3. g \in Frames'
    BY <1>2, <2>1 DEF InflightFrame, Frames, AtomicallyFrames
  <2>4. Weight(<<g>>, OnStack(v)', OnStackWhen(v)') = One(v = w)
    BY <2>2, <2>3, VersionWeight
  <2>5. Calls(<<g>>, {"adopt"}) /\ \E F : <<g>> \in Seq(F)
    BY <2>2, ShortCalls, OneFrame
  <2> QED BY <2>2, <2>4, <2>5
<1> QED BY <1>1, <1>2

\* What thread t's stack counts after the step is what f counted, and nothing on
\* it is to be hung under a parent.
TakesOver(t, f) ==
    /\ Calls(todo'[t], {"adopt"})
    /\ \A v \in Versions : Weight(todo'[t], OnStack(v)', OnStackWhen(v)') = PairWeight(f, v)

\* An aborted item's decrements take over what it counted.
LEMMA AbortTakesOver ==
    ASSUME TypeOK, Versions' = Versions, NEW t, NEW f,
           f.when \in StmtRefs, f.stmt \in StmtRefs \cup {NoRef}, todo'[t] = AbortFrames(f)
    PROVE  TakesOver(t, f)
<1>1. PICK w : w = VersionOf(f.when)
  OBVIOUS
<1>2. PICK s : s = VersionOf(f.stmt)
  OBVIOUS
<1>3. w \in Versions' \cup {NoVersion} /\ s \in Versions' \cup {NoVersion}
  BY <1>1, <1>2, VersionOfTyped
<1>4. PICK a : a = InflightFrames(w)
  OBVIOUS
<1>5. PICK b : b = InflightFrames(s)
  OBVIOUS
<1>6. todo'[t] = a \o b
  BY <1>1, <1>2, <1>4, <1>5 DEF AbortFrames
<1>7. /\ Calls(a, {"adopt"}) /\ Calls(b, {"adopt"})
      /\ (\E F : a \in Seq(F)) /\ (\E F : b \in Seq(F))
  <2>1. NoVersion # 1
    BY DEF NoVersion
  <2> QED BY <1>3, <1>4, <1>5, <2>1, InflightWeight
<1>8. ASSUME NEW v \in Versions
      PROVE  Weight(a \o b, OnStack(v)', OnStackWhen(v)') = PairWeight(f, v)
  <2>1. v # NoVersion
    BY DEF Versions, NoVersion
  <2>2. Weight(a, OnStack(v)', OnStackWhen(v)') = One(v = w)
    BY <1>3, <1>4, <2>1, InflightWeight
  <2>3. Weight(b, OnStack(v)', OnStackWhen(v)') = One(v = s)
    BY <1>3, <1>5, <2>1, InflightWeight
  <2>4. Weight(a \o b, OnStack(v)', OnStackWhen(v)')
        = Weight(a, OnStack(v)', OnStackWhen(v)') + Weight(b, OnStack(v)', OnStackWhen(v)')
    BY <1>7, SumOfWeights
  <2>5. Weight(a \o b, OnStack(v)', OnStackWhen(v)') = One(v = w) + One(v = s)
    BY <2>2, <2>3, <2>4
  <2> QED BY <1>1, <1>2, <2>5 DEF PairWeight
<1>9. Calls(a \o b, {"adopt"})
  BY <1>7, CallsConcat
<1> QED BY <1>6, <1>8, <1>9 DEF TakesOver

\* An item whose statement is still to be locked counts as before.
LEMMA LockTakesOver ==
    ASSUME TypeOK, TypeOK', NEW t \in Threads, NEW f, StmtVersions,
           f.when \in StmtRefs, f.stmt \in StmtRefs, NEW g, g.op = "lockStmt",
           g.when = f.when, g.stmt = f.stmt, todo'[t] = <<g>>
    PROVE  TakesOver(t, f)
<1>1. StackTypes'
  BY StackTypesHold, PTL
<1>2. 1 \in 1 .. Len(todo'[t]) /\ todo'[t][1] = g
  OBVIOUS
<1>3. g \in Frames'
  BY <1>1, <1>2 DEF StackTypes
<1>4. VersionOf(g.when)' = VersionOf(f.when) /\ VersionOf(g.stmt)' = VersionOf(f.stmt)
  BY DEF VersionOf, StmtVersions
<1>5. ASSUME NEW v \in Versions
      PROVE  Weight(<<g>>, OnStack(v)', OnStackWhen(v)') = PairWeight(f, v)
  <2>1. (FrameCounts(g, v)' <=> v = VersionOf(f.stmt)) /\ (FrameCountsWhen(g, v)' <=> v = VersionOf(f.when))
    BY <1>4 DEF FrameCounts, FrameCountsWhen
  <2>2. Weight(<<g>>, OnStack(v)', OnStackWhen(v)')
        = One(FrameCounts(g, v)') + One(FrameCountsWhen(g, v)')
    BY <1>3, FrameWeights
  <2> QED BY <2>1, <2>2 DEF PairWeight, One
<1>6. Calls(<<g>>, {"adopt"})
  BY ShortCalls
<1> QED BY <1>5, <1>6 DEF TakesOver

\* A body that runs takes over what its item counted in the body's version, and a
\* decrement what it counted besides.
LEMMA RunTakesOver ==
    ASSUME TypeOK, Versions' = Versions, NEW t \in Threads, NEW f,
           f.when \in RefsOf(Whens), f.stmt \in StmtRefs \cup {NoRef}, NEW m \in MatchRefs',
           matches'[m].version = BlockVersion(f), todo'[t] = RunFrames(f, m)
    PROVE  TakesOver(t, f)
<1>1. PICK w : w = VersionOf(f.when)
  OBVIOUS
<1>2. PICK s : s = VersionOf(f.stmt)
  OBVIOUS
<1>3. w \in Versions' \cup {NoVersion} /\ s \in Versions' \cup {NoVersion}
  BY <1>1, <1>2, VersionOfTyped DEF RefsOf
<1>4. PICK x : x = IF s # NoVersion THEN w ELSE NoVersion
  OBVIOUS
<1>5. PICK a : a = InflightFrames(x)
  OBVIOUS
<1>6. PICK b : b = BodyFrames(m, BodyOf(f))
  OBVIOUS
<1>7. PICK g : g = RefFrame("endBody", m)
  OBVIOUS
<1>8. PICK c : c = <<g>>
  OBVIOUS
<1>9. todo'[t] = a \o b \o c
  <2>1. a = IF w # NoVersion /\ s # NoVersion THEN <<InflightFrame(w)>> ELSE <<>>
    BY <1>4, <1>5 DEF InflightFrames
  <2> QED BY <1>1, <1>2, <1>6, <1>7, <1>8, <2>1 DEF RunFrames, BodyOf
<1>10. x \in Versions' \cup {NoVersion}
  BY <1>3, <1>4
<1>11. Calls(a, {"adopt"}) /\ \E F : a \in Seq(F)
  <2>1. NoVersion # 1
    BY DEF NoVersion
  <2> QED BY <1>5, <1>10, <2>1, InflightWeight
<1>12. Calls(b, CountedOps) /\ Calls(b, {"adopt"}) /\ \E F : b \in Seq(F)
  <2>1. BodyOf(f) \in Seq(Commands)
    BY BodyTyped
  <2>2. "command" \notin CountedOps /\ "command" \notin {"adopt"}
    BY DEF CountedOps
  <2>3. Calls(b, CountedOps) /\ Calls(b, {"adopt"})
    BY <1>6, <2>1, <2>2, BodyFramesCalls
  <2> QED BY <2>3 DEF Calls
<1>13. Weightless(b)
  BY <1>12, CallsWeightless
<1>14. g.op = "endBody" /\ g.ref = m /\ Calls(c, {"adopt"}) /\ \E F : c \in Seq(F)
  <2>1. g.op = "endBody" /\ g.ref = m
    BY <1>7 DEF RefFrame
  <2> QED BY <1>8, <2>1, ShortCalls, OneFrame
<1>15. g \in Frames'
  BY <1>7 DEF RefFrame, Frames, DbFrames, MatchOps
<1>16. PICK ab : ab = a \o b
  OBVIOUS
<1>17. (\E F : ab \in Seq(F)) /\ Calls(ab, {"adopt"})
  BY <1>11, <1>12, <1>16, SumOfWeights, CallsConcat
<1>18. ASSUME NEW v \in Versions
       PROVE  Weight(ab \o c, OnStack(v)', OnStackWhen(v)') = PairWeight(f, v)
  <2>1. v # NoVersion
    BY DEF Versions, NoVersion
  <2>2. Weight(a, OnStack(v)', OnStackWhen(v)') = One(v = x)
    BY <1>5, <1>10, <2>1, InflightWeight
  <2>3. Weight(b, OnStack(v)', OnStackWhen(v)') = 0
    BY <1>13, <2>1, WeightlessIsZero
  <2>4. Weight(c, OnStack(v)', OnStackWhen(v)') = One(v = matches'[g.ref].version)
    BY <1>8, <1>14, <1>15, EndWeight
  <2>5. PICK y : y = BlockVersion(f)
    OBVIOUS
  <2>6. Weight(c, OnStack(v)', OnStackWhen(v)') = One(v = y)
    BY <1>14, <2>4, <2>5
  <2>7. Weight(ab, OnStack(v)', OnStackWhen(v)')
        = Weight(a, OnStack(v)', OnStackWhen(v)') + Weight(b, OnStack(v)', OnStackWhen(v)')
    BY <1>11, <1>12, <1>16, SumOfWeights
  <2>8. Weight(ab \o c, OnStack(v)', OnStackWhen(v)')
        = Weight(ab, OnStack(v)', OnStackWhen(v)') + Weight(c, OnStack(v)', OnStackWhen(v)')
    BY <1>14, <1>17, SumOfWeights
  <2>9. Weight(ab \o c, OnStack(v)', OnStackWhen(v)') = One(v = x) + 0 + One(v = y)
    BY <2>2, <2>3, <2>6, <2>7, <2>8
  <2>10. y = IF s # NoVersion THEN s ELSE w
    BY <1>1, <1>2, <2>5 DEF BlockVersion
  <2>11. One(v = x) + 0 + One(v = y) = One(v = w) + One(v = s)
    BY <1>4, <2>1, <2>10 DEF One
  <2> QED BY <1>1, <1>2, <2>9, <2>11 DEF PairWeight
<1>19. Calls(ab \o c, {"adopt"})
  BY <1>14, <1>17, CallsConcat
<1> QED BY <1>9, <1>16, <1>18, <1>19 DEF TakesOver

\* What the parents' locking leaves alone.
Relabels ==
    /\ StmtVersions /\ SameVersions /\ Versions' = Versions
    /\ StmtRefs \subseteq StmtRefs' /\ RefsOf(Whens) \subseteq RefsOf(Whens)'

LEMMA RefsStay ==
    ASSUME TypeOK, TypeOK', StmtRefs' = StmtRefs,
           \A s \in StmtRefs : stmts'[s].clause = stmts[s].clause
    PROVE  RefsOf(Whens) \subseteq RefsOf(Whens)'
BY DEF RefsOf

LEMMA StmtDomain == TypeOK => DOMAIN stmts = StmtRefs
BY LensTyped DEF StmtRefs

LEMMA LockAndRunTakesOver ==
    ASSUME TypeOK, TypeOK', NEW t \in Threads, NEW f,
           f.when \in RefsOf(Whens), f.stmt \in StmtRefs \cup {NoRef},
           NEW i \in 1 .. Len(Parents(f)), LockAndRun(t, f, i)
    PROVE  Relabels /\ TakesOver(t, f) /\ Moves(t) /\ versions' = versions
<1>1. f.when \in StmtRefs
  BY DEF RefsOf
<1>2. /\ Parents(f)[i] \in StmtRefs /\ Len(Parents(f)) \in Nat
      /\ Len(Parents(f)) = IF f.stmt = NoRef THEN 1 ELSE 2
  BY <1>1, ParentsTyped, ElementOfSeq
<1>3. versions' = versions /\ Versions' = Versions
  BY DEF LockAndRun, sideVars, Versions
<1>4. DOMAIN stmts = StmtRefs /\ StmtRefs = 1 .. Len(stmts) /\ Len(stmts) \in Nat
  BY LensTyped DEF StmtRefs
<1>5. (DOMAIN stmts = StmtRefs)'
  BY StmtDomain, PTL
<1>6. CASE AbortMatch(t) /\ Start(t, AbortFrames(f))
  <2>1. todo'[t] = AbortFrames(f) /\ Moves(t)
    BY <1>6, StartMoves
  <2>2. stmts' = Unlocked(t, stmts) /\ matches' = matches
    BY <1>6 DEF AbortMatch
  <2>3. StmtRefs' = StmtRefs
    BY <1>5, <2>2, UnlockedTyped
  <2>4. \A s \in StmtRefs : stmts'[s].version = stmts[s].version /\ stmts'[s].clause = stmts[s].clause
    BY <2>2, UnlockedTyped
  <2>5. Relabels
    BY <1>3, <2>2, <2>3, <2>4, RefsStay DEF Relabels, StmtVersions, SameVersions
  <2> QED BY <1>1, <1>3, <2>1, <2>5, AbortTakesOver
<1>7. CASE /\ i < Len(Parents(f)) /\ LockParent(t, Parents(f)[i]) /\ UNCHANGED matches
           /\ Start(t, <<[op |-> "lockStmt", when |-> f.when, stmt |-> f.stmt]>>)
  <2>1. PICK g : g = [op |-> "lockStmt", when |-> f.when, stmt |-> f.stmt]
    OBVIOUS
  <2>2. g.op = "lockStmt" /\ g.when = f.when /\ g.stmt = f.stmt /\ Start(t, <<g>>)
    BY <1>7, <2>1
  <2>3. todo'[t] = <<g>> /\ Moves(t)
    BY <2>2, StartMoves
  <2>4. stmts' = [stmts EXCEPT ![Parents(f)[i]].lock = t]
    BY <1>7 DEF LockParent
  <2>5. SteadyStmts
    BY <1>2, <2>4, StmtSteady
  <2>6. StmtRefs' = StmtRefs
    <3>1. DOMAIN stmts' = DOMAIN stmts
      BY <2>4
    <3> QED BY <1>4, <1>5, <3>1
  <2>7. Relabels
    BY <1>3, <1>7, <2>5, <2>6, RefsStay, SteadyKeeps DEF Relabels, SteadyStmts, SameVersions
  <2>8. f.stmt \in StmtRefs
    BY <1>2, <1>7
  <2> QED BY <1>1, <1>3, <2>2, <2>3, <2>7, <2>8, LockTakesOver DEF Relabels
<1>8. CASE InsertMatch(t, Parents(f), BlockVersion(f)) /\ Start(t, RunFrames(f, Len(matches) + 1))
  <2>1. PICK m : m = Len(matches) + 1
    OBVIOUS
  <2>2. todo'[t] = RunFrames(f, m) /\ Moves(t)
    BY <1>8, <2>1, StartMoves
  <2>3. /\ m \in MatchRefs' /\ matches'[m].version = BlockVersion(f)
        /\ \A k \in MatchRefs : matches'[k] = matches[k]
        /\ \A s \in StmtRefs : stmts'[s].version = stmts[s].version /\ stmts'[s].clause = stmts[s].clause
    BY <1>1, <1>8, <2>1, NewMatch
  <2>4. StmtRefs' = StmtRefs
    <3>1. DOMAIN stmts' = DOMAIN stmts
      BY <1>8 DEF InsertMatch
    <3> QED BY <1>4, <1>5, <3>1
  <2>5. Relabels
    BY <1>3, <2>3, <2>4, RefsStay DEF Relabels, StmtVersions, SameVersions
  <2> QED BY <1>3, <2>2, <2>3, <2>5, RunTakesOver
<1> QED BY <1>6, <1>7, <1>8 DEF LockAndRun

\* An item that is taken and locked keeps CountsInv.
LEMMA TakeRunWhenCounts ==
    ASSUME TypeOK, TypeOK', CountsInv, NEW t \in Threads, NEW item, TakeRunWhen(t, item)
    PROVE  CountsInv'
<1>1. TakeItem(t, item) /\ item \in WorkItems /\ item.cmd = "runWhen" /\ todo[t] = <<>>
  BY TakeItemKeeps DEF TakeRunWhen, TakeItem
<1>2. item.when \in RefsOf(Whens) /\ item.stmt \in StmtRefs \cup {NoRef}
  BY <1>1, ItemFields
<1>3. 1 \in 1 .. Len(Parents(item))
  BY <1>2, ParentsTyped DEF RefsOf
<1>4. Relabels /\ TakesOver(t, item) /\ Moves(t) /\ versions' = versions
  BY <1>2, <1>3, LockAndRunTakesOver DEF TakeRunWhen
<1>5. NoAdopt(todo[t], todo'[t])
  BY <1>4 DEF TakesOver, Calls, NoAdopt
<1>6. WholeSettles(t)
  <2> SUFFICES ASSUME NEW v \in Versions, Balanced(v)
               PROVE  \E a, b, d :
                        /\ a \in Nat /\ b \in Nat
                        /\ Weight(todo[t], OnStack(v), OnStackWhen(v)) = a
                        /\ Weight(todo'[t], OnStack(v)', OnStackWhen(v)') = b
                        /\ QueueBy(v, d) /\ Owed(v)' = Owed(v) - a + b + d
    BY DEF WholeSettles
  <2>1. PairWeight(item, v) \in Nat /\ QueueBy(v, 0 - PairWeight(item, v))
    BY <1>1, <1>4, ItemTaken DEF Relabels
  <2>2. Weight(todo'[t], OnStack(v)', OnStackWhen(v)') = PairWeight(item, v)
    BY <1>4 DEF TakesOver
  <2>3. v # NoVersion
    BY DEF Versions, NoVersion
  <2>4. Weight(<<>>, OnStack(v), OnStackWhen(v)) = 0
    BY <2>3, ShortWeightless, WeightlessIsZero
  <2>5. Owed(v) \in Int /\ Owed(v)' = Owed(v)
    BY <1>4, CountersStep
  <2>6. PICK n \in Nat : n = PairWeight(item, v)
    BY <2>1
  <2>7. Owed(v)' = Owed(v) - 0 + n + (0 - n)
    BY <2>5
  <2> QED BY <1>1, <2>1, <2>2, <2>4, <2>6, <2>7
<1> QED BY <1>4, <1>5, <1>6, WholeSettled DEF Relabels

LEMMA LockStmtCounts ==
    ASSUME TypeOK, TypeOK', Stacks, CountsInv, NEW t \in Threads, LockStmt(t)
    PROVE  CountsInv'
<1>1. PICK f : f = Top(t)
  OBVIOUS
<1>2. todo[t] # <<>> /\ f.op = "lockStmt" /\ f \in Frames
  BY <1>1, TopTyped DEF LockStmt, At
<1>3. f.when \in RefsOf(Whens) /\ f.stmt \in StmtRefs
  BY <1>2, FrameFields
<1>4. f.when \in StmtRefs /\ f.stmt # NoRef
  BY <1>3 DEF RefsOf, StmtRefs, NoRef
<1>5. 2 \in 1 .. Len(Parents(f))
  BY <1>3, <1>4, ParentsTyped
<1>6. todo[t] \in Seq(Frames) /\ Len(todo[t]) \in Nat /\ 1 \in 1 .. Len(todo[t])
  BY <1>2, StackTyped, EmptySeq
<1>7. todo[t][1] = f
  BY <1>1, <1>2, <1>6 DEF Top
<1>8. Len(todo[t]) = 1
  BY <1>2, <1>6, <1>7 DEF Stacks, StackOK
<1>9. todo[t] = <<f>>
  BY <1>6, <1>7, <1>8
<1>10. Relabels /\ TakesOver(t, f) /\ Moves(t) /\ versions' = versions
  BY <1>1, <1>3, <1>5, LockAndRunTakesOver DEF LockStmt
<1>11. NoAdopt(todo[t], todo'[t])
  BY <1>10 DEF TakesOver, Calls, NoAdopt
<1>12. WholeSettles(t)
  <2> SUFFICES ASSUME NEW v \in Versions, Balanced(v)
               PROVE  \E a, b, d :
                        /\ a \in Nat /\ b \in Nat
                        /\ Weight(todo[t], OnStack(v), OnStackWhen(v)) = a
                        /\ Weight(todo'[t], OnStack(v)', OnStackWhen(v)') = b
                        /\ QueueBy(v, d) /\ Owed(v)' = Owed(v) - a + b + d
    BY DEF WholeSettles
  <2>1. Weight(<<f>>, OnStack(v), OnStackWhen(v)) = PairWeight(f, v)
    <3>1. (FrameCounts(f, v) <=> v = VersionOf(f.stmt)) /\ (FrameCountsWhen(f, v) <=> v = VersionOf(f.when))
      BY <1>2 DEF FrameCounts, FrameCountsWhen
    <3>2. Weight(<<f>>, OnStack(v), OnStackWhen(v)) = One(FrameCounts(f, v)) + One(FrameCountsWhen(f, v))
      BY <1>2, FrameWeights
    <3> QED BY <3>1, <3>2 DEF PairWeight, One
  <2>2. Weight(todo'[t], OnStack(v)', OnStackWhen(v)') = PairWeight(f, v)
    BY <1>10 DEF TakesOver
  <2>3. Owed(v) \in Int /\ Owed(v)' = Owed(v)
    BY <1>10, CountersStep
  <2>4. PICK n \in Nat : n = PairWeight(f, v)
    BY DEF PairWeight, One
  <2>5. QueueBy(v, 0)
    BY <1>10, QueueByNone DEF LockStmt, Relabels
  <2>6. Owed(v)' = Owed(v) - n + n + 0
    BY <2>3
  <2> QED BY <1>9, <2>1, <2>2, <2>4, <2>5, <2>6
<1> QED BY <1>10, <1>11, <1>12, WholeSettled DEF Relabels

-----------------------------------------------------------------------------
(* A fresh version.                                                        *)

\* Nothing counts for a version that is not there.
LEMMA Unborn ==
    ASSUME TypeOK, NEW v, v \notin Versions \cup {NoVersion}
    PROVE  /\ OnStack(v) = {} /\ OnStackWhen(v) = {}
           /\ FiniteStacks(v) /\ StackWeight(v) = 0 /\ FiniteQueue(v) /\ QueueWeight(v) = 0
<1>1. \A s \in StmtRefs \cup {NoRef} : VersionOf(s) # v
  BY VersionOfTyped
<1>2. \A s \in StmtRefs : stmts[s].version # v
  BY <1>1 DEF VersionOf, StmtRefs, NoRef
<1>3. \A m \in MatchRefs : matches[m].version # v
  <2> SUFFICES ASSUME NEW m \in MatchRefs PROVE matches[m].version # v
    OBVIOUS
  <2>1. matches[m] \in Match
    BY MatchFields
  <2> QED BY <2>1 DEF Match
<1>4. ASSUME NEW f \in Frames PROVE ~FrameCounts(f, v) /\ ~FrameCountsWhen(f, v)
  <2>1. f.op \in {"place", "reuse", "adopt", "inflightDecr"} => f.version # v
    BY FrameFields
  <2>2. f.op \in {"react", "reactAsStmt"} => stmts[f.ref].version # v
    BY <1>2, FrameFields DEF StmtOps
  <2>3. f.op = "endBody" => matches[f.ref].version # v
    BY <1>3, FrameFields DEF MatchOps
  <2>4. f.op = "lockStmt" => VersionOf(f.stmt) # v /\ VersionOf(f.when) # v
    BY <1>1, FrameFields DEF RefsOf
  <2> QED BY <2>1, <2>2, <2>3, <2>4 DEF FrameCounts, FrameCountsWhen
<1>5. ASSUME NEW item \in WorkItems PROVE ~ItemCounts(item, v) /\ ~ItemCountsWhen(item, v)
  <2>1. item.cmd = "runWhen" => VersionOf(item.stmt) # v /\ VersionOf(item.when) # v
    BY <1>1, ItemFields DEF RefsOf
  <2> QED BY <2>1 DEF ItemCounts, ItemCountsWhen
<1>6. OnStack(v) = {} /\ OnStackWhen(v) = {}
  BY <1>4 DEF OnStack, OnStackWhen
<1>7. Queued(v) = {} /\ QueuedWhen(v) = {}
  BY <1>5 DEF Queued, QueuedWhen
<1>8. AllHits(todo, OnStack(v)) = {} /\ AllHits(todo, OnStackWhen(v)) = {}
  BY <1>6 DEF AllHits
<1>9. BagHits(work, Queued(v)) = {} /\ BagHits(work, QueuedWhen(v)) = {}
  BY <1>7 DEF BagHits
<1>10. IsFiniteSet({}) /\ Cardinality({}) = 0
  BY FS_EmptySet
<1> QED BY <1>6, <1>8, <1>9, <1>10 DEF FiniteStacks, StackWeight, FiniteQueue, QueueWeight

\* The counters of the versions there were, and of the fresh one.
LEMMA FreshCounters ==
    ASSUME TypeOK, NEW t \in Threads, NEW m \in MatchRefs, NEW k \in AtomicallyKeys,
           FreshVersion(t, m, k)
    PROVE  /\ \A x \in Versions : Owed(x)' = Owed(x) - One(x = matches[m].version)
           /\ versions'[Len(versions) + 1].inflight = 1
           /\ versions'[Len(versions) + 1].lost = 0
<1>1. PICK w : w = matches[m].version
  OBVIOUS
<1>2. PICK vs : vs = Lose(versions, w)
  OBVIOUS
<1>3. PICK e : e = [key |-> k, inflight |-> 1, root |-> m, lost |-> 0]
  OBVIOUS
<1>4. matches[m] \in Match
  BY MatchFields
<1>5. w \in Versions \cup {NoVersion}
  BY <1>1, <1>4 DEF Match
<1>6. vs \in Seq(Version) /\ Len(vs) = Len(versions) /\ versions \in Seq(Version)
      /\ Len(versions) \in Nat
  BY <1>2, <1>5, LoseTyped, LensTyped
<1>7. versions' = Append(vs, e)
  BY <1>1, <1>2, <1>3 DEF FreshVersion
<1>8. vs \in Seq(Version \cup {e})
  BY <1>6, SeqMonotonic
<1>9. versions'[Len(versions) + 1] = e /\ \A x \in 1 .. Len(versions) : versions'[x] = vs[x]
  BY <1>6, <1>7, <1>8, AppendProperties
<1>10. e.inflight = 1 /\ e.lost = 0
  BY <1>3
<1>11. ASSUME NEW x \in Versions PROVE Owed(x)' = Owed(x) - One(x = w)
  <2>1. x \in 1 .. Len(versions) /\ w \in 1 .. Len(versions) \cup {NoVersion}
    BY <1>5 DEF Versions
  <2>2. Lose(versions, w)[x].inflight - Lose(versions, w)[x].lost
        = versions[x].inflight - versions[x].lost - One(x = w)
    BY <1>6, <2>1, LoseOwes
  <2>3. versions'[x] = Lose(versions, w)[x]
    BY <1>2, <1>9, <2>1
  <2> QED BY <2>2, <2>3 DEF Owed
<1> QED BY <1>1, <1>9, <1>10, <1>11

\* Only the end of the body of match m counts otherwise, and only thread t has it.
LEMMA FreshSame ==
    ASSUME TypeOK, EvaluatorInv, NEW t \in Threads, NEW m \in MatchRefs, EndsIn(todo[t], m),
           StmtVersions, \A x \in MatchRefs : x # m => matches'[x].version = matches[x].version,
           NEW v
    PROVE  SameBut({RefFrame("endBody", m)}, v) /\ Avoids(t, <<>>, {RefFrame("endBody", m)})
<1>1. ASSUME NEW f \in Frames, f # RefFrame("endBody", m) PROVE Same(f, v)
  <2>1. ASSUME f.op = "endBody" PROVE f.ref \in MatchRefs /\ f.ref # m
    <3>1. f.ref \in MatchRefs
      BY <2>1, FrameFields DEF MatchOps
    <3>2. f \in [op : MatchOps, ref : MatchRefs]
      BY <2>1 DEF Frames, DbFrames, AtomicallyFrames, StmtOps, MatchOps, EntryOps
    <3>3. f = [op |-> f.op, ref |-> f.ref]
      BY <3>2
    <3> QED BY <1>1, <2>1, <3>1, <3>3 DEF RefFrame
  <2>2. f.op = "endBody" => matches'[f.ref].version = matches[f.ref].version
    BY <2>1
  <2> QED BY <2>2, SameFrames
<1>2. ASSUME NEW u \in Threads \ {t}, NEW i \in 1 .. Len(todo[u]), todo[u][i] = RefFrame("endBody", m)
      PROVE  FALSE
  <2>1. todo[u][i].op = "endBody" /\ todo[u][i].ref = m
    BY <1>2 DEF RefFrame
  <2>2. i = Len(todo[u])
    BY <2>1 DEF EvaluatorInv, BodiesInv, Stacks, StackOK, EndOps
  <2>3. todo[u] # <<>>
    BY EmptySeq
  <2>4. EndsIn(todo[u], m)
    BY <2>1, <2>2, <2>3 DEF EndsIn, EndOps
  <2> QED BY <2>4 DEF EvaluatorInv, BodiesInv, RunsOnce
<1> QED BY <1>1, <1>2 DEF SameBut, Avoids

\* The stack of a body, before and after its first command: its end counts.
LEMMA FreshWeights ==
    ASSUME TypeOK, TypeOK', Stacks, NEW t \in Threads, todo[t] # <<>>, NEW m \in MatchRefs,
           Top(t).op = "command", Top(t).match = m, Then(t, <<>>)
    PROVE  /\ EndsIn(todo[t], m) /\ Moves(t) /\ NoAdopt(todo[t], todo'[t])
           /\ \A v : Weight(todo[t], OnStack(v), OnStackWhen(v)) = One(v = matches[m].version)
           /\ \A v : Weight(todo'[t], OnStack(v)', OnStackWhen(v)') = One(v = matches'[m].version)
<1>1. PICK s : s = todo[t]
  OBVIOUS
<1>2. PICK n : n = todo'[t]
  OBVIOUS
<1>3. PICK g : g = RefFrame("endBody", m)
  OBVIOUS
<1>4. g.op = "endBody" /\ g.ref = m /\ "command" \notin CountedOps /\ "adopt" # "command"
      /\ m # NoRef
  BY <1>3, MatchTyped DEF RefFrame, CountedOps
<1>5. /\ s \in Seq(Frames) /\ n \in Seq(Frames') /\ s # <<>> /\ Len(s) \in Nat \ {0}
      /\ s[1] = Top(t) /\ StackOK(s)
  <2>1. s \in Seq(Frames) /\ n \in Seq(Frames') /\ StackOK(s)
    BY <1>1, <1>2 DEF TypeOK, Stacks
  <2>2. Len(s) \in Nat \ {0}
    BY <1>1, <2>1, EmptySeq, LenProperties
  <2> QED BY <1>1, <2>1, <2>2 DEF Top
<1>6. /\ \A k \in 1 .. Len(s) : k < Len(s) => s[k].op = "command"
      /\ s[Len(s)] = g
  BY <1>3, <1>4, <1>5 DEF StackOK
<1>7. Len(s) # 1
  BY <1>4, <1>5, <1>6
<1>8. n = Tail(s) /\ Moves(t)
  <2>1. n = <<>> \o Tail(s) /\ Moves(t)
    BY <1>1, <1>2, ThenMoves
  <2>2. Tail(s) \in Seq(Frames)
    BY <1>5, HeadTailProperties
  <2> QED BY <2>1, <2>2, ConcatEmptySeq
<1>9. Len(n) = Len(s) - 1 /\ \A k \in 1 .. Len(n) : n[k] = s[k + 1]
  BY <1>5, <1>8, HeadTailProperties
<1>10. Len(n) \in Nat \ {0} /\ n[Len(n)] = g /\ n # <<>>
  <2>1. Len(n) \in Nat \ {0} /\ Len(n) + 1 = Len(s)
    BY <1>5, <1>7, <1>9
  <2>2. n[Len(n)] = s[Len(n) + 1]
    BY <1>9, <2>1
  <2> QED BY <1>6, <2>1, <2>2
<1>11. \A k \in 1 .. Len(n) : k < Len(n) => n[k].op = "command"
  <2> SUFFICES ASSUME NEW k \in 1 .. Len(n), k < Len(n) PROVE n[k].op = "command"
    OBVIOUS
  <2>1. k + 1 \in 1 .. Len(s) /\ k + 1 < Len(s)
    BY <1>5, <1>9
  <2> QED BY <1>6, <1>9, <2>1
<1>12. g \in Frames /\ g \in Frames'
  BY <1>5, <1>6, <1>10, ElementOfSeq
<1>13. ASSUME NEW v PROVE Weight(s, OnStack(v), OnStackWhen(v)) = One(v = matches[m].version)
  <2>1. Weight(s, OnStack(v), OnStackWhen(v)) = One(g \in OnStack(v)) + One(g \in OnStackWhen(v))
    BY <1>4, <1>5, <1>6, LastWeight, OnStackOps
  <2>2. (g \in OnStack(v) <=> v = matches[m].version) /\ g \notin OnStackWhen(v)
    BY <1>4, <1>12 DEF OnStack, OnStackWhen, FrameCounts, FrameCountsWhen
  <2> QED BY <2>1, <2>2 DEF One
<1>14. ASSUME NEW v PROVE Weight(n, OnStack(v)', OnStackWhen(v)') = One(v = matches'[m].version)
  <2>1. PICK S : S = OnStack(v)'
    OBVIOUS
  <2>2. PICK R : R = OnStackWhen(v)'
    OBVIOUS
  <2>3. PICK F : F = Frames'
    OBVIOUS
  <2>4. \A f \in S \cup R : f.op \in CountedOps
    BY <2>1, <2>2, OnStackOps
  <2>5. \A k \in 1 .. Len(n) : k < Len(n) => n[k].op \notin CountedOps
    BY <1>4, <1>11
  <2>6. n \in Seq(F)
    BY <1>5, <2>3
  <2>7. Weight(n, S, R) = One(g \in S) + One(g \in R)
    BY <1>10, <2>4, <2>5, <2>6, LastWeight
  <2>8. (g \in S <=> v = matches'[m].version) /\ g \notin R
    BY <1>4, <1>12, <2>1, <2>2 DEF OnStack, OnStackWhen, FrameCounts, FrameCountsWhen
  <2>9. Weight(n, S, R) = One(v = matches'[m].version)
    BY <2>7, <2>8 DEF One
  <2> QED BY <2>1, <2>2, <2>9
<1>15. NoAdopt(s, n)
  <2>1. \A k \in 1 .. Len(n) : k + 1 \in 1 .. Len(s)
    BY <1>5, <1>9
  <2> QED BY <1>9, <2>1 DEF NoAdopt
<1>16. EndsIn(s, m)
  BY <1>4, <1>5, <1>6 DEF EndsIn, EndOps
<1> QED BY <1>1, <1>2, <1>8, <1>13, <1>14, <1>15, <1>16

LEMMA RunFreshCounts ==
    ASSUME TypeOK, TypeOK', EvaluatorInv, CountsInv, NEW t \in Threads, RunFresh(t)
    PROVE  CountsInv'
<1>1. PICK m : m = Top(t).match
  OBVIOUS
<1>2. PICK k : k = Top(t).cmd.key
  OBVIOUS
<1>3. PICK nv : nv = Len(versions) + 1
  OBVIOUS
<1>4. AtCommand(t, "fresh") /\ FreshVersion(t, m, k) /\ work' = work
  BY <1>1, <1>2 DEF RunFresh
<1>5. todo[t] # <<>> /\ Top(t).cmd.cmd = "fresh" /\ Top(t).cmd \in Commands /\ m \in MatchRefs
  BY <1>1, <1>4, AtCommandTyped, InBody
<1>6. k \in AtomicallyKeys /\ Top(t).cmd \notin FreeCommands
  BY <1>2, <1>5 DEF Commands, FreeCommands, SeriallyCmd
<1>7. Top(t).op = "command"
  <2>1. Top(t) \in Frames /\ Top(t).op \in {"command", "eval"}
    BY <1>4, <1>5, TopTyped DEF AtCommand, At
  <2> QED BY <1>6, <2>1 DEF Frames, DbFrames, AtomicallyFrames, StmtOps, MatchOps, EntryOps
<1>8. Then(t, <<>>) /\ stmts' = stmts
  BY <1>4 DEF FreshVersion
<1>9. StmtVersions
  BY <1>8 DEF StmtVersions
<1>10. /\ Versions' = Versions \cup {nv} /\ nv \notin Versions
       /\ matches'[m].version = nv
       /\ \A x \in MatchRefs : x # m => matches'[x].version = matches[x].version
  BY <1>3, <1>4, <1>5, <1>6, NewVersion
<1>11. /\ EndsIn(todo[t], m) /\ Moves(t) /\ NoAdopt(todo[t], todo'[t])
       /\ \A v : Weight(todo[t], OnStack(v), OnStackWhen(v)) = One(v = matches[m].version)
       /\ \A v : Weight(todo'[t], OnStack(v)', OnStackWhen(v)') = One(v = matches'[m].version)
  BY <1>1, <1>5, <1>7, <1>8, FreshWeights DEF EvaluatorInv, BodiesInv
<1>12. PICK X : X = {RefFrame("endBody", m)}
  OBVIOUS
<1>13. \A v : SameBut(X, v) /\ Avoids(t, <<>>, X)
  BY <1>5, <1>9, <1>10, <1>11, <1>12, FreshSame
<1>14. /\ \A x \in Versions : Owed(x)' = Owed(x) - One(x = matches[m].version)
       /\ versions'[nv].inflight = 1 /\ versions'[nv].lost = 0
  BY <1>3, <1>4, <1>5, <1>6, FreshCounters
<1>15. AdoptsAgree'
  BY <1>9, <1>11, AdoptsStep DEF CountsInv
<1>16. ASSUME NEW v \in Versions PROVE Balanced(v)'
  <2>1. Balanced(v) /\ v \in Versions' /\ v # nv
    BY <1>10 DEF CountsInv
  <2>2. QueueBy(v, 0)
    BY <1>4, <1>9, <2>1, QueueByNone
  <2>3. PICK a \in Nat : a = One(v = matches[m].version)
    BY DEF One
  <2>4. Weight(todo[t], OnStack(v), OnStackWhen(v)) = a
    BY <1>11, <2>3
  <2>5. Weight(todo'[t], OnStack(v)', OnStackWhen(v)') = 0
    BY <1>10, <1>11, <2>1 DEF One
  <2>6. Owed(v)' = Owed(v) - a /\ Owed(v) \in Int
    BY <1>14, <2>3, CountersStep
  <2>7. Owed(v)' = Owed(v) - a + 0 + 0
    BY <2>6
  <2>8. SameBut(X, v) /\ Avoids(t, <<>>, X) /\ Moves(t) /\ 0 \in Nat
    BY <1>11, <1>13
  <2> QED BY <2>1, <2>2, <2>4, <2>5, <2>7, <2>8, WholeBalanced
<1>17. Balanced(nv)'
  <2>1. nv \notin Versions \cup {NoVersion}
    BY <1>3, <1>10, LensTyped DEF NoVersion
  <2>2. /\ FiniteStacks(nv) /\ StackWeight(nv) = 0 /\ FiniteQueue(nv) /\ QueueWeight(nv) = 0
    BY <2>1, Unborn
  <2>3. matches[m].version # nv
    <3>1. matches[m] \in Match
      BY <1>5, MatchFields
    <3> QED BY <2>1, <3>1 DEF Match
  <2>4. Weight(todo[t], OnStack(nv), OnStackWhen(nv)) = 0
    BY <1>11, <2>3 DEF One
  <2>5. Weight(todo'[t], OnStack(nv)', OnStackWhen(nv)') = 1
    BY <1>10, <1>11 DEF One
  <2>6. /\ FiniteStacks(nv)'
        /\ StackWeight(nv)' = StackWeight(nv) - Weight(todo[t], OnStack(nv), OnStackWhen(nv))
                              + Weight(todo'[t], OnStack(nv)', OnStackWhen(nv)')
    BY <1>11, <1>13, <2>2, WholeStep
  <2>7. StackWeight(nv)' = 1
    BY <2>2, <2>4, <2>5, <2>6
  <2>8. FiniteQueue(nv)' /\ QueueWeight(nv)' = 0
    BY <1>4, <1>9, <2>2, QueueSame
  <2>9. versions'[nv].inflight = StackWeight(nv)' + QueueWeight(nv)' + versions'[nv].lost
    BY <1>14, <2>7, <2>8
  <2> QED BY <2>6, <2>8, <2>9 DEF Balanced
<1>18. \A v \in Versions' : Balanced(v)'
  BY <1>10, <1>16, <1>17
<1> QED BY <1>15, <1>18 DEF CountsInv

-----------------------------------------------------------------------------
(* All steps.                                                              *)

\* Nothing goes on at first.
LEMMA InitCounts == Init => CountsInv
<1> SUFFICES ASSUME Init PROVE CountsInv
  OBVIOUS
<1>1. versions = <<>> /\ todo = [t \in Threads |-> <<>>]
  BY DEF Init, DbInit
<1>2. Versions = {}
  BY <1>1 DEF Versions
<1>3. AdoptsAgree
  BY <1>1 DEF AdoptsAgree
<1> QED BY <1>2, <1>3 DEF CountsInv

\* The steps of one thread, by what it does.
LEMMA StepCounts ==
    ASSUME TypeOK, TypeOK', EvaluatorInv, CountsInv, NEW t \in Threads, Step(t)
    PROVE  CountsInv'
<1>1. Stacks
  BY DEF EvaluatorInv, BodiesInv
<1>2. CASE (InsertPlace(t) \/ InsertReuse(t) \/ InsertAdopt(t)) /\ work' = work
  BY <1>2, InsertPlaceCounts, InsertReuseCounts, InsertAdoptCounts
<1>3. CASE DbStep(t) /\ ~(InsertPlace(t) \/ InsertReuse(t) \/ InsertAdopt(t)) /\ work' = work
  BY <1>3, DbIdleCounts DEF DbStep
<1>4. CASE AtomicallyStep(t) /\ work' = work
  BY <1>4, InflightDecrCounts, ClearRootCounts, StepIdleCounts DEF AtomicallyStep
<1>5. CASE RunSay(t) \/ RunFresh(t) \/ RunPush(t) \/ RunSerially(t) \/ Notify(t) \/ Interrupted(t)
  BY <1>1, <1>5, RunSayCounts, RunFreshCounts, RunPushCounts, RunSeriallyCounts, NotifyCounts,
     InterruptedCounts
<1>6. CASE RunHold(t)
  <2>1. work' = work
    BY <1>6 DEF RunHold
  <2> QED BY <1>6, <2>1, StepIdleCounts
<1>7. CASE ReactAsWhen(t) \/ ReactAsStmt(t) \/ LockStmt(t) \/ EndBody(t) \/ MatchCompleted(t)
  BY <1>1, <1>7, ReactAsWhenCounts, ReactAsStmtCounts, LockStmtCounts, EndBodyCounts,
     MatchCompletedCounts
<1> QED BY <1>2, <1>3, <1>4, <1>5, <1>6, <1>7 DEF Step

LEMMA WorkerTakesCounts ==
    ASSUME TypeOK, TypeOK', EvaluatorInv, CountsInv, NEW t \in Threads, WorkerTakes(t)
    PROVE  CountsInv'
<1>1. PICK item \in BagToSet(work) :
        \/ TakeAssert(t, item)
        \/ TakeRetract(t, item)
        \/ TakeEval(t, item)
        \/ TakeSubscribe(t, item)
        \/ SkipItem(t, item)
        \/ TakeRunWhen(t, item)
  BY DEF WorkerTakes
<1>2. Stacks
  BY DEF EvaluatorInv, BodiesInv
<1> QED BY <1>1, <1>2, TakeAssertCounts, TakeRetractCounts, TakeEvalCounts, TakeSubscribeCounts,
           SkipItemCounts, TakeRunWhenCounts

\* Every step keeps CountsInv.
LEMMA NextCounts ==
    ASSUME TypeOK, EvaluatorInv, CountsInv, [Next]_vars
    PROVE  CountsInv'
<1>1. TypeOK'
  BY NextTypeOK
<1>2. CASE \E t \in Threads : Step(t)
  BY <1>1, <1>2, StepCounts
<1>3. CASE \E t \in Workers : WorkerTakes(t)
  BY <1>1, <1>3, WorkerTakesCounts DEF Threads
<1>4. CASE SysmonTick
  BY <1>1, <1>4, SysmonTickCounts
<1>5. CASE UNCHANGED vars
  <2>1. Sysmon \in Threads
    BY DEF Threads
  <2>2. todo' = todo /\ work' = work /\ UNCHANGED <<stmts, matches, versions>>
    BY <1>5 DEF vars, sideVars
  <2>3. Idly(Sysmon)
    BY <2>2 DEF Idly
  <2>4. SteadyStmts /\ SameVersions /\ SteadyRoots
    BY <2>2, UnchangedSteady DEF SteadyMatches
  <2> QED BY <1>1, <2>1, <2>2, <2>3, <2>4, SameOwed, SameQueue, IdlyCounts
<1> QED BY <1>2, <1>3, <1>4, <1>5 DEF Next, Stopped

\* Whatever the programs are and however the threads interleave, inflightCount of
\* a version of When -atomically is the number of insertions, reactions, queued
\* items, running bodies and decrements to come of that version, plus the
\* increments the code is known never to give back.  So a version is taken to
\* have converged only when nothing goes on in it, and no decrement comes twice.
THEOREM InflightCountsCorrect == Spec => []InflightCounts
<1>1. TypeOK /\ EvaluatorInv /\ CountsInv /\ [Next]_vars => CountsInv'
  BY NextCounts
<1>2. TypeOK /\ CountsInv => InflightCounts
  BY CountsAreExact
<1> QED BY <1>1, <1>2, InitCounts, EvaluatorInvariant, PTL DEF Spec

\* No call on a stack and no work item counts for version v.
NothingGoesOn(v) ==
    /\ \A t \in Threads : \A i \in 1 .. Len(todo[t]) :
          ~FrameCounts(todo[t][i], v) /\ ~FrameCountsWhen(todo[t][i], v)
    /\ \A item \in BagToSet(work) : ~ItemCounts(item, v) /\ ~ItemCountsWhen(item, v)

\* A counter is at least what it lost, and nothing goes on at zero.
LEMMA ZeroIsDone ==
    ASSUME TypeOK, CountsInv, NEW v \in DOMAIN versions
    PROVE  /\ versions[v].inflight >= versions[v].lost
           /\ versions[v].inflight = 0 => NothingGoesOn(v)
<1> DEFINE A == AllHits(todo, OnStack(v))
           B == AllHits(todo, OnStackWhen(v))
           C == BagHits(work, Queued(v))
           D == BagHits(work, QueuedWhen(v))
<1>1. v \in Versions /\ Balanced(v)
  BY LensTyped DEF CountsInv, Versions
<1>2. versions[v].inflight \in Int /\ versions[v].lost \in Nat
  BY <1>1, OwedTyped DEF CountersTyped
<1>3. IsFiniteSet(A) /\ IsFiniteSet(B) /\ IsFiniteSet(C) /\ IsFiniteSet(D)
  BY <1>1 DEF Balanced, FiniteStacks, FiniteQueue
<1>4. versions[v].inflight = Cardinality(A) + Cardinality(B) + (Cardinality(C) + Cardinality(D))
                             + versions[v].lost
  BY <1>1 DEF Balanced, StackWeight, QueueWeight
<1>5. \A t \in Threads : \A i \in 1 .. Len(todo[t]) :
        /\ todo[t][i] \in OnStack(v) => <<t, i>> \in A
        /\ todo[t][i] \in OnStackWhen(v) => <<t, i>> \in B
  <2>1. DOMAIN todo = Threads /\ \A t \in Threads : DOMAIN todo[t] = 1 .. Len(todo[t])
    BY DEF TypeOK
  <2> QED BY <2>1 DEF AllHits
<1>6. \A item \in BagToSet(work) :
        /\ item \in Queued(v) => <<item, 1>> \in C
        /\ item \in QueuedWhen(v) => <<item, 1>> \in D
  <2>1. \A item \in BagToSet(work) : work[item] \in Nat /\ work[item] > 0
    BY DEF TypeOK, IsABag, BagToSet
  <2>2. \A item \in BagToSet(work) : 1 \in 1 .. work[item]
    BY <2>1
  <2> QED BY <2>2 DEF BagHits
<1>7. /\ \A t \in Threads : \A i \in 1 .. Len(todo[t]) : todo[t][i] \in Frames
      /\ BagToSet(work) \subseteq WorkItems
  BY StackTypesHold DEF TypeOK, StackTypes
<1> HIDE DEF A, B, C, D
<1>8. /\ Cardinality(A) \in Nat /\ Cardinality(B) \in Nat
      /\ Cardinality(C) \in Nat /\ Cardinality(D) \in Nat
  BY <1>3, FS_CardinalityType
<1>9. versions[v].inflight >= versions[v].lost
  BY <1>2, <1>4, <1>8
<1>10. ASSUME versions[v].inflight = 0 PROVE NothingGoesOn(v)
  <2>1. PICK a, b, c, d, e \in Nat : /\ a = Cardinality(A) /\ b = Cardinality(B)
                                    /\ c = Cardinality(C) /\ d = Cardinality(D)
                                    /\ e = versions[v].lost
    BY <1>2, <1>8
  <2>2. 0 = a + b + (c + d) + e
    BY <1>4, <1>10, <2>1, Zenon
  <2>3. a = 0 /\ b = 0 /\ c = 0 /\ d = 0
    BY <2>2
  <2>4. A = {} /\ B = {} /\ C = {} /\ D = {}
    BY <1>3, <2>1, <2>3, FS_EmptySet
  <2>5. \A t \in Threads : \A i \in 1 .. Len(todo[t]) :
          todo[t][i] \notin OnStack(v) /\ todo[t][i] \notin OnStackWhen(v)
    BY <1>5, <2>4
  <2>6. \A item \in BagToSet(work) : item \notin Queued(v) /\ item \notin QueuedWhen(v)
    BY <1>6, <2>4
  <2> QED BY <1>7, <2>5, <2>6 DEF NothingGoesOn, OnStack, OnStackWhen, Queued, QueuedWhen
<1> QED BY <1>9, <1>10

\* The in-flight count of a version is never negative, and whenever it is 0, so that
\* the version is taken to have converged and older ones may be removed, no
\* insertion, reaction, body, work item or decrement of the version is left.
THEOREM ConvergedIsDone ==
    Spec => [](\A v \in DOMAIN versions :
                  /\ versions[v].inflight >= versions[v].lost
                  /\ versions[v].inflight = 0 => NothingGoesOn(v))
<1>1. TypeOK /\ EvaluatorInv /\ CountsInv /\ [Next]_vars => CountsInv'
  BY NextCounts
<1>2. TypeOK /\ CountsInv => \A v \in DOMAIN versions :
                                /\ versions[v].inflight >= versions[v].lost
                                /\ versions[v].inflight = 0 => NothingGoesOn(v)
  BY ZeroIsDone
<1> QED BY <1>1, <1>2, InitCounts, EvaluatorInvariant, PTL DEF Spec
=============================================================================
