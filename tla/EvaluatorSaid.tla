--------------------------- MODULE EvaluatorSaid ----------------------------
(***************************************************************************)
(* Theorems about statements that are only said: nothing holds or retracts *)
(* them, nobody says them with -keep, and their clause is not the start of *)
(* another one, nor another the start of it (Said).  As long as an open    *)
(* match has said such a statement it is open and the index finds it, and  *)
(* no assertion of db.c ever fails for it.                                 *)
(*                                                                         *)
(* The argument is about parentCount (Supp).  It is at least the number of *)
(* times open matches have said the statement, plus the calls that will    *)
(* take a support of it or hang it under its match.  The statement is      *)
(* removed by one call at a time and only when nothing is counted; until   *)
(* that call has taken it out of the index the index finds it; and a dead  *)
(* statement is not removed again.  Level says how the five numbers go     *)
(* together.                                                               *)
(*                                                                         *)
(* SaidInv, which adds this to UseInv (what the calls on the stacks may    *)
(* assume of the matches and statements they are about), is inductive.     *)
(***************************************************************************)
EXTENDS EvaluatorProofs

-----------------------------------------------------------------------------
(* Supports of what is only said.                                          *)

\* The statements that say a clause of SaidClauses.
Said == RefsOf(SaidClauses)

\* The frames that will take a support of s, or have one for it to be hung under
\* its parent with; that will remove s, and that will close it.
Takers(s) ==
    {RefFrame("decr", s)}
    \cup [op : {"adopt"}, clause : Clauses, parent : Nat, keep : {"none", "keep"},
          version : Nat, key : Keys \cup {NoKey}, old : Nat, ref : {s}]
Removers(s) == {RefFrame("removeSelf", s)}
Closers(s) == {RefFrame("close", s)}

Touch(s) == Takers(s) \cup Removers(s) \cup Closers(s)

\* The children of the open matches.
OpenKids == [m \in MatchRefs |-> IF matches[m].open THEN matches[m].kids ELSE <<>>]

\* The index finds s.
Here(s) == stmts[s].clause \in DOMAIN index /\ index[stmts[s].clause] = s

\* There are n places of what is in S.
HitsAre(stacks, S, n) ==
    n \in Nat /\ IsFiniteSet(AllHits(stacks, S)) /\ Cardinality(AllHits(stacks, S)) = n

\* Open matches have said s k times, and n, r and c frames are to take a support of
\* it, remove it and close it.
SaidBy(s, k) == HitsAre(OpenKids, {s}, k)
Pending(s, n, r, c) ==
    HitsAre(todo, Takers(s), n) /\ HitsAre(todo, Removers(s), r) /\ HitsAre(todo, Closers(s), c)

\* Each of the first two is counted in parentCount.  One removal at most is going
\* on, and only when nothing is counted; a statement that is dead is not
\* removed again; and until its removal has taken it out the index finds it.
Level(k, n, r, c, count, open, here) ==
    /\ k + n <= count
    /\ r + c <= 1
    /\ ~open \/ r + c > 0 => count = 0
    /\ ~open => r + c = 0
    /\ open /\ c = 0 => here

Supp(s) ==
    \E k, n, r, c \in Nat :
        /\ SaidBy(s, k) /\ Pending(s, n, r, c)
        /\ Level(k, n, r, c, stmts[s].parentCount, stmts[s].open, Here(s))

\* The calls for what is held, kept or retracted are never on what is only said;
\* and what is inserted is what a command says.
KeepOps == {"decrKept", "testAgain", "decrScheduled", "negateKeep", "schedule", "recount",
            "retractOne", "storeKeep"}

FrameUse(f) ==
    /\ f.op \in KeepOps => f.ref \notin Said
    /\ f.op \in {"place", "reuse", "adopt"} =>
          /\ f.clause \in SaidClauses => f.keep = "none" /\ f.key = NoKey
          /\ f.old \notin Said
    /\ f.op \in {"reuse", "adopt"} => f.ref \in RefsOf({f.clause})
    /\ f.op = "holdSet" => f.ref \notin Said /\ f.old \notin Said
    /\ f.op \in {"command", "eval"} => f.cmd \in AllCommands

UseStacks == \A t \in Threads : \A i \in 1 .. Len(todo[t]) : FrameUse(todo[t][i])
UseWork == \A item \in BagToSet(work) :
              item.cmd \in {"hold", "assert", "retract", "notify"} => item \in AllCommands
UseLater == \A i \in 1 .. LaterSlots : later[i].stmt \notin Said
UseHolds == \A k \in DOMAIN holds : holds[k].statement \notin Said
UseKeep == \A s \in Said : stmts[s].keep = "none"

UseInv == UseStacks /\ UseWork /\ UseLater /\ UseHolds /\ UseKeep

\* The inductive invariant of SaidIsIndexed.
SaidInv == UseInv /\ \A s \in Said : Supp(s)

-----------------------------------------------------------------------------
(* How a step changes the stacks.                                          *)

\* Thread t returns from the calls a, and makes the calls b.
Turns(t, a, b) ==
    /\ Moves(t)
    /\ \E F : \E c \in Seq(F) : a \in Seq(F) /\ b \in Seq(F)
                                 /\ todo[t] = a \o c /\ todo'[t] = b \o c

LEMMA ThenTurns ==
    ASSUME TypeOK, NEW t \in Threads, todo[t] # <<>>, NEW frames, \E G : frames \in Seq(G),
           Then(t, frames)
    PROVE  Turns(t, <<Top(t)>>, frames)
<1>1. PICK G : frames \in Seq(G)
  OBVIOUS
<1> DEFINE F == G \cup Frames
           a == <<Top(t)>>
           c == Tail(todo[t])
<1>2. Top(t) \in Frames /\ c \in Seq(Frames) /\ todo[t] \in Seq(Frames)
  BY TopTyped DEF TypeOK
<1>3. a \in Seq(Frames)
  BY <1>2, ShortSeqs
<1>4. frames \in Seq(F) /\ a \in Seq(F) /\ c \in Seq(F)
  BY <1>1, <1>2, <1>3, SeqMonotonic
<1>5. todo[t] = a \o c
  BY <1>2, HeadTailProperties DEF Top
<1>6. todo'[t] = frames \o c
  BY DEF Then, TypeOK
<1> HIDE DEF F, a, c
<1>7. Turns(t, a, frames)
  BY <1>4, <1>5, <1>6, ThenMoves DEF Turns
<1> QED BY <1>7 DEF a

LEMMA WholeTurns ==
    ASSUME TypeOK, NEW t \in Threads, NEW frames, \E G : frames \in Seq(G), Moves(t),
           todo'[t] = frames
    PROVE  Turns(t, todo[t], frames)
<1>1. PICK G : frames \in Seq(G)
  OBVIOUS
<1> DEFINE F == G \cup Frames
           c == <<>>
<1>2. todo[t] \in Seq(Frames)
  BY DEF TypeOK
<1>3. frames \in Seq(F) /\ todo[t] \in Seq(F) /\ c \in Seq(F)
  BY <1>1, <1>2, SeqMonotonic, EmptySeq
<1>4. frames \o c = frames /\ todo[t] \o c = todo[t]
  BY <1>3, ConcatEmptySeq
<1> HIDE DEF F, c
<1> QED BY <1>3, <1>4 DEF Turns

LEMMA SameTurns ==
    ASSUME TypeOK, NEW t \in Threads, todo' = todo
    PROVE  Turns(t, <<>>, <<>>)
<1> DEFINE c == todo[t]
           e == <<>>
<1>1. c \in Seq(Frames) /\ e \in Seq(Frames)
  BY EmptySeq DEF TypeOK
<1>2. e \o c = c
  BY <1>1, ConcatEmptySeq
<1>3. Moves(t)
  BY DEF Moves
<1> HIDE DEF e
<1>4. Turns(t, e, e)
  BY <1>1, <1>2, <1>3 DEF Turns
<1> QED BY <1>4 DEF e

\* The same set is counted before and after.
LEMMA HitsChange ==
    ASSUME NEW F, NEW T, NEW old, NEW new, AreStacks(T, old, new, F),
           NEW t \in T, NEW a \in Seq(F), NEW b \in Seq(F), NEW c \in Seq(F),
           Becomes(old, new, t, a, b, c), NEW S, NEW n, HitsAre(old, S, n)
    PROVE  HitsAre(new, S, n - Cardinality(Hits(a, S)) + Cardinality(Hits(b, S)))
<1>1. Agrees(old, t, c, S, S)
  BY DEF Agrees
<1>2. IsFiniteSet(AllHits(old, S)) /\ Cardinality(AllHits(old, S)) = n
  BY DEF HitsAre
<1>3. /\ IsFiniteSet(AllHits(new, S))
      /\ Cardinality(AllHits(new, S))
         = Cardinality(AllHits(old, S)) - Cardinality(Hits(a, S)) + Cardinality(Hits(b, S))
  BY <1>1, <1>2, StackChange
<1>4. Cardinality(AllHits(new, S)) \in Nat
  BY <1>3, FS_CardinalityType
<1> QED BY <1>2, <1>3, <1>4 DEF HitsAre

LEMMA TurnsChange ==
    ASSUME TypeOK, TypeOK', NEW t \in Threads, NEW a, NEW b, Turns(t, a, b), NEW S, NEW n,
           HitsAre(todo, S, n)
    PROVE  /\ HitsAre(todo', S, n - Cardinality(Hits(a, S)) + Cardinality(Hits(b, S)))
           /\ Cardinality(Hits(a, S)) \in Nat /\ Cardinality(Hits(b, S)) \in Nat
<1>1. PICK F : \E c \in Seq(F) : a \in Seq(F) /\ b \in Seq(F)
                                 /\ todo[t] = a \o c /\ todo'[t] = b \o c
  BY DEF Turns
<1>2. PICK c \in Seq(F) : a \in Seq(F) /\ b \in Seq(F) /\ todo[t] = a \o c /\ todo'[t] = b \o c
  BY <1>1
<1>3. PICK new : new = todo'
  OBVIOUS
<1> DEFINE G == F \cup Frames \cup Frames'
<1>4. Seq(F) \subseteq Seq(G) /\ Seq(Frames) \subseteq Seq(G) /\ Seq(Frames') \subseteq Seq(G)
  BY SeqMonotonic
<1>5. todo \in [Threads -> Seq(Frames)] /\ new \in [Threads -> Seq(Frames')]
  BY <1>3 DEF TypeOK
<1> HIDE DEF G
<1>6. AreStacks(Threads, todo, new, G) /\ DOMAIN todo = Threads
  BY <1>4, <1>5 DEF AreStacks
<1>7. a \in Seq(G) /\ b \in Seq(G) /\ c \in Seq(G)
  BY <1>2, <1>4
<1>8. \A u \in DOMAIN todo \ {t} : new[u] = todo[u]
  BY <1>3, <1>6 DEF Turns, Moves
<1>9. Becomes(todo, new, t, a, b, c)
  BY <1>2, <1>3, <1>8 DEF Becomes
<1>10. HitsAre(new, S, n - Cardinality(Hits(a, S)) + Cardinality(Hits(b, S)))
  BY <1>6, <1>7, <1>9, HitsChange
<1>11. Cardinality(Hits(a, S)) \in Nat /\ Cardinality(Hits(b, S)) \in Nat
  BY <1>7, HitsFinite
<1> QED BY <1>3, <1>10, <1>11

\* What frames are to do with s.
Does(frames, s, n, r, c) ==
    /\ Cardinality(Hits(frames, Takers(s))) = n
    /\ Cardinality(Hits(frames, Removers(s))) = r
    /\ Cardinality(Hits(frames, Closers(s))) = c

LEMMA PendingStep ==
    ASSUME TypeOK, TypeOK', NEW t \in Threads, NEW a, NEW b, Turns(t, a, b), NEW s,
           NEW n, NEW r, NEW c, Pending(s, n, r, c),
           NEW n1, NEW r1, NEW c1, Does(a, s, n1, r1, c1),
           NEW n2, NEW r2, NEW c2, Does(b, s, n2, r2, c2)
    PROVE  /\ Pending(s, n - n1 + n2, r - r1 + r2, c - c1 + c2)'
           /\ n \in Nat /\ r \in Nat /\ c \in Nat
           /\ n1 \in Nat /\ r1 \in Nat /\ c1 \in Nat /\ n2 \in Nat /\ r2 \in Nat /\ c2 \in Nat
           /\ n - n1 + n2 \in Nat /\ r - r1 + r2 \in Nat /\ c - c1 + c2 \in Nat
<1>1. /\ HitsAre(todo', Takers(s), n - n1 + n2) /\ n1 \in Nat /\ n2 \in Nat
      /\ HitsAre(todo', Removers(s), r - r1 + r2) /\ r1 \in Nat /\ r2 \in Nat
      /\ HitsAre(todo', Closers(s), c - c1 + c2) /\ c1 \in Nat /\ c2 \in Nat
  BY TurnsChange DEF Does, Pending
<1>2. n \in Nat /\ r \in Nat /\ c \in Nat
  BY DEF Pending, HitsAre
<1>3. n - n1 + n2 \in Nat /\ r - r1 + r2 \in Nat /\ c - c1 + c2 \in Nat
  BY <1>1 DEF HitsAre
<1> QED BY <1>1, <1>2, <1>3 DEF Pending

\* Frames that are nothing to s.
LEMMA DoesNothing ==
    ASSUME NEW frames, NEW s, \A j \in 1 .. Len(frames) : frames[j] \notin Touch(s)
    PROVE  Does(frames, s, 0, 0, 0)
<1>1. /\ Hits(frames, Takers(s)) = {} /\ Hits(frames, Removers(s)) = {}
      /\ Hits(frames, Closers(s)) = {}
  BY DEF Hits, Touch
<1>2. Cardinality({}) = 0
  BY FS_EmptySet
<1> QED BY <1>1, <1>2 DEF Does

LEMMA DoesOne ==
    ASSUME NEW f, NEW s
    PROVE  Does(<<f>>, s, One(f \in Takers(s)), One(f \in Removers(s)), One(f \in Closers(s)))
BY OneHit DEF Does, One

-----------------------------------------------------------------------------
(* Steps that are nothing to what is only said.                            *)

\* There are the same statements, and each says what it said.
ClausesStay ==
    Len(stmts') = Len(stmts) /\ \A s \in StmtRefs : stmts'[s].clause = stmts[s].clause

LEMMA UnchangedStay ==
    ASSUME stmts' = stmts
    PROVE  ClausesStay
BY DEF ClausesStay

LEMMA SaidStays ==
    ASSUME TypeOK, ClausesStay
    PROVE  /\ Said' = Said /\ Said \subseteq StmtRefs /\ StmtRefs' = StmtRefs
           /\ \A cs : RefsOf(cs)' = RefsOf(cs)
           /\ \A f : FrameUse(f)' <=> FrameUse(f)
<1>1. StmtRefs' = StmtRefs
  BY DEF ClausesStay, StmtRefs
<1>2. \A cs : RefsOf(cs)' = RefsOf(cs)
  BY <1>1 DEF ClausesStay, RefsOf
<1>3. Said' = Said
  BY <1>2 DEF Said
<1>4. Said \subseteq StmtRefs
  BY DEF Said, RefsOf
<1> QED BY <1>1, <1>2, <1>3, <1>4 DEF FrameUse

LEMMA UseSame ==
    ASSUME TypeOK, UseInv, ClausesStay
    PROVE  /\ work' = work => UseWork'
           /\ later' = later => UseLater'
           /\ holds' = holds => UseHolds'
           /\ (\A s \in Said : stmts'[s].keep = stmts[s].keep) => UseKeep'
<1>1. Said' = Said
  BY SaidStays
<1> QED BY <1>1 DEF UseInv, UseWork, UseLater, UseHolds, UseKeep

\* What a stack holds after the step it held before, or the step put there.
LEMMA TurnsFrames ==
    ASSUME TypeOK, NEW t \in Threads, NEW a, NEW b, Turns(t, a, b), NEW i \in 1 .. Len(todo'[t])
    PROVE  \/ \E j \in 1 .. Len(b) : todo'[t][i] = b[j]
           \/ \E j \in 1 .. Len(todo[t]) : todo'[t][i] = todo[t][j]
<1>1. PICK F : \E c \in Seq(F) : a \in Seq(F) /\ b \in Seq(F)
                                 /\ todo[t] = a \o c /\ todo'[t] = b \o c
  BY DEF Turns
<1>2. PICK c \in Seq(F) : a \in Seq(F) /\ b \in Seq(F) /\ todo[t] = a \o c /\ todo'[t] = b \o c
  BY <1>1
<1>3. PICK n : n = todo'[t]
  OBVIOUS
<1>4. PICK o : o = todo[t]
  OBVIOUS
<1>5. Len(a) \in Nat /\ Len(b) \in Nat /\ Len(c) \in Nat
  BY <1>2, LenProperties
<1>6. /\ Len(n) = Len(b) + Len(c) /\ Len(o) = Len(a) + Len(c)
      /\ \A j \in 1 .. Len(b) + Len(c) : n[j] = IF j <= Len(b) THEN b[j] ELSE c[j - Len(b)]
      /\ \A j \in 1 .. Len(a) + Len(c) : o[j] = IF j <= Len(a) THEN a[j] ELSE c[j - Len(a)]
  BY <1>2, <1>3, <1>4, ConcatProperties
<1>7. i \in 1 .. Len(n)
  BY <1>3
<1>8. CASE i <= Len(b)
  <2>1. i \in 1 .. Len(b) /\ n[i] = b[i]
    BY <1>5, <1>6, <1>7, <1>8
  <2> QED BY <1>3, <2>1
<1>9. CASE ~(i <= Len(b))
  <2> DEFINE j == i - Len(b) + Len(a)
  <2>1. i \in 1 .. Len(b) + Len(c)
    BY <1>6, <1>7
  <2>2. /\ j \in 1 .. Len(a) + Len(c) /\ ~(j <= Len(a))
        /\ j - Len(a) = i - Len(b)
    BY <1>5, <1>9, <2>1
  <2> HIDE DEF j
  <2>3. n[i] = c[i - Len(b)] /\ o[j] = c[j - Len(a)]
    BY <1>6, <1>9, <2>1, <2>2
  <2> QED BY <1>3, <1>4, <1>6, <2>2, <2>3
<1> QED BY <1>8, <1>9

\* A step whose new calls are used as they should be.
LEMMA UseStep ==
    ASSUME TypeOK, UseInv, NEW t \in Threads, ClausesStay, NEW a, NEW b, Turns(t, a, b),
           \A j \in 1 .. Len(b) : FrameUse(b[j]),
           UseWork', UseLater', UseHolds', UseKeep'
    PROVE  UseInv'
<1>1. ASSUME NEW u \in Threads, NEW i \in 1 .. Len(todo'[u]) PROVE FrameUse(todo'[u][i])
  <2>1. CASE u = t
    BY <1>1, <2>1, TurnsFrames DEF UseInv, UseStacks
  <2>2. CASE u # t
    BY <1>1, <2>2 DEF Turns, Moves, UseInv, UseStacks
  <2> QED BY <2>1, <2>2
<1>2. UseStacks'
  BY <1>1, SaidStays DEF UseStacks
<1> QED BY <1>2 DEF UseInv

\* The statement and its children stay as they are.
StillSaid(s) ==
    /\ stmts'[s].parentCount = stmts[s].parentCount /\ stmts'[s].open = stmts[s].open
    /\ Here(s)' <=> Here(s)

SameKids(s) == \A k : SaidBy(s, k) => SaidBy(s, k)'

\* A step that is nothing to s.
LEMMA SuppStep ==
    ASSUME TypeOK, TypeOK', NEW t \in Threads, NEW a, NEW b, Turns(t, a, b), NEW s, Supp(s),
           \A j \in 1 .. Len(a) : a[j] \notin Touch(s),
           \A j \in 1 .. Len(b) : b[j] \notin Touch(s),
           StillSaid(s), SameKids(s)
    PROVE  Supp(s)'
<1>1. PICK k, n, r, c \in Nat :
         /\ SaidBy(s, k) /\ Pending(s, n, r, c)
         /\ Level(k, n, r, c, stmts[s].parentCount, stmts[s].open, Here(s))
  BY DEF Supp
<1>2. Does(a, s, 0, 0, 0) /\ Does(b, s, 0, 0, 0)
  BY DoesNothing
<1>3. Pending(s, n - 0 + 0, r - 0 + 0, c - 0 + 0)'
  BY <1>1, <1>2, PendingStep
<1>4. n - 0 + 0 = n /\ r - 0 + 0 = r /\ c - 0 + 0 = c
  OBVIOUS
<1>5. Pending(s, n, r, c)'
  BY <1>3, <1>4
<1>6. Level(k, n, r, c, stmts[s].parentCount, stmts[s].open, Here(s))'
  BY <1>1 DEF Level, StillSaid
<1>7. SaidBy(s, k)'
  BY <1>1 DEF SameKids
<1> QED BY <1>5, <1>6, <1>7 DEF Supp

\* Frames that are nothing to any statement that is only said.
Harmless(f) == FrameUse(f) /\ \A s \in Said : f \notin Touch(s)

AllHarmless(frames) ==
    (\E S : frames \in Seq(S)) /\ \A j \in 1 .. Len(frames) : Harmless(frames[j])

Mild(t) ==
    \E a, b : /\ Turns(t, a, b) /\ AllHarmless(b)
              /\ \A j \in 1 .. Len(a) : \A s \in Said : a[j] \notin Touch(s)

SameSaid ==
    \A s \in Said : StillSaid(s) /\ stmts'[s].keep = stmts[s].keep /\ SameKids(s)

LEMMA MildStep ==
    ASSUME TypeOK, TypeOK', SaidInv, NEW t \in Threads, ClausesStay, Mild(t), SameSaid,
           UseWork', UseLater', UseHolds'
    PROVE  SaidInv'
<1>1. PICK a, b : /\ Turns(t, a, b) /\ AllHarmless(b)
                  /\ \A j \in 1 .. Len(a) : \A s \in Said : a[j] \notin Touch(s)
  BY DEF Mild
<1>2. UseKeep'
  BY UseSame DEF SaidInv, SameSaid
<1>3. UseInv'
  BY <1>1, <1>2, UseStep DEF SaidInv, AllHarmless, Harmless
<1>4. ASSUME NEW s \in Said PROVE Supp(s)'
  <2>1. \A j \in 1 .. Len(a) : a[j] \notin Touch(s)
    BY <1>1
  <2>2. \A j \in 1 .. Len(b) : b[j] \notin Touch(s)
    BY <1>1 DEF AllHarmless, Harmless
  <2>3. StillSaid(s) /\ SameKids(s) /\ Supp(s)
    BY DEF SameSaid, SaidInv
  <2> QED BY <1>1, <2>1, <2>2, <2>3, SuppStep
<1> QED BY <1>3, <1>4, SaidStays DEF SaidInv

\* Which frames these are.
TouchOps == {"decr", "adopt", "removeSelf", "close"}
UseOps == KeepOps \cup {"place", "reuse", "adopt", "holdSet", "command", "eval"}

LEMMA TouchOp ==
    ASSUME NEW s, NEW f \in Touch(s)
    PROVE  f.op \in TouchOps /\ f.ref = s
BY DEF Touch, Takers, Removers, Closers, RefFrame, TouchOps

LEMMA HarmlessOps ==
    ASSUME NEW f
    PROVE  /\ f.op \notin TouchOps \/ f.ref \notin Said => \A s \in Said : f \notin Touch(s)
           /\ f.op \notin TouchOps \cup UseOps => Harmless(f)
           /\ f.op \notin UseOps /\ f.ref \notin Said => Harmless(f)
<1>1. f.op \notin TouchOps \/ f.ref \notin Said => \A s \in Said : f \notin Touch(s)
  BY TouchOp
<1>2. f.op \notin UseOps => FrameUse(f)
  BY DEF UseOps, FrameUse
<1> QED BY <1>1, <1>2 DEF Harmless

LEMMA RefHarmless ==
    ASSUME NEW op, NEW r
    PROVE  /\ op \notin TouchOps \cup UseOps => Harmless(RefFrame(op, r))
           /\ r \notin Said /\ op \in TouchOps \cup KeepOps /\ op # "adopt" => Harmless(RefFrame(op, r))
<1>1. RefFrame(op, r).op = op /\ RefFrame(op, r).ref = r
  BY DEF RefFrame
<1>2. op \notin TouchOps \cup UseOps => Harmless(RefFrame(op, r))
  BY <1>1, HarmlessOps
<1>3. r \notin Said /\ op \in TouchOps \cup KeepOps /\ op # "adopt" => FrameUse(RefFrame(op, r))
  BY <1>1 DEF FrameUse, KeepOps, TouchOps
<1>4. r \notin Said => \A s \in Said : RefFrame(op, r) \notin Touch(s)
  BY <1>1, HarmlessOps
<1> QED BY <1>2, <1>3, <1>4 DEF Harmless

LEMMA ShortHarmless ==
    /\ AllHarmless(<<>>)
    /\ \A f : Harmless(f) => AllHarmless(<<f>>)
    /\ \A f, g : Harmless(f) /\ Harmless(g) => AllHarmless(<<f, g>>)
    /\ \A f, g, h : Harmless(f) /\ Harmless(g) /\ Harmless(h) => AllHarmless(<<f, g, h>>)
<1>1. AllHarmless(<<>>)
  BY ShortSeqs DEF AllHarmless
<1>2. ASSUME NEW f, Harmless(f) PROVE AllHarmless(<<f>>)
  <2>1. <<f>> \in Seq({f})
    BY ShortSeqs
  <2>2. \A j \in 1 .. Len(<<f>>) : <<f>>[j] = f
    OBVIOUS
  <2> QED BY <1>2, <2>1, <2>2 DEF AllHarmless
<1>3. ASSUME NEW f, NEW g, Harmless(f), Harmless(g) PROVE AllHarmless(<<f, g>>)
  <2>1. <<f, g>> \in Seq({f, g})
    BY ShortSeqs
  <2>2. \A j \in 1 .. Len(<<f, g>>) : <<f, g>>[j] \in {f, g}
    OBVIOUS
  <2> QED BY <1>3, <2>1, <2>2 DEF AllHarmless
<1>4. ASSUME NEW f, NEW g, NEW h, Harmless(f), Harmless(g), Harmless(h)
      PROVE  AllHarmless(<<f, g, h>>)
  <2>1. <<f, g, h>> \in Seq({f, g, h})
    BY ShortSeqs
  <2>2. \A j \in 1 .. Len(<<f, g, h>>) : <<f, g, h>>[j] \in {f, g, h}
    OBVIOUS
  <2> QED BY <1>4, <2>1, <2>2 DEF AllHarmless
<1> QED BY <1>1, <1>2, <1>3, <1>4

LEMMA HarmlessConcat ==
    ASSUME NEW a, AllHarmless(a), NEW b, AllHarmless(b)
    PROVE  AllHarmless(a \o b)
<1>1. PICK S : a \in Seq(S)
  BY DEF AllHarmless
<1>2. PICK R : b \in Seq(R)
  BY DEF AllHarmless
<1>3. a \in Seq(S \cup R) /\ b \in Seq(S \cup R)
  BY <1>1, <1>2, SeqMonotonic
<1>4. Len(a) \in Nat /\ Len(b) \in Nat
  BY <1>3, LenProperties
<1>5. /\ a \o b \in Seq(S \cup R) /\ Len(a \o b) = Len(a) + Len(b)
      /\ \A i \in 1 .. Len(a) + Len(b) : (a \o b)[i] = IF i <= Len(a) THEN a[i] ELSE b[i - Len(a)]
  BY <1>3, ConcatProperties
<1>6. ASSUME NEW i \in 1 .. Len(a \o b) PROVE Harmless((a \o b)[i])
  <2>1. CASE i <= Len(a)
    <3>1. i \in 1 .. Len(a) /\ (a \o b)[i] = a[i]
      BY <1>4, <1>5, <2>1
    <3> QED BY <3>1 DEF AllHarmless
  <2>2. CASE ~(i <= Len(a))
    <3>1. i - Len(a) \in 1 .. Len(b) /\ (a \o b)[i] = b[i - Len(a)]
      BY <1>4, <1>5, <2>2
    <3> QED BY <3>1 DEF AllHarmless
  <2> QED BY <2>1, <2>2
<1> QED BY <1>5, <1>6 DEF AllHarmless

LEMMA CallsHarmless ==
    ASSUME NEW frames, Calls(frames, TouchOps \cup UseOps)
    PROVE  AllHarmless(frames)
BY HarmlessOps DEF Calls, AllHarmless

\* The ways a step can be mild.
LEMMA MildThen ==
    ASSUME TypeOK, NEW t \in Threads, todo[t] # <<>>, Top(t).op \notin TouchOps \/ Top(t).ref \notin Said
    PROVE  \A frames : AllHarmless(frames) /\ Then(t, frames) => Mild(t)
<1> SUFFICES ASSUME NEW frames, AllHarmless(frames), Then(t, frames) PROVE Mild(t)
  OBVIOUS
<1>1. \E G : frames \in Seq(G)
  BY DEF AllHarmless
<1>2. Turns(t, <<Top(t)>>, frames)
  BY <1>1, ThenTurns
<1>3. \A s \in Said : Top(t) \notin Touch(s)
  BY HarmlessOps
<1>4. \A j \in 1 .. Len(<<Top(t)>>) : <<Top(t)>>[j] = Top(t)
  OBVIOUS
<1> QED BY <1>2, <1>3, <1>4 DEF Mild

LEMMA MildAt ==
    ASSUME TypeOK, NEW t \in Threads, NEW op, At(t, op), op \notin TouchOps \/ Top(t).ref \notin Said
    PROVE  \A frames : AllHarmless(frames) /\ Then(t, frames) => Mild(t)
<1>1. todo[t] # <<>> /\ Top(t).op = op
  BY DEF At
<1> QED BY <1>1, MildThen

LEMMA MildCommand ==
    ASSUME TypeOK, NEW t \in Threads, NEW name, AtCommand(t, name)
    PROVE  \A frames : AllHarmless(frames) /\ Then(t, frames) => Mild(t)
<1>1. At(t, "command") \/ At(t, "eval")
  BY DEF AtCommand
<1>2. "command" \notin TouchOps /\ "eval" \notin TouchOps
  BY DEF TouchOps
<1> QED BY <1>1, <1>2, MildAt

LEMMA MildSame ==
    ASSUME TypeOK, NEW t \in Threads, todo' = todo
    PROVE  Mild(t)
<1>1. Turns(t, <<>>, <<>>)
  BY SameTurns
<1>2. 1 .. Len(<<>>) = {}
  OBVIOUS
<1> QED BY <1>1, <1>2, ShortHarmless DEF Mild

LEMMA MildWhole ==
    ASSUME TypeOK, NEW t \in Threads, \A j \in 1 .. Len(todo[t]) : todo[t][j].op \notin TouchOps
    PROVE  \A frames : AllHarmless(frames) /\ Start(t, frames) => Mild(t)
<1> SUFFICES ASSUME NEW frames, AllHarmless(frames), Start(t, frames) PROVE Mild(t)
  OBVIOUS
<1>1. \E G : frames \in Seq(G)
  BY DEF AllHarmless
<1>2. Turns(t, todo[t], frames)
  BY <1>1, StartMoves, WholeTurns
<1> QED BY <1>2, HarmlessOps DEF Mild

-----------------------------------------------------------------------------
(* What a step changes of the statements and of the matches' children.     *)

StmtsStill == \A s \in Said : StillSaid(s) /\ stmts'[s].keep = stmts[s].keep
KidsStill == \A s : SameKids(s)

LEMMA StillSame ==
    /\ StmtsStill /\ KidsStill => SameSaid
    /\ stmts' = stmts /\ index' = index => StmtsStill
    /\ matches' = matches => KidsStill
<1>1. StmtsStill /\ KidsStill => SameSaid
  BY DEF StmtsStill, KidsStill, SameSaid
<1>2. stmts' = stmts /\ index' = index => StmtsStill
  BY DEF StmtsStill, StillSaid, Here
<1>3. ASSUME matches' = matches PROVE KidsStill
  <2>1. PICK new : new = OpenKids'
    OBVIOUS
  <2>2. new = OpenKids
    BY <1>3, <2>1 DEF OpenKids, MatchRefs
  <2>3. \A s, k : SaidBy(s, k)' <=> HitsAre(new, {s}, k)
    BY <2>1 DEF SaidBy
  <2> QED BY <2>2, <2>3 DEF KidsStill, SameKids, SaidBy
<1> QED BY <1>1, <1>2, <1>3

\* The clause of a statement that is not only said.
LEMMA OtherClause ==
    ASSUME NEW r \in StmtRefs, r \notin Said
    PROVE  stmts[r].clause \notin SaidClauses
BY DEF Said, RefsOf

LEMMA SaidClause ==
    ASSUME NEW s \in Said
    PROVE  s \in StmtRefs /\ stmts[s].clause \in SaidClauses
BY DEF Said, RefsOf

\* What trieRemove takes out: a clause that stands alone only when it is the one
\* to take out.
LEMMA DroppedRelated ==
    ASSUME NEW c \in SaidClauses, NEW d \in Clauses, c # d
    PROVE  c \notin Dropped(DOMAIN index, d, Continues)
<1>1. <<c, d>> \notin Continues /\ <<d, c>> \notin Continues
  BY DEF SaidClauses, StandsAlone
<1> QED BY <1>1 DEF Dropped

LEMMA DeindexOthers ==
    ASSUME TypeOK, NEW r \in StmtRefs, DeindexClauseOf(r), stmts' = stmts,
           NEW s \in Said, stmts[s].clause # stmts[r].clause
    PROVE  Here(s)' <=> Here(s)
<1>1. PICK c : c = stmts[s].clause
  OBVIOUS
<1>2. PICK d : d = stmts[r].clause
  OBVIOUS
<1>3. PICK D : D = Dropped(DOMAIN index, d, Continues)
  OBVIOUS
<1>4. stmts[r] \in Stmt
  BY StmtFields
<1>5. d \in Clauses /\ c \in SaidClauses /\ c # d
  BY <1>1, <1>2, <1>4, SaidClause DEF Stmt
<1>6. c \notin D
  BY <1>3, <1>5, DroppedRelated
<1>7. index' = [y \in DOMAIN index \ D |-> index[y]]
  BY <1>2, <1>3 DEF DeindexClauseOf, Without
<1>8. (c \in DOMAIN index' <=> c \in DOMAIN index) /\ (c \in DOMAIN index => index'[c] = index[c])
  BY <1>6, <1>7
<1>9. c = stmts'[s].clause
  BY <1>1
<1> QED BY <1>1, <1>8, <1>9 DEF Here

LEMMA DeindexLess ==
    ASSUME NEW r, DeindexClauseOf(r)
    PROVE  \A c \in DOMAIN index' : c \in DOMAIN index /\ index'[c] = index[c]
BY DEF DeindexClauseOf, Without

\* Another statement is changed, or its clause leaves the index.
LEMMA StmtStill ==
    ASSUME TypeOK, NEW r \in StmtRefs, NEW x
    PROVE  /\ index' = index /\ stmts' = [stmts EXCEPT ![r].lock = x] => StmtsStill
           /\ index' = index /\ r \notin Said =>
                 /\ stmts' = [stmts EXCEPT ![r].parentCount = x] => StmtsStill
                 /\ stmts' = [stmts EXCEPT ![r].keep = x] => StmtsStill
                 /\ stmts' = [stmts EXCEPT ![r].open = x] => StmtsStill
           /\ stmts' = stmts /\ r \notin Said /\ DeindexClauseOf(r) => StmtsStill
<1>1. DOMAIN stmts = StmtRefs /\ stmts[r] \in Stmt
  BY LensTyped, StmtFields DEF StmtRefs
<1>2. ASSUME NEW e, e.clause = stmts[r].clause, r \in Said => e.parentCount = stmts[r].parentCount
             /\ e.open = stmts[r].open /\ e.keep = stmts[r].keep,
             stmts' = [stmts EXCEPT ![r] = e], index' = index
      PROVE  StmtsStill
  <2>1. ASSUME NEW s \in Said PROVE /\ stmts'[s].clause = stmts[s].clause
                                    /\ stmts'[s].parentCount = stmts[s].parentCount
                                    /\ stmts'[s].open = stmts[s].open
                                    /\ stmts'[s].keep = stmts[s].keep
    BY <1>1, <1>2, SaidClause
  <2> QED BY <1>2, <2>1 DEF StmtsStill, StillSaid, Here
<1>3. /\ [stmts[r] EXCEPT !.lock = x].clause = stmts[r].clause
      /\ [stmts[r] EXCEPT !.lock = x].parentCount = stmts[r].parentCount
      /\ [stmts[r] EXCEPT !.lock = x].open = stmts[r].open
      /\ [stmts[r] EXCEPT !.lock = x].keep = stmts[r].keep
  BY <1>1 DEF Stmt
<1>4. /\ [stmts[r] EXCEPT !.parentCount = x].clause = stmts[r].clause
      /\ [stmts[r] EXCEPT !.keep = x].clause = stmts[r].clause
      /\ [stmts[r] EXCEPT !.open = x].clause = stmts[r].clause
  BY <1>1 DEF Stmt
<1>5. ASSUME stmts' = stmts, r \notin Said, DeindexClauseOf(r)
      PROVE  StmtsStill
  <2>1. \A s \in Said : stmts[s].clause # stmts[r].clause
    BY <1>5, OtherClause, SaidClause
  <2>2. \A s \in Said : Here(s)' <=> Here(s)
    BY <1>5, <2>1, DeindexOthers
  <2> QED BY <1>5, <2>2 DEF StmtsStill, StillSaid
<1>6. ASSUME index' = index, stmts' = [stmts EXCEPT ![r].lock = x] PROVE StmtsStill
  BY <1>2, <1>3, <1>6
<1>7. ASSUME index' = index, r \notin Said, stmts' = [stmts EXCEPT ![r].parentCount = x] PROVE StmtsStill
  BY <1>2, <1>4, <1>7
<1>8. ASSUME index' = index, r \notin Said, stmts' = [stmts EXCEPT ![r].keep = x] PROVE StmtsStill
  BY <1>2, <1>4, <1>8
<1>9. ASSUME index' = index, r \notin Said, stmts' = [stmts EXCEPT ![r].open = x] PROVE StmtsStill
  BY <1>2, <1>4, <1>9
<1> QED BY <1>5, <1>6, <1>7, <1>8, <1>9

\* The matches keep their children; new ones have none.
KidsKept ==
    /\ MatchRefs \subseteq MatchRefs'
    /\ \A m \in MatchRefs : matches'[m].open = matches[m].open /\ matches'[m].kids = matches[m].kids
    /\ \A m \in MatchRefs' \ MatchRefs : matches'[m].kids = <<>>

LEMMA KeptStill ==
    ASSUME KidsKept
    PROVE  KidsStill
<1>1. PICK new : new = OpenKids'
  OBVIOUS
<1>2. /\ DOMAIN new = MatchRefs' /\ DOMAIN OpenKids = MatchRefs
      /\ \A m \in MatchRefs : new[m] = OpenKids[m]
      /\ \A m \in MatchRefs' \ MatchRefs : new[m] = <<>>
  BY <1>1 DEF KidsKept, OpenKids
<1>3. DOMAIN <<>> = {}
  OBVIOUS
<1>4. ASSUME NEW S PROVE AllHits(new, S) = AllHits(OpenKids, S)
  BY <1>2, <1>3 DEF AllHits, KidsKept
<1>5. \A s, k : SaidBy(s, k)' <=> HitsAre(new, {s}, k)
  BY <1>1 DEF SaidBy
<1> QED BY <1>4, <1>5 DEF KidsStill, SameKids, SaidBy, HitsAre

LEMMA MatchKept ==
    ASSUME TypeOK, NEW m \in MatchRefs, NEW x
    PROVE  /\ matches' = [matches EXCEPT ![m].lock = x] => KidsStill
           /\ matches' = [matches EXCEPT ![m].completed = x] => KidsStill
           /\ matches' = [matches EXCEPT ![m].version = x] => KidsStill
           /\ \A y : matches' = [matches EXCEPT ![m].parentWasRemoved = x, ![m].overlooked = y]
                    => KidsStill
<1>1. DOMAIN matches = MatchRefs /\ matches[m] \in Match /\ matches \in Seq(Match)
  BY LensTyped, MatchFields DEF TypeOK, DbTypeOK
<1>2. ASSUME NEW e, e.open = matches[m].open, e.kids = matches[m].kids, matches' = [matches EXCEPT ![m] = e]
      PROVE  KidsStill
  <2>1. matches \in Seq(Match \cup {e})
    BY <1>1, SeqMonotonic
  <2>2. Len(matches') = Len(matches)
    BY <1>1, <1>2, <2>1, ExceptSeq DEF MatchRefs
  <2>3. KidsKept
    BY <1>1, <1>2, <2>2 DEF KidsKept, MatchRefs
  <2> QED BY <2>3, KeptStill
<1>3. /\ [matches[m] EXCEPT !.lock = x].open = matches[m].open
      /\ [matches[m] EXCEPT !.completed = x].open = matches[m].open
      /\ [matches[m] EXCEPT !.version = x].open = matches[m].open
      /\ [matches[m] EXCEPT !.lock = x].kids = matches[m].kids
      /\ [matches[m] EXCEPT !.completed = x].kids = matches[m].kids
      /\ [matches[m] EXCEPT !.version = x].kids = matches[m].kids
  BY <1>1 DEF Match
<1>4. ASSUME NEW y, matches' = [matches EXCEPT ![m].parentWasRemoved = x, ![m].overlooked = y]
      PROVE  KidsStill
  <2> DEFINE e == [matches[m] EXCEPT !.parentWasRemoved = x, !.overlooked = y]
  <2>1. [matches EXCEPT ![m].parentWasRemoved = x, ![m].overlooked = y] = [matches EXCEPT ![m] = e]
    OBVIOUS
  <2>2. e.open = matches[m].open /\ e.kids = matches[m].kids
    BY <1>1 DEF Match
  <2> HIDE DEF e
  <2> QED BY <1>2, <1>4, <2>1, <2>2
<1> QED BY <1>2, <1>3, <1>4

-----------------------------------------------------------------------------
(* Calls that keep, retract, or see to matches and versions.               *)

\* Most mild steps leave the table, the holds and the queues alone.
LEMMA MildQuietly ==
    ASSUME TypeOK, TypeOK', SaidInv, NEW t \in Threads, ClausesStay, Mild(t), StmtsStill, KidsStill,
           UNCHANGED <<holds, later, work>>
    PROVE  SaidInv'
<1>1. UseWork' /\ UseLater' /\ UseHolds'
  BY UseSame DEF SaidInv
<1> QED BY <1>1, StillSame, MildStep

\* The innermost call is used as it should be.
LEMMA TopUse ==
    ASSUME TypeOK, SaidInv, NEW t \in Threads, NEW op, At(t, op)
    PROVE  FrameUse(Top(t)) /\ Top(t).op = op /\ Top(t) \in Frames
<1>1. todo[t] # <<>> /\ Top(t).op = op /\ todo[t] \in Seq(Frames)
  BY DEF At, TypeOK
<1>2. 1 \in 1 .. Len(todo[t]) /\ todo[t][1] = Top(t)
  BY <1>1, EmptySeq, LenProperties DEF Top
<1> QED BY <1>1, <1>2, TopTyped DEF SaidInv, UseInv, UseStacks

LEMMA KeepUse ==
    ASSUME TypeOK, SaidInv, NEW t \in Threads, NEW op \in KeepOps, At(t, op)
    PROVE  /\ Top(t).ref \in StmtRefs /\ Top(t).ref \notin Said
           /\ \A frames : AllHarmless(frames) /\ Then(t, frames) => Mild(t)
           /\ \A o \in TouchOps \cup KeepOps : o # "adopt" => Harmless(RefFrame(o, Top(t).ref))
<1>1. FrameUse(Top(t)) /\ Top(t).op = op /\ Top(t) \in Frames
  BY TopUse
<1>2. Top(t).ref \notin Said
  BY <1>1 DEF FrameUse
<1>3. Top(t).ref \in StmtRefs
  BY <1>1, FrameFields DEF KeepOps, StmtOps
<1> QED BY <1>2, <1>3, MildAt, RefHarmless

LEMMA DecrThenSaid ==
    ASSUME TypeOK, TypeOK', SaidInv, NEW t \in Threads, DecrKept(t) \/ DecrScheduled(t), work' = work
    PROVE  SaidInv'
<1> DEFINE s == Top(t).ref
<1>1. PICK op \in KeepOps : At(t, op)
  BY DEF DecrKept, DecrScheduled, KeepOps
<1>2. /\ s \in StmtRefs /\ s \notin Said
      /\ \A frames : AllHarmless(frames) /\ Then(t, frames) => Mild(t)
      /\ \A o \in TouchOps \cup KeepOps : o # "adopt" => Harmless(RefFrame(o, s))
  BY <1>1, KeepUse
<1>3. /\ Harmless(RefFrame("negateKeep", s)) /\ Harmless(RefFrame("schedule", s))
      /\ Harmless(RefFrame("recount", s)) /\ Harmless(RefFrame("removeSelf", s))
  BY <1>2 DEF TouchOps, KeepOps
<1>4. /\ AllHarmless(<<RefFrame("negateKeep", s), RefFrame("schedule", s), RefFrame("recount", s)>>)
      /\ AllHarmless(<<>>) /\ AllHarmless(<<RefFrame("removeSelf", s)>>)
      /\ AllHarmless(<<RefFrame("negateKeep", s)>>)
  BY <1>3, ShortHarmless
<1>5. Mild(t)
  BY <1>2, <1>4 DEF DecrKept, DecrScheduled, DecrThen
<1>6. ClausesStay
  BY DecrKeptKeeps, DecrScheduledKeeps DEF Keeps, KeepsStmts, ClausesStay
<1>7. \E x : stmts' = [stmts EXCEPT ![s].parentCount = x]
  BY DEF DecrKept, DecrScheduled, DecrThen
<1>8. UNCHANGED <<index, matches, holds, later>>
  BY DEF DecrKept, DecrScheduled, DecrThen
<1>9. StmtsStill /\ KidsStill
  BY <1>2, <1>7, <1>8, StmtStill, StillSame
<1> QED BY <1>5, <1>6, <1>8, <1>9, MildQuietly

LEMMA KeepSaid ==
    ASSUME TypeOK, TypeOK', SaidInv, NEW t \in Threads, work' = work,
           TestAgain(t) \/ NegateKeep(t) \/ StoreKeep(t) \/ RecountKept(t) \/ RetractOne(t)
    PROVE  SaidInv'
<1> DEFINE s == Top(t).ref
<1>1. PICK op \in KeepOps : At(t, op)
  BY DEF TestAgain, NegateKeep, StoreKeep, RecountKept, RetractOne, KeepOps
<1>2. /\ s \in StmtRefs /\ s \notin Said
      /\ \A frames : AllHarmless(frames) /\ Then(t, frames) => Mild(t)
      /\ \A o \in TouchOps \cup KeepOps : o # "adopt" => Harmless(RefFrame(o, s))
  BY <1>1, KeepUse
<1>3. Harmless(RefFrame("decrScheduled", s)) /\ Harmless(RefFrame("decr", s))
  BY <1>2 DEF TouchOps, KeepOps
<1>4. \A k : Harmless([op |-> "storeKeep", ref |-> s, keep |-> k])
  <2> SUFFICES ASSUME NEW k PROVE Harmless([op |-> "storeKeep", ref |-> s, keep |-> k])
    OBVIOUS
  <2> DEFINE f == [op |-> "storeKeep", ref |-> s, keep |-> k]
  <2>1. f.op = "storeKeep" /\ f.ref = s
    OBVIOUS
  <2> HIDE DEF f
  <2>2. FrameUse(f)
    BY <1>2, <2>1 DEF FrameUse
  <2>3. \A x \in Said : f \notin Touch(x)
    BY <1>2, <2>1, HarmlessOps
  <2> QED BY <2>2, <2>3 DEF Harmless, f
<1>5. /\ AllHarmless(<<>>) /\ AllHarmless(<<RefFrame("decrScheduled", s)>>)
      /\ AllHarmless(<<RefFrame("decr", s)>>)
      /\ \A k : AllHarmless(<<[op |-> "storeKeep", ref |-> s, keep |-> k]>>)
  BY <1>3, <1>4, ShortHarmless
<1>6. Mild(t)
  BY <1>2, <1>5, MildSame DEF TestAgain, NegateKeep, StoreKeep, RecountKept, RetractOne
<1>7. ClausesStay
  BY TestAgainKeeps, NegateKeepKeeps, StoreKeepKeeps, RecountKeptKeeps, RetractOneKeeps
  DEF Keeps, KeepsStmts, ClausesStay
<1>8. UNCHANGED <<index, matches, holds, later>>
  BY DEF TestAgain, NegateKeep, StoreKeep, RecountKept, RetractOne
<1>9. \/ stmts' = stmts
      \/ \E x : stmts' = [stmts EXCEPT ![s].keep = x]
      \/ \E x : stmts' = [stmts EXCEPT ![s].parentCount = x]
  <2>1. RecountKept(t) => \E x : stmts' = [stmts EXCEPT ![s].parentCount = x]
    BY DEF RecountKept, IncrParentCount
  <2>2. StoreKeep(t) => \E x : stmts' = [stmts EXCEPT ![s].keep = x]
    BY DEF StoreKeep
  <2> QED BY <2>1, <2>2 DEF TestAgain, NegateKeep, RetractOne
<1>10. StmtsStill /\ KidsStill
  BY <1>2, <1>8, <1>9, StmtStill, StillSame
<1> QED BY <1>6, <1>7, <1>8, <1>10, MildQuietly

LEMMA LaterSaid ==
    ASSUME TypeOK, TypeOK', SaidInv, NEW t \in Threads, work' = work,
           ScheduleRemove(t) \/ SetDue(t) \/ ClearEntry(t)
    PROVE  SaidInv'
<1>1. {"setDue", "clearDue", "clearStmt", "schedule"} \cap TouchOps = {} /\ "setDue" \notin TouchOps \cup UseOps
  BY DEF TouchOps, UseOps, KeepOps
<1>2. \A frames : AllHarmless(frames) /\ Then(t, frames) => Mild(t)
  BY <1>1, MildAt DEF ScheduleRemove, SetDue, ClearEntry
<1>3. AllHarmless(<<>>) /\ \A i : AllHarmless(<<RefFrame("setDue", i)>>)
  BY <1>1, RefHarmless, ShortHarmless
<1>4. Mild(t)
  BY <1>2, <1>3, MildSame DEF ScheduleRemove, SetDue, ClearEntry
<1>5. UNCHANGED <<index, stmts, matches, holds>>
  BY DEF ScheduleRemove, SetDue, ClearEntry
<1>6. ClausesStay /\ Said' = Said
  BY <1>5, UnchangedStay, SaidStays
<1>7. UseLater'
  <2>1. later \in [1 .. LaterSlots -> Later] /\ UseLater
    BY DEF TypeOK, DbTypeOK, SaidInv, UseInv
  <2>2. NoRef \notin Said
    BY DEF Said, RefsOf, StmtRefs, NoRef
  <2>3. \A x : \A e \in Later : /\ [e EXCEPT !.stmt = x].stmt = x
                                  /\ [e EXCEPT !.due = x].stmt = e.stmt
    BY DEF Later
  <2>4. CASE ScheduleRemove(t)
    <3>1. Top(t).ref \notin Said
      BY <2>4, KeepUse DEF ScheduleRemove, KeepOps
    <3>2. later' = later \/ \E i \in 1 .. LaterSlots : later' = [later EXCEPT ![i].stmt = Top(t).ref]
      BY <2>4 DEF ScheduleRemove, FreeEntries
    <3>3. CASE later' = later
      BY <1>6, <2>1, <3>3 DEF UseLater
    <3>4. ASSUME NEW i \in 1 .. LaterSlots, later' = [later EXCEPT ![i].stmt = Top(t).ref]
          PROVE  UseLater'
      <4>1. \A j \in 1 .. LaterSlots : later'[j].stmt = IF j = i THEN Top(t).ref ELSE later[j].stmt
        BY <2>1, <2>3, <3>4
      <4> QED BY <1>6, <2>1, <3>1, <4>1 DEF UseLater
    <3> QED BY <3>2, <3>3, <3>4
  <2>5. CASE SetDue(t) \/ ClearEntry(t)
    <3>1. \/ \E i, x : later' = [later EXCEPT ![i].due = x]
          \/ \E i : later' = [later EXCEPT ![i].stmt = NoRef]
      BY <2>5 DEF SetDue, ClearEntry
    <3>3. ASSUME NEW i, NEW x, later' = [later EXCEPT ![i].due = x], NEW j \in 1 .. LaterSlots
          PROVE  later'[j].stmt = later[j].stmt
      BY <2>1, <2>3, <3>3
    <3>4. ASSUME NEW i, later' = [later EXCEPT ![i].stmt = NoRef], NEW j \in 1 .. LaterSlots
          PROVE  later'[j].stmt \in {later[j].stmt, NoRef}
      BY <2>1, <2>3, <3>4
    <3>2. \A j \in 1 .. LaterSlots : later'[j].stmt \in {later[j].stmt, NoRef}
      BY <3>1, <3>3, <3>4
    <3> QED BY <1>6, <2>1, <2>2, <3>2 DEF UseLater
  <2> QED BY <2>4, <2>5
<1>8. UseWork' /\ UseHolds'
  BY <1>5, <1>6, UseSame DEF SaidInv
<1> QED BY <1>4, <1>5, <1>6, <1>7, <1>8, StillSame, MildStep

\* Matches are marked and workers signalled.
LEMMA MatchSaid ==
    ASSUME TypeOK, TypeOK', SaidInv, NEW t \in Threads, work' = work,
           MarkRemoved(t) \/ SignalWorker(t)
    PROVE  SaidInv'
<1>1. {"markRemoved", "signal"} \cap TouchOps = {}
  BY DEF TouchOps
<1>2. Mild(t)
  BY <1>1, MildAt, ShortHarmless DEF MarkRemoved, SignalWorker
<1>3. Top(t).ref \in MatchRefs
  BY AtMatch DEF MarkRemoved, SignalWorker, MatchOps
<1>4. KidsStill
  BY <1>3, MatchKept, StillSame DEF MarkRemoved, SignalWorker
<1>5. UNCHANGED <<index, stmts, holds, later>>
  BY DEF MarkRemoved, SignalWorker
<1> QED BY <1>2, <1>4, <1>5, UnchangedStay, StillSame, MildQuietly

LEMMA AtomicallySaid ==
    ASSUME TypeOK, TypeOK', SaidInv, NEW t \in Threads, work' = work, AtomicallyStep(t)
    PROVE  SaidInv'
<1>1. {"inflightDecr", "converged", "reap", "reapEach", "clearRoot", "reapRoot", "collected",
       "unmatch"} \cap (TouchOps \cup UseOps) = {}
  BY DEF TouchOps, UseOps, KeepOps
<1>2. \A frames : AllHarmless(frames) /\ Then(t, frames) => Mild(t)
  BY <1>1, MildAt DEF AtomicallyStep, InflightDecr, Converged, ReapTakeList, ReapEach, ClearRoot,
                      ReapRoot, ReapPutBack, SysmonCollected
<1>3. /\ AllHarmless(<<>>)
      /\ \A f : f.op \in {"converged", "reap", "reapEach", "clearRoot", "reapRoot", "unmatch"}
                => Harmless(f) /\ AllHarmless(<<f>>)
  BY <1>1, HarmlessOps, ShortHarmless
<1>4. CASE ReapTakeList(t)
  <2>1. Top(t) \in [op : {"reap", "reapEach"}, key : AtomicallyKeys,
                    newer : Versions \cup {NoVersion}, onlyConverged : BOOLEAN,
                    rest : SUBSET Versions, kept : SUBSET Versions]
    BY <1>4, AtReap DEF ReapTakeList
  <2>2. \A x : [Top(t) EXCEPT !.op = "reapEach", !.rest = x].op = "reapEach"
    BY <2>1
  <2>4. ASSUME NEW x PROVE AllHarmless(<<[Top(t) EXCEPT !.op = "reapEach", !.rest = x]>>)
    <3> DEFINE f == [Top(t) EXCEPT !.op = "reapEach", !.rest = x]
    <3>1. f.op = "reapEach"
      BY <2>2
    <3> HIDE DEF f
    <3>2. AllHarmless(<<f>>)
      BY <1>3, <3>1
    <3> QED BY <3>2 DEF f
  <2>3. Mild(t)
    BY <1>2, <1>4, <2>4 DEF ReapTakeList
  <2> QED BY <1>4, <2>3, UnchangedStay, StillSame, MildQuietly DEF ReapTakeList
<1>5. CASE ReapEach(t)
  <2>1. Top(t) \in [op : {"reap", "reapEach"}, key : AtomicallyKeys,
                    newer : Versions \cup {NoVersion}, onlyConverged : BOOLEAN,
                    rest : SUBSET Versions, kept : SUBSET Versions]
        /\ Top(t).op = "reapEach"
    BY <1>5, AtReap DEF ReapEach, At
  <2>2. \A x, y : /\ [Top(t) EXCEPT !.rest = x].op = "reapEach"
                  /\ [[Top(t) EXCEPT !.rest = x] EXCEPT !.kept = y].op = "reapEach"
    BY <2>1
  <2>6. ASSUME NEW x, NEW y
        PROVE  /\ Harmless([Top(t) EXCEPT !.rest = x]) /\ AllHarmless(<<[Top(t) EXCEPT !.rest = x]>>)
               /\ AllHarmless(<<[[Top(t) EXCEPT !.rest = x] EXCEPT !.kept = y]>>)
    <3> DEFINE f == [Top(t) EXCEPT !.rest = x]
               g == [f EXCEPT !.kept = y]
    <3>1. f.op = "reapEach" /\ g.op = "reapEach"
      BY <2>2
    <3> HIDE DEF f, g
    <3>2. Harmless(f) /\ AllHarmless(<<f>>) /\ AllHarmless(<<g>>)
      BY <1>3, <3>1
    <3> QED BY <3>2 DEF f, g
  <2>3. ASSUME NEW v, NEW x
        PROVE  AllHarmless(<<VersionFrame("clearRoot", v), [Top(t) EXCEPT !.rest = x]>>)
    <3>1. PICK g : g = VersionFrame("clearRoot", v)
      OBVIOUS
    <3>2. g.op = "clearRoot"
      BY <3>1 DEF VersionFrame
    <3>3. Harmless(g)
      BY <1>1, <3>2, HarmlessOps
    <3> QED BY <2>6, <3>1, <3>3, ShortHarmless
  <2>4. PICK v \in Top(t).rest :
          LET next == [Top(t) EXCEPT !.rest = @ \ {v}]
          IN  \/ Then(t, <<VersionFrame("clearRoot", v), next>>)
              \/ Then(t, <<[next EXCEPT !.kept = @ \cup {v}]>>)
    BY <1>5 DEF ReapEach
  <2>5. Mild(t)
    BY <1>2, <2>3, <2>4, <2>6
  <2> QED BY <1>5, <2>5, UnchangedStay, StillSame, MildQuietly DEF ReapEach
<1>6. CASE InflightDecr(t) \/ Converged(t) \/ ClearRoot(t) \/ ReapRoot(t)
  <2>1. \A k, v, b, r : /\ ReapFrame(k, v, b).op = "reap"
                        /\ VersionFrame("converged", v).op = "converged"
                        /\ RefFrame("reapRoot", r).op = "reapRoot"
                        /\ RefFrame("unmatch", r).op = "unmatch"
    BY DEF ReapFrame, VersionFrame, RefFrame
  <2>2. \A k, v, b, r : /\ AllHarmless(<<ReapFrame(k, v, b)>>)
                        /\ AllHarmless(<<VersionFrame("converged", v)>>)
                        /\ AllHarmless(<<RefFrame("reapRoot", r)>>)
                        /\ AllHarmless(<<RefFrame("unmatch", r)>>)
    BY <1>3, <2>1
  <2>3. Mild(t)
    BY <1>2, <1>3, <1>6, <2>2 DEF InflightDecr, Converged, ClearRoot, ReapRoot
  <2>4. UNCHANGED <<index, stmts, matches, holds, later>>
    BY <1>6 DEF InflightDecr, Converged, ClearRoot, ReapRoot
  <2> QED BY <2>3, <2>4, UnchangedStay, StillSame, MildQuietly
<1>7. CASE ReapPutBack(t) \/ SysmonCollected(t)
  <2>1. Mild(t)
    BY <1>2, <1>3, <1>7 DEF ReapPutBack, SysmonCollected
  <2> QED BY <1>7, <2>1, UnchangedStay, StillSame, MildQuietly DEF ReapPutBack, SysmonCollected
<1> QED BY <1>4, <1>5, <1>6, <1>7 DEF AtomicallyStep

-----------------------------------------------------------------------------
(* Holds.                                                                  *)

LEMMA NoRefUnsaid == NoRef \notin Said
BY DEF Said, RefsOf, StmtRefs, NoRef

\* A hold changes, and the clause of the old statement leaves the index.
LEMMA HoldStmtsStill ==
    ASSUME TypeOK, stmts' = stmts, NEW old \in StmtRefs \cup {NoRef}, old \notin Said, Deindex(old)
    PROVE  StmtsStill
<1>1. CASE old = NoRef
  BY <1>1, StillSame DEF Deindex
<1>2. CASE old # NoRef
  <2>1. old \in StmtRefs /\ DeindexClauseOf(old)
    BY <1>2 DEF Deindex
  <2> QED BY <2>1, StmtStill
<1> QED BY <1>1, <1>2

LEMMA HoldsUse ==
    ASSUME TypeOK, UseHolds, Said' = Said, NEW k
    PROVE  /\ HoldOf(k).statement \notin Said
           /\ \A h : h.statement \notin Said /\ holds' = Extend(holds, k, h) => UseHolds'
           /\ holds' = Without(holds, {k}) => UseHolds'
           /\ \A s : s \notin Said /\ holds' = [holds EXCEPT ![k].statement = s] => UseHolds'
<1>1. HoldOf(k).statement \notin Said
  BY NoRefUnsaid DEF HoldOf, UseHolds
<1>2. ASSUME NEW h, h.statement \notin Said, holds' = Extend(holds, k, h) PROVE UseHolds'
  BY <1>2 DEF Extend, UseHolds
<1>3. ASSUME holds' = Without(holds, {k}) PROVE UseHolds'
  BY <1>3 DEF Without, UseHolds
<1>4. ASSUME NEW s, s \notin Said, holds' = [holds EXCEPT ![k].statement = s] PROVE UseHolds'
  <2>1. \A h \in Hold : [h EXCEPT !.statement = s].statement = s
    BY DEF Hold
  <2>2. \A j \in DOMAIN holds : holds[j] \in Hold
    BY DEF TypeOK, DbTypeOK
  <2>3. DOMAIN holds' = DOMAIN holds
    BY <1>4
  <2>4. ASSUME NEW j \in DOMAIN holds PROVE holds'[j].statement = IF j = k THEN s ELSE holds[j].statement
    BY <1>4, <2>1, <2>2
  <2> QED BY <1>4, <2>3, <2>4 DEF UseHolds
<1> QED BY <1>1, <1>2, <1>3, <1>4

LEMMA HoldSetSaid ==
    ASSUME TypeOK, TypeOK', SaidInv, NEW t \in Threads, work' = work, HoldSet(t)
    PROVE  SaidInv'
<1> DEFINE f == Top(t)
<1>1. FrameUse(f) /\ f.op = "holdSet" /\ f \in Frames
  BY TopUse DEF HoldSet
<1>2. f.ref \notin Said /\ f.old \notin Said /\ f.old \in StmtRefs \cup {NoRef}
  BY <1>1, FrameFields DEF FrameUse
<1>3. Mild(t)
  BY MildAt, ShortHarmless DEF HoldSet, TouchOps
<1>4. UNCHANGED <<stmts, matches, later>> /\ Deindex(f.old)
      /\ holds' = [holds EXCEPT ![f.key].statement = f.ref]
  BY DEF HoldSet
<1> HIDE DEF f
<1>5. StmtsStill /\ KidsStill /\ ClausesStay /\ Said' = Said
  BY <1>2, <1>4, HoldStmtsStill, StillSame, UnchangedStay, SaidStays
<1>6. UseHolds' /\ UseWork' /\ UseLater'
  BY <1>2, <1>4, <1>5, HoldsUse, UseSame DEF SaidInv, UseInv
<1> QED BY <1>3, <1>5, <1>6, StillSame, MildStep

\* A place to insert at is nothing to what is only said, unless it is to say that.
LEMMA InsertHarmless ==
    ASSUME NEW c, NEW parent, NEW keep, NEW version, NEW key, NEW old, old \notin Said,
           c \in SaidClauses => keep = "none" /\ key = NoKey
    PROVE  Harmless(InsertFrame(c, parent, keep, version, key, old))
<1> DEFINE f == InsertFrame(c, parent, keep, version, key, old)
<1>1. f.op = "place" /\ f.clause = c /\ f.keep = keep /\ f.key = key /\ f.old = old
  BY DEF InsertFrame
<1> HIDE DEF f
<1>2. FrameUse(f)
  BY <1>1 DEF FrameUse, KeepOps
<1>3. \A s \in Said : f \notin Touch(s)
  BY <1>1, HarmlessOps DEF TouchOps
<1> QED BY <1>2, <1>3 DEF Harmless, f

LEMMA RunHoldSaid ==
    ASSUME TypeOK, TypeOK', SaidInv, NEW t \in Threads, RunHold(t)
    PROVE  SaidInv'
<1> DEFINE f == Top(t).cmd
           old == HoldOf(f.key).statement
           acquired == IF Live(old) THEN old ELSE NoRef
           dropOld == IF old = NoRef THEN <<>> ELSE <<RefFrame("decr", old)>>
           insert == InsertFrame(f.clause, NoRef, f.keep, NoVersion, f.key, acquired)
<1>1. AtCommand(t, "hold") /\ HoldLock(t, f) /\ work' = work
  BY DEF RunHold
<1>2. f.cmd = "hold" /\ f \in AllCommands /\ f.key \in Keys
  <2>1. (FrameUse(Top(t)) /\ Top(t).op \in {"command", "eval"}) /\ f.cmd = "hold"
    BY <1>1, TopUse DEF AtCommand
  <2>2. f \in FreeCommands
    BY <1>1, AtCommandTyped
  <2> QED BY <2>1, <2>2 DEF FrameUse, FreeCommands
<1>3. f.clause \notin SaidClauses
  BY <1>2 DEF SaidClauses
<1>4. Said' = Said /\ ClausesStay /\ stmts' = stmts /\ matches' = matches /\ later' = later
  BY <1>1, UnchangedStay, SaidStays DEF HoldLock
<1>5. old \notin Said /\ old \in StmtRefs \cup {NoRef}
  BY <1>2, <1>4, HoldsUse, HoldsTyped DEF SaidInv, UseInv, Hold
<1>6. acquired \notin Said /\ acquired \in StmtRefs \cup {NoRef}
  BY <1>5, NoRefUnsaid
<1>7. Harmless(insert)
  BY <1>3, <1>6, InsertHarmless
<1>8. AllHarmless(dropOld)
  <2>1. Harmless(RefFrame("decr", old))
    BY <1>5, RefHarmless DEF TouchOps
  <2> QED BY <2>1, ShortHarmless
<1>9. /\ holdsMutex = NoThread
      /\ \/ /\ holds' = Extend(holds, f.key, HoldOf(f.key))
            /\ Then(t, <<>>)
            /\ index' = index
         \/ /\ holds' = Without(holds, {f.key})
            /\ Deindex(acquired)
            /\ Then(t, dropOld)
         \/ /\ holds' = Extend(holds, f.key, [version |-> HoldVersion(f), statement |-> old])
            /\ Then(t, <<insert>> \o dropOld)
            /\ index' = index
  BY <1>1 DEF HoldLock
<1> HIDE DEF f, old, acquired, dropOld, insert
<1>10. AllHarmless(<<>>) /\ AllHarmless(<<insert>> \o dropOld)
  BY <1>7, <1>8, ShortHarmless, HarmlessConcat
<1>11. Mild(t)
  BY <1>1, <1>8, <1>9, <1>10, MildCommand
<1>12. StmtsStill /\ KidsStill
  BY <1>4, <1>6, <1>9, HoldStmtsStill, StillSame
<1>13. UseHolds'
  <2>1. HoldOf(f.key).statement \notin Said
    BY <1>5 DEF old
  <2>2. [version |-> HoldVersion(f), statement |-> old].statement \notin Said
    BY <1>5
  <2>3. UseHolds
    BY DEF SaidInv, UseInv
  <2> QED BY <1>4, <1>9, <2>1, <2>2, <2>3, HoldsUse
<1>14. UseWork' /\ UseLater'
  BY <1>1, <1>4, UseSame DEF SaidInv
<1> QED BY <1>4, <1>11, <1>12, <1>13, <1>14, StillSame, MildStep

-----------------------------------------------------------------------------
(* Commands and reactions.                                                 *)

\* Items are pushed, or one is taken.
LEMMA WorkUse ==
    ASSUME TypeOK, UseWork
    PROVE  /\ \A S : (\A x \in S : x.cmd \in {"hold", "assert", "retract", "notify"} => x \in AllCommands)
                     => (work' = work (+) SetToBag(S) => UseWork')
           /\ \A item : work' = work (-) SetToBag({item}) => UseWork'
<1>1. ASSUME NEW S, \A x \in S : x.cmd \in {"hold", "assert", "retract", "notify"} => x \in AllCommands,
             work' = work (+) SetToBag(S)
      PROVE  UseWork'
  <2>1. BagToSet(work (+) SetToBag(S)) = BagToSet(work) \cup S
    BY DEF (+), SetToBag, BagToSet
  <2> QED BY <1>1, <2>1 DEF UseWork
<1>2. ASSUME NEW item, work' = work (-) SetToBag({item}) PROVE UseWork'
  <2>1. BagToSet(work (-) SetToBag({item})) \subseteq BagToSet(work)
    BY DEF (-), SetToBag, BagToSet
  <2> QED BY <1>2, <2>1 DEF UseWork
<1> QED BY <1>1, <1>2

\* A command is one of a program's.
LEMMA CommandUse ==
    ASSUME TypeOK, SaidInv, NEW t \in Threads, NEW name, AtCommand(t, name)
    PROVE  Top(t).cmd \in AllCommands /\ Top(t).cmd.cmd = name
<1>1. (FrameUse(Top(t)) /\ Top(t).op \in {"command", "eval"}) /\ Top(t).cmd.cmd = name
  BY TopUse DEF AtCommand
<1> QED BY <1>1 DEF FrameUse

LEMMA RunSaySaid ==
    ASSUME TypeOK, TypeOK', SaidInv, NEW t \in Threads, RunSay(t)
    PROVE  SaidInv'
<1> DEFINE m == Top(t).match
           cmd == Top(t).cmd
           version == IF cmd.clause \in Unversioned THEN NoVersion ELSE matches[m].version
           f == InsertFrame(cmd.clause, m, cmd.keep, version, NoKey, NoRef)
<1>1. AtCommand(t, "say") /\ InsertUnder(t, f)
  BY DEF RunSay
<1>2. cmd \in AllCommands /\ cmd.cmd = "say" /\ m \in MatchRefs
  BY <1>1, CommandUse, InBody
<1>3. cmd.clause \in SaidClauses => cmd.keep = "none"
  BY <1>2 DEF SaidClauses
<1>4. Harmless(f)
  BY <1>3, NoRefUnsaid, InsertHarmless
<1>5. f.parent = m
  BY DEF InsertFrame
<1> HIDE DEF f
<1>6. AllHarmless(<<f>>) /\ AllHarmless(<<>>)
  BY <1>4, ShortHarmless
<1>7. Mild(t)
  BY <1>1, <1>6, MildCommand DEF InsertUnder
<1>8. matches' = matches \/ matches' = [matches EXCEPT ![m].lock = t]
  BY <1>1, <1>5 DEF InsertUnder
<1>9. KidsStill
  BY <1>2, <1>8, MatchKept, StillSame
<1>10. UNCHANGED <<index, stmts, holds, later, work>>
  BY DEF RunSay
<1> QED BY <1>7, <1>9, <1>10, UnchangedStay, StillSame, MildQuietly

LEMMA RunFreshSaid ==
    ASSUME TypeOK, TypeOK', SaidInv, NEW t \in Threads, RunFresh(t)
    PROVE  SaidInv'
<1>1. AtCommand(t, "fresh") /\ FreshVersion(t, Top(t).match, Top(t).cmd.key) /\ work' = work
  BY DEF RunFresh
<1>2. Mild(t)
  BY <1>1, MildCommand, ShortHarmless DEF FreshVersion
<1>3. Top(t).match \in MatchRefs
  BY <1>1, InBody
<1>4. KidsStill
  BY <1>1, <1>3, MatchKept DEF FreshVersion
<1>5. UNCHANGED <<index, stmts, holds, later>>
  BY <1>1 DEF FreshVersion
<1> QED BY <1>1, <1>2, <1>4, <1>5, UnchangedStay, StillSame, MildQuietly

\* Steps that only push items.
LEMMA PushedSaid ==
    ASSUME TypeOK, TypeOK', SaidInv, NEW t \in Threads, Mild(t), UseWork',
           UNCHANGED <<index, stmts, matches, holds, later>>
    PROVE  SaidInv'
<1>1. ClausesStay /\ SameSaid
  BY UnchangedStay, StillSame
<1>2. UseLater' /\ UseHolds'
  BY <1>1, UseSame DEF SaidInv
<1> QED BY <1>1, <1>2, MildStep

LEMMA RunPushSaid ==
    ASSUME TypeOK, TypeOK', SaidInv, NEW t \in Threads, RunPush(t)
    PROVE  SaidInv'
<1>1. PICK name : AtCommand(t, name)
  BY DEF RunPush
<1>2. Mild(t)
  BY <1>1, MildCommand, ShortHarmless DEF RunPush
<1>3. UseWork'
  BY <1>1, CommandUse, WorkUse DEF RunPush, SaidInv, UseInv
<1> QED BY <1>2, <1>3, PushedSaid DEF RunPush

LEMMA NotifySaid ==
    ASSUME TypeOK, TypeOK', SaidInv, NEW t \in Threads, Notify(t)
    PROVE  SaidInv'
<1>1. Mild(t)
  BY MildCommand, ShortHarmless DEF Notify
<1> DEFINE event == Top(t).cmd.event
           found == {r \in Query({c \in Subscribes : event \in Reacts[c]}) : Live(r)}
           S == {RunSubscribeItem(s, event) : s \in found}
<1>5. \A r : RunSubscribeItem(r, event).cmd = "runSubscribe"
  BY DEF RunSubscribeItem
<1> HIDE DEF found
<1>2. \A x \in S : x.cmd = "runSubscribe"
  BY <1>5
<1>4. work' = work (+) SetToBag(S)
  BY DEF Notify, found
<1> HIDE DEF S
<1>3. UseWork'
  BY <1>2, <1>4, WorkUse DEF SaidInv, UseInv
<1> QED BY <1>1, <1>3, PushedSaid DEF Notify

LEMMA InflightHarmless ==
    ASSUME NEW v
    PROVE  AllHarmless(InflightFrames(v)) /\ Harmless(InflightFrame(v))
<1>1. InflightFrame(v).op = "inflightDecr" /\ "inflightDecr" \notin TouchOps \cup UseOps
  BY DEF InflightFrame, TouchOps, UseOps, KeepOps
<1>2. Harmless(InflightFrame(v))
  BY <1>1, HarmlessOps
<1> QED BY <1>2, ShortHarmless DEF InflightFrames

LEMMA ReactSaid ==
    ASSUME TypeOK, TypeOK', SaidInv, NEW t \in Threads, ReactAsWhen(t) \/ ReactAsStmt(t)
    PROVE  SaidInv'
<1>1. {"react", "reactAsStmt"} \cap (TouchOps \cup UseOps) = {}
  BY DEF TouchOps, UseOps, KeepOps
<1>2. \A frames : AllHarmless(frames) /\ Then(t, frames) => Mild(t)
  BY <1>1, MildAt DEF ReactAsWhen, ReactAsStmt
<1>3. \A r : AllHarmless(<<RefFrame("reactAsStmt", r)>>)
  BY <1>1, RefHarmless, ShortHarmless
<1>4. Mild(t)
  BY <1>2, <1>3, InflightHarmless DEF ReactAsWhen, ReactAsStmt
<1>5. PICK pairs : PushRunWhens(pairs)
  BY DEF ReactAsWhen, ReactAsStmt
<1>6. UseWork'
  <2> DEFINE S == {RunWhenItem(p[1], p[2]) : p \in pairs}
  <2>1. \A x \in S : x.cmd = "runWhen"
    BY DEF RunWhenItem
  <2>2. work' = work (+) SetToBag(S)
    BY <1>5 DEF PushRunWhens
  <2> HIDE DEF S
  <2> QED BY <2>1, <2>2, WorkUse DEF SaidInv, UseInv
<1> QED BY <1>4, <1>6, PushedSaid DEF ReactAsWhen, ReactAsStmt

LEMMA EndBodySaid ==
    ASSUME TypeOK, TypeOK', SaidInv, NEW t \in Threads, EndBody(t) \/ MatchCompleted(t)
    PROVE  SaidInv'
<1>1. {"endBody", "completed"} \cap (TouchOps \cup UseOps) = {}
  BY DEF TouchOps, UseOps, KeepOps
<1>2. \A frames : AllHarmless(frames) /\ Then(t, frames) => Mild(t)
  BY <1>1, MildAt DEF EndBody, MatchCompleted
<1>3. AllHarmless(<<>>) /\ \A v, m : AllHarmless(<<InflightFrame(v), RefFrame("completed", m)>>)
  BY <1>1, RefHarmless, ShortHarmless, InflightHarmless
<1>4. Mild(t)
  BY <1>2, <1>3 DEF EndBody, MatchCompleted
<1>5. Top(t).ref \in MatchRefs
  BY AtMatch DEF EndBody, MatchCompleted, MatchOps
<1>6. KidsStill
  BY <1>5, MatchKept, StillSame DEF EndBody, MatchCompleted
<1>7. UNCHANGED <<index, stmts, holds, later, work>>
  BY DEF EndBody, MatchCompleted
<1> QED BY <1>4, <1>6, <1>7, UnchangedStay, StillSame, MildQuietly

\* What is left of a body is dropped.
LEMMA CutShortMild ==
    ASSUME TypeOK, Stacks, NEW t \in Threads, todo[t] = <<>> \/ todo[t][1].op = "command",
           todo' = [todo EXCEPT ![t] = NoCommands(@)]
    PROVE  Mild(t)
<1> DEFINE s == todo[t]
<1>1. s \in Seq(Frames) /\ Len(s) \in Nat /\ StackOK(s)
  BY LenProperties DEF TypeOK, Stacks
<1>2. {"command", "endBody"} \cap TouchOps = {} /\ "endBody" \notin TouchOps \cup UseOps
  BY DEF TouchOps, UseOps, KeepOps
<1>3. ASSUME NEW j \in 1 .. Len(s) PROVE s[j].op \in {"command", "endBody"}
  <2>1. 1 \in 1 .. Len(s) /\ j \in 1 .. Len(s) /\ s # <<>>
    BY <1>1, <1>3, EmptySeq
  <2>2. s[1].op = "command"
    BY <2>1
  <2>3. s[j].op = "command" \/ s[j] = RefFrame("endBody", s[1].match)
    BY <1>1, <2>1, <2>2 DEF StackOK
  <2> QED BY <2>3 DEF RefFrame
<1>4. AllHarmless(NoCommands(s))
  <2>1. CASE s # <<>> /\ Last(s).op # "command"
    <3>1. Len(s) \in 1 .. Len(s)
      BY <1>1, <2>1, EmptySeq
    <3>2. Last(s).op = "endBody"
      BY <1>3, <2>1, <3>1 DEF Last
    <3>3. Harmless(Last(s))
      BY <1>2, <3>2, HarmlessOps
    <3> QED BY <2>1, <3>3, ShortHarmless DEF NoCommands
  <2>2. CASE ~(s # <<>> /\ Last(s).op # "command")
    BY <2>2, ShortHarmless DEF NoCommands
  <2> QED BY <2>1, <2>2
<1>5. Start(t, NoCommands(s))
  BY DEF Start
<1>6. \A j \in 1 .. Len(todo[t]) : todo[t][j].op \notin TouchOps
  BY <1>2, <1>3
<1> QED BY <1>4, <1>5, <1>6, MildWhole

LEMMA RunSeriallySaid ==
    ASSUME TypeOK, TypeOK', Stacks, SaidInv, NEW t \in Threads, RunSerially(t)
    PROVE  SaidInv'
<1>1. UNCHANGED <<index, stmts, matches, holds, later, work>> /\ AtCommand(t, "serially")
  BY DEF RunSerially
<1>2. Mild(t)
  <2>1. todo[t] # <<>> /\ todo[t] \in Seq(Frames)
    BY <1>1 DEF AtCommand, At, TypeOK
  <2>2. Top(t) = todo[t][1] /\ Tail(todo[t]) \in Seq(Frames)
    BY <2>1, HeadTailProperties DEF Top
  <2>3. <<>> \o Tail(todo[t]) = Tail(todo[t])
    BY <2>2, ConcatEmptySeq
  <2>4. \/ todo' = [todo EXCEPT ![t] = NoCommands(@)]
        \/ todo' = [todo EXCEPT ![t] = Tail(@)]
    BY DEF RunSerially
  <2>5. CASE todo' = [todo EXCEPT ![t] = NoCommands(@)]
    <3>1. Top(t).op = "command"
      BY SeriallyTop
    <3> QED BY <2>2, <2>5, <3>1, CutShortMild
  <2>6. CASE todo' = [todo EXCEPT ![t] = Tail(@)]
    <3>1. Then(t, <<>>)
      BY <2>3, <2>6 DEF Then
    <3> QED BY <1>1, <3>1, MildCommand, ShortHarmless
  <2> QED BY <2>4, <2>5, <2>6
<1> QED BY <1>1, <1>2, UnchangedStay, StillSame, MildQuietly

LEMMA InterruptedSaid ==
    ASSUME TypeOK, TypeOK', Stacks, SaidInv, NEW t \in Threads, Interrupted(t)
    PROVE  SaidInv'
<1>1. UNCHANGED <<index, stmts, holds, later, work>>
  BY DEF Interrupted
<1>2. todo[t] = <<>> \/ todo[t][1].op = "command"
  <2>1. todo[t] \in Seq(Frames)
    BY DEF TypeOK
  <2>2. todo[t] # <<>> => Top(t) = todo[t][1]
    BY <2>1, HeadTailProperties DEF Top
  <2> QED BY <2>2 DEF Interrupted, At
<1>3. Mild(t)
  BY <1>2, CutShortMild DEF Interrupted
<1>4. KidsKept
  <2>1. DOMAIN matches = MatchRefs /\ Len(matches) \in Nat
    BY LensTyped
  <2>2. matches' = [m \in DOMAIN matches |->
                      IF todo[t] # <<>> /\ Top(t).match = m
                      THEN [matches[m] EXCEPT !.interrupted = TRUE] ELSE matches[m]]
    BY DEF Interrupted
  <2>3. ASSUME NEW m \in MatchRefs
        PROVE  matches'[m].open = matches[m].open /\ matches'[m].kids = matches[m].kids
    <3>1. matches[m] \in Match
      BY MatchFields
    <3>2. /\ [matches[m] EXCEPT !.interrupted = TRUE].open = matches[m].open
          /\ [matches[m] EXCEPT !.interrupted = TRUE].kids = matches[m].kids
      BY <3>1 DEF Match
    <3> QED BY <2>1, <2>2, <3>2
  <2>4. MatchRefs' = MatchRefs
    BY InterruptedKeeps DEF Keeps, KeepsMatches, MatchRefs
  <2> QED BY <2>3, <2>4 DEF KidsKept
<1> QED BY <1>1, <1>3, <1>4, KeptStill, UnchangedStay, StillSame, MildQuietly

-----------------------------------------------------------------------------
(* Work items are taken.                                                   *)

LEMMA TakeMild ==
    ASSUME TypeOK, SaidInv, NEW t \in Threads, NEW item, TakeItem(t, item)
    PROVE  /\ \A frames : AllHarmless(frames) /\ Start(t, frames) => Mild(t)
           /\ UseWork' /\ item \in WorkItems
           /\ item.cmd \in {"hold", "assert", "retract", "notify"} => item \in AllCommands
<1>1. todo[t] = <<>> /\ item \in BagToSet(work) /\ work' = work (-) SetToBag({item})
  BY DEF TakeItem
<1>2. \A j \in 1 .. Len(todo[t]) : todo[t][j].op \notin TouchOps
  BY <1>1
<1>3. UseWork
  BY DEF SaidInv, UseInv
<1> QED BY <1>1, <1>2, <1>3, MildWhole, WorkUse, TakeItemKeeps DEF UseWork

LEMMA TakeAssertSaid ==
    ASSUME TypeOK, TypeOK', SaidInv, NEW t \in Threads, NEW item, TakeAssert(t, item)
    PROVE  SaidInv'
<1> DEFINE f == InsertFrame(item.clause, NoRef, "none", NoVersion, NoKey, NoRef)
<1>1. Harmless(f)
  BY NoRefUnsaid, InsertHarmless
<1>2. TakeItem(t, item) /\ Start(t, <<f>>)
  BY DEF TakeAssert
<1> HIDE DEF f
<1>3. AllHarmless(<<f>>)
  BY <1>1, ShortHarmless
<1>4. Mild(t) /\ UseWork'
  BY <1>2, <1>3, TakeMild
<1> QED BY <1>4, PushedSaid DEF TakeAssert

LEMMA TakeEvalSaid ==
    ASSUME TypeOK, TypeOK', SaidInv, NEW t \in Threads, NEW item, TakeEval(t, item)
    PROVE  SaidInv'
<1> DEFINE f == EvalFrame(item)
<1>1. TakeItem(t, item) /\ Start(t, <<f>>) /\ item.cmd \in {"hold", "notify"}
  BY DEF TakeEval
<1>2. item \in AllCommands
  BY <1>1, TakeMild
<1>3. f.op = "eval" /\ f.cmd = item
  BY DEF EvalFrame
<1> HIDE DEF f
<1>4. Harmless(f)
  <2>1. FrameUse(f)
    BY <1>2, <1>3 DEF FrameUse, KeepOps
  <2>2. \A s \in Said : f \notin Touch(s)
    BY <1>3, HarmlessOps DEF TouchOps
  <2> QED BY <2>1, <2>2 DEF Harmless
<1>5. AllHarmless(<<f>>)
  BY <1>4, ShortHarmless
<1>6. Mild(t) /\ UseWork'
  BY <1>1, <1>5, TakeMild
<1> QED BY <1>6, PushedSaid DEF TakeEval

\* What a program retracts is not only said.
LEMMA TakeRetractSaid ==
    ASSUME TypeOK, TypeOK', SaidInv, NEW t \in Threads, NEW item, TakeRetract(t, item)
    PROVE  SaidInv'
<1> DEFINE frames == RetractFrames(item.pattern)
           found == {index[c] : c \in DOMAIN index \cap item.pattern}
<1>1. TakeItem(t, item) /\ Start(t, frames) /\ item.cmd = "retract"
  BY DEF TakeRetract
<1>2. item \in AllCommands
  BY <1>1, TakeMild
<1>3. \A c \in item.pattern : c \notin SaidClauses
  BY <1>1, <1>2 DEF SaidClauses
<1>4. \A c \in DOMAIN index : index[c] \in StmtRefs /\ stmts[index[c]].clause = c
  BY DEF TypeOK, DbTypeOK, RefsOf
<1>5. \A r \in found : r \in StmtRefs /\ r \notin Said
  BY <1>3, <1>4 DEF Said, RefsOf
<1>6. SetToSeq(found) \in Seq(found)
  <2>1. found \subseteq StmtRefs
    BY <1>5
  <2>2. IsFiniteSet(StmtRefs)
    BY LensTyped, FS_Interval DEF StmtRefs
  <2>3. IsFiniteSet(found)
    BY <2>1, <2>2, FS_Subset
  <2> HIDE DEF found
  <2> QED BY <2>3, SetToSeqTyped
<1>7. frames \in Seq(Frames)
  BY RetractFramesTyped
<1>8. ASSUME NEW j \in 1 .. Len(frames) PROVE Harmless(frames[j])
  <2> DEFINE refs == SetToSeq(found)
  <2>1. frames = [i \in 1 .. Len(refs) |-> RefFrame("retractOne", refs[i])]
    BY DEF RetractFrames, FramesFor
  <2> HIDE DEF refs, frames
  <2>2. DOMAIN frames = 1 .. Len(frames)
    BY <1>7, LenProperties
  <2>3. j \in 1 .. Len(refs) /\ frames[j] = RefFrame("retractOne", refs[j])
    BY <1>8, <2>1, <2>2
  <2>4. refs[j] \in found
    BY <1>6, <2>3, ElementOfSeq DEF refs
  <2>5. refs[j] \notin Said
    BY <1>5, <2>4
  <2> QED BY <2>3, <2>5, RefHarmless DEF KeepOps
<1> HIDE DEF frames
<1>9. AllHarmless(frames)
  BY <1>7, <1>8 DEF AllHarmless
<1>10. Mild(t) /\ UseWork'
  BY <1>1, <1>9, TakeMild
<1> QED BY <1>10, PushedSaid DEF TakeRetract

LEMMA AllBodies ==
    /\ \A w \in Whens, c \in Clauses \cup {NoClause} : ToSet(Body[w][c]) \subseteq AllCommands
    /\ \A w \in Subscribes, e \in Events : ToSet(Body[w][e]) \subseteq AllCommands
<1> DEFINE whens == {ToSet(Body[w][c]) : w \in Whens, c \in Clauses \cup {NoClause}}
           subscribes == {ToSet(Body[w][e]) : w \in Subscribes, e \in Events}
<1>1. /\ \A w \in Whens, c \in Clauses \cup {NoClause} : ToSet(Body[w][c]) \in whens
      /\ \A w \in Subscribes, e \in Events : ToSet(Body[w][e]) \in subscribes
  OBVIOUS
<1>2. AllCommands = (UNION Programs) \cup (UNION whens) \cup (UNION subscribes)
  BY DEF AllCommands
<1> HIDE DEF whens, subscribes
<1> QED BY <1>1, <1>2

\* The commands of a body are among all commands.
LEMMA BodyHarmless ==
    ASSUME NEW m, NEW cmds, NEW C, cmds \in Seq(C), ToSet(cmds) \subseteq AllCommands
    PROVE  AllHarmless(BodyFrames(m, cmds))
<1>1. Len(cmds) \in Nat /\ \A i \in 1 .. Len(cmds) : cmds[i] \in AllCommands
  BY LenProperties DEF ToSet
<1>2. ASSUME NEW e \in AllCommands PROVE Harmless([op |-> "command", match |-> m, cmd |-> e])
  <2> DEFINE f == [op |-> "command", match |-> m, cmd |-> e]
  <2>1. f.op = "command" /\ f.cmd = e
    OBVIOUS
  <2> HIDE DEF f
  <2>2. FrameUse(f)
    BY <2>1 DEF FrameUse, KeepOps
  <2>3. \A s \in Said : f \notin Touch(s)
    BY <2>1, HarmlessOps DEF TouchOps
  <2> QED BY <2>2, <2>3 DEF Harmless, f
<1> DEFINE S == {f \in {[op |-> "command", match |-> m, cmd |-> e] : e \in AllCommands} : Harmless(f)}
<1>3. BodyFrames(m, cmds) \in [1 .. Len(cmds) -> S]
  BY <1>1, <1>2 DEF BodyFrames
<1> HIDE DEF S
<1>4. BodyFrames(m, cmds) \in Seq(S)
  BY <1>1, <1>3
<1>5. \A f \in S : Harmless(f)
  BY DEF S
<1> QED BY <1>4, <1>5, ElementOfSeq DEF AllHarmless

LEMMA TakeSubscribeSaid ==
    ASSUME TypeOK, TypeOK', SaidInv, NEW t \in Threads, NEW item, TakeSubscribe(t, item)
    PROVE  SaidInv'
<1> DEFINE cmds == Body[stmts[item.ref].clause][item.event]
           frames == IF Live(item.ref) THEN BodyFrames(NoRef, cmds) ELSE <<>>
<1>1. TakeItem(t, item) /\ Start(t, frames) /\ item.cmd = "runSubscribe" /\ item \in WorkItems
  BY TakeItemKeeps DEF TakeSubscribe
<1>2. item.ref \in RefsOf(Subscribes) /\ item.event \in Events
  BY <1>1 DEF WorkItems, FreeCommands
<1>3. stmts[item.ref].clause \in Subscribes
  BY <1>2 DEF RefsOf
<1>4. cmds \in Seq(FreeCommands)
  BY <1>2, <1>3, ProgramsAssumption
<1>5. ToSet(cmds) \subseteq AllCommands
  BY <1>2, <1>3, AllBodies
<1>6. AllHarmless(frames)
  BY <1>4, <1>5, BodyHarmless, ShortHarmless
<1> HIDE DEF frames
<1>7. Mild(t) /\ UseWork'
  BY <1>1, <1>6, TakeMild
<1> QED BY <1>7, PushedSaid DEF TakeSubscribe

LEMMA SkipItemSaid ==
    ASSUME TypeOK, TypeOK', SaidInv, NEW t \in Threads, NEW item, SkipItem(t, item)
    PROVE  SaidInv'
<1>1. Mild(t)
  BY MildSame DEF SkipItem
<1>2. UseWork'
  BY TakeMild DEF SkipItem
<1> QED BY <1>1, <1>2, PushedSaid DEF SkipItem

LEMMA SysmonTickSaid ==
    ASSUME TypeOK, TypeOK', SaidInv, SysmonTick
    PROVE  SaidInv'
<1>1. Sysmon \in Threads
  BY DEF Threads
<1>2. {"clearDue", "clearStmt", "reap", "collected"} \cap (TouchOps \cup UseOps) = {}
  BY DEF TouchOps, UseOps, KeepOps
<1>3. UNCHANGED <<index, stmts, matches, holds, later, work>> /\ todo[Sysmon] = <<>>
  BY DEF SysmonTick, SysmonRemoves, SysmonCollects
<1>4. \A frames : AllHarmless(frames) /\ Start(Sysmon, frames) => Mild(Sysmon)
  <2>1. \A j \in 1 .. Len(todo[Sysmon]) : todo[Sysmon][j].op \notin TouchOps
    BY <1>3
  <2> QED BY <1>1, <2>1, MildWhole
<1>5. ASSUME NEW i \in 1 .. LaterSlots, SysmonRemoves(i) PROVE Mild(Sysmon)
  <2> DEFINE frames == <<RefFrame("decr", later[i].stmt), RefFrame("clearDue", i),
                         RefFrame("clearStmt", i)>>
  <2>1. later[i].stmt \notin Said
    BY DEF SaidInv, UseInv, UseLater
  <2>2. Harmless(RefFrame("decr", later[i].stmt)) /\ Harmless(RefFrame("clearDue", i))
        /\ Harmless(RefFrame("clearStmt", i))
    BY <1>2, <2>1, RefHarmless DEF TouchOps
  <2>3. AllHarmless(frames)
    BY <2>2, ShortHarmless
  <2>4. Start(Sysmon, frames)
    BY <1>5 DEF SysmonRemoves, Start
  <2> HIDE DEF frames
  <2> QED BY <1>4, <2>3, <2>4
<1>6. ASSUME NEW k \in AtomicallyKeys, SysmonCollects(k) PROVE Mild(Sysmon)
  <2> DEFINE frames == <<ReapFrame(k, NoVersion, TRUE), RefFrame("collected", NoRef)>>
  <2>1. ReapFrame(k, NoVersion, TRUE).op = "reap"
    BY DEF ReapFrame
  <2>2. Harmless(ReapFrame(k, NoVersion, TRUE)) /\ Harmless(RefFrame("collected", NoRef))
    BY <1>2, <2>1, HarmlessOps, RefHarmless
  <2>3. AllHarmless(frames)
    BY <2>2, ShortHarmless
  <2>4. Start(Sysmon, frames)
    BY <1>6 DEF SysmonCollects, Start
  <2> HIDE DEF frames
  <2> QED BY <1>4, <2>3, <2>4
<1>7. Mild(Sysmon)
  BY <1>5, <1>6 DEF SysmonTick
<1> QED BY <1>1, <1>3, <1>7, UnchangedStay, StillSame, MildQuietly

-----------------------------------------------------------------------------
(* Matches are made.                                                       *)

\* The statements keep what they say and what counts for them.
FieldsStay ==
    /\ Len(stmts') = Len(stmts)
    /\ \A s \in StmtRefs : /\ stmts'[s].clause = stmts[s].clause
                           /\ stmts'[s].parentCount = stmts[s].parentCount
                           /\ stmts'[s].open = stmts[s].open
                           /\ stmts'[s].keep = stmts[s].keep

LEMMA FieldsStill ==
    ASSUME FieldsStay, index' = index
    PROVE  ClausesStay /\ StmtsStill
BY SaidClause DEF FieldsStay, ClausesStay, StmtsStill, StillSaid, Here

LEMMA LocksStay ==
    ASSUME TypeOK, NEW t
    PROVE  /\ stmts' = Unlocked(t, stmts) => FieldsStay
           /\ \A s \in StmtRefs : LockParent(t, s) => FieldsStay
           /\ \A parents, version : InsertMatch(t, parents, version) => FieldsStay
<1>1. DOMAIN stmts = StmtRefs /\ Len(stmts) \in Nat /\ StmtRefs = 1 .. Len(stmts)
      /\ stmts \in Seq(Stmt)
  BY LensTyped DEF StmtRefs
<1>2. \A s \in StmtRefs : stmts[s] \in Stmt
  BY StmtFields
<1>3. \A r \in Stmt : \A x : /\ [r EXCEPT !.lock = x].clause = r.clause
                             /\ [r EXCEPT !.lock = x].parentCount = r.parentCount
                             /\ [r EXCEPT !.lock = x].open = r.open
                             /\ [r EXCEPT !.lock = x].keep = r.keep
  BY DEF Stmt
<1>4. \A s \in StmtRefs : /\ Unlocked(t, stmts)[s].clause = stmts[s].clause
                          /\ Unlocked(t, stmts)[s].parentCount = stmts[s].parentCount
                          /\ Unlocked(t, stmts)[s].open = stmts[s].open
                          /\ Unlocked(t, stmts)[s].keep = stmts[s].keep
                          /\ Unlocked(t, stmts)[s] \in Stmt
  BY <1>1, <1>2, <1>3, UnlockedTyped DEF Unlocked
<1>5. \A new : DOMAIN new = StmtRefs => (stmts' = new => Len(stmts') = Len(stmts))
  BY <1>1
<1>6. ASSUME stmts' = Unlocked(t, stmts) PROVE FieldsStay
  BY <1>4, <1>5, <1>6, UnlockedTyped DEF FieldsStay
<1>7. ASSUME NEW s \in StmtRefs, LockParent(t, s) PROVE FieldsStay
  <2>1. stmts' = [stmts EXCEPT ![s].lock = t]
    BY <1>7 DEF LockParent
  <2>2. DOMAIN [stmts EXCEPT ![s].lock = t] = StmtRefs
    BY <1>1
  <2>3. Len(stmts') = Len(stmts)
    BY <1>5, <2>1, <2>2
  <2> QED BY <1>1, <1>2, <1>3, <2>1, <2>3 DEF FieldsStay
<1>8. ASSUME NEW parents, NEW version, InsertMatch(t, parents, version) PROVE FieldsStay
  <2> DEFINE m == Len(matches) + 1
             new == [s \in DOMAIN stmts |->
                        IF s \in ToSet(parents)
                        THEN [Unlocked(t, stmts)[s] EXCEPT !.kids = Append(@, m)]
                        ELSE stmts[s]]
  <2>1. stmts' = new
    BY <1>8 DEF InsertMatch
  <2>2. \A r \in Stmt : \A x : /\ [r EXCEPT !.kids = x].clause = r.clause
                               /\ [r EXCEPT !.kids = x].parentCount = r.parentCount
                               /\ [r EXCEPT !.kids = x].open = r.open
                               /\ [r EXCEPT !.kids = x].keep = r.keep
    BY DEF Stmt
  <2>3. ASSUME NEW s \in StmtRefs
        PROVE  /\ new[s].clause = stmts[s].clause /\ new[s].parentCount = stmts[s].parentCount
               /\ new[s].open = stmts[s].open /\ new[s].keep = stmts[s].keep
    <3>1. new[s] = stmts[s] \/ \E x : new[s] = [Unlocked(t, stmts)[s] EXCEPT !.kids = x]
      BY <1>1
    <3> HIDE DEF new
    <3>2. PICK u : u = Unlocked(t, stmts)[s]
      OBVIOUS
    <3>3. ASSUME NEW x, new[s] = [u EXCEPT !.kids = x]
          PROVE  /\ new[s].clause = stmts[s].clause /\ new[s].parentCount = stmts[s].parentCount
                 /\ new[s].open = stmts[s].open /\ new[s].keep = stmts[s].keep
      BY <1>4, <2>2, <3>2, <3>3
    <3> QED BY <3>1, <3>2, <3>3
  <2>4. DOMAIN new = StmtRefs
    BY <1>1
  <2> HIDE DEF new
  <2> QED BY <1>5, <2>1, <2>3, <2>4 DEF FieldsStay
<1> QED BY <1>6, <1>7, <1>8

LEMMA InsertMatchKids ==
    ASSUME TypeOK, NEW t, NEW parents, NEW version, InsertMatch(t, parents, version)
    PROVE  KidsStill
<1>1. PICK e : e.kids = <<>> /\ matches' = Append(matches, e)
  <2> DEFINE e == [parents |-> parents, open |-> TRUE, completed |-> FALSE, interrupted |-> FALSE,
                   worker |-> t, version |-> version, parentWasRemoved |-> FALSE,
                   overlooked |-> FALSE, lock |-> NoThread, kids |-> <<>>]
  <2>1. e.kids = <<>>
    OBVIOUS
  <2>2. matches' = Append(matches, e)
    BY DEF InsertMatch
  <2> HIDE DEF e
  <2> QED BY <2>1, <2>2
<1>2. matches \in Seq(Match) /\ Len(matches) \in Nat
  BY LensTyped
<1>3. matches \in Seq(Match \cup {e})
  BY <1>2, SeqMonotonic
<1>4. /\ Len(matches') = Len(matches) + 1 /\ matches'[Len(matches) + 1] = e
      /\ \A i \in 1 .. Len(matches) : matches'[i] = matches[i]
  BY <1>1, <1>3, AppendProperties
<1>5. KidsKept
  BY <1>1, <1>2, <1>4 DEF KidsKept, MatchRefs
<1> QED BY <1>5, KeptStill

LEMMA RunHarmless ==
    ASSUME TypeOK, NEW f, f.when \in RefsOf(Whens), f.stmt \in StmtRefs \cup {NoRef}, NEW m
    PROVE  AllHarmless(RunFrames(f, m)) /\ AllHarmless(AbortFrames(f))
           /\ AllHarmless(<<[op |-> "lockStmt", when |-> f.when, stmt |-> f.stmt]>>)
<1>1. {"lockStmt", "endBody"} \cap (TouchOps \cup UseOps) = {}
  BY DEF TouchOps, UseOps, KeepOps
<1>2. BodyOf(f) \in Seq(Commands)
  BY BodyTyped
<1>3. ToSet(BodyOf(f)) \subseteq AllCommands
  <2>1. stmts[f.when].clause \in Whens
    BY DEF RefsOf
  <2>2. f.stmt # NoRef => stmts[f.stmt].clause \in Clauses
    BY StmtFields DEF Stmt
  <2> QED BY <2>1, <2>2, AllBodies DEF BodyOf
<1>4. AllHarmless(BodyFrames(m, BodyOf(f)))
  BY <1>2, <1>3, BodyHarmless
<1>5. AllHarmless(<<RefFrame("endBody", m)>>)
  BY <1>1, RefHarmless, ShortHarmless
<1>6. \A v : AllHarmless(<<InflightFrame(v)>>) /\ AllHarmless(InflightFrames(v))
  BY InflightHarmless, ShortHarmless
<1>7. AllHarmless(AbortFrames(f))
  BY <1>6, HarmlessConcat DEF AbortFrames
<1>8. AllHarmless(RunFrames(f, m))
  <2> DEFINE first == IF VersionOf(f.when) # NoVersion /\ VersionOf(f.stmt) # NoVersion
                      THEN <<InflightFrame(VersionOf(f.when))>> ELSE <<>>
  <2>1. AllHarmless(first)
    BY <1>6, ShortHarmless
  <2>2. RunFrames(f, m) = first \o BodyFrames(m, BodyOf(f)) \o <<RefFrame("endBody", m)>>
    BY DEF RunFrames, BodyOf
  <2> HIDE DEF first
  <2> QED BY <1>4, <1>5, <2>1, <2>2, HarmlessConcat
<1>9. Harmless([op |-> "lockStmt", when |-> f.when, stmt |-> f.stmt])
  <2> DEFINE g == [op |-> "lockStmt", when |-> f.when, stmt |-> f.stmt]
  <2>1. g.op = "lockStmt"
    OBVIOUS
  <2> HIDE DEF g
  <2>2. Harmless(g)
    BY <1>1, <2>1, HarmlessOps
  <2> QED BY <2>2 DEF g
<1> QED BY <1>7, <1>8, <1>9, ShortHarmless

LEMMA LockAndRunSaid ==
    ASSUME TypeOK, TypeOK', SaidInv, NEW t \in Threads, NEW f, f.when \in RefsOf(Whens),
           f.stmt \in StmtRefs \cup {NoRef}, NEW i \in 1 .. Len(Parents(f)), LockAndRun(t, f, i),
           \A j \in 1 .. Len(todo[t]) : todo[t][j].op \notin TouchOps, UseWork'
    PROVE  SaidInv'
<1>1. \A frames : AllHarmless(frames) /\ Start(t, frames) => Mild(t)
  BY MildWhole
<1>2. Mild(t)
  BY <1>1, RunHarmless DEF LockAndRun
<1>3. Parents(f)[i] \in StmtRefs
  BY ParentsTyped, ElementOfSeq DEF RefsOf
<1>4. FieldsStay /\ KidsStill
  BY <1>3, LocksStay, InsertMatchKids, StillSame DEF LockAndRun, AbortMatch
<1>5. UNCHANGED <<index, holds, later>>
  BY DEF LockAndRun
<1>6. ClausesStay /\ StmtsStill
  BY <1>4, <1>5, FieldsStill
<1>7. UseLater' /\ UseHolds'
  BY <1>5, <1>6, UseSame DEF SaidInv
<1> QED BY <1>2, <1>4, <1>6, <1>7, StillSame, MildStep

LEMMA TakeRunWhenSaid ==
    ASSUME TypeOK, TypeOK', SaidInv, NEW t \in Threads, NEW item, TakeRunWhen(t, item)
    PROVE  SaidInv'
<1>1. item \in WorkItems /\ item.cmd = "runWhen" /\ UseWork' /\ todo[t] = <<>>
      /\ LockAndRun(t, item, 1)
  BY TakeMild DEF TakeRunWhen, TakeItem
<1>2. item.when \in RefsOf(Whens) /\ item.stmt \in StmtRefs \cup {NoRef}
  BY <1>1, ItemFields
<1>3. 1 \in 1 .. Len(Parents(item))
  BY <1>2, ParentsTyped DEF RefsOf
<1>4. \A j \in 1 .. Len(todo[t]) : todo[t][j].op \notin TouchOps
  BY <1>1
<1> QED BY <1>1, <1>2, <1>3, <1>4, LockAndRunSaid

LEMMA LockStmtSaid ==
    ASSUME TypeOK, TypeOK', Stacks, SaidInv, NEW t \in Threads, LockStmt(t)
    PROVE  SaidInv'
<1>1. PICK f : f = Top(t)
  OBVIOUS
<1>2. todo[t] # <<>> /\ f.op = "lockStmt" /\ f \in Frames
  BY <1>1, TopTyped DEF LockStmt, At
<1>3. f.when \in RefsOf(Whens) /\ f.stmt \in StmtRefs
  BY <1>2, FrameFields
<1>4. f.when \in StmtRefs /\ f.stmt # NoRef
  BY <1>3 DEF RefsOf, StmtRefs, NoRef
<1>5. 2 \in 1 .. Len(Parents(f))
  BY <1>3, <1>4, ParentsTyped
<1>6. todo[t] \in Seq(Frames) /\ Len(todo[t]) \in Nat /\ 1 \in 1 .. Len(todo[t])
  BY <1>2, StackTyped, EmptySeq
<1>7. todo[t][1] = f
  BY <1>1, <1>2, <1>6 DEF Top
<1>8. Len(todo[t]) = 1
  BY <1>2, <1>6, <1>7 DEF Stacks, StackOK
<1>9. \A j \in 1 .. Len(todo[t]) : todo[t][j].op \notin TouchOps
  BY <1>2, <1>7, <1>8 DEF TouchOps
<1>10. LockAndRun(t, f, 2) /\ work' = work
  BY <1>1 DEF LockStmt
<1>11. UseWork'
  BY <1>10 DEF UseWork, SaidInv, UseInv
<1> QED BY <1>3, <1>5, <1>9, <1>10, <1>11, LockAndRunSaid

-----------------------------------------------------------------------------
(* Steps on a statement that is only said.                                 *)

LEMMA FrameUseOps ==
    ASSUME NEW op, op \notin UseOps, NEW r
    PROVE  FrameUse(RefFrame(op, r))
<1>1. RefFrame(op, r).op = op
  BY DEF RefFrame
<1> QED BY <1>1 DEF UseOps, FrameUse

\* The step keeps UseInv, and each statement's supports are seen to.
LEMMA TouchStep ==
    ASSUME TypeOK, TypeOK', SaidInv, NEW t \in Threads, ClausesStay, NEW a, NEW b, Turns(t, a, b),
           \A j \in 1 .. Len(b) : FrameUse(b[j]), UNCHANGED <<holds, later, work>>,
           \A s \in Said : stmts'[s].keep = stmts[s].keep,
           \A s \in Said : Supp(s)'
    PROVE  SaidInv'
<1>1. UseInv
  BY DEF SaidInv
<1>2. UseWork' /\ UseLater' /\ UseHolds' /\ UseKeep'
  BY <1>1, UseSame
<1>3. UseInv'
  BY <1>1, <1>2, UseStep
<1> QED BY <1>3, SaidStays DEF SaidInv

\* A support that was taken for the parent becomes one of the parent's children.
LEMMA LevelAdopts ==
    ASSUME NEW k \in Nat, NEW n \in Nat, NEW r \in Nat, NEW c \in Nat, NEW count \in Int,
           NEW open, NEW here, Level(k, n, r, c, count, open, here),
           n - 1 + 0 \in Nat, NEW k2 \in {k, k + 1}
    PROVE  Level(k2, n - 1 + 0, r - 0 + 0, c - 0 + 0, count, open, here)
<1>1. r - 0 + 0 = r /\ c - 0 + 0 = c
  OBVIOUS
<1>2. k2 + (n - 1 + 0) <= k + n
  OBVIOUS
<1>3. k2 + (n - 1 + 0) <= count
  BY <1>2 DEF Level
<1> QED BY <1>1, <1>3 DEF Level

\* What the step does for s, and the level it leaves.
LEMMA LevelStep ==
    ASSUME TypeOK, TypeOK', NEW t \in Threads, NEW a, NEW b, Turns(t, a, b), NEW s,
           NEW n, NEW r, NEW c, Pending(s, n, r, c),
           NEW n1, NEW r1, NEW c1, Does(a, s, n1, r1, c1),
           NEW n2, NEW r2, NEW c2, Does(b, s, n2, r2, c2),
           NEW k \in Nat, SaidBy(s, k)',
           Level(k, n - n1 + n2, r - r1 + r2, c - c1 + c2,
                 stmts'[s].parentCount, stmts'[s].open, Here(s)')
    PROVE  Supp(s)'
BY PendingStep DEF Supp

\* The frames on s itself.
LEMMA DoesRef ==
    ASSUME NEW s
    PROVE  /\ Does(<<>>, s, 0, 0, 0)
           /\ Does(<<RefFrame("decr", s)>>, s, 1, 0, 0)
           /\ Does(<<RefFrame("removeSelf", s)>>, s, 0, 1, 0)
           /\ Does(<<RefFrame("close", s)>>, s, 0, 0, 1)
<1>1. \A op : RefFrame(op, s).op = op
  BY DEF RefFrame
<1>2. \A f : f \in Takers(s) => f.op \in {"decr", "adopt"}
  BY <1>1 DEF Takers
<1>3. /\ RefFrame("decr", s) \in Takers(s) /\ RefFrame("decr", s) \notin Removers(s)
      /\ RefFrame("decr", s) \notin Closers(s)
  BY <1>1 DEF Takers, Removers, Closers
<1>4. /\ RefFrame("removeSelf", s) \notin Takers(s) /\ RefFrame("removeSelf", s) \in Removers(s)
      /\ RefFrame("removeSelf", s) \notin Closers(s)
  BY <1>1, <1>2 DEF Removers, Closers
<1>5. /\ RefFrame("close", s) \notin Takers(s) /\ RefFrame("close", s) \notin Removers(s)
      /\ RefFrame("close", s) \in Closers(s)
  BY <1>1, <1>2 DEF Removers, Closers
<1>6. Does(<<>>, s, 0, 0, 0)
  BY DoesNothing
<1>7. ASSUME NEW f PROVE Does(<<f>>, s, One(f \in Takers(s)), One(f \in Removers(s)), One(f \in Closers(s)))
  BY DoesOne
<1>8. One(TRUE) = 1 /\ One(FALSE) = 0
  BY DEF One
<1>9. Does(<<RefFrame("decr", s)>>, s, 1, 0, 0)
  <2>1. /\ One(RefFrame("decr", s) \in Takers(s)) = 1 /\ One(RefFrame("decr", s) \in Removers(s)) = 0
        /\ One(RefFrame("decr", s) \in Closers(s)) = 0
    BY <1>3 DEF One
  <2>2. Does(<<RefFrame("decr", s)>>, s, One(RefFrame("decr", s) \in Takers(s)),
             One(RefFrame("decr", s) \in Removers(s)), One(RefFrame("decr", s) \in Closers(s)))
    BY <1>7
  <2> QED BY <2>1, <2>2
<1>10. Does(<<RefFrame("removeSelf", s)>>, s, 0, 1, 0)
  <2>1. /\ One(RefFrame("removeSelf", s) \in Takers(s)) = 0
        /\ One(RefFrame("removeSelf", s) \in Removers(s)) = 1
        /\ One(RefFrame("removeSelf", s) \in Closers(s)) = 0
    BY <1>4 DEF One
  <2>2. Does(<<RefFrame("removeSelf", s)>>, s, One(RefFrame("removeSelf", s) \in Takers(s)),
             One(RefFrame("removeSelf", s) \in Removers(s)), One(RefFrame("removeSelf", s) \in Closers(s)))
    BY <1>7
  <2> QED BY <2>1, <2>2
<1>11. Does(<<RefFrame("close", s)>>, s, 0, 0, 1)
  <2>1. /\ One(RefFrame("close", s) \in Takers(s)) = 0 /\ One(RefFrame("close", s) \in Removers(s)) = 0
        /\ One(RefFrame("close", s) \in Closers(s)) = 1
    BY <1>5 DEF One
  <2>2. Does(<<RefFrame("close", s)>>, s, One(RefFrame("close", s) \in Takers(s)),
             One(RefFrame("close", s) \in Removers(s)), One(RefFrame("close", s) \in Closers(s)))
    BY <1>7
  <2> QED BY <2>1, <2>2
<1> QED BY <1>6, <1>9, <1>10, <1>11

\* A call on a statement has nothing but the reference.
LEMMA AtRef ==
    ASSUME TypeOK, NEW t \in Threads, NEW op \in StmtOps, At(t, op)
    PROVE  Top(t) = RefFrame(op, Top(t).ref) /\ Top(t).ref \in StmtRefs /\ todo[t] # <<>>
<1>1. Top(t).op = op /\ Top(t) \in Frames /\ todo[t] # <<>>
  BY TopTyped DEF At
<1>2. Top(t) \in [op : StmtOps, ref : StmtRefs]
  BY <1>1 DEF Frames, DbFrames, AtomicallyFrames, StmtOps, MatchOps, EntryOps
<1> QED BY <1>1, <1>2 DEF RefFrame

\* The innermost call is on s0, and so are the calls it makes: nothing to others.
LEMMA OtherSupp ==
    ASSUME TypeOK, TypeOK', SaidInv, NEW t \in Threads, NEW op, NEW s0, NEW b,
           Turns(t, <<RefFrame(op, s0)>>, b), \A s \in Said \ {s0} : \A j \in 1 .. Len(b) : b[j] \notin Touch(s),
           NEW s \in Said, s # s0, StillSaid(s), SameKids(s)
    PROVE  Supp(s)'
<1>1. RefFrame(op, s0).ref = s0
  BY DEF RefFrame
<1> DEFINE a == <<RefFrame(op, s0)>>
<1>2. \A j \in 1 .. Len(a) : a[j] = RefFrame(op, s0)
  OBVIOUS
<1> HIDE DEF a
<1>3. \A j \in 1 .. Len(a) : a[j] \notin Touch(s)
  BY <1>1, <1>2, TouchOp
<1>4. Supp(s)
  BY DEF SaidInv
<1>5. Turns(t, a, b)
  BY DEF a
<1> QED BY <1>3, <1>4, <1>5, SuppStep

\* A support is taken of what is not only said.
LEMMA DecrOther ==
    ASSUME TypeOK, TypeOK', SaidInv, NEW t \in Threads, Decr(t), work' = work, Top(t).ref \notin Said
    PROVE  SaidInv'
<1> DEFINE s == Top(t).ref
<1>1. s \in StmtRefs /\ todo[t] # <<>>
  BY AtRef DEF Decr, StmtOps
<1>2. \A frames : AllHarmless(frames) /\ Then(t, frames) => Mild(t)
  BY MildAt DEF Decr
<1>3. /\ AllHarmless(<<>>) /\ AllHarmless(<<RefFrame("removeSelf", s)>>)
      /\ AllHarmless(<<RefFrame("decrKept", s)>>) /\ AllHarmless(<<RefFrame("testAgain", s)>>)
  BY RefHarmless, ShortHarmless DEF TouchOps, KeepOps
<1>4. Mild(t)
  BY <1>2, <1>3 DEF Decr
<1>5. stmts' = stmts \/ \E x : stmts' = [stmts EXCEPT ![s].parentCount = x]
  BY DEF Decr
<1>6. UNCHANGED <<index, matches, holds, later>>
  BY DEF Decr
<1>7. StmtsStill /\ KidsStill
  BY <1>1, <1>5, <1>6, StmtStill, StillSame
<1>8. ClausesStay
  BY DecrKeeps DEF Keeps, KeepsStmts, ClausesStay
<1> QED BY <1>4, <1>6, <1>7, <1>8, MildQuietly

\* Another statement is changed.
LEMMA OthersStill ==
    ASSUME TypeOK, NEW r \in StmtRefs, NEW s \in StmtRefs, s # r, index' = index, NEW x,
           \/ stmts' = stmts
           \/ stmts' = [stmts EXCEPT ![r].parentCount = x]
           \/ stmts' = [stmts EXCEPT ![r].open = x]
    PROVE  StillSaid(s) /\ stmts'[s].keep = stmts[s].keep
<1>1. DOMAIN stmts = StmtRefs
  BY LensTyped
<1>2. stmts'[s] = stmts[s]
  BY <1>1
<1> QED BY <1>2 DEF StillSaid, Here

LEMMA SameStmt ==
    ASSUME TypeOK, NEW r \in StmtRefs, index' = index, NEW x
    PROVE  /\ stmts' = [stmts EXCEPT ![r].parentCount = x] =>
                 /\ stmts'[r].parentCount = x /\ stmts'[r].open = stmts[r].open
                 /\ stmts'[r].keep = stmts[r].keep /\ (Here(r)' <=> Here(r))
           /\ stmts' = [stmts EXCEPT ![r].open = x] =>
                 /\ stmts'[r].parentCount = stmts[r].parentCount /\ stmts'[r].open = x
                 /\ stmts'[r].keep = stmts[r].keep /\ (Here(r)' <=> Here(r))
<1>1. DOMAIN stmts = StmtRefs /\ stmts[r] \in Stmt
  BY LensTyped, StmtFields
<1>2. /\ [stmts[r] EXCEPT !.parentCount = x].parentCount = x
      /\ [stmts[r] EXCEPT !.parentCount = x].open = stmts[r].open
      /\ [stmts[r] EXCEPT !.parentCount = x].keep = stmts[r].keep
      /\ [stmts[r] EXCEPT !.parentCount = x].clause = stmts[r].clause
      /\ [stmts[r] EXCEPT !.open = x].parentCount = stmts[r].parentCount
      /\ [stmts[r] EXCEPT !.open = x].open = x
      /\ [stmts[r] EXCEPT !.open = x].keep = stmts[r].keep
      /\ [stmts[r] EXCEPT !.open = x].clause = stmts[r].clause
  BY <1>1 DEF Stmt
<1>3. ASSUME NEW e, stmts' = [stmts EXCEPT ![r] = e] PROVE stmts'[r] = e
  BY <1>1, <1>3
<1>4. ASSUME stmts' = [stmts EXCEPT ![r].parentCount = x]
      PROVE  /\ stmts'[r].parentCount = x /\ stmts'[r].open = stmts[r].open
             /\ stmts'[r].keep = stmts[r].keep /\ (Here(r)' <=> Here(r))
  BY <1>2, <1>3, <1>4 DEF Here
<1>5. ASSUME stmts' = [stmts EXCEPT ![r].open = x]
      PROVE  /\ stmts'[r].parentCount = stmts[r].parentCount /\ stmts'[r].open = x
             /\ stmts'[r].keep = stmts[r].keep /\ (Here(r)' <=> Here(r))
  BY <1>2, <1>3, <1>5 DEF Here
<1> QED BY <1>4, <1>5

LEMMA OneTurn ==
    ASSUME NEW g, NEW b, b = <<g>>
    PROVE  (\A j \in 1 .. Len(b) : b[j] = g) /\ \E G : b \in Seq(G)
<1>1. \E G : b \in Seq(G)
  BY OneFrame
<1>2. Len(b) = 1 /\ b[1] = g
  BY OneFrame
<1>3. \A j \in 1 .. Len(b) : j = 1
  BY <1>2
<1> QED BY <1>1, <1>2, <1>3

\* A support is taken: at the last one the removal starts.
LEMMA DecrSaid ==
    ASSUME TypeOK, TypeOK', SaidInv, NEW t \in Threads, Decr(t), work' = work
    PROVE  SaidInv'
<1>1. CASE Top(t).ref \notin Said
  BY <1>1, DecrOther
<1>2. CASE Top(t).ref \in Said
  <2>1. PICK s : s = Top(t).ref
    OBVIOUS
  <2>2. s \in Said /\ s \in StmtRefs /\ Top(t) = RefFrame("decr", s) /\ todo[t] # <<>>
    BY <1>2, <2>1, AtRef DEF Decr, StmtOps
  <2>3. stmts[s].keep = "none"
    BY <2>2 DEF SaidInv, UseInv, UseKeep
  <2>4. UNCHANGED <<index, matches, holds, later>>
    BY DEF Decr
  <2>5. PICK b : /\ Then(t, b)
                 /\ \/ ~stmts[s].open /\ b = <<>> /\ stmts' = stmts
                    \/ /\ stmts[s].open
                       /\ stmts' = [stmts EXCEPT ![s].parentCount = stmts[s].parentCount - 1]
                       /\ b = IF stmts[s].parentCount - 1 = 0 THEN <<RefFrame("removeSelf", s)>> ELSE <<>>
    <3>1. s # NoRef
      BY <2>2 DEF StmtRefs, NoRef
    <3>2. Live(s) <=> stmts[s].open
      BY <3>1 DEF Live
    <3> QED BY <2>1, <2>3, <3>2 DEF Decr
  <2>6. b = <<>> \/ b = <<RefFrame("removeSelf", s)>>
    BY <2>5
  <2>7. /\ \A j \in 1 .. Len(b) : b[j] = RefFrame("removeSelf", s)
        /\ \E G : b \in Seq(G)
    <3>1. CASE b = <<>>
      <4>1. \E G : b \in Seq(G)
        BY <3>1, ShortSeqs
      <4>2. Len(b) = 0
        BY <3>1
      <4> QED BY <4>1, <4>2
    <3>2. CASE b = <<RefFrame("removeSelf", s)>>
      BY <3>2, OneTurn
    <3> QED BY <2>6, <3>1, <3>2
  <2>8. Turns(t, <<RefFrame("decr", s)>>, b)
    BY <2>2, <2>5, <2>7, ThenTurns
  <2>9. \A j \in 1 .. Len(b) : FrameUse(b[j])
    BY <2>7, FrameUseOps DEF UseOps, KeepOps
  <2>10. ClausesStay
    BY DecrKeeps DEF Keeps, KeepsStmts, ClausesStay
  <2>11. KidsStill
    BY <2>4, StillSame
  <2>12. ASSUME NEW x \in Said, x # s PROVE Supp(x)' /\ stmts'[x].keep = stmts[x].keep
    <3>1. x \in StmtRefs
      BY SaidClause
    <3>2. StillSaid(x) /\ stmts'[x].keep = stmts[x].keep
      BY <2>2, <2>4, <2>5, <2>12, <3>1, OthersStill
    <3>3. RefFrame("removeSelf", s).ref = s
      BY DEF RefFrame
    <3>4. \A y \in Said \ {s} : \A j \in 1 .. Len(b) : b[j] \notin Touch(y)
      BY <2>7, <3>3, TouchOp
    <3> QED BY <2>8, <2>11, <2>12, <3>2, <3>4, OtherSupp DEF KidsStill
  <2>13. Supp(s)' /\ stmts'[s].keep = stmts[s].keep
    <3>1. PICK k, n, r, c \in Nat :
             /\ SaidBy(s, k) /\ Pending(s, n, r, c)
             /\ Level(k, n, r, c, stmts[s].parentCount, stmts[s].open, Here(s))
      BY <2>2 DEF SaidInv, Supp
    <3>2. PICK q : q = stmts[s].parentCount
      OBVIOUS
    <3>3. q \in Int
      BY <2>2, <3>2, StmtFields DEF Stmt
    <3>4. PICK r2 : r2 = IF b = <<>> THEN 0 ELSE 1
      OBVIOUS
    <3>5. Does(b, s, 0, r2, 0) /\ Does(<<RefFrame("decr", s)>>, s, 1, 0, 0)
      BY <2>6, <3>4, DoesRef
    <3>6. n - 1 + 0 \in Nat
      BY <2>8, <3>1, <3>5, PendingStep
    <3>7. stmts[s].open /\ q > 0 /\ r = 0 /\ c = 0 /\ k + n <= q /\ Here(s)
      BY <3>1, <3>2, <3>3, <3>6 DEF Level
    <3>8. stmts' = [stmts EXCEPT ![s].parentCount = q - 1]
          /\ b = IF q - 1 = 0 THEN <<RefFrame("removeSelf", s)>> ELSE <<>>
      BY <2>5, <3>2, <3>7
    <3>9. /\ stmts'[s].parentCount = q - 1 /\ stmts'[s].open = stmts[s].open
          /\ stmts'[s].keep = stmts[s].keep /\ (Here(s)' <=> Here(s))
      BY <2>2, <2>4, <3>8, SameStmt
    <3>10. r2 = IF q - 1 = 0 THEN 1 ELSE 0
      <4>1. <<RefFrame("removeSelf", s)>> # <<>>
        OBVIOUS
      <4> QED BY <3>4, <3>8, <4>1
    <3>11. SaidBy(s, k)'
      BY <2>11, <3>1 DEF KidsStill, SameKids
    <3>12. Level(k, n - 1 + 0, r - 0 + r2, c - 0 + 0, q - 1, TRUE, TRUE)
      BY <3>1, <3>3, <3>7, <3>10 DEF Level
    <3>13. Level(k, n - 1 + 0, r - 0 + r2, c - 0 + 0, stmts'[s].parentCount, stmts'[s].open, Here(s)')
      <4>1. stmts'[s].open = TRUE /\ Here(s)' = TRUE
        <5>1. stmts[s].open \in BOOLEAN
          BY <2>2, StmtFields DEF Stmt
        <5> QED BY <3>7, <3>9, <5>1 DEF Here
      <4> QED BY <3>9, <3>12, <4>1 DEF Level
    <3> QED BY <2>8, <3>1, <3>5, <3>9, <3>11, <3>13, LevelStep
  <2> QED BY <2>4, <2>8, <2>9, <2>10, <2>12, <2>13, TouchStep
<1> QED BY <1>1, <1>2

LEMMA FramesForFrames ==
    ASSUME NEW S, NEW op, NEW refs \in Seq(S)
    PROVE  /\ \E G : FramesFor(op, refs) \in Seq(G)
           /\ Len(FramesFor(op, refs)) = Len(refs) /\ Len(refs) \in Nat
           /\ \A i \in 1 .. Len(refs) : FramesFor(op, refs)[i] = RefFrame(op, refs[i])
<1> DEFINE T == {RefFrame(op, r) : r \in S}
           g == FramesFor(op, refs)
<1>1. Len(refs) \in Nat /\ \A i \in 1 .. Len(refs) : refs[i] \in S
  BY LenProperties, ElementOfSeq
<1>2. \A i \in 1 .. Len(refs) : g[i] = RefFrame(op, refs[i])
  BY DEF FramesFor
<1>3. \A i \in 1 .. Len(refs) : g[i] \in T
  BY <1>1, <1>2
<1>4. g = [i \in 1 .. Len(refs) |-> g[i]]
  BY DEF FramesFor
<1> HIDE DEF g, T
<1>5. g \in [1 .. Len(refs) -> T]
  BY <1>3, <1>4
<1>6. g \in Seq(T) /\ Len(g) = Len(refs)
  BY <1>1, <1>5
<1> QED BY <1>1, <1>2, <1>6 DEF g

LEMMA UnmatchHarmless ==
    ASSUME TypeOK, NEW s \in StmtRefs
    PROVE  AllHarmless(FramesFor("unmatch", stmts[s].kids))
<1>1. PICK kids : kids = stmts[s].kids
  OBVIOUS
<1>2. kids \in Seq(MatchRefs)
  BY <1>1, StmtFields DEF Stmt
<1>3. \A r : Harmless(RefFrame("unmatch", r))
  BY RefHarmless DEF TouchOps, UseOps, KeepOps
<1>4. PICK b : b = FramesFor("unmatch", kids)
  OBVIOUS
<1>5. /\ (\E G : b \in Seq(G)) /\ Len(b) = Len(kids)
      /\ \A i \in 1 .. Len(kids) : b[i] = RefFrame("unmatch", kids[i])
  BY <1>2, <1>4, FramesForFrames
<1>6. \A i \in 1 .. Len(b) : Harmless(b[i])
  BY <1>3, <1>5
<1>7. AllHarmless(b)
  BY <1>5, <1>6 DEF AllHarmless
<1> QED BY <1>1, <1>4, <1>7

\* The removal of what is not only said.
LEMMA RemoveOther ==
    ASSUME TypeOK, TypeOK', SaidInv, NEW t \in Threads, RemoveSelf(t), work' = work,
           Top(t).ref \notin Said
    PROVE  SaidInv'
<1> DEFINE s == Top(t).ref
<1>1. s \in StmtRefs
  BY AtRef DEF RemoveSelf, StmtOps
<1>2. \A frames : AllHarmless(frames) /\ Then(t, frames) => Mild(t)
  BY MildAt DEF RemoveSelf
<1>3. AllHarmless(<<RefFrame("close", s)>>)
  BY RefHarmless, ShortHarmless DEF TouchOps
<1>4. Mild(t)
  BY <1>2, <1>3, MildSame DEF RemoveSelf
<1>5. stmts' = stmts /\ UNCHANGED <<matches, holds, later>>
  BY DEF RemoveSelf
<1>6. index' = index \/ DeindexClauseOf(s)
  BY DEF RemoveSelf
<1>7. StmtsStill /\ KidsStill
  BY <1>1, <1>5, <1>6, StmtStill, StillSame
<1> QED BY <1>4, <1>5, <1>7, UnchangedStay, MildQuietly

\* The statement leaves the index: it was the one the index found for its clause, so
\* no other statement does.
LEMMA RemoveSelfSaid ==
    ASSUME TypeOK, TypeOK', SaidInv, NEW t \in Threads, RemoveSelf(t), work' = work
    PROVE  SaidInv'
<1>1. CASE Top(t).ref \notin Said
  BY <1>1, RemoveOther
<1>2. CASE Top(t).ref \in Said
  <2>1. PICK s : s = Top(t).ref
    OBVIOUS
  <2>2. s \in Said /\ s \in StmtRefs /\ Top(t) = RefFrame("removeSelf", s) /\ todo[t] # <<>>
    BY <1>2, <2>1, AtRef DEF RemoveSelf, StmtOps
  <2>3. stmts' = stmts /\ UNCHANGED <<matches, holds, later>>
    BY DEF RemoveSelf
  <2>4. ClausesStay /\ KidsStill
    BY <2>3, UnchangedStay, StillSame
  <2>5. CASE stmts[s].parentCount # 0
    <3>1. index' = index /\ todo' = todo
      BY <2>1, <2>5 DEF RemoveSelf
    <3> QED BY <2>3, <2>4, <3>1, MildSame, StillSame, MildQuietly
  <2>6. CASE stmts[s].parentCount = 0
    <3>1. PICK b : b = <<RefFrame("close", s)>>
      OBVIOUS
    <3>2. Then(t, b) /\ DeindexClauseOf(s)
      BY <2>1, <2>6, <3>1 DEF RemoveSelf
    <3>3. (\A j \in 1 .. Len(b) : b[j] = RefFrame("close", s)) /\ \E G : b \in Seq(G)
      BY <3>1, OneTurn
    <3>4. Turns(t, <<RefFrame("removeSelf", s)>>, b)
      BY <2>2, <3>2, <3>3, ThenTurns
    <3>5. \A j \in 1 .. Len(b) : FrameUse(b[j])
      BY <3>3, FrameUseOps DEF UseOps, KeepOps
    <3>6. Does(b, s, 0, 0, 1) /\ Does(<<RefFrame("removeSelf", s)>>, s, 0, 1, 0)
      BY <3>1, DoesRef
    <3>7. PICK k, n, r, c \in Nat :
             /\ SaidBy(s, k) /\ Pending(s, n, r, c)
             /\ Level(k, n, r, c, stmts[s].parentCount, stmts[s].open, Here(s))
      BY <2>2 DEF SaidInv, Supp
    <3>8. r - 1 + 0 \in Nat
      BY <3>4, <3>6, <3>7, PendingStep
    <3>9. r = 1 /\ c = 0 /\ k = 0 /\ n = 0 /\ stmts[s].open /\ Here(s)
      BY <2>6, <3>7, <3>8 DEF Level
    <3>10. Supp(s)'
      <4>1. SaidBy(s, k)'
        BY <2>4, <3>7 DEF KidsStill, SameKids
      <4>2. Level(k, n - 0 + 0, r - 1 + 0, c - 0 + 1, stmts'[s].parentCount, stmts'[s].open, Here(s)')
        BY <2>3, <2>6, <3>9 DEF Level
      <4> QED BY <3>4, <3>6, <3>7, <4>1, <4>2, LevelStep
    <3>11. ASSUME NEW x \in Said, x # s PROVE Supp(x)'
      <4>1. StillSaid(x)
        <5>1. Here(x)' <=> Here(x)
          <6>1. CASE stmts[x].clause = stmts[s].clause
            BY <2>3, <3>9, <3>11, <6>1, <3>2, DeindexLess DEF Here
          <6>2. CASE stmts[x].clause # stmts[s].clause
            BY <2>2, <2>3, <3>2, <3>11, <6>2, DeindexOthers
          <6> QED BY <6>1, <6>2
        <5> QED BY <2>3, <5>1 DEF StillSaid
      <4>2. RefFrame("close", s).ref = s
        BY DEF RefFrame
      <4>3. \A y \in Said \ {s} : \A j \in 1 .. Len(b) : b[j] \notin Touch(y)
        BY <3>3, <4>2, TouchOp
      <4> QED BY <2>4, <3>4, <3>11, <4>1, <4>3, OtherSupp DEF KidsStill
    <3> QED BY <2>3, <2>4, <3>4, <3>5, <3>10, <3>11, TouchStep
  <2> QED BY <2>5, <2>6
<1> QED BY <1>1, <1>2

LEMMA CloseOther ==
    ASSUME TypeOK, TypeOK', SaidInv, NEW t \in Threads, CloseStatement(t), work' = work,
           Top(t).ref \notin Said
    PROVE  SaidInv'
<1> DEFINE s == Top(t).ref
<1>1. s \in StmtRefs
  BY AtRef DEF CloseStatement, StmtOps
<1>2. \A frames : AllHarmless(frames) /\ Then(t, frames) => Mild(t)
  BY MildAt DEF CloseStatement
<1>3. AllHarmless(FramesFor("unmatch", stmts[s].kids))
  BY <1>1, UnmatchHarmless
<1>4. Mild(t)
  BY <1>2, <1>3, MildSame DEF CloseStatement
<1>5. UNCHANGED <<index, matches, holds, later>>
  BY DEF CloseStatement
<1>6. stmts' = stmts \/ stmts' = [stmts EXCEPT ![s].open = FALSE]
  BY DEF CloseStatement
<1>7. StmtsStill /\ KidsStill
  BY <1>1, <1>5, <1>6, StmtStill, StillSame
<1>8. ClausesStay
  BY CloseStatementKeeps DEF Keeps, KeepsStmts, ClausesStay
<1> QED BY <1>4, <1>5, <1>7, <1>8, MildQuietly

\* The statement is dead: nobody is to take a support of it, remove it or close it.
LEMMA CloseStatementSaid ==
    ASSUME TypeOK, TypeOK', SaidInv, NEW t \in Threads, CloseStatement(t), work' = work
    PROVE  SaidInv'
<1>1. CASE Top(t).ref \notin Said
  BY <1>1, CloseOther
<1>2. CASE Top(t).ref \in Said
  <2>1. PICK s : s = Top(t).ref
    OBVIOUS
  <2>2. s \in Said /\ s \in StmtRefs /\ Top(t) = RefFrame("close", s) /\ todo[t] # <<>>
    BY <1>2, <2>1, AtRef DEF CloseStatement, StmtOps
  <2>3. UNCHANGED <<index, matches, holds, later>>
    BY DEF CloseStatement
  <2>4. ClausesStay /\ KidsStill
    BY <2>3, CloseStatementKeeps, StillSame DEF Keeps, KeepsStmts, ClausesStay
  <2>5. CASE ~stmts[s].open
    <3>1. stmts' = stmts /\ todo' = todo
      BY <2>1, <2>5 DEF CloseStatement
    <3> QED BY <2>3, <2>4, <3>1, MildSame, StillSame, MildQuietly
  <2>6. CASE stmts[s].open
    <3>1. PICK b : b = FramesFor("unmatch", stmts[s].kids)
      OBVIOUS
    <3>2. Then(t, b) /\ stmts' = [stmts EXCEPT ![s].open = FALSE]
      BY <2>1, <2>6, <3>1 DEF CloseStatement
    <3>3. AllHarmless(b)
      BY <2>2, <3>1, UnmatchHarmless
    <3>4. Turns(t, <<RefFrame("close", s)>>, b)
      BY <2>2, <3>2, <3>3, ThenTurns DEF AllHarmless
    <3>5. \A j \in 1 .. Len(b) : FrameUse(b[j]) /\ \A x \in Said : b[j] \notin Touch(x)
      BY <3>3 DEF AllHarmless, Harmless
    <3>6. Does(b, s, 0, 0, 0) /\ Does(<<RefFrame("close", s)>>, s, 0, 0, 1)
      BY <2>2, <3>5, DoesNothing, DoesRef
    <3>7. PICK k, n, r, c \in Nat :
             /\ SaidBy(s, k) /\ Pending(s, n, r, c)
             /\ Level(k, n, r, c, stmts[s].parentCount, stmts[s].open, Here(s))
      BY <2>2 DEF SaidInv, Supp
    <3>8. c - 1 + 0 \in Nat
      BY <3>4, <3>6, <3>7, PendingStep
    <3>9. r = 0 /\ c = 1 /\ k = 0 /\ n = 0 /\ stmts[s].parentCount = 0
      BY <3>7, <3>8 DEF Level
    <3>10. /\ stmts'[s].parentCount = stmts[s].parentCount /\ stmts'[s].open = FALSE
           /\ stmts'[s].keep = stmts[s].keep
      BY <2>2, <2>3, <3>2, SameStmt
    <3>11. Supp(s)'
      <4>1. SaidBy(s, k)'
        BY <2>4, <3>7 DEF KidsStill, SameKids
      <4>2. Level(k, n - 0 + 0, r - 0 + 0, c - 1 + 0, stmts'[s].parentCount, stmts'[s].open, Here(s)')
        BY <3>9, <3>10 DEF Level
      <4> QED BY <3>4, <3>6, <3>7, <4>1, <4>2, LevelStep
    <3>12. ASSUME NEW x \in Said, x # s PROVE Supp(x)' /\ stmts'[x].keep = stmts[x].keep
      <4>1. x \in StmtRefs
        BY SaidClause
      <4>2. StillSaid(x) /\ stmts'[x].keep = stmts[x].keep
        BY <2>2, <2>3, <3>2, <3>12, <4>1, OthersStill
      <4> QED BY <2>4, <3>4, <3>5, <3>12, <4>2, OtherSupp DEF KidsStill
    <3> QED BY <2>3, <2>4, <3>4, <3>5, <3>10, <3>11, <3>12, TouchStep
  <2> QED BY <2>5, <2>6
<1> QED BY <1>1, <1>2

-----------------------------------------------------------------------------
(* Steps on the children of a match.                                       *)

\* Only what match m has said changes, from a to b.
KidsBecome(m, a, b) ==
    /\ MatchRefs' = MatchRefs /\ StmtRefs' = StmtRefs
    /\ \A u \in MatchRefs \ {m} : OpenKids'[u] = OpenKids[u]
    /\ OpenKids[m] = a /\ OpenKids'[m] = b

KidsTyped == OpenKids \in [MatchRefs -> Seq(StmtRefs)]

LEMMA OpenKidsTyped ==
    TypeOK => KidsTyped
<1> SUFFICES ASSUME TypeOK PROVE OpenKids \in [MatchRefs -> Seq(StmtRefs)]
  BY DEF KidsTyped
<1>1. \A m \in MatchRefs : matches[m].kids \in Seq(StmtRefs)
  BY MatchFields DEF Match
<1>2. <<>> \in Seq(StmtRefs)
  BY EmptySeq
<1> QED BY <1>1, <1>2 DEF OpenKids

LEMMA KidsChange ==
    ASSUME TypeOK, TypeOK', NEW m \in MatchRefs, NEW a, NEW b, KidsBecome(m, a, b),
           NEW s, NEW k, SaidBy(s, k)
    PROVE  /\ SaidBy(s, k - Cardinality(Hits(a, {s})) + Cardinality(Hits(b, {s})))'
           /\ Cardinality(Hits(a, {s})) \in Nat /\ Cardinality(Hits(b, {s})) \in Nat
           /\ k \in Nat
           /\ k - Cardinality(Hits(a, {s})) + Cardinality(Hits(b, {s})) \in Nat
<1>1. PICK old : old = OpenKids
  OBVIOUS
<1>2. PICK new : new = OpenKids'
  OBVIOUS
<1>3. KidsTyped /\ KidsTyped'
  BY OpenKidsTyped, PTL
<1>4. old \in [MatchRefs -> Seq(StmtRefs)] /\ new \in [MatchRefs -> Seq(StmtRefs)]
  BY <1>1, <1>2, <1>3 DEF KidsBecome, KidsTyped
<1>5. AreStacks(MatchRefs, old, new, StmtRefs)
  BY <1>4 DEF AreStacks
<1>6. old[m] = a /\ new[m] = b /\ \A u \in MatchRefs \ {m} : new[u] = old[u]
  BY <1>1, <1>2 DEF KidsBecome
<1>7. a \in Seq(StmtRefs) /\ b \in Seq(StmtRefs) /\ <<>> \in Seq(StmtRefs)
  BY <1>4, <1>6, EmptySeq
<1>8. a \o <<>> = a /\ b \o <<>> = b
  BY <1>7, ConcatEmptySeq
<1>9. Becomes(old, new, m, a, b, <<>>)
  BY <1>4, <1>6, <1>8 DEF Becomes
<1>10. HitsAre(old, {s}, k) /\ k \in Nat
  BY <1>1 DEF SaidBy, HitsAre
<1>11. PICK j : j = k - Cardinality(Hits(a, {s})) + Cardinality(Hits(b, {s}))
  OBVIOUS
<1>12. HitsAre(new, {s}, k - Cardinality(Hits(a, {s})) + Cardinality(Hits(b, {s})))
  BY <1>5, <1>7, <1>9, <1>10, HitsChange
<1>13. Cardinality(Hits(a, {s})) \in Nat /\ Cardinality(Hits(b, {s})) \in Nat
  BY <1>7, HitsFinite
<1>14. SaidBy(s, j)' /\ j \in Nat
  BY <1>2, <1>11, <1>12 DEF SaidBy, HitsAre
<1> QED BY <1>10, <1>11, <1>13, <1>14

\* Closing a match takes away all it has said.
LEMMA CloseKids ==
    ASSUME TypeOK, NEW m \in MatchRefs, matches[m].open, StmtRefs' = StmtRefs,
           matches' = [matches EXCEPT ![m].open = FALSE]
    PROVE  KidsBecome(m, matches[m].kids, <<>>)
<1>1. DOMAIN matches = MatchRefs /\ matches[m] \in Match /\ matches \in Seq(Match)
  BY LensTyped, MatchFields
<1> DEFINE e == [matches[m] EXCEPT !.open = FALSE]
<1>2. e.open = FALSE /\ e \in Match
  BY <1>1 DEF Match
<1>3. matches' = [matches EXCEPT ![m] = e]
  OBVIOUS
<1> HIDE DEF e
<1>4. Len(matches') = Len(matches)
  BY <1>1, <1>2, <1>3, ExceptSeq DEF MatchRefs
<1>5. MatchRefs' = MatchRefs
  BY <1>4 DEF MatchRefs
<1>6. \A u \in MatchRefs : matches'[u] = IF u = m THEN e ELSE matches[u]
  BY <1>1, <1>3
<1> QED BY <1>2, <1>5, <1>6 DEF KidsBecome, OpenKids

\* The supports that are to be taken of the children.
LEMMA DecrFrames ==
    ASSUME NEW S, NEW kids \in Seq(S), NEW rest, rest = <<>> \/ \E m : rest = <<RefFrame("signal", m)>>,
           NEW b, b = FramesFor("decr", kids) \o rest
    PROVE  /\ \E G : b \in Seq(G)
           /\ \A s : Does(b, s, Cardinality(Hits(kids, {s})), 0, 0)
           /\ \A j \in 1 .. Len(b) : FrameUse(b[j])
<1>1. PICK f : f = FramesFor("decr", kids)
  OBVIOUS
<1>2. /\ (\E E : f \in Seq(E)) /\ Len(f) = Len(kids) /\ Len(kids) \in Nat
      /\ \A i \in 1 .. Len(kids) : f[i] = RefFrame("decr", kids[i])
  BY <1>1, FramesForFrames
<1>3. /\ \E G : rest \in Seq(G)
      /\ \A j \in 1 .. Len(rest) : rest[j].op = "signal"
  <2>1. CASE rest = <<>>
    <3>1. Len(rest) = 0 /\ rest \in Seq({})
      BY <2>1, ShortSeqs
    <3> QED BY <3>1
  <2>2. ASSUME NEW m, rest = <<RefFrame("signal", m)>>
        PROVE  (\E G : rest \in Seq(G)) /\ \A j \in 1 .. Len(rest) : rest[j].op = "signal"
    <3>1. RefFrame("signal", m).op = "signal"
      BY DEF RefFrame
    <3> QED BY <2>2, <3>1, OneTurn
  <2> QED BY <2>1, <2>2
<1>4. PICK G : rest \in Seq(G)
  BY <1>3
<1>a. PICK E : f \in Seq(E)
  BY <1>2
<1> DEFINE H == E \cup G
<1>5. f \in Seq(H) /\ rest \in Seq(H)
  BY <1>a, <1>4, SeqMonotonic
<1> HIDE DEF H
<1>6. Len(rest) \in Nat
  BY <1>4, LenProperties
<1>b. b = f \o rest
  BY <1>1
<1>7. /\ b \in Seq(H) /\ Len(b) = Len(kids) + Len(rest)
      /\ \A i \in 1 .. Len(kids) + Len(rest) :
            b[i] = IF i <= Len(kids) THEN f[i] ELSE rest[i - Len(kids)]
  <2>1. /\ f \o rest \in Seq(H) /\ Len(f \o rest) = Len(f) + Len(rest)
        /\ \A i \in 1 .. Len(f) + Len(rest) :
              (f \o rest)[i] = IF i <= Len(f) THEN f[i] ELSE rest[i - Len(f)]
    BY <1>5, ConcatProperties
  <2> QED BY <1>2, <1>b, <2>1
<1>8. ASSUME NEW i \in 1 .. Len(b)
      PROVE  \/ i \in 1 .. Len(kids) /\ b[i] = RefFrame("decr", kids[i])
             \/ i \notin 1 .. Len(kids) /\ b[i].op = "signal"
  <2>1. CASE i <= Len(kids)
    <3>1. i \in 1 .. Len(kids) /\ b[i] = f[i]
      BY <1>2, <1>6, <1>7, <2>1
    <3> QED BY <1>2, <3>1
  <2>2. CASE ~(i <= Len(kids))
    <3>1. i \notin 1 .. Len(kids) /\ i - Len(kids) \in 1 .. Len(rest) /\ b[i] = rest[i - Len(kids)]
      BY <1>2, <1>6, <1>7, <2>2
    <3> QED BY <1>3, <3>1
  <2> QED BY <2>1, <2>2
<1>9. 1 .. Len(kids) \subseteq 1 .. Len(b)
  BY <1>2, <1>6, <1>7
<1>10. \A j \in 1 .. Len(b) : FrameUse(b[j])
  <2>1. \A r : FrameUse(RefFrame("decr", r))
    BY FrameUseOps DEF UseOps, KeepOps
  <2>2. \A g : g.op = "signal" => FrameUse(g)
    BY DEF KeepOps, FrameUse
  <2> QED BY <1>8, <2>1, <2>2
<1>11. ASSUME NEW s PROVE Does(b, s, Cardinality(Hits(kids, {s})), 0, 0)
  <2>1. \A r : /\ RefFrame("decr", r).op = "decr" /\ RefFrame("decr", r).ref = r
               /\ RefFrame("removeSelf", r).op = "removeSelf" /\ RefFrame("close", r).op = "close"
    BY DEF RefFrame
  <2>2. \A r : RefFrame("decr", r) \in Takers(s) <=> r = s
    BY <2>1, TouchOp DEF Takers, Touch
  <2>3. \A f1 \in Touch(s) : f1.op # "signal"
    BY TouchOp DEF TouchOps
  <2>4. Hits(b, Takers(s)) = Hits(kids, {s})
    BY <1>8, <1>9, <2>2, <2>3 DEF Hits, Touch
  <2>5. \A r : RefFrame("decr", r) \notin Removers(s) /\ RefFrame("decr", r) \notin Closers(s)
    BY <2>1 DEF Removers, Closers
  <2>6. Hits(b, Removers(s)) = {} /\ Hits(b, Closers(s)) = {}
    BY <1>8, <2>3, <2>5 DEF Hits, Touch
  <2> QED BY <2>4, <2>6, FS_EmptySet DEF Does
<1> QED BY <1>7, <1>10, <1>11

\* A match that is closed has said nothing more: its supports are to be taken.
LEMMA CloseSaid ==
    ASSUME TypeOK, TypeOK', SaidInv, NEW t \in Threads, todo[t] # <<>>, Top(t).op \notin TouchOps,
           NEW m \in MatchRefs, matches[m].open, Close(t, m),
           UNCHANGED <<stmts, index, holds, later, work>>
    PROVE  SaidInv'
<1>1. PICK kids : kids = matches[m].kids
  OBVIOUS
<1>2. kids \in Seq(StmtRefs)
  BY <1>1, MatchFields DEF Match
<1>3. PICK rest : rest = IF matches[m].completed THEN <<>> ELSE <<RefFrame("signal", m)>>
  OBVIOUS
<1>4. PICK b : b = FramesFor("decr", kids) \o rest
  OBVIOUS
<1>5. Then(t, b) /\ matches' = [matches EXCEPT ![m].open = FALSE]
  BY <1>1, <1>3, <1>4 DEF Close
<1>6. /\ \E G : b \in Seq(G)
      /\ \A s : Does(b, s, Cardinality(Hits(kids, {s})), 0, 0)
      /\ \A j \in 1 .. Len(b) : FrameUse(b[j])
  BY <1>2, <1>3, <1>4, DecrFrames
<1>7. PICK a : a = <<Top(t)>>
  OBVIOUS
<1>8. Turns(t, a, b)
  BY <1>5, <1>6, <1>7, ThenTurns
<1>9. ClausesStay /\ StmtRefs' = StmtRefs
  BY UnchangedStay DEF StmtRefs
<1>10. KidsBecome(m, kids, <<>>)
  BY <1>1, <1>5, <1>9, CloseKids
<1>11. \A j \in 1 .. Len(a) : a[j] = Top(t)
  BY <1>7, OneTurn
<1>12. ASSUME NEW s \in Said PROVE Supp(s)'
  <2>1. PICK k, n, r, c \in Nat :
           /\ SaidBy(s, k) /\ Pending(s, n, r, c)
           /\ Level(k, n, r, c, stmts[s].parentCount, stmts[s].open, Here(s))
    BY DEF SaidInv, Supp
  <2>2. PICK h : h = Cardinality(Hits(kids, {s}))
    OBVIOUS
  <2>3. Cardinality(Hits(<<>>, {s})) = 0
    <3>1. Hits(<<>>, {s}) = {}
      BY DEF Hits
    <3> QED BY <3>1, FS_EmptySet
  <2>4. SaidBy(s, k - h + 0)' /\ h \in Nat /\ k - h + 0 \in Nat
    BY <1>10, <2>1, <2>2, <2>3, KidsChange
  <2>5. Does(b, s, h, 0, 0)
    BY <1>6, <2>2
  <2>6. Does(a, s, 0, 0, 0)
    BY <1>11, TouchOp, DoesNothing
  <2>7. stmts[s].parentCount \in Int
    BY SaidClause, StmtFields DEF Stmt
  <2>8. Level(k - h + 0, n - 0 + h, r - 0 + 0, c - 0 + 0,
              stmts[s].parentCount, stmts[s].open, Here(s))
    BY <2>1, <2>4, <2>7 DEF Level
  <2>9. Level(k - h + 0, n - 0 + h, r - 0 + 0, c - 0 + 0,
              stmts'[s].parentCount, stmts'[s].open, Here(s)')
    BY <2>8 DEF Level, Here
  <2> QED BY <1>8, <2>1, <2>4, <2>5, <2>6, <2>9, LevelStep
<1> QED BY <1>6, <1>8, <1>9, <1>12, TouchStep

LEMMA RemoveMatchSaid ==
    ASSUME TypeOK, TypeOK', SaidInv, NEW t \in Threads, RemoveMatch(t) \/ CloseMatch(t), work' = work
    PROVE  SaidInv'
<1> DEFINE m == Top(t).ref
<1>1. At(t, "unmatch") \/ At(t, "closeMatch")
  BY DEF RemoveMatch, CloseMatch
<1>2. "unmatch" \notin TouchOps /\ "closeMatch" \notin TouchOps
  BY DEF TouchOps
<1>3. todo[t] # <<>> /\ Top(t).op \notin TouchOps
  BY <1>1, <1>2 DEF At
<1>4. m \in MatchRefs
  BY <1>1, AtMatch DEF MatchOps
<1>5. UNCHANGED <<stmts, index, holds, later, work>>
  BY DEF RemoveMatch, CloseMatch
<1>6. CASE matches[m].open /\ Close(t, m)
  BY <1>3, <1>4, <1>5, <1>6, CloseSaid
<1>7. \A frames : AllHarmless(frames) /\ Then(t, frames) => Mild(t)
  BY <1>1, <1>2, MildAt
<1>8. /\ AllHarmless(<<>>) /\ AllHarmless(<<RefFrame("markRemoved", m)>>)
      /\ AllHarmless(<<RefFrame("closeMatch", m)>>)
  BY RefHarmless, ShortHarmless DEF TouchOps, UseOps, KeepOps
<1>9. CASE ~(matches[m].open /\ Close(t, m))
  <2>1. Mild(t) /\ matches' = matches
    BY <1>7, <1>8, <1>9 DEF RemoveMatch, CloseMatch
  <2> QED BY <1>5, <2>1, UnchangedStay, StillSame, MildQuietly
<1> QED BY <1>6, <1>9

-----------------------------------------------------------------------------
(* Insertions.                                                             *)

\* A match that gains a child; a closed one keeps saying nothing.
LEMMA ChildKids ==
    ASSUME TypeOK, NEW m \in MatchRefs, NEW s \in StmtRefs, StmtRefs' = StmtRefs,
           matches' = [matches EXCEPT ![m].kids = Append(@, s), ![m].lock = NoThread]
    PROVE  /\ ~matches[m].open => KidsBecome(m, <<>>, <<>>)
           /\ matches[m].open => KidsBecome(m, matches[m].kids, Append(matches[m].kids, s))
<1>1. DOMAIN matches = MatchRefs /\ matches[m] \in Match /\ matches \in Seq(Match)
  BY LensTyped, MatchFields
<1> DEFINE e == [matches[m] EXCEPT !.kids = Append(@, s), !.lock = NoThread]
<1>2. e.open = matches[m].open /\ e.kids = Append(matches[m].kids, s)
  BY <1>1 DEF Match
<1>3. matches' = [matches EXCEPT ![m] = e]
  OBVIOUS
<1> HIDE DEF e
<1>4. matches \in Seq(Match \cup {e})
  BY <1>1, SeqMonotonic
<1>5. Len(matches') = Len(matches)
  BY <1>1, <1>3, <1>4, ExceptSeq DEF MatchRefs
<1>6. MatchRefs' = MatchRefs
  BY <1>5 DEF MatchRefs
<1>7. \A u \in MatchRefs : matches'[u] = IF u = m THEN e ELSE matches[u]
  BY <1>1, <1>3
<1>8. PICK old : old = OpenKids
  OBVIOUS
<1>9. PICK new : new = OpenKids'
  OBVIOUS
<1>10. \A u \in MatchRefs : old[u] = IF matches[u].open THEN matches[u].kids ELSE <<>>
  BY <1>8 DEF OpenKids
<1>11. \A u \in MatchRefs : new[u] = IF matches'[u].open THEN matches'[u].kids ELSE <<>>
  BY <1>6, <1>9 DEF OpenKids
<1>12. \A u \in MatchRefs \ {m} : new[u] = old[u]
  BY <1>7, <1>10, <1>11
<1>13. /\ ~matches[m].open => new[m] = <<>> /\ old[m] = <<>>
       /\ matches[m].open => old[m] = matches[m].kids /\ new[m] = Append(matches[m].kids, s)
  BY <1>2, <1>7, <1>10, <1>11
<1> QED BY <1>6, <1>8, <1>9, <1>12, <1>13 DEF KidsBecome

LEMMA AdoptKids ==
    ASSUME TypeOK, TypeOK', NEW m \in MatchRefs \cup {NoRef}, NEW s \in StmtRefs, StmtRefs' = StmtRefs,
           AddChildAndUnlock(m, s), NEW x, NEW k, SaidBy(x, k)
    PROVE  /\ k \in Nat
           /\ x # s => SaidBy(x, k)'
           /\ x = s => SaidBy(x, k)' \/ SaidBy(x, k + 1)'
<1>1. k \in Nat
  BY DEF SaidBy, HitsAre
<1>2. CASE m = NoRef
  <2>1. KidsStill
    BY <1>2, StillSame DEF AddChildAndUnlock
  <2> QED BY <1>1, <2>1 DEF KidsStill, SameKids
<1>3. CASE m # NoRef
  <2>1. /\ ~matches[m].open => KidsBecome(m, <<>>, <<>>)
        /\ matches[m].open => KidsBecome(m, matches[m].kids, Append(matches[m].kids, s))
    BY <1>3, ChildKids DEF AddChildAndUnlock
  <2>2. CASE ~matches[m].open
    <3>1. PICK h : h = Cardinality(Hits(<<>>, {x}))
      OBVIOUS
    <3>2. SaidBy(x, k - h + h)' /\ h \in Nat
      BY <1>3, <2>1, <2>2, <3>1, KidsChange
    <3>3. k - h + h = k
      BY <1>1, <3>2
    <3> QED BY <1>1, <3>2, <3>3
  <2>3. CASE matches[m].open
    <3>1. PICK kids : kids = matches[m].kids
      OBVIOUS
    <3>2. kids \in Seq(StmtRefs) /\ <<s>> \in Seq(StmtRefs)
      BY <1>3, <3>1, MatchFields, ShortSeqs DEF Match
    <3>3. Append(kids, s) = kids \o <<s>>
      BY <3>2, AppendIsConcat
    <3>4. PICK h : h = Cardinality(Hits(kids, {x}))
      OBVIOUS
    <3>5. PICK g : g = Cardinality(Hits(<<s>>, {x}))
      OBVIOUS
    <3>6. Cardinality(Hits(Append(kids, s), {x})) = h + g
      <4>1. Cardinality(Hits(kids \o <<s>>, {x})) = Cardinality(Hits(kids, {x})) + Cardinality(Hits(<<s>>, {x}))
        <5>1. PICK c : c = <<s>>
          OBVIOUS
        <5>2. PICK X : X = {x}
          OBVIOUS
        <5>3. c \in Seq(StmtRefs)
          BY <3>2, <5>1
        <5>4. Cardinality(Hits(kids \o c, X)) = Cardinality(Hits(kids, X)) + Cardinality(Hits(c, X))
          BY <3>2, <5>3, HitsConcat
        <5> QED BY <5>1, <5>2, <5>4
      <4> QED BY <3>3, <3>4, <3>5, <4>1
    <3>7. g = IF s \in {x} THEN 1 ELSE 0
      BY <3>5, OneHit
    <3>8. KidsBecome(m, kids, Append(kids, s))
      BY <2>1, <2>3, <3>1
    <3>9. SaidBy(x, k - h + (h + g))' /\ h \in Nat
      BY <1>3, <3>4, <3>6, <3>8, KidsChange
    <3>10. g \in Nat
      BY <3>7
    <3>11. k - h + (h + g) = k + g
      BY <1>1, <3>9, <3>10
    <3>12. SaidBy(x, k + g)'
      BY <3>9, <3>11
    <3>13. CASE x # s
      <4>1. g = 0
        BY <3>7, <3>13
      <4>2. k + g = k
        BY <1>1, <4>1
      <4> QED BY <1>1, <3>12, <3>13, <4>2
    <3>14. CASE x = s
      <4>1. g = 1
        BY <3>7, <3>14
      <4> QED BY <1>1, <3>12, <3>14, <4>1
    <3> QED BY <3>13, <3>14
  <2> QED BY <2>2, <2>3
<1> QED BY <1>2, <1>3

\* What is to be inserted: a statement of its clause, when there is one.
LEMMA InsertUse ==
    ASSUME TypeOK, SaidInv, NEW t \in Threads, NEW op \in {"place", "reuse", "adopt"}, At(t, op)
    PROVE  /\ Top(t) \in [op : {"place", "reuse", "adopt"}, clause : Clauses,
                        parent : MatchRefs \cup {NoRef}, keep : {"none", "keep"},
                        version : Versions \cup {NoVersion}, key : Keys \cup {NoKey},
                        old : StmtRefs \cup {NoRef}, ref : StmtRefs \cup {NoRef}]
           /\ Top(t).op = op /\ todo[t] # <<>> /\ FrameUse(Top(t))
           /\ op \in {"reuse", "adopt"} =>
                 /\ Top(t).ref \in StmtRefs /\ stmts[Top(t).ref].clause = Top(t).clause
                 /\ (Top(t).ref \in Said <=> Top(t).clause \in SaidClauses)
                 /\ AllHarmless(HoldSetFrames(Top(t)))
<1>1. PICK f : f = Top(t)
  OBVIOUS
<1>2. f \in Frames /\ f.op = op /\ todo[t] # <<>> /\ FrameUse(f)
  BY <1>1, TopUse DEF At
<1>3. f \in [op : {"place", "reuse", "adopt"}, clause : Clauses,
             parent : MatchRefs \cup {NoRef}, keep : {"none", "keep"},
             version : Versions \cup {NoVersion}, key : Keys \cup {NoKey},
             old : StmtRefs \cup {NoRef}, ref : StmtRefs \cup {NoRef}]
  BY <1>2, FrameFields
<1>4. ASSUME op \in {"reuse", "adopt"}
      PROVE  /\ f.ref \in StmtRefs /\ stmts[f.ref].clause = f.clause
             /\ (f.ref \in Said <=> f.clause \in SaidClauses)
             /\ AllHarmless(HoldSetFrames(f))
  <2>1. f.ref \in RefsOf({f.clause})
    BY <1>2, <1>4 DEF FrameUse
  <2>2. f.ref \in StmtRefs /\ stmts[f.ref].clause = f.clause
    BY <2>1 DEF RefsOf
  <2>3. f.ref \in Said <=> f.clause \in SaidClauses
    BY <2>2 DEF Said, RefsOf
  <2>4. f.old \notin Said /\ (f.clause \in SaidClauses => f.key = NoKey)
    BY <1>2 DEF FrameUse
  <2>5. CASE f.key = NoKey
    <3>1. HoldSetFrames(f) = <<>>
      BY <2>5 DEF HoldSetFrames
    <3> QED BY <2>2, <2>3, <3>1, ShortHarmless
  <2>6. CASE f.key # NoKey
    <3> DEFINE g == [op |-> "holdSet", key |-> f.key, ref |-> f.ref, old |-> f.old]
    <3>1. g.op = "holdSet" /\ g.ref = f.ref /\ g.old = f.old
      OBVIOUS
    <3> HIDE DEF g
    <3>2. FrameUse(g)
      BY <2>3, <2>4, <2>6, <3>1 DEF FrameUse, KeepOps
    <3>3. Harmless(g)
      BY <3>1, <3>2, HarmlessOps DEF Harmless, TouchOps
    <3>4. HoldSetFrames(f) = <<g>>
      BY <2>6 DEF HoldSetFrames, g
    <3>5. AllHarmless(<<g>>)
      BY <3>3, ShortHarmless
    <3> QED BY <2>2, <2>3, <3>4, <3>5
  <2> QED BY <2>5, <2>6
<1> QED BY <1>1, <1>2, <1>3, <1>4

\* The call that hangs a new statement under its parent holds a support of it.
AdoptFrames ==
    [op : {"adopt"}, clause : Clauses, parent : Nat, keep : {"none", "keep"},
     version : Nat, key : Keys \cup {NoKey}, old : Nat, ref : Nat]

LEMMA AdoptTyped ==
    ASSUME NEW f \in [op : {"place", "reuse", "adopt"}, clause : Clauses,
                      parent : MatchRefs \cup {NoRef}, keep : {"none", "keep"},
                      version : Versions \cup {NoVersion}, key : Keys \cup {NoKey},
                      old : StmtRefs \cup {NoRef}, ref : StmtRefs \cup {NoRef}]
    PROVE  /\ f.op = "adopt" => f \in AdoptFrames
           /\ \A r \in Nat : [f EXCEPT !.op = "adopt", !.ref = r] \in AdoptFrames
<1>1. MatchRefs \cup {NoRef} \subseteq Nat /\ Versions \cup {NoVersion} \subseteq Nat
      /\ StmtRefs \cup {NoRef} \subseteq Nat
  BY DEF MatchRefs, StmtRefs, Versions, NoRef, NoVersion
<1> QED BY <1>1 DEF AdoptFrames

LEMMA AdoptTakes ==
    ASSUME NEW f \in AdoptFrames
    PROVE  Does(<<f>>, f.ref, 1, 0, 0)
<1>1. f \in Takers(f.ref)
  BY DEF Takers, AdoptFrames
<1>2. f.op = "adopt"
  BY DEF AdoptFrames
<1>3. f \notin Removers(f.ref) /\ f \notin Closers(f.ref)
  BY <1>2 DEF Removers, Closers, RefFrame
<1>4. /\ One(f \in Takers(f.ref)) = 1 /\ One(f \in Removers(f.ref)) = 0
      /\ One(f \in Closers(f.ref)) = 0
  BY <1>1, <1>3 DEF One
<1>5. Does(<<f>>, f.ref, One(f \in Takers(f.ref)), One(f \in Removers(f.ref)), One(f \in Closers(f.ref)))
  BY DoesOne
<1> QED BY <1>4, <1>5

\* The statement that was found gains a support and is hung under its parent.
LEMMA InsertReuseSaid ==
    ASSUME TypeOK, TypeOK', SaidInv, NEW t \in Threads, InsertReuse(t), work' = work
    PROVE  SaidInv'
<1>1. PICK f : f = Top(t)
  OBVIOUS
<1>2. At(t, "reuse") /\ "reuse" \notin TouchOps
  BY DEF InsertReuse, TouchOps
<1>3. /\ f \in [op : {"place", "reuse", "adopt"}, clause : Clauses,
                parent : MatchRefs \cup {NoRef}, keep : {"none", "keep"},
                version : Versions \cup {NoVersion}, key : Keys \cup {NoKey},
                old : StmtRefs \cup {NoRef}, ref : StmtRefs \cup {NoRef}]
      /\ f.op = "reuse" /\ todo[t] # <<>> /\ FrameUse(f)
      /\ f.ref \in StmtRefs /\ AllHarmless(HoldSetFrames(f))
  BY <1>1, <1>2, InsertUse
<1>4. ClausesStay /\ UNCHANGED <<index, holds, later, work>>
  BY InsertReuseKeeps DEF Keeps, KeepsStmts, ClausesStay, InsertReuse
<1>5. \A frames : AllHarmless(frames) /\ Then(t, frames) => Mild(t)
  BY <1>2, MildAt
<1>6. CASE ~CanReuse(f.ref)
  <2>1. PICK g : g = [f EXCEPT !.op = "place"]
    OBVIOUS
  <2>2. Then(t, <<g>>) /\ stmts' = stmts /\ matches' = matches
    BY <1>1, <1>6, <2>1 DEF InsertReuse
  <2>3. g.op = "place" /\ g.clause = f.clause /\ g.keep = f.keep /\ g.key = f.key /\ g.old = f.old
    BY <1>3, <2>1
  <2>4. FrameUse(g)
    BY <1>3, <2>3 DEF FrameUse, KeepOps
  <2>5. AllHarmless(<<g>>)
    BY <2>3, <2>4, HarmlessOps, ShortHarmless DEF Harmless, TouchOps
  <2> QED BY <1>4, <1>5, <2>2, <2>5, StillSame, MildQuietly
<1>7. CASE CanReuse(f.ref)
  <2>1. PICK s : s = f.ref
    OBVIOUS
  <2>2. PICK b : b = HoldSetFrames(f)
    OBVIOUS
  <2>3. PICK q : q = stmts[s].parentCount
    OBVIOUS
  <2>4. s \in StmtRefs /\ q \in Int /\ stmts[s].open \in BOOLEAN
    BY <1>3, <2>1, <2>3, StmtFields DEF Stmt
  <2>5. stmts[s].open /\ q # 0
    BY <1>7, <2>1, <2>3 DEF CanReuse, Live
  <2>6. Then(t, b) /\ AddChildAndUnlock(f.parent, s) /\ stmts' = [stmts EXCEPT ![s].parentCount = q + 1]
    BY <1>1, <1>7, <2>1, <2>2, <2>3 DEF InsertReuse, IncrParentCount
  <2>7. AllHarmless(b)
    BY <1>3, <2>2
  <2>8. PICK a : a = <<f>>
    OBVIOUS
  <2>9. Turns(t, a, b)
    BY <1>1, <1>3, <2>6, <2>7, <2>8, ThenTurns DEF AllHarmless
  <2>10. \A j \in 1 .. Len(a) : \A x \in Said : a[j] \notin Touch(x)
    <3>1. \A x \in Said : f \notin Touch(x)
      BY <1>2, <1>3, HarmlessOps
    <3> QED BY <2>8, <3>1, OneTurn
  <2>11. \A j \in 1 .. Len(b) : FrameUse(b[j]) /\ \A x \in Said : b[j] \notin Touch(x)
    BY <2>7 DEF AllHarmless, Harmless
  <2>12. f.parent \in MatchRefs \cup {NoRef} /\ StmtRefs' = StmtRefs
    BY <1>3, <1>4, SaidStays
  <2>13. ASSUME NEW x \in Said, x # s PROVE Supp(x)' /\ stmts'[x].keep = stmts[x].keep
    <3>1. x \in StmtRefs /\ Supp(x)
      BY SaidClause DEF SaidInv
    <3>2. StillSaid(x) /\ stmts'[x].keep = stmts[x].keep
      BY <1>4, <2>4, <2>6, <2>13, <3>1, OthersStill
    <3>3. SameKids(x)
      BY <2>4, <2>6, <2>12, <2>13, AdoptKids DEF SameKids
    <3> QED BY <2>9, <2>10, <2>11, <3>1, <3>2, <3>3, SuppStep
  <2>14. ASSUME s \in Said PROVE Supp(s)' /\ stmts'[s].keep = stmts[s].keep
    <3>1. PICK k, n, r, c \in Nat :
             /\ SaidBy(s, k) /\ Pending(s, n, r, c)
             /\ Level(k, n, r, c, stmts[s].parentCount, stmts[s].open, Here(s))
      BY <2>14 DEF SaidInv, Supp
    <3>2. Does(a, s, 0, 0, 0) /\ Does(b, s, 0, 0, 0)
      BY <2>10, <2>11, <2>14, DoesNothing
    <3>3. PICK k2 \in {k, k + 1} : SaidBy(s, k2)'
      BY <2>4, <2>6, <2>12, <3>1, AdoptKids
    <3>4. /\ stmts'[s].parentCount = q + 1 /\ stmts'[s].open = stmts[s].open
          /\ stmts'[s].keep = stmts[s].keep /\ (Here(s)' <=> Here(s))
      BY <1>4, <2>4, <2>6, SameStmt
    <3>5. k + n <= q /\ r = 0 /\ c = 0 /\ Here(s)
      BY <2>3, <2>4, <2>5, <3>1 DEF Level
    <3>6. Level(k2, n - 0 + 0, r - 0 + 0, c - 0 + 0, q + 1, TRUE, TRUE)
      BY <2>4, <3>1, <3>3, <3>5 DEF Level
    <3>7. Level(k2, n - 0 + 0, r - 0 + 0, c - 0 + 0, stmts'[s].parentCount, stmts'[s].open, Here(s)')
      <4>1. stmts'[s].open = TRUE /\ Here(s)' = TRUE
        BY <2>4, <2>5, <3>4, <3>5 DEF Here
      <4> QED BY <3>4, <3>6, <4>1 DEF Level
    <3>8. k2 \in Nat
      BY <3>1, <3>3
    <3> QED BY <2>9, <3>1, <3>2, <3>3, <3>4, <3>7, <3>8, LevelStep
  <2> QED BY <1>4, <2>9, <2>11, <2>13, <2>14, TouchStep
<1> QED BY <1>6, <1>7

\* The new statement's first support becomes its parent's.
LEMMA InsertAdoptSaid ==
    ASSUME TypeOK, TypeOK', SaidInv, NEW t \in Threads, InsertAdopt(t), work' = work
    PROVE  SaidInv'
<1>1. PICK f : f = Top(t)
  OBVIOUS
<1>2. At(t, "adopt")
  BY DEF InsertAdopt
<1>3. /\ f \in [op : {"place", "reuse", "adopt"}, clause : Clauses,
                parent : MatchRefs \cup {NoRef}, keep : {"none", "keep"},
                version : Versions \cup {NoVersion}, key : Keys \cup {NoKey},
                old : StmtRefs \cup {NoRef}, ref : StmtRefs \cup {NoRef}]
      /\ f.op = "adopt" /\ todo[t] # <<>> /\ FrameUse(f)
      /\ f.ref \in StmtRefs /\ AllHarmless(HoldSetFrames(f))
  BY <1>1, <1>2, InsertUse
<1>4. ClausesStay /\ UNCHANGED <<index, stmts, holds, later, work>>
  BY UnchangedStay DEF InsertAdopt
<1>5. CASE ~Live(f.ref)
  <2>1. todo' = todo /\ matches' = matches
    BY <1>1, <1>5 DEF InsertAdopt
  <2> QED BY <1>4, <2>1, MildSame, StillSame, MildQuietly
<1>6. CASE Live(f.ref)
  <2>1. PICK s : s = f.ref
    OBVIOUS
  <2>2. PICK b : b = HoldSetFrames(f) \o <<RefFrame("react", s)>>
    OBVIOUS
  <2>3. Then(t, b) /\ AddChildAndUnlock(f.parent, s)
    BY <1>1, <1>6, <2>1, <2>2 DEF InsertAdopt
  <2>4. AllHarmless(b)
    <3>1. AllHarmless(<<RefFrame("react", s)>>)
      BY RefHarmless, ShortHarmless DEF TouchOps, UseOps, KeepOps
    <3> QED BY <1>3, <2>2, <3>1, HarmlessConcat
  <2>5. PICK a : a = <<f>>
    OBVIOUS
  <2>6. Turns(t, a, b)
    BY <1>1, <1>3, <2>3, <2>4, <2>5, ThenTurns DEF AllHarmless
  <2>7. \A j \in 1 .. Len(b) : FrameUse(b[j]) /\ \A x \in Said : b[j] \notin Touch(x)
    BY <2>4 DEF AllHarmless, Harmless
  <2>8. f.parent \in MatchRefs \cup {NoRef} /\ StmtRefs' = StmtRefs /\ s \in StmtRefs
    BY <1>3, <1>4, <2>1, SaidStays
  <2>9. ASSUME NEW x \in Said, x # s PROVE Supp(x)'
    <3>1. Supp(x)
      BY DEF SaidInv
    <3>2. StillSaid(x)
      BY <1>4 DEF StillSaid, Here
    <3>3. SameKids(x)
      BY <2>3, <2>8, <2>9, AdoptKids DEF SameKids
    <3>4. f \notin Touch(x)
      BY <2>1, <2>9, TouchOp
    <3>5. \A j \in 1 .. Len(a) : a[j] \notin Touch(x)
      BY <2>5, <3>4, OneTurn
    <3> QED BY <2>6, <2>7, <3>1, <3>2, <3>3, <3>5, SuppStep
  <2>10. ASSUME s \in Said PROVE Supp(s)'
    <3>1. PICK k, n, r, c \in Nat :
             /\ SaidBy(s, k) /\ Pending(s, n, r, c)
             /\ Level(k, n, r, c, stmts[s].parentCount, stmts[s].open, Here(s))
      BY <2>10 DEF SaidInv, Supp
    <3>2. Does(a, s, 1, 0, 0)
      <4>1. f \in AdoptFrames
        BY <1>3, AdoptTyped
      <4> QED BY <2>1, <2>5, <4>1, AdoptTakes
    <3>3. Does(b, s, 0, 0, 0)
      BY <2>7, <2>10, DoesNothing
    <3>4. n - 1 + 0 \in Nat
      BY <2>6, <3>1, <3>2, <3>3, PendingStep
    <3>5. PICK k2 \in {k, k + 1} : SaidBy(s, k2)'
      BY <2>3, <2>8, <3>1, AdoptKids
    <3>6. stmts[s].parentCount \in Int
      BY <2>8, StmtFields DEF Stmt
    <3>7. Level(k2, n - 1 + 0, r - 0 + 0, c - 0 + 0, stmts[s].parentCount, stmts[s].open, Here(s))
      BY <3>1, <3>4, <3>5, <3>6, LevelAdopts
    <3>8. Level(k2, n - 1 + 0, r - 0 + 0, c - 0 + 0, stmts'[s].parentCount, stmts'[s].open, Here(s)')
      BY <1>4, <3>7 DEF Level, Here
    <3>9. k2 \in Nat
      BY <3>1, <3>5
    <3> QED BY <2>6, <3>1, <3>2, <3>3, <3>5, <3>8, <3>9, LevelStep
  <2> QED BY <1>4, <2>6, <2>7, <2>9, <2>10, TouchStep
<1> QED BY <1>5, <1>6

\* A new statement that says c.
NewStmt(new, c, keep) ==
    /\ new = Len(stmts) + 1 /\ new \in Nat /\ new # NoRef /\ new \notin StmtRefs
    /\ StmtRefs' = StmtRefs \cup {new}
    /\ \A s \in StmtRefs : stmts'[s] = stmts[s]
    /\ stmts'[new].clause = c /\ stmts'[new].keep = keep
    /\ stmts'[new].parentCount = 1 /\ stmts'[new].open = TRUE

LEMMA AppendNew ==
    ASSUME TypeOK, NEW e, stmts' = Append(stmts, e), e.parentCount = 1, e.open = TRUE
    PROVE  NewStmt(Len(stmts) + 1, e.clause, e.keep)
<1>1. stmts \in Seq(Stmt \cup {e}) /\ Len(stmts) \in Nat
  BY LensTyped, SeqMonotonic
<1>2. /\ Len(stmts') = Len(stmts) + 1 /\ stmts'[Len(stmts) + 1] = e
      /\ \A s \in 1 .. Len(stmts) : stmts'[s] = stmts[s]
  BY <1>1, AppendProperties
<1>3. StmtRefs' = StmtRefs \cup {Len(stmts) + 1} /\ Len(stmts) + 1 \notin StmtRefs
  BY <1>1, <1>2 DEF StmtRefs
<1>4. Len(stmts) + 1 \in Nat /\ Len(stmts) + 1 # NoRef
  BY <1>1 DEF NoRef
<1> QED BY <1>2, <1>3, <1>4 DEF NewStmt, StmtRefs

LEMMA NewSaid ==
    ASSUME TypeOK, NEW new, NEW c, NEW keep, NewStmt(new, c, keep)
    PROVE  /\ \A x : x # new => (x \in Said' <=> x \in Said)
           /\ new \in Said' <=> c \in SaidClauses
           /\ new \notin Said
           /\ \A cs : RefsOf(cs) \subseteq RefsOf(cs)' /\ (c \in cs => new \in RefsOf(cs)')
<1>1. \A cs : \A x : x \in RefsOf(cs)' <=> (x \in RefsOf(cs) \/ (x = new /\ c \in cs))
  BY DEF RefsOf, NewStmt
<1>2. \A cs : new \notin RefsOf(cs)
  BY DEF RefsOf, NewStmt
<1>3. \A x : x \in Said' <=> (x \in Said \/ (x = new /\ c \in SaidClauses))
  BY <1>1 DEF Said
<1>4. new \notin Said
  BY <1>2 DEF Said
<1> QED BY <1>1, <1>3, <1>4

\* The frames on the stacks are not about it.
LEMMA OldFrames ==
    ASSUME TypeOK, NEW h \in Frames, NEW new, NEW c, NEW keep, NewStmt(new, c, keep)
    PROVE  /\ FrameUse(h) => FrameUse(h)'
           /\ h \notin Touch(new)
<1>1. /\ h.op \in KeepOps => h.ref \in StmtRefs
      /\ h.op \in {"place", "reuse", "adopt"} => h.old \in StmtRefs \cup {NoRef}
                                                 /\ h.ref \in StmtRefs \cup {NoRef}
      /\ h.op = "holdSet" => h.ref \in StmtRefs /\ h.old \in StmtRefs \cup {NoRef}
      /\ h.op \in {"decr", "removeSelf", "close"} => h.ref \in StmtRefs
  BY FrameFields DEF KeepOps, StmtOps
<1>2. new \notin StmtRefs /\ new # NoRef
  BY DEF NewStmt
<1>3. ASSUME FrameUse(h) PROVE FrameUse(h)'
  <2>1. h.op \in KeepOps => h.ref \notin Said'
    BY <1>1, <1>2, <1>3, NewSaid DEF FrameUse
  <2>2. h.op \in {"place", "reuse", "adopt"} =>
           /\ h.clause \in SaidClauses => h.keep = "none" /\ h.key = NoKey
           /\ h.old \notin Said'
    BY <1>1, <1>2, <1>3, NewSaid DEF FrameUse
  <2>3. h.op \in {"reuse", "adopt"} => h.ref \in RefsOf({h.clause})'
    <3>1. PICK cs : cs = {h.clause}
      OBVIOUS
    <3>2. h.op \in {"reuse", "adopt"} => h.ref \in RefsOf(cs)
      BY <1>3, <3>1 DEF FrameUse
    <3>3. h.op \in {"reuse", "adopt"} => h.ref \in RefsOf(cs)'
      BY <3>2, NewSaid
    <3> QED BY <3>1, <3>3
  <2>4. h.op = "holdSet" => h.ref \notin Said' /\ h.old \notin Said'
    BY <1>1, <1>2, <1>3, NewSaid DEF FrameUse
  <2>5. h.op \in {"command", "eval"} => h.cmd \in AllCommands
    BY <1>3 DEF FrameUse
  <2> QED BY <2>1, <2>2, <2>3, <2>4, <2>5 DEF FrameUse
<1>4. h \notin Touch(new)
  BY <1>1, <1>2, TouchOp DEF TouchOps
<1> QED BY <1>3, <1>4

\* Nobody knows the new statement yet.
LEMMA NewUnknown ==
    ASSUME TypeOK, NEW new, NEW c, NEW keep, NewStmt(new, c, keep)
    PROVE  SaidBy(new, 0) /\ Pending(new, 0, 0, 0)
<1>1. new \notin StmtRefs
  BY DEF NewStmt
<1>2. KidsTyped
  BY OpenKidsTyped
<1>3. \A m \in DOMAIN OpenKids : \A i \in DOMAIN OpenKids[m] : OpenKids[m][i] \in StmtRefs
  <2>1. PICK old : old = OpenKids
    OBVIOUS
  <2>2. old \in [MatchRefs -> Seq(StmtRefs)]
    BY <1>2, <2>1 DEF KidsTyped
  <2>3. \A m \in DOMAIN old : \A i \in DOMAIN old[m] : old[m][i] \in StmtRefs
    BY <2>2
  <2> QED BY <2>1, <2>3
<1>4. AllHits(OpenKids, {new}) = {}
  BY <1>1, <1>3 DEF AllHits
<1>5. \A t \in DOMAIN todo : \A i \in DOMAIN todo[t] : todo[t][i] \in Frames
  BY DEF TypeOK
<1>6. \A t \in DOMAIN todo : \A i \in DOMAIN todo[t] : todo[t][i] \notin Touch(new)
  BY <1>5, OldFrames
<1>7. ASSUME NEW S, S \subseteq Touch(new) PROVE AllHits(todo, S) = {}
  BY <1>6, <1>7 DEF AllHits
<1>8. /\ Takers(new) \subseteq Touch(new) /\ Removers(new) \subseteq Touch(new)
      /\ Closers(new) \subseteq Touch(new)
  BY DEF Touch
<1>9. /\ AllHits(todo, Takers(new)) = {} /\ AllHits(todo, Removers(new)) = {}
      /\ AllHits(todo, Closers(new)) = {}
  BY <1>7, <1>8
<1>10. \A stacks, S : AllHits(stacks, S) = {} => HitsAre(stacks, S, 0)
  BY FS_EmptySet DEF HitsAre
<1> QED BY <1>4, <1>9, <1>10 DEF SaidBy, Pending

\* The frame goes on with the reference that was found or made.
LEMMA PlaceFrames ==
    ASSUME NEW f \in [op : {"place", "reuse", "adopt"}, clause : Clauses,
                      parent : MatchRefs \cup {NoRef}, keep : {"none", "keep"},
                      version : Versions \cup {NoVersion}, key : Keys \cup {NoKey},
                      old : StmtRefs \cup {NoRef}, ref : StmtRefs \cup {NoRef}],
           NEW r, NEW g, NEW op, op \in {"reuse", "adopt"}, g = [f EXCEPT !.op = op, !.ref = r]
    PROVE  /\ g.op = op /\ g.ref = r /\ g.clause = f.clause /\ g.keep = f.keep
           /\ g.key = f.key /\ g.old = f.old
OBVIOUS

LEMMA PlaceFound ==
    ASSUME TypeOK, TypeOK', SaidInv, NEW t \in Threads, InsertPlace(t), work' = work,
           Present(Top(t).clause)
    PROVE  SaidInv'
<1>1. PICK f : f = Top(t)
  OBVIOUS
<1>2. At(t, "place") /\ "place" \notin TouchOps
  BY DEF InsertPlace, TouchOps
<1>3. /\ f \in [op : {"place", "reuse", "adopt"}, clause : Clauses,
                parent : MatchRefs \cup {NoRef}, keep : {"none", "keep"},
                version : Versions \cup {NoVersion}, key : Keys \cup {NoKey},
                old : StmtRefs \cup {NoRef}, ref : StmtRefs \cup {NoRef}]
      /\ f.op = "place" /\ todo[t] # <<>> /\ FrameUse(f)
  BY <1>1, <1>2, InsertUse
<1>4. PICK r : r = index[f.clause]
  OBVIOUS
<1>5. PICK g : g = [f EXCEPT !.op = "reuse", !.ref = r]
  OBVIOUS
<1>6. Then(t, <<g>>) /\ UNCHANGED <<stmts, index, matches, holds, later>>
  BY <1>1, <1>4, <1>5 DEF InsertPlace
<1>7. r \in RefsOf({f.clause})
  BY <1>1, <1>4 DEF TypeOK, DbTypeOK, Present
<1>8. /\ g.op = "reuse" /\ g.ref = r /\ g.clause = f.clause /\ g.keep = f.keep
      /\ g.key = f.key /\ g.old = f.old
  BY <1>3, <1>5, PlaceFrames
<1>9. FrameUse(g)
  BY <1>3, <1>7, <1>8 DEF FrameUse, KeepOps
<1>10. AllHarmless(<<g>>)
  BY <1>8, <1>9, HarmlessOps, ShortHarmless DEF Harmless, TouchOps
<1>11. Mild(t)
  BY <1>2, <1>6, <1>10, MildAt
<1> QED BY <1>6, <1>11, UnchangedStay, StillSame, MildQuietly

\* A new statement has one support, and the index finds it.
LEMMA PlaceNew ==
    ASSUME TypeOK, TypeOK', SaidInv, NEW t \in Threads, InsertPlace(t), work' = work,
           ~Present(Top(t).clause)
    PROVE  SaidInv'
<1>1. PICK f : f = Top(t)
  OBVIOUS
<1>2. At(t, "place") /\ "place" \notin TouchOps
  BY DEF InsertPlace, TouchOps
<1>3. /\ f \in [op : {"place", "reuse", "adopt"}, clause : Clauses,
                parent : MatchRefs \cup {NoRef}, keep : {"none", "keep"},
                version : Versions \cup {NoVersion}, key : Keys \cup {NoKey},
                old : StmtRefs \cup {NoRef}, ref : StmtRefs \cup {NoRef}]
      /\ f.op = "place" /\ todo[t] # <<>> /\ FrameUse(f)
  BY <1>1, <1>2, InsertUse
<1>4. PICK new : new = Len(stmts) + 1
  OBVIOUS
<1>5. PICK g : g = [f EXCEPT !.op = "adopt", !.ref = new]
  OBVIOUS
<1>6. PICK e : e = [clause |-> f.clause, parentCount |-> 1, keep |-> f.keep,
                    version |-> f.version, lock |-> NoThread, open |-> TRUE, kids |-> <<>>]
  OBVIOUS
<1>7. /\ Then(t, <<g>>) /\ stmts' = Append(stmts, e) /\ index' = Extend(index, f.clause, new)
      /\ UNCHANGED <<matches, holds, later>>
  BY <1>1, <1>4, <1>5, <1>6 DEF InsertPlace
<1>8. e.clause = f.clause /\ e.keep = f.keep /\ e.parentCount = 1 /\ e.open = TRUE
  BY <1>6
<1>9. NewStmt(new, f.clause, f.keep)
  BY <1>4, <1>7, <1>8, AppendNew
<1>10. /\ \A x : x # new => (x \in Said' <=> x \in Said)
       /\ new \in Said' <=> f.clause \in SaidClauses
       /\ new \notin Said
  BY <1>9, NewSaid
<1>11. new \notin StmtRefs /\ new # NoRef /\ new \in Nat
  BY <1>9 DEF NewStmt
<1>12. PICK a : a = <<f>>
  OBVIOUS
<1>13. PICK b : b = <<g>>
  OBVIOUS
<1>14. /\ \A j \in 1 .. Len(a) : a[j] = f
       /\ \A j \in 1 .. Len(b) : b[j] = g
       /\ \E G : b \in Seq(G)
  BY <1>12, <1>13, OneTurn
<1>15. Turns(t, a, b)
  BY <1>1, <1>3, <1>7, <1>12, <1>13, <1>14, ThenTurns
<1>16. /\ g.op = "adopt" /\ g.ref = new /\ g.clause = f.clause /\ g.keep = f.keep
       /\ g.key = f.key /\ g.old = f.old
  BY <1>3, <1>5, PlaceFrames
<1>17. FrameUse(g)'
  <2>1. f.old \in StmtRefs \cup {NoRef}
    BY <1>3
  <2>2. g.old \notin Said' /\ (g.clause \in SaidClauses => g.keep = "none" /\ g.key = NoKey)
    BY <1>3, <1>10, <1>11, <1>16, <2>1 DEF FrameUse
  <2>3. new \in RefsOf({f.clause})'
    BY <1>9, NewSaid
  <2> QED BY <1>16, <2>2, <2>3 DEF FrameUse, KeepOps
<1>18. UseStacks'
  <2>1. ASSUME NEW u \in Threads, NEW i \in 1 .. Len(todo'[u])
        PROVE  todo'[u][i] = g \/ \E j \in 1 .. Len(todo[u]) : todo'[u][i] = todo[u][j]
    <3>1. CASE u = t
      BY <1>14, <1>15, <2>1, <3>1, TurnsFrames
    <3>2. CASE u # t
      BY <1>15, <2>1, <3>2 DEF Turns, Moves
    <3> QED BY <3>1, <3>2
  <2>2. \A u \in Threads : \A j \in 1 .. Len(todo[u]) : todo[u][j] \in Frames /\ FrameUse(todo[u][j])
    <3>1. \A u \in Threads : \A j \in 1 .. Len(todo[u]) : todo[u][j] \in Frames
      BY ElementOfSeq DEF TypeOK
    <3> QED BY <3>1 DEF SaidInv, UseInv, UseStacks
  <2>3. ASSUME NEW h \in Frames, FrameUse(h) PROVE FrameUse(h)'
    BY <1>9, <2>3, OldFrames
  <2>4. ASSUME NEW u \in Threads, NEW i \in 1 .. Len(todo'[u]), NEW h, h = todo'[u][i]
        PROVE  FrameUse(h)'
    <3>1. CASE h = g
      BY <1>17, <3>1
    <3>2. CASE h # g
      <4>1. h \in Frames /\ FrameUse(h)
        BY <2>1, <2>2, <2>4, <3>2
      <4> QED BY <2>3, <4>1
    <3> QED BY <3>1, <3>2
  <2> QED BY <2>4 DEF UseStacks, FrameUse
<1>19. UseWork'
  BY DEF SaidInv, UseInv, UseWork
<1>20. UseLater'
  <2>1. \A i \in 1 .. LaterSlots : later[i].stmt \in StmtRefs \cup {NoRef}
    BY DEF TypeOK, DbTypeOK, Later
  <2>2. \A i \in 1 .. LaterSlots : later[i].stmt # new
    BY <1>11, <2>1
  <2> QED BY <1>7, <1>10, <2>2 DEF SaidInv, UseInv, UseLater
<1>21. UseHolds'
  <2>1. \A k \in DOMAIN holds : holds[k].statement \in StmtRefs \cup {NoRef}
    BY DEF TypeOK, DbTypeOK, Hold
  <2>2. \A k \in DOMAIN holds : holds[k].statement # new
    BY <1>11, <2>1
  <2> QED BY <1>7, <1>10, <2>2 DEF SaidInv, UseInv, UseHolds
<1>22. UseKeep'
  <2>1. ASSUME NEW s \in Said' PROVE stmts'[s].keep = "none"
    <3>1. CASE s = new
      BY <1>3, <1>9, <1>10, <2>1, <3>1 DEF NewStmt, FrameUse
    <3>2. CASE s # new
      <4>1. s \in Said /\ s \in StmtRefs
        BY <1>10, <2>1, <3>2, SaidClause
      <4> QED BY <1>9, <4>1 DEF NewStmt, SaidInv, UseInv, UseKeep
    <3> QED BY <3>1, <3>2
  <2> QED BY <2>1 DEF UseKeep
<1>23. KidsStill
  BY <1>7, StillSame
<1>24. f.clause \notin DOMAIN index /\ DOMAIN index' = DOMAIN index \cup {f.clause}
       /\ index'[f.clause] = new /\ \A c \in DOMAIN index : index'[c] = index[c]
  BY <1>1, <1>7 DEF Present, Extend
<1>25. ASSUME NEW s \in Said PROVE Supp(s)'
  <2>1. s \in StmtRefs /\ s # new /\ Supp(s)
    BY <1>10, SaidClause DEF SaidInv
  <2>2. stmts'[s] = stmts[s]
    BY <1>9, <2>1 DEF NewStmt
  <2>3. Here(s)' <=> Here(s)
    BY <1>24, <2>1, <2>2 DEF Here
  <2>4. StillSaid(s)
    BY <2>2, <2>3 DEF StillSaid
  <2>5. f \notin Touch(s) /\ g \notin Touch(s)
    BY <1>2, <1>3, <1>16, <2>1, TouchOp
  <2> QED BY <1>14, <1>15, <1>23, <2>1, <2>4, <2>5, SuppStep DEF KidsStill
<1>26. Supp(new)'
  <2>1. SaidBy(new, 0) /\ Pending(new, 0, 0, 0)
    BY <1>9, NewUnknown
  <2>2. SaidBy(new, 0)'
    BY <1>23, <2>1 DEF KidsStill, SameKids
  <2>3. f \notin Touch(new)
    BY <1>2, <1>3, TouchOp
  <2>4. Does(a, new, 0, 0, 0)
    BY <1>14, <2>3, DoesNothing
  <2>5. Does(b, new, 1, 0, 0)
    <3>1. g \in AdoptFrames
      BY <1>3, <1>5, <1>11, AdoptTyped
    <3> QED BY <1>13, <1>16, <3>1, AdoptTakes
  <2>6. Here(new)'
    BY <1>9, <1>24 DEF Here, NewStmt
  <2>7. Level(0, 0 - 0 + 1, 0 - 0 + 0, 0 - 0 + 0, stmts'[new].parentCount, stmts'[new].open, Here(new)')
    BY <1>9, <2>6 DEF Level, NewStmt
  <2>8. 0 \in Nat
    OBVIOUS
  <2> QED BY <1>15, <2>1, <2>2, <2>4, <2>5, <2>7, <2>8, LevelStep
<1>27. \A s \in Said' : Supp(s)'
  BY <1>10, <1>25, <1>26
<1> QED BY <1>18, <1>19, <1>20, <1>21, <1>22, <1>27 DEF SaidInv, UseInv

LEMMA InsertPlaceSaid ==
    ASSUME TypeOK, TypeOK', SaidInv, NEW t \in Threads, InsertPlace(t), work' = work
    PROVE  SaidInv'
BY PlaceFound, PlaceNew

-----------------------------------------------------------------------------
(* All steps.                                                              *)

\* Nothing is said at first.
LEMMA InitSaid == Init => SaidInv
<1> SUFFICES ASSUME Init PROVE SaidInv
  OBVIOUS
<1>1. PICK program \in Programs : work = SetToBag(program)
  BY DEF Init
<1>2. stmts = <<>> /\ todo = [t \in Threads |-> <<>>]
  BY DEF Init, DbInit
<1>3. Said = {}
  BY <1>2 DEF Said, RefsOf, StmtRefs
<1>4. BagToSet(work) = program
  BY <1>1 DEF SetToBag, BagToSet
<1>5. program \subseteq AllCommands
  BY DEF AllCommands
<1>6. UseWork
  BY <1>4, <1>5 DEF UseWork
<1>7. UseStacks
  BY <1>2 DEF UseStacks
<1> QED BY <1>3, <1>6, <1>7 DEF SaidInv, UseInv, UseLater, UseHolds, UseKeep

\* The steps of one thread, by what it does.
LEMMA StepSaid ==
    ASSUME TypeOK, TypeOK', EvaluatorInv, SaidInv, NEW t \in Threads, Step(t)
    PROVE  SaidInv'
<1>1. Stacks
  BY DEF EvaluatorInv, BodiesInv
<1>2. CASE (InsertPlace(t) \/ InsertReuse(t) \/ InsertAdopt(t)) /\ work' = work
  BY <1>2, InsertPlaceSaid, InsertReuseSaid, InsertAdoptSaid
<1>3. CASE (Decr(t) \/ DecrKept(t) \/ DecrScheduled(t) \/ RemoveSelf(t) \/ CloseStatement(t))
           /\ work' = work
  BY <1>3, DecrSaid, DecrThenSaid, RemoveSelfSaid, CloseStatementSaid
<1>4. CASE (TestAgain(t) \/ NegateKeep(t) \/ StoreKeep(t) \/ RecountKept(t) \/ RetractOne(t))
           /\ work' = work
  BY <1>4, KeepSaid
<1>5. CASE (ScheduleRemove(t) \/ SetDue(t) \/ ClearEntry(t) \/ HoldSet(t)) /\ work' = work
  BY <1>5, LaterSaid, HoldSetSaid
<1>6. CASE (RemoveMatch(t) \/ CloseMatch(t) \/ MarkRemoved(t) \/ SignalWorker(t)) /\ work' = work
  BY <1>6, RemoveMatchSaid, MatchSaid
<1>7. CASE AtomicallyStep(t) /\ work' = work
  BY <1>7, AtomicallySaid
<1>8. CASE RunSay(t) \/ RunHold(t) \/ RunFresh(t) \/ RunPush(t) \/ RunSerially(t) \/ Notify(t)
           \/ Interrupted(t)
  BY <1>1, <1>8, RunSaySaid, RunHoldSaid, RunFreshSaid, RunPushSaid, RunSeriallySaid, NotifySaid,
     InterruptedSaid
<1>9. CASE ReactAsWhen(t) \/ ReactAsStmt(t) \/ LockStmt(t) \/ EndBody(t) \/ MatchCompleted(t)
  BY <1>1, <1>9, ReactSaid, LockStmtSaid, EndBodySaid
<1> QED BY <1>2, <1>3, <1>4, <1>5, <1>6, <1>7, <1>8, <1>9 DEF Step, DbStep

LEMMA WorkerTakesSaid ==
    ASSUME TypeOK, TypeOK', SaidInv, NEW t \in Threads, WorkerTakes(t)
    PROVE  SaidInv'
<1>1. PICK item \in BagToSet(work) :
        \/ TakeAssert(t, item)
        \/ TakeRetract(t, item)
        \/ TakeEval(t, item)
        \/ TakeSubscribe(t, item)
        \/ SkipItem(t, item)
        \/ TakeRunWhen(t, item)
  BY DEF WorkerTakes
<1> QED BY <1>1, TakeAssertSaid, TakeRetractSaid, TakeEvalSaid, TakeSubscribeSaid, SkipItemSaid,
           TakeRunWhenSaid

\* Every step keeps SaidInv.
LEMMA NextSaid ==
    ASSUME TypeOK, EvaluatorInv, SaidInv, [Next]_vars
    PROVE  SaidInv'
<1>1. TypeOK'
  BY NextTypeOK
<1>2. CASE \E t \in Threads : Step(t)
  BY <1>1, <1>2, StepSaid
<1>3. CASE \E t \in Workers : WorkerTakes(t)
  BY <1>1, <1>3, WorkerTakesSaid DEF Threads
<1>4. CASE SysmonTick
  BY <1>1, <1>4, SysmonTickSaid
<1>5. CASE UNCHANGED vars
  <2>1. Sysmon \in Threads
    BY DEF Threads
  <2>2. UNCHANGED <<stmts, index, matches, todo, holds, later, work>>
    BY <1>5 DEF vars
  <2>3. Mild(Sysmon)
    BY <2>1, <2>2, MildSame
  <2> QED BY <1>1, <2>1, <2>2, <2>3, UnchangedStay, StillSame, MildQuietly
<1> QED BY <1>2, <1>3, <1>4, <1>5 DEF Next, Stopped

\* A child of an open match is a place among the children.
LEMMA SupporterHits ==
    ASSUME TypeOK, NEW s, Supporters(s) # {}, NEW k, SaidBy(s, k)
    PROVE  k > 0
<1>1. PICK m \in DOMAIN matches : matches[m].open /\ s \in ToSet(matches[m].kids)
  BY DEF Supporters
<1>2. m \in MatchRefs /\ matches[m].kids \in Seq(StmtRefs)
  <2>1. m \in MatchRefs
    BY LensTyped
  <2> QED BY <2>1, MatchFields DEF Match
<1>3. PICK i \in DOMAIN matches[m].kids : matches[m].kids[i] = s
  BY <1>1, <1>2 DEF ToSet
<1>4. PICK old : old = OpenKids
  OBVIOUS
<1>5. DOMAIN old = MatchRefs /\ old[m] = matches[m].kids
  BY <1>1, <1>2, <1>4 DEF OpenKids
<1>6. <<m, i>> \in AllHits(old, {s})
  BY <1>2, <1>3, <1>5 DEF AllHits
<1>7. k \in Nat /\ IsFiniteSet(AllHits(old, {s})) /\ Cardinality(AllHits(old, {s})) = k
  BY <1>4 DEF SaidBy, HitsAre
<1>8. k # 0
  BY <1>6, <1>7, FS_EmptySet
<1> QED BY <1>7, <1>8

LEMMA SaidInvIndexes ==
    ASSUME TypeOK, SaidInv
    PROVE  SaidIsIndexed
<1> SUFFICES ASSUME NEW s \in RefsOf(SaidClauses)
             PROVE  /\ Supporters(s) # {} => stmts[s].open /\ stmts[s].parentCount > 0
                    /\ stmts[s].open /\ stmts[s].parentCount > 0 => Here(s)
  BY DEF SaidIsIndexed, Here
<1>1. s \in Said /\ s \in StmtRefs
  BY DEF Said, RefsOf
<1>2. stmts[s].parentCount \in Int
  BY <1>1, StmtFields DEF Stmt
<1>3. PICK k, n, r, c \in Nat :
         /\ SaidBy(s, k) /\ Pending(s, n, r, c)
         /\ Level(k, n, r, c, stmts[s].parentCount, stmts[s].open, Here(s))
  BY <1>1 DEF SaidInv, Supp
<1>4. ASSUME Supporters(s) # {} PROVE stmts[s].open /\ stmts[s].parentCount > 0
  <2>1. k > 0
    BY <1>3, <1>4, SupporterHits
  <2> QED BY <1>2, <1>3, <2>1 DEF Level
<1>5. ASSUME stmts[s].open, stmts[s].parentCount > 0 PROVE Here(s)
  BY <1>2, <1>3, <1>5 DEF Level
<1> QED BY <1>4, <1>5

\* Let a clause be only said and asserted, and let it stand alone: it neither starts
\* with all of another clause nor is the start of one (trieRemove of a clause takes out
\* such relatives of it too).  Whatever the programs do besides, with whatever other
\* clauses, and however the threads interleave, a statement of the clause is alive and
\* counted as long as a live match has said it, and while it is counted the index finds
\* it by its clause.
THEOREM SaidIsIndexedCorrect == Spec => []SaidIsIndexed
<1>1. TypeOK /\ EvaluatorInv /\ SaidInv /\ [Next]_vars => SaidInv'
  BY NextSaid
<1>2. TypeOK /\ SaidInv => SaidIsIndexed
  BY SaidInvIndexes
<1> QED BY <1>1, <1>2, InitSaid, EvaluatorInvariant, PTL DEF Spec

-----------------------------------------------------------------------------
(* The assertions of db.c.                                                 *)

\* The innermost call of a thread is a place on the stacks.
LEMMA TopHits ==
    ASSUME TypeOK, NEW t \in Threads, todo[t] # <<>>, NEW S, Top(t) \in S, NEW n, HitsAre(todo, S, n)
    PROVE  n > 0
<1>1. todo[t] \in Seq(Frames) /\ DOMAIN todo = Threads
  BY DEF TypeOK
<1>2. 1 \in DOMAIN todo[t] /\ todo[t][1] = Top(t)
  BY <1>1, EmptySeq, LenProperties DEF Top
<1>3. <<t, 1>> \in AllHits(todo, S)
  BY <1>1, <1>2 DEF AllHits
<1>4. n \in Nat /\ IsFiniteSet(AllHits(todo, S)) /\ Cardinality(AllHits(todo, S)) = n
  BY DEF HitsAre
<1>5. n # 0
  BY <1>3, <1>4, FS_EmptySet
<1> QED BY <1>4, <1>5

\* What db.c asserts of a statement holds of one that is only said.
LEMMA SaidAsserts ==
    ASSUME TypeOK, SaidInv, NEW t \in Threads, todo[t] # <<>>, NEW s \in Said, Top(t).ref = s
    PROVE  /\ At(t, "adopt") => Live(s)
           /\ At(t, "removeSelf") => stmts[s].parentCount = 0
           /\ At(t, "close") => stmts[s].open
<1>1. PICK k, n, r, c \in Nat :
         /\ SaidBy(s, k) /\ Pending(s, n, r, c)
         /\ Level(k, n, r, c, stmts[s].parentCount, stmts[s].open, Here(s))
  BY DEF SaidInv, Supp
<1>2. s \in StmtRefs /\ s # NoRef
  BY SaidClause DEF StmtRefs, NoRef
<1>3. stmts[s].parentCount \in Int
  BY <1>2, StmtFields DEF Stmt
<1>4. ASSUME At(t, "adopt") PROVE Live(s)
  <2>1. Top(t) \in AdoptFrames
    BY <1>4, InsertUse, AdoptTyped
  <2>2. Top(t) \in Takers(s)
    BY <2>1 DEF Takers, AdoptFrames
  <2>3. n > 0
    BY <1>1, <2>2, TopHits DEF Pending
  <2>4. stmts[s].open
    BY <1>1, <1>3, <2>3 DEF Level
  <2> QED BY <1>2, <2>4 DEF Live
<1>5. ASSUME At(t, "removeSelf") PROVE stmts[s].parentCount = 0
  <2>1. Top(t) \in Removers(s)
    BY <1>5, AtRef DEF StmtOps, Removers
  <2>2. r > 0
    BY <1>1, <2>1, TopHits DEF Pending
  <2> QED BY <1>1, <2>2 DEF Level
<1>6. ASSUME At(t, "close") PROVE stmts[s].open
  <2>1. Top(t) \in Closers(s)
    BY <1>6, AtRef DEF StmtOps, Closers
  <2>2. c > 0
    BY <1>1, <2>1, TopHits DEF Pending
  <2> QED BY <1>1, <2>2 DEF Level
<1> QED BY <1>4, <1>5, <1>6

\* What ends the process, at the call that does: the assertions of db.c, the NULL that
\* dbRetractStatements follows, and the lack of a free entry of the remove-later table.
Fails(t) ==
    \/ At(t, "adopt") /\ ~Live(Top(t).ref)
    \/ At(t, "removeSelf") /\ stmts[Top(t).ref].parentCount # 0
    \/ At(t, "close") /\ ~stmts[Top(t).ref].open
    \/ At(t, "retractOne") /\ ~Live(Top(t).ref)
    \/ At(t, "schedule") /\ FreeEntries = {}

LEMMA FailsNotSaid ==
    ASSUME TypeOK, SaidInv, NEW t \in Threads, Fails(t)
    PROVE  Top(t).ref \notin Said
<1>1. ASSUME NEW op \in KeepOps, At(t, op) PROVE Top(t).ref \notin Said
  BY <1>1, KeepUse
<1>2. CASE At(t, "retractOne") \/ At(t, "schedule")
  BY <1>1, <1>2 DEF KeepOps
<1>3. CASE ~(At(t, "retractOne") \/ At(t, "schedule"))
  <2> SUFFICES ASSUME Top(t).ref \in Said PROVE FALSE
    OBVIOUS
  <2>1. PICK s \in Said : Top(t).ref = s
    OBVIOUS
  <2>2. \/ At(t, "adopt") /\ ~Live(s)
        \/ At(t, "removeSelf") /\ stmts[s].parentCount # 0
        \/ At(t, "close") /\ ~stmts[s].open
    BY <1>3, <2>1 DEF Fails
  <2>3. todo[t] # <<>>
    BY <2>2 DEF At
  <2> HIDE DEF At, Live
  <2> QED BY <2>1, <2>2, <2>3, SaidAsserts
<1> QED BY <1>2, <1>3

\* A step that is not such a call ends nothing.
LEMMA StepFaults ==
    ASSUME NEW t \in Threads, Step(t), ~Fails(t)
    PROVE  fault' = fault
<1>1. CASE InsertAdopt(t)
  BY <1>1 DEF InsertAdopt, Fails
<1>2. CASE RemoveSelf(t)
  BY <1>2 DEF RemoveSelf, Fails
<1>3. CASE CloseStatement(t)
  BY <1>3 DEF CloseStatement, Fails
<1>4. CASE ScheduleRemove(t)
  BY <1>4 DEF ScheduleRemove, Fails
<1>5. CASE RetractOne(t)
  BY <1>5 DEF RetractOne, Fails
<1>6. CASE InsertPlace(t) \/ InsertReuse(t) \/ Decr(t) \/ TestAgain(t) \/ NegateKeep(t) \/ StoreKeep(t)
           \/ SetDue(t) \/ ClearEntry(t) \/ RecountKept(t) \/ RemoveMatch(t) \/ MarkRemoved(t)
           \/ CloseMatch(t) \/ SignalWorker(t) \/ HoldSet(t)
  BY <1>6 DEF InsertPlace, InsertReuse, Decr, TestAgain, NegateKeep, StoreKeep, SetDue, ClearEntry,
              RecountKept, RemoveMatch, MarkRemoved, CloseMatch, SignalWorker, HoldSet
<1>7. CASE DecrKept(t) \/ DecrScheduled(t)
  BY <1>7 DEF DecrKept, DecrScheduled, DecrThen
<1>8. CASE AtomicallyStep(t)
  BY <1>8 DEF AtomicallyStep, InflightDecr, Converged, ReapTakeList, ReapEach, ClearRoot, ReapRoot,
              ReapPutBack, SysmonCollected
<1>9. CASE RunSay(t) \/ RunHold(t) \/ RunFresh(t)
  BY <1>9 DEF RunSay, RunHold, HoldLock, RunFresh, FreshVersion
<1>10. CASE RunPush(t) \/ RunSerially(t) \/ Notify(t) \/ Interrupted(t)
  BY <1>10 DEF RunPush, RunSerially, Notify, Interrupted
<1>11. CASE ReactAsWhen(t) \/ ReactAsStmt(t) \/ EndBody(t) \/ MatchCompleted(t)
  BY <1>11 DEF ReactAsWhen, ReactAsStmt, EndBody, MatchCompleted
<1>12. CASE LockStmt(t)
  BY <1>12 DEF LockStmt, LockAndRun
<1> QED BY <1>1, <1>2, <1>3, <1>4, <1>5, <1>6, <1>7, <1>8, <1>9, <1>10, <1>11, <1>12
        DEF Step, DbStep

\* The step that ends the process is a failing call on a statement that is not only said.
FaultsElsewhere ==
    fault' # fault => \E t \in Threads : Step(t) /\ Fails(t) /\ Top(t).ref \notin Said

LEMMA NextFaults ==
    ASSUME TypeOK, SaidInv, [Next]_vars
    PROVE  FaultsElsewhere
<1>1. CASE \E t \in Threads : Step(t)
  <2>1. PICK t \in Threads : Step(t)
    BY <1>1
  <2>2. CASE Fails(t)
    BY <2>1, <2>2, FailsNotSaid DEF FaultsElsewhere
  <2>3. CASE ~Fails(t)
    BY <2>1, <2>3, StepFaults DEF FaultsElsewhere
  <2> QED BY <2>2, <2>3
<1>2. CASE \E t \in Workers : WorkerTakes(t)
  <2>1. fault' = fault
    BY <1>2 DEF WorkerTakes, TakeAssert, TakeRetract, TakeEval, TakeSubscribe, SkipItem, TakeRunWhen,
                LockAndRun
  <2> QED BY <2>1 DEF FaultsElsewhere
<1>3. CASE SysmonTick
  <2>1. fault' = fault
    BY <1>3 DEF SysmonTick, SysmonRemoves, SysmonCollects
  <2> QED BY <2>1 DEF FaultsElsewhere
<1>4. CASE UNCHANGED vars
  <2>1. fault' = fault
    BY <1>4 DEF vars
  <2> QED BY <2>1 DEF FaultsElsewhere
<1> QED BY <1>1, <1>2, <1>3, <1>4 DEF Next, Stopped

\* Whatever the programs do besides, no assertion of db.c fails for a statement whose
\* clause stands alone and is only said and asserted, no NULL is followed for it, and the remove-later
\* table does not overflow with it: what ends the process is held, retracted or kept.
THEOREM SaidNeverFails == Spec => [][FaultsElsewhere]_vars
<1>1. TypeOK /\ EvaluatorInv /\ SaidInv /\ [Next]_vars => SaidInv'
  BY NextSaid
<1>2. TypeOK /\ SaidInv /\ [Next]_vars => [FaultsElsewhere]_vars
  BY NextFaults
<1> QED BY <1>1, <1>2, InitSaid, EvaluatorInvariant, PTL DEF Spec
=============================================================================
