--------------------------- MODULE EvaluatorSteps ---------------------------
(***************************************************************************)
(* The steps of the evaluator, for the theorems of EvaluatorProofs and     *)
(* EvaluatorSaid, and the proof that it is type correct: whatever the      *)
(* threads have still to do refers to statements, matches, versions and    *)
(* table entries that are there, and what is run as a When is one.         *)
(*                                                                         *)
(* What the other theorems have in common is the shape of the threads'     *)
(* stacks of calls.  A step replaces the innermost call of one thread by   *)
(* calls that are none of a body's own (Plain), or it starts, ends or cuts *)
(* short the body of a match; Within says what all of them but the start of*)
(* a body and the prologue of When -serially have in common.               *)
(*                                                                         *)
(* EvaluatorInv is the inductive invariant.  The steps that cannot disturb *)
(* it are calm: they are here; the others are in EvaluatorProofs.          *)
(***************************************************************************)
EXTENDS Evaluator, FiniteSetTheorems, SequenceTheorems, TLAPS

\* A step keeps a variable typed, with the references that were there before it.
KeepsIndex ==
    /\ DOMAIN index' \subseteq Clauses
    /\ \A c \in DOMAIN index' : index'[c] \in RefsOf({c})

KeepsStmts ==
    /\ stmts' \in Seq(Stmt) /\ Len(stmts') = Len(stmts)
    /\ \A s \in StmtRefs : stmts'[s].clause = stmts[s].clause

KeepsMatches == matches' \in Seq(Match) /\ Len(matches') = Len(matches)

KeepsHolds ==
    /\ DOMAIN holds' \subseteq Keys
    /\ \A k \in DOMAIN holds' : holds'[k] \in Hold

KeepsMutex == holdsMutex' \in Threads \cup {NoThread}

KeepsLater == later' \in [1 .. LaterSlots -> Later]

KeepsVersions == versions' \in Seq(Version) /\ Len(versions') = Len(versions)

KeepsAtomicallys == atomicallys' \in [AtomicallyKeys -> Atomically]

KeepsSignals == signals' \subseteq Threads

KeepsTodo == todo' \in [Threads -> Seq(Frames)]

KeepsWork == IsABag(work') /\ BagToSet(work') \subseteq WorkItems

Keeps ==
    /\ KeepsIndex /\ KeepsStmts /\ KeepsMatches /\ KeepsHolds /\ KeepsMutex
    /\ KeepsLater /\ KeepsVersions /\ KeepsAtomicallys /\ KeepsSignals
    /\ KeepsTodo /\ KeepsWork

-----------------------------------------------------------------------------
(* References stay what they are when there are more of them.              *)

\* What was typed before the step is typed after it.
More ==
    /\ stmts \in Seq(Stmt) /\ Len(stmts') \in Nat /\ Len(stmts) <= Len(stmts')
    /\ \A s \in StmtRefs : stmts'[s].clause = stmts[s].clause
    /\ Len(matches) \in Nat /\ Len(matches') \in Nat /\ Len(matches) <= Len(matches')
    /\ Len(versions) \in Nat /\ Len(versions') \in Nat /\ Len(versions) <= Len(versions')

LEMMA RefsGrow ==
    ASSUME More
    PROVE  /\ StmtRefs \subseteq StmtRefs' /\ MatchRefs \subseteq MatchRefs'
           /\ Versions \subseteq Versions'
           /\ \A cs : RefsOf(cs) \subseteq RefsOf(cs)'
<1>1. Len(stmts) \in Nat
  BY LenProperties DEF More
<1>2. StmtRefs \subseteq StmtRefs' /\ MatchRefs \subseteq MatchRefs' /\ Versions \subseteq Versions'
  BY <1>1 DEF More, StmtRefs, MatchRefs, Versions
<1> QED BY <1>2 DEF More, RefsOf

LEMMA TypesGrow ==
    ASSUME More
    PROVE  /\ Stmt \subseteq Stmt' /\ Match \subseteq Match' /\ Hold \subseteq Hold'
           /\ Later \subseteq Later' /\ Version \subseteq Version'
           /\ Atomically \subseteq Atomically'
<1> USE RefsGrow
<1>1. Seq(MatchRefs) \subseteq Seq(MatchRefs)' /\ Seq(StmtRefs) \subseteq Seq(StmtRefs)'
  BY SeqMonotonic
<1>2. Stmt \subseteq Stmt'
  BY <1>1 DEF Stmt
<1>3. Match \subseteq Match'
  BY <1>1 DEF Match
<1>4. Hold \subseteq Hold' /\ Later \subseteq Later'
  BY DEF Hold, Later
<1>5. Version \subseteq Version'
  BY DEF Version
<1>6. Atomically \subseteq Atomically'
  BY DEF Atomically
<1> QED BY <1>2, <1>3, <1>4, <1>5, <1>6

LEMMA FramesGrow ==
    ASSUME More
    PROVE  Frames \subseteq Frames' /\ WorkItems \subseteq WorkItems'
<1> USE RefsGrow
<1>1. DbFrames \subseteq DbFrames'
  BY DEF DbFrames
<1>2. AtomicallyFrames \subseteq AtomicallyFrames'
  BY DEF AtomicallyFrames
<1>3. [op : {"command"}, match : MatchRefs, cmd : Commands]
        \subseteq [op : {"command"}, match : MatchRefs', cmd : Commands]
  OBVIOUS
<1>4. [op : {"lockStmt"}, when : RefsOf(Whens), stmt : StmtRefs]
        \subseteq [op : {"lockStmt"}, when : RefsOf(Whens)', stmt : StmtRefs']
  OBVIOUS
<1>5. Frames \subseteq Frames'
  BY <1>1, <1>2, <1>3, <1>4 DEF Frames
<1>6. [cmd : {"runWhen"}, when : RefsOf(Whens), stmt : StmtRefs \cup {NoRef}]
        \subseteq [cmd : {"runWhen"}, when : RefsOf(Whens)', stmt : StmtRefs' \cup {NoRef}]
  OBVIOUS
<1>7. [cmd : {"runSubscribe"}, ref : RefsOf(Subscribes), event : Events]
        \subseteq [cmd : {"runSubscribe"}, ref : RefsOf(Subscribes)', event : Events]
  OBVIOUS
<1> QED BY <1>5, <1>6, <1>7 DEF WorkItems

\* A step that keeps every variable typed keeps the type invariant.
LEMMA KeepsTypeOK ==
    ASSUME TypeOK, Keeps
    PROVE  TypeOK'
<1>1. More
  BY LenProperties DEF More, Keeps, KeepsStmts, KeepsMatches, KeepsVersions, TypeOK, DbTypeOK
<1> USE <1>1, RefsGrow, TypesGrow, FramesGrow
<1>2. stmts' \in Seq(Stmt') /\ matches' \in Seq(Match') /\ versions' \in Seq(Version')
  BY SeqMonotonic DEF Keeps, KeepsStmts, KeepsMatches, KeepsVersions
<1>3. /\ Len(stmts') <= MaxStmts
      /\ Len(matches') <= MaxMatches
  BY DEF Keeps, KeepsStmts, KeepsMatches, TypeOK, DbTypeOK
<1>4. /\ DOMAIN index' \subseteq Clauses
      /\ \A c \in DOMAIN index' : index'[c] \in RefsOf({c})'
  BY DEF Keeps, KeepsIndex
<1>5. /\ DOMAIN holds' \subseteq Keys
      /\ \A k \in DOMAIN holds' : holds'[k] \in Hold'
      /\ holdsMutex' \in Threads \cup {NoThread}
      /\ signals' \subseteq Threads
  BY DEF Keeps, KeepsHolds, KeepsMutex, KeepsSignals
<1>6. /\ later' \in [1 .. LaterSlots -> Later']
      /\ atomicallys' \in [AtomicallyKeys -> Atomically']
  BY DEF Keeps, KeepsLater, KeepsAtomicallys
<1>7. todo' \in [Threads -> Seq(Frames')]
  <2>1. Seq(Frames) \subseteq Seq(Frames')
    BY SeqMonotonic
  <2> QED BY <2>1 DEF Keeps, KeepsTodo
<1>8. IsABag(work') /\ BagToSet(work') \subseteq WorkItems'
  BY DEF Keeps, KeepsWork
<1> QED BY <1>2, <1>3, <1>4, <1>5, <1>6, <1>7, <1>8 DEF TypeOK, DbTypeOK

-----------------------------------------------------------------------------
(* What is unchanged stays typed.                                          *)

LEMMA UnchangedKeeps ==
    ASSUME TypeOK
    PROVE  /\ index' = index => KeepsIndex
           /\ stmts' = stmts => KeepsStmts
           /\ matches' = matches => KeepsMatches
           /\ holds' = holds => KeepsHolds
           /\ holdsMutex' = holdsMutex => KeepsMutex
           /\ later' = later => KeepsLater
           /\ versions' = versions => KeepsVersions
           /\ atomicallys' = atomicallys => KeepsAtomicallys
           /\ signals' = signals => KeepsSignals
           /\ todo' = todo => KeepsTodo
           /\ work' = work => KeepsWork
<1> USE DEF TypeOK, DbTypeOK
<1>1. index' = index => KeepsIndex
  BY DEF KeepsIndex
<1>2. stmts' = stmts => KeepsStmts
  BY DEF KeepsStmts
<1>3. matches' = matches => KeepsMatches
  BY DEF KeepsMatches
<1>4. holds' = holds => KeepsHolds
  BY DEF KeepsHolds
<1>5. holdsMutex' = holdsMutex => KeepsMutex
  BY DEF KeepsMutex
<1>6. later' = later => KeepsLater
  BY DEF KeepsLater
<1>7. versions' = versions => KeepsVersions
  BY DEF KeepsVersions
<1>8. atomicallys' = atomicallys => KeepsAtomicallys
  BY DEF KeepsAtomicallys
<1>9. signals' = signals => KeepsSignals
  BY DEF KeepsSignals
<1>10. todo' = todo => KeepsTodo
  BY DEF KeepsTodo
<1>11. work' = work => KeepsWork
  BY DEF KeepsWork
<1> QED BY <1>1, <1>2, <1>3, <1>4, <1>5, <1>6, <1>7, <1>8, <1>9, <1>10, <1>11

-----------------------------------------------------------------------------
(* Statements, matches and versions with a field changed.                  *)

LEMMA StmtFields ==
    ASSUME TypeOK, NEW s \in StmtRefs
    PROVE  /\ stmts[s] \in Stmt
           /\ \A n \in Int : stmts' = [stmts EXCEPT ![s].parentCount = n] => KeepsStmts
           /\ \A k \in {"none", "keep", "scheduled"} :
                 stmts' = [stmts EXCEPT ![s].keep = k] => KeepsStmts
           /\ \A b \in BOOLEAN : stmts' = [stmts EXCEPT ![s].open = b] => KeepsStmts
           /\ \A t \in Threads : stmts' = [stmts EXCEPT ![s].lock = t] => KeepsStmts
<1>0. stmts \in Seq(Stmt) /\ s \in 1 .. Len(stmts)
  BY DEF TypeOK, DbTypeOK, StmtRefs
<1>1. stmts[s] \in Stmt
  BY <1>0, ElementOfSeq
<1>2. ASSUME NEW e \in Stmt, e.clause = stmts[s].clause, stmts' = [stmts EXCEPT ![s] = e]
      PROVE  KeepsStmts
  <2>1. /\ stmts' \in Seq(Stmt) /\ Len(stmts') = Len(stmts)
        /\ \A j \in 1 .. Len(stmts) : stmts'[j] = IF j = s THEN e ELSE stmts[j]
    BY <1>0, <1>2, ExceptSeq
  <2> QED BY <1>2, <2>1 DEF KeepsStmts, StmtRefs
<1>3. /\ \A n \in Int : /\ [stmts[s] EXCEPT !.parentCount = n] \in Stmt
                        /\ [stmts[s] EXCEPT !.parentCount = n].clause = stmts[s].clause
      /\ \A k \in {"none", "keep", "scheduled"} :
            /\ [stmts[s] EXCEPT !.keep = k] \in Stmt
            /\ [stmts[s] EXCEPT !.keep = k].clause = stmts[s].clause
      /\ \A b \in BOOLEAN : /\ [stmts[s] EXCEPT !.open = b] \in Stmt
                            /\ [stmts[s] EXCEPT !.open = b].clause = stmts[s].clause
      /\ \A t \in Threads : /\ [stmts[s] EXCEPT !.lock = t] \in Stmt
                            /\ [stmts[s] EXCEPT !.lock = t].clause = stmts[s].clause
  BY <1>1 DEF Stmt
<1> QED BY <1>1, <1>2, <1>3

LEMMA MatchFields ==
    ASSUME TypeOK, NEW m \in MatchRefs
    PROVE  /\ matches[m] \in Match
           /\ \A e \in Match : matches' = [matches EXCEPT ![m] = e] => KeepsMatches
           /\ \A t \in Threads : matches' = [matches EXCEPT ![m].lock = t] => KeepsMatches
           /\ \A b \in BOOLEAN : matches' = [matches EXCEPT ![m].open = b] => KeepsMatches
           /\ matches' = [matches EXCEPT ![m].completed = TRUE] => KeepsMatches
           /\ \A b \in BOOLEAN :
                 matches' = [matches EXCEPT ![m].parentWasRemoved = TRUE, ![m].overlooked = b]
                 => KeepsMatches
           /\ \A s \in StmtRefs :
                 matches' = [matches EXCEPT ![m].kids = Append(@, s), ![m].lock = NoThread]
                 => KeepsMatches
<1>0. matches \in Seq(Match) /\ m \in 1 .. Len(matches)
  BY DEF TypeOK, DbTypeOK, MatchRefs
<1>1. matches[m] \in Match
  BY <1>0, ElementOfSeq
<1>2. \A e \in Match : matches' = [matches EXCEPT ![m] = e] => KeepsMatches
  BY <1>0, ExceptSeq DEF KeepsMatches
<1>3. \A t \in Threads : [matches[m] EXCEPT !.lock = t] \in Match
  BY <1>1 DEF Match
<1>4. \A b \in BOOLEAN : [matches[m] EXCEPT !.open = b] \in Match
  BY <1>1 DEF Match
<1>5. [matches[m] EXCEPT !.completed = TRUE] \in Match
  BY <1>1 DEF Match
<1>6. \A b \in BOOLEAN :
         [matches[m] EXCEPT !.parentWasRemoved = TRUE, !.overlooked = b] \in Match
  BY <1>1 DEF Match
<1>7. ASSUME NEW s \in StmtRefs
      PROVE  [matches[m] EXCEPT !.kids = Append(@, s), !.lock = NoThread] \in Match
  <2>1. Append(matches[m].kids, s) \in Seq(StmtRefs)
    BY <1>1, AppendProperties DEF Match
  <2> QED BY <1>1, <2>1 DEF Match
<1>8. /\ \A b : [matches EXCEPT ![m].parentWasRemoved = TRUE, ![m].overlooked = b]
                = [matches EXCEPT ![m] =
                      [matches[m] EXCEPT !.parentWasRemoved = TRUE, !.overlooked = b]]
      /\ \A s : [matches EXCEPT ![m].kids = Append(@, s), ![m].lock = NoThread]
                = [matches EXCEPT ![m] =
                      [matches[m] EXCEPT !.kids = Append(@, s), !.lock = NoThread]]
  OBVIOUS
<1>9. \A b \in BOOLEAN :
         matches' = [matches EXCEPT ![m].parentWasRemoved = TRUE, ![m].overlooked = b]
         => KeepsMatches
  BY <1>2, <1>6, <1>8
<1>10. ASSUME NEW s \in StmtRefs,
              matches' = [matches EXCEPT ![m].kids = Append(@, s), ![m].lock = NoThread]
       PROVE  KeepsMatches
  <2>1. matches' = [matches EXCEPT ![m] =
                      [matches[m] EXCEPT !.kids = Append(@, s), !.lock = NoThread]]
    BY <1>8, <1>10
  <2> QED BY <1>2, <1>7, <2>1
<1> QED BY <1>1, <1>2, <1>3, <1>4, <1>5, <1>9, <1>10

LEMMA VersionFields ==
    ASSUME TypeOK, NEW v \in Versions
    PROVE  /\ versions[v] \in Version /\ versions[v].inflight \in Int
           /\ \A n \in Int : versions' = [versions EXCEPT ![v].inflight = n] => KeepsVersions
           /\ versions' = [versions EXCEPT ![v].root = NoRef] => KeepsVersions
           /\ [versions EXCEPT ![v].lost = @ + 1] \in Seq(Version)
           /\ Len([versions EXCEPT ![v].lost = @ + 1]) = Len(versions)
<1>1. versions \in Seq(Version) /\ v \in 1 .. Len(versions)
  BY DEF TypeOK, DbTypeOK, Versions
<1>2. versions[v] \in Version
  BY <1>1, ElementOfSeq
<1>3. /\ versions[v].inflight \in Int
      /\ \A n \in Int : [versions[v] EXCEPT !.inflight = n] \in Version
      /\ [versions[v] EXCEPT !.root = NoRef] \in Version
      /\ [versions[v] EXCEPT !.lost = @ + 1] \in Version
  BY <1>2 DEF Version
<1>4. \A e \in Version : /\ [versions EXCEPT ![v] = e] \in Seq(Version)
                         /\ Len([versions EXCEPT ![v] = e]) = Len(versions)
  BY <1>1, ExceptSeq
<1>5. \A e \in Version : versions' = [versions EXCEPT ![v] = e] => KeepsVersions
  BY <1>4 DEF KeepsVersions
<1>6. \A n \in Int : versions' = [versions EXCEPT ![v].inflight = n] => KeepsVersions
  BY <1>3, <1>5
<1>7. versions' = [versions EXCEPT ![v].root = NoRef] => KeepsVersions
  BY <1>3, <1>5
<1>8. /\ [versions EXCEPT ![v].lost = @ + 1] \in Seq(Version)
      /\ Len([versions EXCEPT ![v].lost = @ + 1]) = Len(versions)
  BY <1>3, <1>4
<1> QED BY <1>2, <1>3, <1>6, <1>7, <1>8

\* Counting in flight, and losing a count.
LEMMA IncrKeeps ==
    ASSUME TypeOK, NEW v \in Versions \cup {NoVersion}
    PROVE  versions' = Incr(versions, v) => KeepsVersions
<1>1. CASE v = NoVersion
  BY <1>1, UnchangedKeeps DEF Incr
<1>2. CASE v \in Versions
  <2>1. versions[v].inflight \in Int
    BY <1>2, VersionFields
  <2>2. versions[v].inflight + 1 \in Int
    BY <2>1
  <2> QED BY <1>2, <2>2, VersionFields, UnchangedKeeps DEF Incr
<1> QED BY <1>1, <1>2

LEMMA LoseTyped ==
    ASSUME TypeOK, NEW v \in Versions \cup {NoVersion}
    PROVE  /\ Lose(versions, v) \in Seq(Version) /\ Len(Lose(versions, v)) = Len(versions)
           /\ versions' = Lose(versions, v) => KeepsVersions
<1>1. /\ Lose(versions, v) \in Seq(Version)
      /\ Len(Lose(versions, v)) = Len(versions)
  <2>1. CASE v = NoVersion
    BY <2>1 DEF Lose, TypeOK, DbTypeOK
  <2>2. CASE v # NoVersion
    BY <2>2, VersionFields DEF Lose
  <2> QED BY <2>1, <2>2
<1> QED BY <1>1 DEF KeepsVersions

-----------------------------------------------------------------------------
(* Frames.                                                                 *)

LEMMA TopTyped ==
    ASSUME TypeOK, NEW t \in Threads, todo[t] # <<>>
    PROVE  Top(t) \in Frames /\ Tail(todo[t]) \in Seq(Frames)
BY HeadTailProperties DEF Top, TypeOK

\* What the call on top of a stack takes.
LEMMA FrameFields ==
    ASSUME NEW f \in Frames
    PROVE  /\ f.op \in StmtOps \cup {"storeKeep"} => f.ref \in StmtRefs
           /\ f.op = "storeKeep" => f.keep \in {"keep", "scheduled"}
           /\ f.op \in MatchOps => f.ref \in MatchRefs
           /\ f.op \in EntryOps => f.ref \in 1 .. LaterSlots
           /\ f.op \in {"place", "reuse", "adopt"} =>
                 f \in [op : {"place", "reuse", "adopt"}, clause : Clauses,
                        parent : MatchRefs \cup {NoRef}, keep : {"none", "keep"},
                        version : Versions \cup {NoVersion}, key : Keys \cup {NoKey},
                        old : StmtRefs \cup {NoRef}, ref : StmtRefs \cup {NoRef}]
           /\ f.op = "holdSet" =>
                 f.key \in Keys /\ f.ref \in StmtRefs /\ f.old \in StmtRefs \cup {NoRef}
           /\ f.op \in {"inflightDecr", "converged", "clearRoot"} => f.version \in Versions
           /\ f.op \in {"reap", "reapEach"} =>
                 f \in [op : {"reap", "reapEach"}, key : AtomicallyKeys,
                        newer : Versions \cup {NoVersion}, onlyConverged : BOOLEAN,
                        rest : SUBSET Versions, kept : SUBSET Versions]
           /\ f.op \in {"command", "eval"} =>
                 /\ f.cmd \in Commands
                 /\ f.match \in MatchRefs \/ (f.match = NoRef /\ f.cmd \in FreeCommands)
           /\ f.op = "lockStmt" => f.when \in RefsOf(Whens) /\ f.stmt \in StmtRefs
BY DEF Frames, DbFrames, AtomicallyFrames, StmtOps, MatchOps, EntryOps, Commands

\* One frame, two or three.
LEMMA ShortSeqs ==
    ASSUME NEW S
    PROVE  /\ <<>> \in Seq(S)
           /\ \A e \in S : <<e>> \in Seq(S)
           /\ \A e, f \in S : <<e, f>> \in Seq(S)
           /\ \A e, f, g \in S : <<e, f, g>> \in Seq(S)
<1>1. <<>> \in Seq(S)
  BY EmptySeq
<1> QED BY <1>1

LEMMA RefFrames ==
    /\ \A op \in StmtOps : \A s \in StmtRefs : RefFrame(op, s) \in Frames
    /\ \A op \in MatchOps : \A m \in MatchRefs : RefFrame(op, m) \in Frames
    /\ \A op \in EntryOps : \A i \in 1 .. LaterSlots : RefFrame(op, i) \in Frames
    /\ RefFrame("collected", NoRef) \in Frames
    /\ \A v \in Versions : InflightFrame(v) \in Frames
    /\ \A op \in {"converged", "clearRoot"} : \A v \in Versions : VersionFrame(op, v) \in Frames
BY DEF Frames, DbFrames, AtomicallyFrames, RefFrame, InflightFrame, VersionFrame

LEMMA FramesForTyped ==
    ASSUME NEW S, NEW op, NEW R, NEW refs \in Seq(R), \A r \in R : RefFrame(op, r) \in S
    PROVE  FramesFor(op, refs) \in Seq(S)
BY DEF FramesFor

\* The top frame is replaced.
LEMMA ThenKeeps ==
    ASSUME TypeOK, NEW t \in Threads, todo[t] # <<>>
    PROVE  \A frames \in Seq(Frames) : Then(t, frames) => KeepsTodo
<1> SUFFICES ASSUME NEW frames \in Seq(Frames), Then(t, frames) PROVE KeepsTodo
  OBVIOUS
<1>1. frames \o Tail(todo[t]) \in Seq(Frames)
  BY TopTyped, ConcatProperties
<1> QED BY <1>1 DEF Then, KeepsTodo, TypeOK

\* An idle thread starts with the frames.
LEMMA StartKeeps ==
    ASSUME TypeOK, NEW t \in Threads
    PROVE  \A frames \in Seq(Frames) : todo' = [todo EXCEPT ![t] = frames] => KeepsTodo
BY DEF KeepsTodo, TypeOK

LEMMA InflightFramesTyped ==
    \A v \in Versions \cup {NoVersion} : InflightFrames(v) \in Seq(Frames)
BY RefFrames, ShortSeqs DEF InflightFrames

-----------------------------------------------------------------------------
(* dbInsertOrReuseStatement.                                               *)

\* A frame that goes on with another call on the same arguments.
LEMMA InsertFrameTyped ==
    ASSUME NEW f \in Frames, f.op \in {"place", "reuse", "adopt"}
    PROVE  /\ [f EXCEPT !.op = "place"] \in Frames
           /\ \A r \in StmtRefs : /\ [f EXCEPT !.op = "reuse", !.ref = r] \in Frames
                                  /\ [f EXCEPT !.op = "adopt", !.ref = r] \in Frames
           /\ f.ref # NoRef => HoldSetFrames(f) \in Seq(Frames)
<1>1. f \in [op : {"place", "reuse", "adopt"}, clause : Clauses,
             parent : MatchRefs \cup {NoRef}, keep : {"none", "keep"},
             version : Versions \cup {NoVersion}, key : Keys \cup {NoKey},
             old : StmtRefs \cup {NoRef}, ref : StmtRefs \cup {NoRef}]
  BY FrameFields
<1>2. /\ [f EXCEPT !.op = "place"] \in DbFrames
      /\ \A r \in StmtRefs : /\ [f EXCEPT !.op = "reuse", !.ref = r] \in DbFrames
                             /\ [f EXCEPT !.op = "adopt", !.ref = r] \in DbFrames
  BY <1>1 DEF DbFrames
<1>3. ASSUME f.ref # NoRef PROVE HoldSetFrames(f) \in Seq(Frames)
  <2>1. CASE f.key = NoKey
    BY <2>1, ShortSeqs DEF HoldSetFrames
  <2>2. CASE f.key # NoKey
    <3>1. [op |-> "holdSet", key |-> f.key, ref |-> f.ref, old |-> f.old] \in DbFrames
      BY <1>1, <1>3, <2>2 DEF DbFrames
    <3> QED BY <2>2, <3>1, ShortSeqs DEF HoldSetFrames, Frames
  <2> QED BY <2>1, <2>2
<1> QED BY <1>2, <1>3 DEF Frames

LEMMA InsertUnderKeeps ==
    ASSUME TypeOK, NEW t \in Threads, todo[t] # <<>>, NEW f \in Frames, f.op = "place",
           f.parent # NoRef, InsertUnder(t, f)
    PROVE  KeepsMatches /\ KeepsVersions /\ KeepsTodo
<1>1. f.parent \in MatchRefs /\ f.version \in Versions \cup {NoVersion}
  BY FrameFields
<1>2. <<f>> \in Seq(Frames) /\ <<>> \in Seq(Frames)
  BY ShortSeqs
<1> QED BY <1>1, <1>2, MatchFields, IncrKeeps, ThenKeeps, UnchangedKeeps DEF InsertUnder

LEMMA InsertReuseKeeps ==
    ASSUME TypeOK, NEW t \in Threads, InsertReuse(t), work' = work
    PROVE  Keeps
<1> DEFINE f == Top(t)
<1>1. todo[t] # <<>> /\ f \in Frames /\ f.op = "reuse"
  BY TopTyped DEF InsertReuse, At
<1> HIDE DEF f
<1>2. /\ f.parent \in MatchRefs \cup {NoRef} /\ f.version \in Versions \cup {NoVersion}
      /\ f.ref \in StmtRefs \cup {NoRef}
  BY <1>1, FrameFields
<1>3. CASE CanReuse(f.ref)
  <2>1. f.ref \in StmtRefs /\ f.ref # NoRef
    BY <1>2, <1>3 DEF CanReuse, Live
  <2>2. stmts[f.ref].parentCount + 1 \in Int
    <3>1. stmts[f.ref] \in Stmt
      BY <2>1, StmtFields
    <3> QED BY <3>1 DEF Stmt
  <2>3. KeepsStmts
    BY <1>3, <2>1, <2>2, StmtFields DEF InsertReuse, IncrParentCount, f
  <2>4. KeepsMatches
    BY <1>2, <1>3, <2>1, MatchFields, UnchangedKeeps DEF InsertReuse, AddChildAndUnlock, f
  <2>5. KeepsVersions
    BY <1>2, <1>3, LoseTyped DEF InsertReuse, f
  <2>6. KeepsTodo
    BY <1>1, <1>3, <2>1, InsertFrameTyped, ThenKeeps DEF InsertReuse, f
  <2> QED BY <2>3, <2>4, <2>5, <2>6, UnchangedKeeps DEF InsertReuse, Keeps
<1>4. CASE ~CanReuse(f.ref)
  <2>1. <<[f EXCEPT !.op = "place"]>> \in Seq(Frames)
    BY <1>1, InsertFrameTyped, ShortSeqs
  <2>2. KeepsTodo
    BY <1>1, <1>4, <2>1, ThenKeeps DEF InsertReuse, f
  <2> QED BY <1>4, <2>2, UnchangedKeeps DEF InsertReuse, Keeps, f
<1> QED BY <1>3, <1>4

LEMMA InsertAdoptKeeps ==
    ASSUME TypeOK, NEW t \in Threads, InsertAdopt(t), work' = work
    PROVE  Keeps
<1> DEFINE f == Top(t)
<1>1. todo[t] # <<>> /\ f \in Frames /\ f.op = "adopt"
  BY TopTyped DEF InsertAdopt, At
<1> HIDE DEF f
<1>2. f.parent \in MatchRefs \cup {NoRef} /\ f.ref \in StmtRefs \cup {NoRef}
  BY <1>1, FrameFields
<1>3. CASE Live(f.ref)
  <2>1. f.ref \in StmtRefs /\ f.ref # NoRef
    BY <1>2, <1>3 DEF Live
  <2>2. KeepsMatches
    BY <1>2, <1>3, <2>1, MatchFields, UnchangedKeeps DEF InsertAdopt, AddChildAndUnlock, f
  <2>3. HoldSetFrames(f) \o <<RefFrame("react", f.ref)>> \in Seq(Frames)
    <3>1. <<RefFrame("react", f.ref)>> \in Seq(Frames)
      BY <2>1, RefFrames, ShortSeqs DEF StmtOps
    <3> QED BY <1>1, <2>1, <3>1, InsertFrameTyped, ConcatProperties
  <2>4. KeepsTodo
    BY <1>1, <1>3, <2>3, ThenKeeps DEF InsertAdopt, f
  <2> QED BY <2>2, <2>4, UnchangedKeeps DEF InsertAdopt, Keeps, sideVars
<1>4. CASE ~Live(f.ref)
  BY <1>4, UnchangedKeeps DEF InsertAdopt, Keeps, sideVars, f
<1> QED BY <1>3, <1>4

-----------------------------------------------------------------------------
(* statementDecrParentCountAndMaybeRemoveSelf.                             *)

\* A thread is at a call on a statement.
LEMMA AtStmt ==
    ASSUME TypeOK, NEW t \in Threads, NEW op \in StmtOps, At(t, op)
    PROVE  /\ todo[t] # <<>> /\ Top(t).ref \in StmtRefs
           /\ stmts[Top(t).ref] \in Stmt
           /\ \A n \in {-1, 1} : stmts[Top(t).ref].parentCount + n \in Int
           /\ stmts[Top(t).ref].keep \in {"none", "keep", "scheduled"}
           /\ <<>> \in Seq(Frames)
           /\ \A o \in StmtOps : <<RefFrame(o, Top(t).ref)>> \in Seq(Frames)
<1>1. todo[t] # <<>> /\ Top(t).op = op
  BY DEF At
<1>2. Top(t).ref \in StmtRefs
  BY <1>1, TopTyped, FrameFields
<1>3. stmts[Top(t).ref] \in Stmt
  BY <1>2, StmtFields
<1>4. /\ stmts[Top(t).ref].parentCount \in Int
      /\ stmts[Top(t).ref].keep \in {"none", "keep", "scheduled"}
  BY <1>3 DEF Stmt
<1>5. \A o \in StmtOps : RefFrame(o, Top(t).ref) \in Frames
  BY <1>2, RefFrames
<1> QED BY <1>1, <1>2, <1>3, <1>4, <1>5, ShortSeqs

LEMMA DecrKeeps ==
    ASSUME TypeOK, NEW t \in Threads, Decr(t), work' = work
    PROVE  Keeps
<1> DEFINE s == Top(t).ref
           count == stmts[s].parentCount - 1
<1>1. At(t, "decr") /\ "decr" \in StmtOps
  BY DEF Decr, StmtOps
<1>2. /\ todo[t] # <<>> /\ s \in StmtRefs /\ count \in Int
      /\ <<>> \in Seq(Frames) /\ \A o \in StmtOps : <<RefFrame(o, s)>> \in Seq(Frames)
  BY <1>1, AtStmt
<1>3. KeepsStmts
  BY <1>2, StmtFields, UnchangedKeeps DEF Decr
<1>4. KeepsTodo
  BY <1>2, ThenKeeps DEF Decr, StmtOps
<1> QED BY <1>3, <1>4, UnchangedKeeps DEF Decr, Keeps, sideVars

LEMMA DecrThenKeeps ==
    ASSUME TypeOK, NEW t \in Threads, NEW op \in StmtOps, At(t, op),
           NEW atZero \in Seq(Frames), NEW otherwise \in Seq(Frames),
           DecrThen(t, atZero, otherwise), work' = work
    PROVE  Keeps
<1> DEFINE s == Top(t).ref
           count == stmts[s].parentCount - 1
<1>1. todo[t] # <<>> /\ s \in StmtRefs /\ count \in Int
  BY AtStmt
<1>2. KeepsStmts
  BY <1>1, StmtFields DEF DecrThen
<1>3. KeepsTodo
  BY <1>1, ThenKeeps DEF DecrThen
<1> QED BY <1>2, <1>3, UnchangedKeeps DEF DecrThen, Keeps, sideVars

LEMMA DecrKeptKeeps ==
    ASSUME TypeOK, NEW t \in Threads, DecrKept(t), work' = work
    PROVE  Keeps
<1>1. At(t, "decrKept") /\ "decrKept" \in StmtOps
  BY DEF DecrKept, StmtOps
<1>2. Top(t).ref \in StmtRefs
  BY <1>1, AtStmt
<1>3. <<RefFrame("negateKeep", Top(t).ref), RefFrame("schedule", Top(t).ref),
        RefFrame("recount", Top(t).ref)>> \in Seq(Frames)
  BY <1>2, RefFrames, ShortSeqs DEF StmtOps
<1> QED BY <1>1, <1>3, ShortSeqs, DecrThenKeeps DEF DecrKept

LEMMA DecrScheduledKeeps ==
    ASSUME TypeOK, NEW t \in Threads, DecrScheduled(t), work' = work
    PROVE  Keeps
<1>1. At(t, "decrScheduled") /\ "decrScheduled" \in StmtOps
  BY DEF DecrScheduled, StmtOps
<1>2. /\ <<RefFrame("removeSelf", Top(t).ref)>> \in Seq(Frames)
      /\ <<RefFrame("negateKeep", Top(t).ref)>> \in Seq(Frames)
  BY <1>1, AtStmt DEF StmtOps
<1> QED BY <1>1, <1>2, DecrThenKeeps DEF DecrScheduled

LEMMA TestAgainKeeps ==
    ASSUME TypeOK, NEW t \in Threads, TestAgain(t), work' = work
    PROVE  Keeps
<1>1. At(t, "testAgain") /\ "testAgain" \in StmtOps
  BY DEF TestAgain, StmtOps
<1>2. /\ todo[t] # <<>> /\ <<>> \in Seq(Frames)
      /\ <<RefFrame("decrScheduled", Top(t).ref)>> \in Seq(Frames)
  BY <1>1, AtStmt DEF StmtOps
<1>3. KeepsTodo
  BY <1>2, ThenKeeps DEF TestAgain
<1> QED BY <1>3, UnchangedKeeps DEF TestAgain, Keeps, sideVars

LEMMA NegateKeepKeeps ==
    ASSUME TypeOK, NEW t \in Threads, NegateKeep(t), work' = work
    PROVE  Keeps
<1>1. At(t, "negateKeep") /\ "negateKeep" \in StmtOps
  BY DEF NegateKeep, StmtOps
<1>2. todo[t] # <<>> /\ Top(t).ref \in StmtRefs
  BY <1>1, AtStmt
<1>3. [op |-> "storeKeep", ref |-> Top(t).ref,
       keep |-> NegatedKeep(stmts[Top(t).ref].keep)] \in Frames
  BY <1>2 DEF NegatedKeep, Frames, DbFrames
<1>4. KeepsTodo
  BY <1>2, <1>3, ShortSeqs, ThenKeeps DEF NegateKeep
<1> QED BY <1>4, UnchangedKeeps DEF NegateKeep, Keeps, sideVars

LEMMA StoreKeepKeeps ==
    ASSUME TypeOK, NEW t \in Threads, StoreKeep(t), work' = work
    PROVE  Keeps
<1>1. todo[t] # <<>> /\ Top(t) \in Frames /\ Top(t).op = "storeKeep"
  BY TopTyped DEF StoreKeep, At
<1>2. Top(t).ref \in StmtRefs /\ Top(t).keep \in {"keep", "scheduled"}
  BY <1>1, FrameFields
<1>3. KeepsStmts
  BY <1>2, StmtFields DEF StoreKeep
<1>4. KeepsTodo
  BY <1>1, ShortSeqs, ThenKeeps DEF StoreKeep
<1> QED BY <1>3, <1>4, UnchangedKeeps DEF StoreKeep, Keeps, sideVars

\* Entries of the remove-later table.
LEMMA LaterFields ==
    ASSUME TypeOK, NEW i \in 1 .. LaterSlots
    PROVE  /\ \A s \in StmtRefs \cup {NoRef} : later' = [later EXCEPT ![i].stmt = s] => KeepsLater
           /\ \A b \in BOOLEAN : later' = [later EXCEPT ![i].due = b] => KeepsLater
<1>1. later \in [1 .. LaterSlots -> Later] /\ later[i] \in Later
  BY DEF TypeOK, DbTypeOK
<1>2. /\ \A s \in StmtRefs \cup {NoRef} : [later[i] EXCEPT !.stmt = s] \in Later
      /\ \A b \in BOOLEAN : [later[i] EXCEPT !.due = b] \in Later
  BY <1>1 DEF Later
<1> QED BY <1>1, <1>2 DEF KeepsLater

LEMMA ScheduleRemoveKeeps ==
    ASSUME TypeOK, NEW t \in Threads, ScheduleRemove(t), work' = work
    PROVE  Keeps
<1>1. At(t, "schedule") /\ "schedule" \in StmtOps
  BY DEF ScheduleRemove, StmtOps
<1>2. todo[t] # <<>> /\ Top(t).ref \in StmtRefs
  BY <1>1, AtStmt
<1>3. CASE FreeEntries # {}
  <2>1. PICK first \in FreeEntries :
           /\ later' = [later EXCEPT ![first].stmt = Top(t).ref]
           /\ Then(t, <<RefFrame("setDue", first)>>)
    BY <1>3 DEF ScheduleRemove
  <2>2. first \in 1 .. LaterSlots
    BY DEF FreeEntries
  <2>3. <<RefFrame("setDue", first)>> \in Seq(Frames)
    BY <2>2, RefFrames, ShortSeqs DEF EntryOps
  <2>4. KeepsLater
    BY <1>2, <2>1, <2>2, LaterFields
  <2>5. KeepsTodo
    BY <1>2, <2>1, <2>3, ThenKeeps
  <2> QED BY <2>4, <2>5, UnchangedKeeps DEF ScheduleRemove, Keeps, sideVars
<1>4. CASE FreeEntries = {}
  BY <1>4, UnchangedKeeps DEF ScheduleRemove, Keeps, sideVars
<1> QED BY <1>3, <1>4

\* A thread is at a call on an entry of the table.
LEMMA AtEntry ==
    ASSUME TypeOK, NEW t \in Threads, NEW op \in EntryOps, At(t, op)
    PROVE  todo[t] # <<>> /\ Top(t).ref \in 1 .. LaterSlots
BY TopTyped, FrameFields DEF At

LEMMA SetDueKeeps ==
    ASSUME TypeOK, NEW t \in Threads, SetDue(t), work' = work
    PROVE  Keeps
<1>1. todo[t] # <<>> /\ Top(t).ref \in 1 .. LaterSlots
  BY AtEntry DEF SetDue, EntryOps
<1>2. KeepsLater
  BY <1>1, LaterFields DEF SetDue
<1>3. KeepsTodo
  BY <1>1, ShortSeqs, ThenKeeps DEF SetDue
<1> QED BY <1>2, <1>3, UnchangedKeeps DEF SetDue, Keeps, sideVars

LEMMA ClearEntryKeeps ==
    ASSUME TypeOK, NEW t \in Threads, ClearEntry(t), work' = work
    PROVE  Keeps
<1>1. todo[t] # <<>> /\ Top(t).ref \in 1 .. LaterSlots
  BY AtEntry DEF ClearEntry, EntryOps
<1>2. KeepsLater
  BY <1>1, LaterFields DEF ClearEntry
<1>3. KeepsTodo
  BY <1>1, ShortSeqs, ThenKeeps DEF ClearEntry
<1> QED BY <1>2, <1>3, UnchangedKeeps DEF ClearEntry, Keeps, sideVars

LEMMA RecountKeptKeeps ==
    ASSUME TypeOK, NEW t \in Threads, RecountKept(t), work' = work
    PROVE  Keeps
<1>1. At(t, "recount") /\ "recount" \in StmtOps
  BY DEF RecountKept, StmtOps
<1>2. todo[t] # <<>> /\ Top(t).ref \in StmtRefs /\ stmts[Top(t).ref].parentCount + 1 \in Int
  BY <1>1, AtStmt
<1>3. KeepsStmts
  BY <1>2, StmtFields DEF RecountKept, IncrParentCount
<1>4. KeepsTodo
  BY <1>2, ShortSeqs, ThenKeeps DEF RecountKept
<1> QED BY <1>3, <1>4, UnchangedKeeps DEF RecountKept, Keeps, sideVars

-----------------------------------------------------------------------------
(* The removals.                                                           *)

LEMMA DeindexKeeps ==
    ASSUME TypeOK, NEW s, DeindexClauseOf(s)
    PROVE  KeepsIndex
BY DEF DeindexClauseOf, Without, KeepsIndex, TypeOK, DbTypeOK

LEMMA RemoveSelfKeeps ==
    ASSUME TypeOK, NEW t \in Threads, RemoveSelf(t), work' = work
    PROVE  Keeps
<1>1. At(t, "removeSelf") /\ "removeSelf" \in StmtOps
  BY DEF RemoveSelf, StmtOps
<1>2. todo[t] # <<>> /\ <<RefFrame("close", Top(t).ref)>> \in Seq(Frames)
  BY <1>1, AtStmt DEF StmtOps
<1>3. KeepsIndex
  BY DeindexKeeps, UnchangedKeeps DEF RemoveSelf
<1>4. KeepsTodo
  BY <1>2, ThenKeeps, UnchangedKeeps DEF RemoveSelf
<1> QED BY <1>3, <1>4, UnchangedKeeps DEF RemoveSelf, Keeps, sideVars

LEMMA CloseStatementKeeps ==
    ASSUME TypeOK, NEW t \in Threads, CloseStatement(t), work' = work
    PROVE  Keeps
<1>1. At(t, "close") /\ "close" \in StmtOps
  BY DEF CloseStatement, StmtOps
<1>2. todo[t] # <<>> /\ Top(t).ref \in StmtRefs /\ stmts[Top(t).ref] \in Stmt
  BY <1>1, AtStmt
<1>3. stmts[Top(t).ref].kids \in Seq(MatchRefs)
  BY <1>2 DEF Stmt
<1>4. FramesFor("unmatch", stmts[Top(t).ref].kids) \in Seq(Frames)
  BY <1>3, RefFrames, FramesForTyped DEF MatchOps
<1>5. KeepsStmts
  BY <1>2, StmtFields, UnchangedKeeps DEF CloseStatement
<1>6. KeepsTodo
  BY <1>2, <1>4, ThenKeeps, UnchangedKeeps DEF CloseStatement
<1> QED BY <1>5, <1>6, UnchangedKeeps DEF CloseStatement, Keeps, sideVars

\* A thread is at a call on a match.
LEMMA AtMatch ==
    ASSUME TypeOK, NEW t \in Threads, NEW op \in MatchOps, At(t, op)
    PROVE  /\ todo[t] # <<>> /\ Top(t).ref \in MatchRefs
           /\ matches[Top(t).ref] \in Match
           /\ <<>> \in Seq(Frames)
           /\ \A o \in MatchOps : <<RefFrame(o, Top(t).ref)>> \in Seq(Frames)
<1>1. todo[t] # <<>> /\ Top(t).ref \in MatchRefs
  BY TopTyped, FrameFields DEF At
<1>2. \A o \in MatchOps : RefFrame(o, Top(t).ref) \in Frames
  BY <1>1, RefFrames
<1> QED BY <1>1, <1>2, MatchFields, ShortSeqs

LEMMA CloseKeeps ==
    ASSUME TypeOK, NEW t \in Threads, todo[t] # <<>>, NEW m \in MatchRefs, Close(t, m)
    PROVE  KeepsMatches /\ KeepsTodo
<1>1. matches[m] \in Match
  BY MatchFields
<1>2. matches[m].kids \in Seq(StmtRefs)
  BY <1>1 DEF Match
<1>3. FramesFor("decr", matches[m].kids) \in Seq(Frames)
  BY <1>2, RefFrames, FramesForTyped DEF StmtOps
<1>4. <<>> \in Seq(Frames) /\ <<RefFrame("signal", m)>> \in Seq(Frames)
  BY RefFrames, ShortSeqs DEF MatchOps
<1>5. FramesFor("decr", matches[m].kids)
        \o (IF matches[m].completed THEN <<>> ELSE <<RefFrame("signal", m)>>) \in Seq(Frames)
  BY <1>3, <1>4, ConcatProperties
<1>6. KeepsTodo
  BY <1>5, ThenKeeps DEF Close
<1> QED BY <1>6, MatchFields DEF Close

LEMMA RemoveMatchKeeps ==
    ASSUME TypeOK, NEW t \in Threads, RemoveMatch(t), work' = work
    PROVE  Keeps
<1>1. At(t, "unmatch") /\ "unmatch" \in MatchOps
  BY DEF RemoveMatch, MatchOps
<1>2. /\ todo[t] # <<>> /\ Top(t).ref \in MatchRefs /\ <<>> \in Seq(Frames)
      /\ <<RefFrame("markRemoved", Top(t).ref)>> \in Seq(Frames)
      /\ <<RefFrame("closeMatch", Top(t).ref)>> \in Seq(Frames)
  BY <1>1, AtMatch DEF MatchOps
<1>3. KeepsMatches /\ KeepsTodo
  BY <1>2, CloseKeeps, ThenKeeps, UnchangedKeeps DEF RemoveMatch
<1> QED BY <1>3, UnchangedKeeps DEF RemoveMatch, Keeps, sideVars

LEMMA MarkRemovedKeeps ==
    ASSUME TypeOK, NEW t \in Threads, MarkRemoved(t), work' = work
    PROVE  Keeps
<1>1. At(t, "markRemoved") /\ "markRemoved" \in MatchOps
  BY DEF MarkRemoved, MatchOps
<1>2. todo[t] # <<>> /\ Top(t).ref \in MatchRefs /\ <<>> \in Seq(Frames)
  BY <1>1, AtMatch
<1>3. (versions[matches[Top(t).ref].version].root # Top(t).ref) \in BOOLEAN
  OBVIOUS
<1>4. KeepsMatches
  BY <1>2, <1>3, MatchFields DEF MarkRemoved
<1>5. KeepsTodo
  BY <1>2, ThenKeeps DEF MarkRemoved
<1> QED BY <1>4, <1>5, UnchangedKeeps DEF MarkRemoved, Keeps, sideVars

LEMMA CloseMatchKeeps ==
    ASSUME TypeOK, NEW t \in Threads, CloseMatch(t), work' = work
    PROVE  Keeps
<1>1. At(t, "closeMatch") /\ "closeMatch" \in MatchOps
  BY DEF CloseMatch, MatchOps
<1>2. todo[t] # <<>> /\ Top(t).ref \in MatchRefs /\ <<>> \in Seq(Frames)
  BY <1>1, AtMatch
<1>3. KeepsMatches /\ KeepsTodo
  BY <1>2, CloseKeeps, ThenKeeps, UnchangedKeeps DEF CloseMatch
<1> QED BY <1>3, UnchangedKeeps DEF CloseMatch, Keeps, sideVars

LEMMA SignalWorkerKeeps ==
    ASSUME TypeOK, NEW t \in Threads, SignalWorker(t), work' = work
    PROVE  Keeps
<1>1. At(t, "signal") /\ "signal" \in MatchOps
  BY DEF SignalWorker, MatchOps
<1>2. todo[t] # <<>> /\ matches[Top(t).ref] \in Match /\ <<>> \in Seq(Frames)
  BY <1>1, AtMatch
<1>3. matches[Top(t).ref].worker \in Threads
  BY <1>2 DEF Match
<1>4. KeepsSignals
  BY <1>3 DEF SignalWorker, KeepsSignals, TypeOK, DbTypeOK
<1>5. KeepsTodo
  BY <1>2, ThenKeeps DEF SignalWorker
<1> QED BY <1>4, <1>5, UnchangedKeeps DEF SignalWorker, Keeps

LEMMA SysmonRemovesKeeps ==
    ASSUME TypeOK, NEW i \in 1 .. LaterSlots, SysmonRemoves(i), work' = work
    PROVE  Keeps
<1>1. later[i] \in Later
  BY DEF TypeOK, DbTypeOK
<1>2. later[i].stmt \in StmtRefs
  BY <1>1 DEF SysmonRemoves, Later
<1>3. <<RefFrame("decr", later[i].stmt), RefFrame("clearDue", i),
        RefFrame("clearStmt", i)>> \in Seq(Frames)
  BY <1>2, RefFrames, ShortSeqs DEF StmtOps, EntryOps
<1>4. KeepsTodo
  BY <1>3, StartKeeps DEF SysmonRemoves, Threads
<1> QED BY <1>4, UnchangedKeeps DEF SysmonRemoves, Keeps, sideVars

-----------------------------------------------------------------------------
(* dbRetractStatements and dbHoldStatement.                                *)

LEMMA SetToSeqTyped ==
    ASSUME NEW S, IsFiniteSet(S)
    PROVE  SetToSeq(S) \in Seq(S)
<1>1. Cardinality(S) \in Nat /\ ExistsBijection(1 .. Cardinality(S), S)
  BY FS_CardinalityType
<1>2. PICK f \in Bijection(1 .. Cardinality(S), S) : TRUE
  BY <1>1 DEF ExistsBijection
<1>3. f \in [1 .. Cardinality(S) -> S] /\ IsInjective(f)
  BY <1>2 DEF Bijection, Injection, Surjection, IsInjective
<1>4. SetToSeq(S) \in [1 .. Cardinality(S) -> S]
  BY <1>3 DEF SetToSeq
<1> QED BY <1>1, <1>4

LEMMA RetractFramesTyped ==
    ASSUME TypeOK, NEW pattern
    PROVE  RetractFrames(pattern) \in Seq(Frames)
<1> DEFINE S == {index[c] : c \in DOMAIN index \cap pattern}
<1>1. S \subseteq StmtRefs
  BY DEF TypeOK, DbTypeOK, RefsOf
<1>2. IsFiniteSet(StmtRefs)
  BY LenProperties, FS_Interval DEF TypeOK, DbTypeOK, StmtRefs
<1>3. IsFiniteSet(S)
  BY <1>1, <1>2, FS_Subset
<1>4. SetToSeq(S) \in Seq(S)
  BY <1>3, SetToSeqTyped
<1>5. \A r \in S : RefFrame("retractOne", r) \in Frames
  BY <1>1, RefFrames DEF StmtOps
<1> HIDE DEF S
<1>6. FramesFor("retractOne", SetToSeq(S)) \in Seq(Frames)
  BY <1>4, <1>5, FramesForTyped
<1> QED BY <1>6 DEF RetractFrames, S

LEMMA RetractOneKeeps ==
    ASSUME TypeOK, NEW t \in Threads, RetractOne(t), work' = work
    PROVE  Keeps
<1>1. At(t, "retractOne") /\ "retractOne" \in StmtOps
  BY DEF RetractOne, StmtOps
<1>2. todo[t] # <<>> /\ <<RefFrame("decr", Top(t).ref)>> \in Seq(Frames)
  BY <1>1, AtStmt DEF StmtOps
<1>3. KeepsTodo
  BY <1>2, ThenKeeps, UnchangedKeeps DEF RetractOne
<1> QED BY <1>3, UnchangedKeeps DEF RetractOne, Keeps, sideVars

LEMMA HoldsTyped ==
    ASSUME TypeOK, NEW k \in Keys
    PROVE  /\ HoldOf(k) \in Hold
           /\ \A h \in Hold : holds' = Extend(holds, k, h) => KeepsHolds
           /\ holds' = Without(holds, {k}) => KeepsHolds
           /\ \A s \in StmtRefs : holds' = [holds EXCEPT ![k].statement = s] => KeepsHolds
<1>1. DOMAIN holds \subseteq Keys /\ \A j \in DOMAIN holds : holds[j] \in Hold
  BY DEF TypeOK, DbTypeOK
<1>2. [version |-> -1, statement |-> NoRef] \in Hold
  BY DEF Hold
<1>3. HoldOf(k) \in Hold
  BY <1>1, <1>2 DEF HoldOf
<1>4. \A h \in Hold : holds' = Extend(holds, k, h) => KeepsHolds
  BY <1>1 DEF Extend, KeepsHolds
<1>5. holds' = Without(holds, {k}) => KeepsHolds
  BY <1>1 DEF Without, KeepsHolds
<1>6. ASSUME NEW s \in StmtRefs, holds' = [holds EXCEPT ![k].statement = s]
      PROVE  KeepsHolds
  <2>1. \A h \in Hold : [h EXCEPT !.statement = s] \in Hold
    BY DEF Hold
  <2> QED BY <1>1, <1>6, <2>1 DEF KeepsHolds
<1> QED BY <1>3, <1>4, <1>5, <1>6

LEMMA HoldSetKeeps ==
    ASSUME TypeOK, NEW t \in Threads, HoldSet(t), work' = work
    PROVE  Keeps
<1>1. todo[t] # <<>> /\ Top(t) \in Frames /\ Top(t).op = "holdSet"
  BY TopTyped DEF HoldSet, At
<1>2. Top(t).key \in Keys /\ Top(t).ref \in StmtRefs
  BY <1>1, FrameFields
<1>3. KeepsHolds
  BY <1>2, HoldsTyped DEF HoldSet
<1>4. KeepsIndex
  BY DeindexKeeps, UnchangedKeeps DEF HoldSet, Deindex
<1>5. KeepsMutex
  BY DEF HoldSet, KeepsMutex
<1>6. KeepsTodo
  BY <1>1, ShortSeqs, ThenKeeps DEF HoldSet
<1> QED BY <1>3, <1>4, <1>5, <1>6, UnchangedKeeps DEF HoldSet, Keeps, sideVars

LEMMA HoldLockKeeps ==
    ASSUME TypeOK, NEW t \in Threads, todo[t] # <<>>,
           NEW f \in FreeCommands, f.cmd = "hold", HoldLock(t, f), work' = work
    PROVE  Keeps
<1> DEFINE old == HoldOf(f.key).statement
           acquired == IF Live(old) THEN old ELSE NoRef
           dropOld == IF old = NoRef THEN <<>> ELSE <<RefFrame("decr", old)>>
           insert == InsertFrame(f.clause, NoRef, f.keep, NoVersion, f.key, acquired)
<1>1. /\ f.key \in Keys /\ f.version \in Int /\ f.clause \in Clauses \cup {NoClause}
      /\ f.keep \in {"none", "keep"}
  BY DEF FreeCommands
<1>2. HoldOf(f.key) \in Hold
  BY <1>1, HoldsTyped
<1>3. old \in StmtRefs \cup {NoRef} /\ HoldOf(f.key).version \in Int
  BY <1>2 DEF Hold
<1>4. HoldVersion(f) \in Int
  BY <1>1, <1>3 DEF HoldVersion
<1>5. dropOld \in Seq(Frames)
  BY <1>3, RefFrames, ShortSeqs DEF StmtOps
<1>6. CASE HoldUnchanged(f) /\ Then(t, <<>>)
  <2>1. KeepsHolds /\ KeepsIndex /\ KeepsMutex
    BY <1>1, <1>2, <1>6, HoldsTyped, UnchangedKeeps DEF HoldLock
  <2>2. KeepsTodo
    BY <1>6, ShortSeqs, ThenKeeps
  <2> QED BY <2>1, <2>2, UnchangedKeeps DEF HoldLock, Keeps, sideVars
<1>7. CASE ~HoldUnchanged(f) /\ f.clause = NoClause
  <2>1. /\ holds' = Without(holds, {f.key}) /\ Deindex(acquired)
        /\ Then(t, dropOld) /\ holdsMutex' = holdsMutex
    BY <1>7 DEF HoldLock
  <2>2. KeepsIndex
    BY <2>1, DeindexKeeps, UnchangedKeeps DEF Deindex
  <2>3. KeepsHolds /\ KeepsMutex /\ KeepsTodo
    BY <1>1, <1>5, <2>1, HoldsTyped, ThenKeeps, UnchangedKeeps
  <2> QED BY <2>2, <2>3, UnchangedKeeps DEF HoldLock, Keeps, sideVars
<1>8. CASE ~HoldUnchanged(f) /\ f.clause # NoClause
  <2>1. /\ holds' = Extend(holds, f.key, [version |-> HoldVersion(f), statement |-> old])
        /\ Then(t, <<insert>> \o dropOld) /\ holdsMutex' = t /\ index' = index
    BY <1>8 DEF HoldLock
  <2>2. [version |-> HoldVersion(f), statement |-> old] \in Hold
    BY <1>3, <1>4 DEF Hold
  <2>3. insert \in Frames
    BY <1>1, <1>3, <1>8 DEF InsertFrame, Frames, DbFrames
  <2>4. <<insert>> \o dropOld \in Seq(Frames)
    BY <1>5, <2>3, ShortSeqs, ConcatProperties
  <2>5. KeepsTodo
    BY <2>1, <2>4, ThenKeeps
  <2>6. KeepsHolds /\ KeepsIndex
    BY <1>1, <2>1, <2>2, HoldsTyped, UnchangedKeeps
  <2>7. KeepsMutex
    BY <2>1 DEF KeepsMutex
  <2> QED BY <2>5, <2>6, <2>7, UnchangedKeeps DEF HoldLock, Keeps, sideVars
<1> QED BY <1>6, <1>7, <1>8 DEF HoldLock

-----------------------------------------------------------------------------
(* Versions of When -atomically.                                           *)

LEMMA AtomicallyFields ==
    ASSUME TypeOK, NEW k \in AtomicallyKeys
    PROVE  /\ atomicallys[k] \in Atomically
           /\ \A vs \in SUBSET Versions :
                 atomicallys' = [atomicallys EXCEPT ![k].all = vs] => KeepsAtomicallys
           /\ \A v \in Versions \cup {NoVersion} :
                 \/ atomicallys' = [atomicallys EXCEPT ![k].latest = v]
                 \/ atomicallys' = [atomicallys EXCEPT ![k].newest = v]
                 => KeepsAtomicallys
<1>1. atomicallys \in [AtomicallyKeys -> Atomically] /\ atomicallys[k] \in Atomically
  BY DEF TypeOK, DbTypeOK
<1>2. \A vs \in SUBSET Versions : [atomicallys[k] EXCEPT !.all = vs] \in Atomically
  BY <1>1 DEF Atomically
<1>3. \A v \in Versions \cup {NoVersion} : /\ [atomicallys[k] EXCEPT !.latest = v] \in Atomically
                                          /\ [atomicallys[k] EXCEPT !.newest = v] \in Atomically
  BY <1>1 DEF Atomically
<1>4. \A e \in Atomically : atomicallys' = [atomicallys EXCEPT ![k] = e] => KeepsAtomicallys
  BY <1>1 DEF KeepsAtomicallys
<1> QED BY <1>1, <1>2, <1>3, <1>4

\* A thread is at a version.
LEMMA AtVersion ==
    ASSUME TypeOK, NEW t \in Threads, NEW op \in {"inflightDecr", "converged", "clearRoot"},
           At(t, op)
    PROVE  /\ todo[t] # <<>> /\ Top(t).op = op
           /\ Top(t).version \in Versions /\ versions[Top(t).version] \in Version
           /\ versions[Top(t).version].key \in AtomicallyKeys
<1>1. todo[t] # <<>> /\ Top(t).op = op /\ Top(t).version \in Versions
  BY TopTyped, FrameFields DEF At
<1>2. versions[Top(t).version] \in Version
  BY <1>1, VersionFields
<1> QED BY <1>1, <1>2 DEF Version

LEMMA InflightDecrKeeps ==
    ASSUME TypeOK, NEW t \in Threads, InflightDecr(t), work' = work
    PROVE  Keeps
<1> DEFINE v == Top(t).version
           k == versions[v].key
           newer == IF v > atomicallys[k].newest THEN v ELSE atomicallys[k].newest
<1>1. todo[t] # <<>> /\ v \in Versions /\ versions[v] \in Version /\ k \in AtomicallyKeys
  BY AtVersion DEF InflightDecr
<1>2. versions[v].inflight - 1 \in Int
  <2>1. versions[v].inflight \in Int
    BY <1>1, VersionFields
  <2> QED BY <2>1
<1>3. atomicallys[k] \in Atomically
  BY <1>1, AtomicallyFields
<1>4. newer \in Versions \cup {NoVersion}
  BY <1>1, <1>3 DEF Atomically
<1>5. <<VersionFrame("converged", v)>> \in Seq(Frames)
  BY <1>1, RefFrames, ShortSeqs
<1>6. KeepsAtomicallys
  <2>1. \/ atomicallys' = [atomicallys EXCEPT ![k].newest = newer]
        \/ atomicallys' = atomicallys
    BY DEF InflightDecr
  <2> HIDE DEF newer, k
  <2> QED BY <1>1, <1>4, <2>1, AtomicallyFields, UnchangedKeeps
<1>7. KeepsVersions
  BY <1>1, <1>2, VersionFields DEF InflightDecr
<1>8. KeepsTodo
  BY <1>1, <1>5, ShortSeqs, ThenKeeps DEF InflightDecr
<1> QED BY <1>6, <1>7, <1>8, UnchangedKeeps DEF InflightDecr, Keeps

LEMMA ConvergedKeeps ==
    ASSUME TypeOK, NEW t \in Threads, Converged(t), work' = work
    PROVE  Keeps
<1> DEFINE v == Top(t).version
           k == versions[v].key
<1>1. todo[t] # <<>> /\ v \in Versions /\ k \in AtomicallyKeys
  BY AtVersion DEF Converged
<1>2. ReapFrame(k, v, FALSE) \in Frames
  BY <1>1 DEF ReapFrame, Frames, AtomicallyFrames
<1>3. KeepsAtomicallys
  <2>1. atomicallys' = [atomicallys EXCEPT ![k].latest = v]
    BY DEF Converged
  <2> HIDE DEF k, v
  <2> QED BY <1>1, <2>1, AtomicallyFields
<1>4. KeepsTodo
  BY <1>1, <1>2, ShortSeqs, ThenKeeps DEF Converged
<1> QED BY <1>3, <1>4, UnchangedKeeps DEF Converged, Keeps

\* A thread is in the reaper.
LEMMA AtReap ==
    ASSUME TypeOK, NEW t \in Threads, NEW op \in {"reap", "reapEach"}, At(t, op)
    PROVE  /\ todo[t] # <<>>
           /\ Top(t) \in [op : {"reap", "reapEach"}, key : AtomicallyKeys,
                          newer : Versions \cup {NoVersion}, onlyConverged : BOOLEAN,
                          rest : SUBSET Versions, kept : SUBSET Versions]
BY TopTyped, FrameFields DEF At

LEMMA ReapTakeListKeeps ==
    ASSUME TypeOK, NEW t \in Threads, ReapTakeList(t), work' = work
    PROVE  Keeps
<1> DEFINE f == Top(t)
<1>1. /\ todo[t] # <<>>
      /\ f \in [op : {"reap", "reapEach"}, key : AtomicallyKeys,
                newer : Versions \cup {NoVersion}, onlyConverged : BOOLEAN,
                rest : SUBSET Versions, kept : SUBSET Versions]
  BY AtReap DEF ReapTakeList
<1> HIDE DEF f
<1>2. f.key \in AtomicallyKeys
  BY <1>1
<1>3. atomicallys[f.key] \in Atomically
  BY <1>2, AtomicallyFields
<1>4. atomicallys[f.key].all \in SUBSET Versions
  BY <1>3 DEF Atomically
<1>5. [f EXCEPT !.op = "reapEach", !.rest = atomicallys[f.key].all] \in AtomicallyFrames
  BY <1>1, <1>4 DEF AtomicallyFrames
<1>6. <<[f EXCEPT !.op = "reapEach", !.rest = atomicallys[f.key].all]>> \in Seq(Frames)
  BY <1>5, ShortSeqs DEF Frames
<1>7. KeepsTodo
  BY <1>1, <1>6, ThenKeeps DEF ReapTakeList, f
<1>8. KeepsAtomicallys
  <2>1. atomicallys' = [atomicallys EXCEPT ![f.key].all = {}] /\ {} \in SUBSET Versions
    BY DEF ReapTakeList, f
  <2> QED BY <1>2, <2>1, AtomicallyFields
<1> QED BY <1>7, <1>8, UnchangedKeeps DEF ReapTakeList, Keeps

LEMMA ReapEachKeeps ==
    ASSUME TypeOK, NEW t \in Threads, ReapEach(t), work' = work
    PROVE  Keeps
<1> DEFINE f == Top(t)
           next(v) == [f EXCEPT !.rest = @ \ {v}]
<1>1. /\ todo[t] # <<>>
      /\ f \in [op : {"reap", "reapEach"}, key : AtomicallyKeys,
                newer : Versions \cup {NoVersion}, onlyConverged : BOOLEAN,
                rest : SUBSET Versions, kept : SUBSET Versions]
  BY AtReap DEF ReapEach
<1>2. PICK v \in f.rest : Then(t, IF Reapable(f, v)
                                  THEN <<VersionFrame("clearRoot", v), next(v)>>
                                  ELSE <<[next(v) EXCEPT !.kept = @ \cup {v}]>>)
  BY DEF ReapEach
<1> HIDE DEF f
<1>3. v \in Versions
  BY <1>1
<1>4. next(v) \in AtomicallyFrames /\ [next(v) EXCEPT !.kept = @ \cup {v}] \in AtomicallyFrames
  BY <1>1, <1>3 DEF AtomicallyFrames
<1>5. next(v) \in Frames /\ [next(v) EXCEPT !.kept = @ \cup {v}] \in Frames
  BY <1>4 DEF Frames
<1>6. VersionFrame("clearRoot", v) \in Frames
  BY <1>3, RefFrames
<1> HIDE DEF next
<1>7. /\ <<VersionFrame("clearRoot", v), next(v)>> \in Seq(Frames)
      /\ <<[next(v) EXCEPT !.kept = @ \cup {v}]>> \in Seq(Frames)
  BY <1>5, <1>6, ShortSeqs
<1>8. KeepsTodo
  BY <1>1, <1>2, <1>7, ThenKeeps
<1> QED BY <1>8, UnchangedKeeps DEF ReapEach, Keeps, sideVars

LEMMA ClearRootKeeps ==
    ASSUME TypeOK, NEW t \in Threads, ClearRoot(t), work' = work
    PROVE  Keeps
<1> DEFINE v == Top(t).version
           root == versions[v].root
<1>1. todo[t] # <<>> /\ v \in Versions /\ versions[v] \in Version
  BY AtVersion DEF ClearRoot
<1>2. root # NoRef => root \in MatchRefs
  BY <1>1 DEF Version
<1>3. root # NoRef => <<RefFrame("reapRoot", root)>> \in Seq(Frames)
  BY <1>2, RefFrames, ShortSeqs DEF MatchOps
<1>4. KeepsTodo
  BY <1>1, <1>3, ShortSeqs, ThenKeeps DEF ClearRoot
<1>5. KeepsVersions
  BY <1>1, VersionFields DEF ClearRoot
<1> QED BY <1>4, <1>5, UnchangedKeeps DEF ClearRoot, Keeps

LEMMA ReapRootKeeps ==
    ASSUME TypeOK, NEW t \in Threads, ReapRoot(t), work' = work
    PROVE  Keeps
<1>1. At(t, "reapRoot") /\ {"reapRoot", "unmatch"} \subseteq MatchOps
  BY DEF ReapRoot, MatchOps
<1>2. todo[t] # <<>> /\ <<RefFrame("unmatch", Top(t).ref)>> \in Seq(Frames)
  BY <1>1, AtMatch
<1>3. KeepsTodo
  BY <1>2, ShortSeqs, ThenKeeps DEF ReapRoot
<1> QED BY <1>3, UnchangedKeeps DEF ReapRoot, Keeps, sideVars

LEMMA ReapPutBackKeeps ==
    ASSUME TypeOK, NEW t \in Threads, ReapPutBack(t), work' = work
    PROVE  Keeps
<1>1. todo[t] # <<>> /\ Top(t).key \in AtomicallyKeys /\ Top(t).kept \in SUBSET Versions
  BY AtReap DEF ReapPutBack
<1>2. atomicallys[Top(t).key] \in Atomically
  BY <1>1, AtomicallyFields
<1>3. atomicallys[Top(t).key].all \cup Top(t).kept \in SUBSET Versions
  BY <1>1, <1>2 DEF Atomically
<1>4. KeepsAtomicallys
  BY <1>1, <1>3, AtomicallyFields DEF ReapPutBack
<1>5. KeepsTodo
  BY <1>1, ShortSeqs, ThenKeeps DEF ReapPutBack
<1> QED BY <1>4, <1>5, UnchangedKeeps DEF ReapPutBack, Keeps

LEMMA SysmonCollectsKeeps ==
    ASSUME TypeOK, NEW k \in AtomicallyKeys, SysmonCollects(k), work' = work
    PROVE  Keeps
<1>1. ReapFrame(k, NoVersion, TRUE) \in Frames
  BY DEF ReapFrame, Frames, AtomicallyFrames
<1>2. <<ReapFrame(k, NoVersion, TRUE), RefFrame("collected", NoRef)>> \in Seq(Frames)
  BY <1>1, RefFrames, ShortSeqs
<1>3. KeepsTodo
  BY <1>2, StartKeeps DEF SysmonCollects, Threads
<1> QED BY <1>3, UnchangedKeeps DEF SysmonCollects, Keeps, sideVars

LEMMA SysmonCollectedKeeps ==
    ASSUME TypeOK, NEW t \in Threads, SysmonCollected(t), work' = work
    PROVE  Keeps
<1>1. KeepsTodo
  BY ShortSeqs, ThenKeeps DEF SysmonCollected, At
<1> QED BY <1>1, UnchangedKeeps DEF SysmonCollected, Keeps, sideVars

-----------------------------------------------------------------------------
(* Commands.                                                               *)

\* A thread is at a command, in the body of a match or outside of any.
LEMMA AtCommandTyped ==
    ASSUME TypeOK, NEW t \in Threads, NEW name, AtCommand(t, name)
    PROVE  /\ todo[t] # <<>> /\ Top(t).cmd.cmd = name /\ Top(t).cmd \in Commands
           /\ \/ Top(t).match \in MatchRefs
              \/ Top(t).match = NoRef /\ Top(t).cmd \in FreeCommands
           /\ name \notin {"say", "fresh", "serially"} => Top(t).cmd \in FreeCommands
<1>1. todo[t] # <<>> /\ Top(t).op \in {"command", "eval"} /\ Top(t).cmd.cmd = name
  BY DEF AtCommand, At
<1>2. /\ Top(t).cmd \in Commands
      /\ \/ Top(t).match \in MatchRefs
         \/ Top(t).match = NoRef /\ Top(t).cmd \in FreeCommands
  BY <1>1, TopTyped, FrameFields
<1> QED BY <1>1, <1>2 DEF Commands, SeriallyCmd

\* Say, a fresh version and the prologue of -serially are only in bodies of Whens.
LEMMA InBody ==
    ASSUME TypeOK, NEW t \in Threads, NEW name \in {"say", "fresh", "serially"},
           AtCommand(t, name)
    PROVE  Top(t).match \in MatchRefs
<1>1. \A f \in FreeCommands : f.cmd \notin {"say", "fresh", "serially"}
  BY DEF FreeCommands
<1> QED BY <1>1, AtCommandTyped

LEMMA RunSayKeeps ==
    ASSUME TypeOK, NEW t \in Threads, RunSay(t)
    PROVE  Keeps
<1> DEFINE m == Top(t).match
           cmd == Top(t).cmd
           version == IF cmd.clause \in Unversioned THEN NoVersion ELSE matches[m].version
           f == InsertFrame(cmd.clause, m, cmd.keep, version, NoKey, NoRef)
<1>1. AtCommand(t, "say")
  BY DEF RunSay
<1>2. todo[t] # <<>> /\ m \in MatchRefs /\ cmd \in Commands /\ cmd.cmd = "say"
  BY <1>1, AtCommandTyped, InBody
<1>3. cmd.clause \in Clauses /\ cmd.keep \in {"none", "keep"}
  BY <1>2 DEF Commands, FreeCommands, SeriallyCmd
<1>4. matches[m] \in Match
  BY <1>2, MatchFields
<1>5. version \in Versions \cup {NoVersion}
  BY <1>4 DEF Match
<1>6. m # NoRef
  BY <1>2 DEF MatchRefs, NoRef
<1>7. f \in Frames /\ f.op = "place" /\ f.parent = m
  BY <1>2, <1>3, <1>5 DEF InsertFrame, Frames, DbFrames
<1>8. InsertUnder(t, f)
  BY DEF RunSay
<1> HIDE DEF f, m
<1>9. KeepsMatches /\ KeepsVersions /\ KeepsTodo
  BY <1>2, <1>6, <1>7, <1>8, InsertUnderKeeps
<1> QED BY <1>9, UnchangedKeeps DEF RunSay, Keeps

LEMMA RunHoldKeeps ==
    ASSUME TypeOK, NEW t \in Threads, RunHold(t)
    PROVE  Keeps
<1>1. todo[t] # <<>> /\ Top(t).cmd \in FreeCommands /\ Top(t).cmd.cmd = "hold"
  BY AtCommandTyped DEF RunHold
<1> QED BY <1>1, HoldLockKeeps DEF RunHold

LEMMA BagsTyped ==
    ASSUME TypeOK
    PROVE  /\ \A S \in SUBSET WorkItems : work' = work (+) SetToBag(S) => KeepsWork
           /\ \A item : work' = work (-) SetToBag({item}) => KeepsWork
<1>1. IsABag(work) /\ BagToSet(work) \subseteq WorkItems
  BY DEF TypeOK
<1>2. ASSUME NEW S \in SUBSET WorkItems, work' = work (+) SetToBag(S)
      PROVE  KeepsWork
  BY <1>1, <1>2 DEF KeepsWork, (+), SetToBag, BagToSet, IsABag
<1>3. ASSUME NEW item, work' = work (-) SetToBag({item})
      PROVE  KeepsWork
  BY <1>1, <1>3 DEF KeepsWork, (-), SetToBag, BagToSet, IsABag
<1> QED BY <1>2, <1>3

LEMMA RunPushKeeps ==
    ASSUME TypeOK, NEW t \in Threads, RunPush(t)
    PROVE  Keeps
<1>1. todo[t] # <<>> /\ Top(t).cmd \in FreeCommands
  BY AtCommandTyped DEF RunPush
<1>2. {Top(t).cmd} \in SUBSET WorkItems
  BY <1>1 DEF WorkItems
<1>3. KeepsWork
  BY <1>2, BagsTyped DEF RunPush
<1>4. KeepsTodo
  BY <1>1, ShortSeqs, ThenKeeps DEF RunPush
<1> QED BY <1>3, <1>4, UnchangedKeeps DEF RunPush, Keeps, sideVars

LEMMA NoCommandsTyped ==
    ASSUME NEW S, NEW frames \in Seq(S)
    PROVE  NoCommands(frames) \in Seq(S)
<1>1. frames # <<>> => Last(frames) \in S
  BY EmptySeq, ElementOfSeq DEF Last
<1> QED BY <1>1, ShortSeqs DEF NoCommands

LEMMA RunSeriallyKeeps ==
    ASSUME TypeOK, NEW t \in Threads, RunSerially(t)
    PROVE  Keeps
<1>1. todo[t] # <<>>
  BY AtCommandTyped DEF RunSerially
<1>2. todo[t] \in Seq(Frames)
  BY DEF TypeOK
<1>3. NoCommands(todo[t]) \in Seq(Frames) /\ Tail(todo[t]) \in Seq(Frames)
  BY <1>1, <1>2, TopTyped, NoCommandsTyped
<1>4. KeepsTodo
  BY <1>3, StartKeeps DEF RunSerially
<1> QED BY <1>4, UnchangedKeeps DEF RunSerially, Keeps, sideVars

LEMMA InterruptedKeeps ==
    ASSUME TypeOK, NEW t \in Threads, Interrupted(t)
    PROVE  Keeps
<1>1. todo[t] \in Seq(Frames)
  BY DEF TypeOK
<1>2. NoCommands(todo[t]) \in Seq(Frames)
  BY <1>1, NoCommandsTyped
<1>3. KeepsTodo
  BY <1>2, StartKeeps DEF Interrupted
<1>4. matches \in Seq(Match)
  BY DEF TypeOK, DbTypeOK
<1>5. Len(matches) \in Nat /\ DOMAIN matches = 1 .. Len(matches)
      /\ \A m \in 1 .. Len(matches) : matches[m] \in Match
  BY <1>4, LenProperties, ElementOfSeq
<1>6. \A r \in Match : [r EXCEPT !.interrupted = TRUE] \in Match
  BY DEF Match
<1>7. matches' \in [1 .. Len(matches) -> Match]
  BY <1>5, <1>6 DEF Interrupted
<1>8. KeepsMatches
  BY <1>5, <1>7 DEF KeepsMatches
<1>9. KeepsSignals
  BY DEF Interrupted, KeepsSignals, TypeOK, DbTypeOK
<1> QED BY <1>3, <1>8, <1>9, UnchangedKeeps DEF Interrupted, Keeps

LEMMA EndBodyKeeps ==
    ASSUME TypeOK, NEW t \in Threads, EndBody(t)
    PROVE  Keeps
<1> DEFINE m == Top(t).ref
           v == matches[m].version
<1>1. At(t, "endBody") /\ "endBody" \in MatchOps
  BY DEF EndBody, MatchOps
<1>2. todo[t] # <<>> /\ m \in MatchRefs /\ matches[m] \in Match /\ <<>> \in Seq(Frames)
  BY <1>1, AtMatch
<1>3. v \in Versions \cup {NoVersion}
  BY <1>2 DEF Match
<1>4. v # NoVersion => <<InflightFrame(v), RefFrame("completed", m)>> \in Seq(Frames)
  BY <1>2, <1>3, RefFrames, ShortSeqs DEF MatchOps
<1>5. KeepsTodo /\ KeepsMatches
  BY <1>2, <1>4, ThenKeeps, MatchFields, UnchangedKeeps DEF EndBody
<1> QED BY <1>5, UnchangedKeeps DEF EndBody, Keeps, sideVars

LEMMA MatchCompletedKeeps ==
    ASSUME TypeOK, NEW t \in Threads, MatchCompleted(t)
    PROVE  Keeps
<1>1. At(t, "completed") /\ "completed" \in MatchOps
  BY DEF MatchCompleted, MatchOps
<1>2. todo[t] # <<>> /\ Top(t).ref \in MatchRefs /\ <<>> \in Seq(Frames)
  BY <1>1, AtMatch
<1>3. KeepsTodo /\ KeepsMatches
  BY <1>2, ThenKeeps, MatchFields DEF MatchCompleted
<1> QED BY <1>3, UnchangedKeeps DEF MatchCompleted, Keeps, sideVars

-----------------------------------------------------------------------------
(* reactToNewStatement and Notify.                                         *)

LEMMA VersionOfTyped ==
    ASSUME TypeOK
    PROVE  \A s \in StmtRefs \cup {NoRef} : VersionOf(s) \in Versions \cup {NoVersion}
<1> SUFFICES ASSUME NEW s \in StmtRefs, s # NoRef
             PROVE  stmts[s].version \in Versions \cup {NoVersion}
  BY DEF VersionOf
<1>1. stmts[s] \in Stmt
  BY StmtFields
<1> QED BY <1>1 DEF Stmt

LEMMA QueryTyped ==
    ASSUME TypeOK
    PROVE  \A cs : Query(cs) \subseteq RefsOf(cs)
BY DEF TypeOK, DbTypeOK, Query, RefsOf

LEMMA PushRunWhensKeeps ==
    ASSUME TypeOK, NEW pairs, pairs \subseteq RefsOf(Whens) \X (StmtRefs \cup {NoRef}),
           PushRunWhens(pairs)
    PROVE  KeepsWork /\ KeepsVersions
<1> DEFINE pushes(v) == Cardinality({p \in pairs : VersionOf(p[1]) = v})
                        + Cardinality({p \in pairs : VersionOf(p[2]) = v})
           items == {RunWhenItem(p[1], p[2]) : p \in pairs}
<1>1. items \in SUBSET WorkItems
  <2>1. SUFFICES ASSUME NEW w \in RefsOf(Whens), NEW s \in StmtRefs \cup {NoRef}
                 PROVE  RunWhenItem(w, s) \in WorkItems
    OBVIOUS
  <2> QED BY DEF RunWhenItem, WorkItems
<1>2. work' = work (+) SetToBag(items)
  BY DEF PushRunWhens
<1>3. KeepsWork
  <2> HIDE DEF items
  <2> QED BY <1>1, <1>2, BagsTyped
<1>4. IsFiniteSet(StmtRefs)
  BY LenProperties, FS_Interval DEF TypeOK, DbTypeOK, StmtRefs
<1>5. IsFiniteSet(RefsOf(Whens)) /\ IsFiniteSet(StmtRefs \cup {NoRef})
  BY <1>4, FS_Subset, FS_AddElement DEF RefsOf
<1>6. IsFiniteSet(RefsOf(Whens) \X (StmtRefs \cup {NoRef}))
  BY <1>5, FS_Product
<1>7. \A v : pushes(v) \in Nat
  <2> TAKE v
  <2>1. IsFiniteSet({p \in pairs : VersionOf(p[1]) = v})
    BY <1>6, FS_Subset
  <2>2. IsFiniteSet({p \in pairs : VersionOf(p[2]) = v})
    BY <1>6, FS_Subset
  <2> QED BY <2>1, <2>2, FS_CardinalityType
<1>8. versions' = [v \in DOMAIN versions |-> [versions[v] EXCEPT !.inflight = @ + pushes(v)]]
  BY DEF PushRunWhens
<1> HIDE DEF pushes
<1>9. versions \in Seq(Version)
  BY DEF TypeOK, DbTypeOK
<1>10. /\ Len(versions) \in Nat /\ DOMAIN versions = 1 .. Len(versions)
       /\ \A v \in 1 .. Len(versions) : versions[v] \in Version
  BY <1>9, LenProperties, ElementOfSeq
<1>11. \A r \in Version : \A n \in Nat : [r EXCEPT !.inflight = @ + n] \in Version
  BY DEF Version
<1>12. versions' \in [1 .. Len(versions) -> Version]
  BY <1>7, <1>8, <1>10, <1>11
<1>13. KeepsVersions
  BY <1>10, <1>12 DEF KeepsVersions
<1> QED BY <1>3, <1>13

LEMMA ReactAsWhenKeeps ==
    ASSUME TypeOK, NEW t \in Threads, ReactAsWhen(t)
    PROVE  Keeps
<1> DEFINE w == Top(t).ref
           pattern == Reacts[stmts[w].clause]
           pairs == {<<w, s>> : s \in StatementsFor(pattern)}
<1>1. At(t, "react") /\ "react" \in StmtOps
  BY DEF ReactAsWhen, StmtOps
<1>2. todo[t] # <<>> /\ w \in StmtRefs /\ <<RefFrame("reactAsStmt", w)>> \in Seq(Frames)
  BY <1>1, AtStmt DEF StmtOps
<1>3. w \in RefsOf(Whens)
  BY <1>2 DEF ReactAsWhen, RefsOf
<1>4. StatementsFor(pattern) \subseteq StmtRefs \cup {NoRef}
  BY QueryTyped DEF StatementsFor, RefsOf
<1>5. pairs \subseteq RefsOf(Whens) \X (StmtRefs \cup {NoRef})
  BY <1>3, <1>4
<1>6. PushRunWhens(pairs)
  BY DEF ReactAsWhen
<1>7. KeepsWork /\ KeepsVersions
  <2> HIDE DEF pairs
  <2> QED BY <1>5, <1>6, PushRunWhensKeeps
<1>8. KeepsTodo
  BY <1>2, ThenKeeps DEF ReactAsWhen
<1> QED BY <1>7, <1>8, UnchangedKeeps DEF ReactAsWhen, Keeps

LEMMA ReactAsStmtKeeps ==
    ASSUME TypeOK, NEW t \in Threads, ReactAsStmt(t)
    PROVE  Keeps
<1> DEFINE s == Top(t).ref
           c == stmts[s].clause
           found == IF c \in Subscribes THEN {} ELSE Query(WhensFor(c))
           pairs == {<<w, s>> : w \in {r \in found : Live(r)}}
<1>1. \/ At(t, "react") /\ "react" \in StmtOps
      \/ At(t, "reactAsStmt") /\ "reactAsStmt" \in StmtOps
  BY DEF ReactAsStmt, StmtOps
<1>2. todo[t] # <<>> /\ s \in StmtRefs /\ stmts[s] \in Stmt
  BY <1>1, AtStmt
<1>3. found \subseteq RefsOf(Whens)
  BY QueryTyped DEF WhensFor, RefsOf
<1>4. pairs \subseteq RefsOf(Whens) \X (StmtRefs \cup {NoRef})
  BY <1>2, <1>3
<1>5. PushRunWhens(pairs)
  BY DEF ReactAsStmt
<1>6. KeepsWork /\ KeepsVersions
  <2> HIDE DEF pairs
  <2> QED BY <1>4, <1>5, PushRunWhensKeeps
<1>7. InflightFrames(stmts[s].version) \in Seq(Frames)
  BY <1>2, InflightFramesTyped DEF Stmt
<1>8. KeepsTodo
  BY <1>2, <1>7, ThenKeeps DEF ReactAsStmt
<1> QED BY <1>6, <1>8, UnchangedKeeps DEF ReactAsStmt, Keeps

LEMMA NotifyKeeps ==
    ASSUME TypeOK, NEW t \in Threads, Notify(t)
    PROVE  Keeps
<1> DEFINE event == Top(t).cmd.event
           found == Query({c \in Subscribes : event \in Reacts[c]})
           items == {RunSubscribeItem(s, event) : s \in {r \in found : Live(r)}}
<1>1. todo[t] # <<>> /\ Top(t).cmd \in FreeCommands /\ Top(t).cmd.cmd = "notify"
  BY AtCommandTyped DEF Notify
<1>2. event \in Events
  BY <1>1 DEF FreeCommands
<1>3. found \subseteq RefsOf(Subscribes)
  BY QueryTyped DEF RefsOf
<1>4. \A s \in RefsOf(Subscribes) : RunSubscribeItem(s, event) \in WorkItems
  BY <1>2 DEF RunSubscribeItem, WorkItems
<1>5. items \in SUBSET WorkItems
  BY <1>3, <1>4
<1>6. work' = work (+) SetToBag(items)
  BY DEF Notify
<1>7. KeepsWork
  <2> HIDE DEF items
  <2> QED BY <1>5, <1>6, BagsTyped
<1>8. KeepsTodo
  BY <1>1, ShortSeqs, ThenKeeps DEF Notify
<1> QED BY <1>7, <1>8, UnchangedKeeps DEF Notify, Keeps, sideVars

-----------------------------------------------------------------------------
(* workerRun.                                                              *)

LEMMA TakeItemKeeps ==
    ASSUME TypeOK, NEW t \in Threads, NEW item, TakeItem(t, item)
    PROVE  item \in WorkItems /\ KeepsWork
BY BagsTyped DEF TakeItem, TypeOK

LEMMA TakeAssertKeeps ==
    ASSUME TypeOK, NEW t \in Threads, NEW item, TakeAssert(t, item)
    PROVE  Keeps
<1>1. item \in WorkItems /\ item.cmd = "assert" /\ KeepsWork
  BY TakeItemKeeps DEF TakeAssert
<1>2. item.clause \in Clauses
  BY <1>1 DEF WorkItems, FreeCommands
<1>3. InsertFrame(item.clause, NoRef, "none", NoVersion, NoKey, NoRef) \in Frames
  BY <1>2 DEF InsertFrame, Frames, DbFrames
<1>4. KeepsTodo
  BY <1>3, ShortSeqs, StartKeeps DEF TakeAssert, Start
<1> QED BY <1>1, <1>4, UnchangedKeeps DEF TakeAssert, Keeps, sideVars

LEMMA TakeRetractKeeps ==
    ASSUME TypeOK, NEW t \in Threads, NEW item, TakeRetract(t, item)
    PROVE  Keeps
<1>1. KeepsWork
  BY TakeItemKeeps DEF TakeRetract
<1>2. KeepsTodo
  BY RetractFramesTyped, StartKeeps DEF TakeRetract, Start
<1> QED BY <1>1, <1>2, UnchangedKeeps DEF TakeRetract, Keeps, sideVars

LEMMA TakeEvalKeeps ==
    ASSUME TypeOK, NEW t \in Threads, NEW item, TakeEval(t, item)
    PROVE  Keeps
<1>1. item \in WorkItems /\ item.cmd \in {"hold", "notify"} /\ KeepsWork
  BY TakeItemKeeps DEF TakeEval
<1>2. item \in FreeCommands
  BY <1>1 DEF WorkItems
<1>3. EvalFrame(item) \in Frames
  BY <1>2 DEF EvalFrame, Frames
<1>4. KeepsTodo
  BY <1>3, ShortSeqs, StartKeeps DEF TakeEval, Start
<1> QED BY <1>1, <1>4, UnchangedKeeps DEF TakeEval, Keeps, sideVars

LEMMA TakeSubscribeKeeps ==
    ASSUME TypeOK, NEW t \in Threads, NEW item, TakeSubscribe(t, item)
    PROVE  Keeps
<1>1. item \in WorkItems /\ item.cmd = "runSubscribe" /\ KeepsWork
  BY TakeItemKeeps DEF TakeSubscribe
<1>2. item.ref \in RefsOf(Subscribes) /\ item.event \in Events
  BY <1>1 DEF WorkItems, FreeCommands
<1> DEFINE cmds == Body[stmts[item.ref].clause][item.event]
<1>3. cmds \in Seq(FreeCommands)
  BY <1>2, ProgramsAssumption DEF RefsOf
<1>4. \A e \in FreeCommands : [op |-> "command", match |-> NoRef, cmd |-> e] \in Frames
  BY DEF Frames
<1> HIDE DEF cmds
<1>5. Len(cmds) \in Nat /\ \A i \in 1 .. Len(cmds) : cmds[i] \in FreeCommands
  BY <1>3, LenProperties, ElementOfSeq
<1>6. BodyFrames(NoRef, cmds) \in [1 .. Len(cmds) -> Frames]
  BY <1>4, <1>5 DEF BodyFrames
<1>7. BodyFrames(NoRef, cmds) \in Seq(Frames)
  BY <1>5, <1>6
<1>8. KeepsTodo
  BY <1>7, ShortSeqs, StartKeeps DEF TakeSubscribe, Start, cmds
<1> QED BY <1>1, <1>8, UnchangedKeeps DEF TakeSubscribe, Keeps, sideVars

\* A RUN_WHEN item, or the frame of one.
LEMMA ItemFields ==
    ASSUME NEW item \in WorkItems, item.cmd = "runWhen"
    PROVE  item.when \in RefsOf(Whens) /\ item.stmt \in StmtRefs \cup {NoRef}
BY DEF WorkItems, FreeCommands

LEMMA SkipItemKeeps ==
    ASSUME TypeOK, NEW t \in Threads, NEW item, SkipItem(t, item)
    PROVE  Keeps
<1>1. item \in WorkItems /\ item.cmd = "runWhen" /\ KeepsWork
  BY TakeItemKeeps DEF SkipItem
<1>2. item.when \in StmtRefs /\ item.stmt \in StmtRefs \cup {NoRef}
  BY <1>1, ItemFields DEF RefsOf
<1>3. /\ VersionOf(item.when) \in Versions \cup {NoVersion}
      /\ VersionOf(item.stmt) \in Versions \cup {NoVersion}
  BY <1>2, VersionOfTyped
<1> DEFINE vs == Lose(versions, VersionOf(item.when))
<1>4. vs \in Seq(Version) /\ Len(vs) = Len(versions)
  BY <1>3, LoseTyped
<1>5. versions' = Lose(vs, VersionOf(item.stmt))
  BY DEF SkipItem
<1> HIDE DEF vs
<1>6. KeepsVersions
  <2>1. CASE VersionOf(item.stmt) = NoVersion
    BY <1>4, <1>5, <2>1 DEF Lose, KeepsVersions
  <2>2. CASE VersionOf(item.stmt) # NoVersion
    <3> DEFINE v == VersionOf(item.stmt)
    <3>1. v \in 1 .. Len(vs)
      BY <1>3, <1>4, <2>2 DEF Versions
    <3>2. vs[v] \in Version
      BY <1>4, <3>1, ElementOfSeq
    <3>3. [vs[v] EXCEPT !.lost = @ + 1] \in Version
      BY <3>2 DEF Version
    <3>4. versions' = [vs EXCEPT ![v] = [vs[v] EXCEPT !.lost = @ + 1]]
      BY <1>5, <2>2 DEF Lose
    <3> HIDE DEF v
    <3> QED BY <1>4, <3>1, <3>3, <3>4, ExceptSeq DEF KeepsVersions
  <2> QED BY <2>1, <2>2
<1> QED BY <1>1, <1>6, UnchangedKeeps DEF SkipItem, Keeps

-----------------------------------------------------------------------------
(* The steps that give out a new reference.                                *)

\* Typed with the references there are after the step.
LEMMA MoreTypeOK ==
    ASSUME TypeOK, More,
           stmts' \in Seq(Stmt') /\ Len(stmts') <= MaxStmts,
           matches' \in Seq(Match') /\ Len(matches') <= MaxMatches,
           versions' \in Seq(Version'),
           DOMAIN index' \subseteq Clauses, \A c \in DOMAIN index' : index'[c] \in RefsOf({c})',
           atomicallys' \in [AtomicallyKeys -> Atomically'],
           todo' \in [Threads -> Seq(Frames')],
           KeepsWork,
           UNCHANGED <<holds, holdsMutex, later, signals>>
    PROVE  TypeOK'
<1>1. /\ DOMAIN holds' \subseteq Keys
      /\ \A k \in DOMAIN holds' : holds'[k] \in Hold'
      /\ later' \in [1 .. LaterSlots -> Later']
  BY TypesGrow DEF TypeOK, DbTypeOK
<1>2. holdsMutex' \in Threads \cup {NoThread} /\ signals' \subseteq Threads
  BY DEF TypeOK, DbTypeOK
<1>3. IsABag(work') /\ BagToSet(work') \subseteq WorkItems'
  BY FramesGrow DEF KeepsWork
<1> QED BY <1>1, <1>2, <1>3 DEF TypeOK, DbTypeOK

\* What the step leaves alone is typed after it.
LEMMA MoreUnchanged ==
    ASSUME TypeOK, More
    PROVE  /\ Seq(Stmt) \subseteq Seq(Stmt') /\ Seq(Match) \subseteq Seq(Match')
           /\ Seq(Version) \subseteq Seq(Version') /\ Seq(Frames) \subseteq Seq(Frames')
           /\ index' = index => /\ DOMAIN index' \subseteq Clauses
                                /\ \A c \in DOMAIN index' : index'[c] \in RefsOf({c})'
           /\ atomicallys' = atomicallys => atomicallys' \in [AtomicallyKeys -> Atomically']
           /\ KeepsTodo => todo' \in [Threads -> Seq(Frames')]
<1>1. /\ Seq(Stmt) \subseteq Seq(Stmt') /\ Seq(Match) \subseteq Seq(Match')
      /\ Seq(Version) \subseteq Seq(Version') /\ Seq(Frames) \subseteq Seq(Frames')
  BY TypesGrow, FramesGrow, SeqMonotonic
<1>2. index' = index => /\ DOMAIN index' \subseteq Clauses
                        /\ \A c \in DOMAIN index' : index'[c] \in RefsOf({c})'
  BY RefsGrow DEF TypeOK, DbTypeOK
<1>3. atomicallys' = atomicallys => atomicallys' \in [AtomicallyKeys -> Atomically']
  BY TypesGrow DEF TypeOK, DbTypeOK
<1>4. KeepsTodo => todo' \in [Threads -> Seq(Frames')]
  BY <1>1 DEF KeepsTodo
<1> QED BY <1>1, <1>2, <1>3, <1>4

\* The numbers of references before the step.
LEMMA LensTyped ==
    ASSUME TypeOK
    PROVE  /\ stmts \in Seq(Stmt) /\ matches \in Seq(Match) /\ versions \in Seq(Version)
           /\ Len(stmts) \in Nat /\ Len(matches) \in Nat /\ Len(versions) \in Nat
           /\ DOMAIN stmts = StmtRefs /\ DOMAIN matches = MatchRefs
           /\ DOMAIN versions = Versions
           /\ Len(stmts) <= MaxStmts /\ Len(matches) <= MaxMatches
<1>1. /\ stmts \in Seq(Stmt) /\ matches \in Seq(Match) /\ versions \in Seq(Version)
      /\ Len(stmts) <= MaxStmts /\ Len(matches) <= MaxMatches
  BY DEF TypeOK, DbTypeOK
<1> QED BY <1>1, LenProperties DEF StmtRefs, MatchRefs, Versions

LEMMA InsertPlaceTypeOK ==
    ASSUME TypeOK, NEW t \in Threads, InsertPlace(t), work' = work
    PROVE  TypeOK'
<1> DEFINE f == Top(t)
           new == Len(stmts) + 1
           stmt == [clause |-> f.clause, parentCount |-> 1, keep |-> f.keep,
                    version |-> f.version, lock |-> NoThread, open |-> TRUE, kids |-> <<>>]
<1>1. todo[t] # <<>> /\ f \in Frames /\ f.op = "place"
  BY TopTyped DEF InsertPlace, At
<1>2. f.clause \in Clauses /\ f.keep \in {"none", "keep"} /\ f.version \in Versions \cup {NoVersion}
  BY <1>1, FrameFields
<1>3. CASE Present(f.clause)
  <2>1. index[f.clause] \in StmtRefs
    BY <1>3 DEF Present, TypeOK, DbTypeOK, RefsOf
  <2>2. <<[f EXCEPT !.op = "reuse", !.ref = index[f.clause]]>> \in Seq(Frames)
    BY <1>1, <2>1, InsertFrameTyped, ShortSeqs
  <2>3. KeepsTodo
    BY <1>1, <1>3, <2>2, ThenKeeps DEF InsertPlace
  <2> QED BY <1>3, <2>3, UnchangedKeeps, KeepsTypeOK DEF InsertPlace, Keeps, sideVars
<1>4. CASE ~Present(f.clause)
  <2>1. /\ new <= MaxStmts
        /\ stmts' = Append(stmts, stmt)
        /\ index' = Extend(index, f.clause, new)
        /\ Then(t, <<[f EXCEPT !.op = "adopt", !.ref = new]>>)
        /\ UNCHANGED <<matches, versions, atomicallys, holds, holdsMutex, later, signals>>
    BY <1>4 DEF InsertPlace, sideVars
  <2>2. stmt \in Stmt
    BY <1>2, EmptySeq DEF Stmt
  <2> HIDE DEF stmt
  <2>3. /\ stmts' \in Seq(Stmt) /\ Len(stmts') = new
        /\ \A s \in StmtRefs : stmts'[s] = stmts[s]
        /\ stmts'[new] = stmt
    BY <2>1, <2>2, LensTyped, AppendProperties DEF StmtRefs
  <2>4. More
    BY <2>1, <2>3, LensTyped DEF More
  <2>5. /\ DOMAIN index' \subseteq Clauses
        /\ \A c \in DOMAIN index' : index'[c] \in RefsOf({c})'
    <3>1. \A c \in DOMAIN index : c \in Clauses /\ index[c] \in RefsOf({c})'
      BY <2>4, RefsGrow DEF TypeOK, DbTypeOK
    <3>2. PICK clause \in Clauses : clause = f.clause
      BY <1>2
    <3>3. PICK n \in Nat : n = new
      BY LensTyped
    <3>4. n \in RefsOf({clause})'
      <4>1. stmts'[n].clause = clause /\ n \in 1 .. Len(stmts')
        BY <2>3, <3>2, <3>3, LensTyped DEF stmt
      <4> QED BY <4>1 DEF RefsOf, StmtRefs
    <3>5. index' = Extend(index, clause, n)
      BY <2>1, <3>2, <3>3
    <3> QED BY <3>1, <3>4, <3>5 DEF Extend
  <2>6. todo' \in [Threads -> Seq(Frames')]
    <3>1. new \in StmtRefs'
      BY <2>3, LensTyped DEF StmtRefs
    <3>2. f \in Frames'
      BY <1>1, <2>4, FramesGrow
    <3>3. [f EXCEPT !.op = "adopt", !.ref = new] \in Frames'
      <4>1. f \in [op : {"place", "reuse", "adopt"}, clause : Clauses,
                   parent : MatchRefs \cup {NoRef}, keep : {"none", "keep"},
                   version : Versions \cup {NoVersion}, key : Keys \cup {NoKey},
                   old : StmtRefs \cup {NoRef}, ref : StmtRefs \cup {NoRef}]
        BY <1>1, FrameFields
      <4> HIDE DEF f, new
      <4>2. [f EXCEPT !.op = "adopt", !.ref = new]
              \in [op : {"place", "reuse", "adopt"}, clause : Clauses,
                   parent : MatchRefs' \cup {NoRef}, keep : {"none", "keep"},
                   version : Versions' \cup {NoVersion}, key : Keys \cup {NoKey},
                   old : StmtRefs' \cup {NoRef}, ref : StmtRefs' \cup {NoRef}]
        BY <2>4, <3>1, <4>1, RefsGrow
      <4> QED BY <4>2 DEF Frames, DbFrames
    <3>4. Tail(todo[t]) \in Seq(Frames')
      BY <1>1, <2>4, TopTyped, MoreUnchanged
    <3>5. <<[f EXCEPT !.op = "adopt", !.ref = new]>> \o Tail(todo[t]) \in Seq(Frames')
      BY <3>3, <3>4, ShortSeqs, ConcatProperties
    <3>6. todo \in [Threads -> Seq(Frames')]
      BY <2>4, MoreUnchanged DEF TypeOK
    <3> HIDE DEF f, new
    <3> QED BY <2>1, <3>5, <3>6 DEF Then
  <2>7. stmts' \in Seq(Stmt') /\ matches' \in Seq(Match') /\ versions' \in Seq(Version')
    BY <2>1, <2>3, <2>4, MoreUnchanged, LensTyped
  <2>8. Len(stmts') <= MaxStmts /\ Len(matches') <= MaxMatches
    BY <2>1, <2>3, LensTyped
  <2> QED BY <2>1, <2>4, <2>5, <2>6, <2>7, <2>8, MoreUnchanged, MoreTypeOK, UnchangedKeeps
<1> QED BY <1>3, <1>4

LEMMA RunFreshTypeOK ==
    ASSUME TypeOK, NEW t \in Threads, RunFresh(t)
    PROVE  TypeOK'
<1> DEFINE m == Top(t).match
           k == Top(t).cmd.key
           v == Len(versions) + 1
           lost == Lose(versions, matches[m].version)
           version == [key |-> k, inflight |-> 1, root |-> m, lost |-> 0]
<1>1. AtCommand(t, "fresh") /\ FreshVersion(t, m, k) /\ work' = work
  BY DEF RunFresh
<1>2. todo[t] # <<>> /\ Top(t).cmd \in Commands /\ Top(t).cmd.cmd = "fresh" /\ m \in MatchRefs
  BY <1>1, AtCommandTyped, InBody
<1>3. k \in AtomicallyKeys
  BY <1>2 DEF Commands, FreeCommands, SeriallyCmd
<1>4. matches[m] \in Match
  BY <1>2, MatchFields
<1>5. matches[m].version \in Versions \cup {NoVersion}
  BY <1>4 DEF Match
<1>6. lost \in Seq(Version) /\ Len(lost) = Len(versions)
  BY <1>5, LoseTyped
<1>7. version \in Version
  BY <1>2, <1>3 DEF Version
<1>8. /\ versions' = Append(lost, version)
      /\ matches' = [matches EXCEPT ![m].version = v]
      /\ atomicallys' = [atomicallys EXCEPT ![k].all = @ \cup {v}]
      /\ Then(t, <<>>)
      /\ UNCHANGED <<index, stmts, holds, holdsMutex, later, signals>>
  BY <1>1 DEF FreshVersion
<1> HIDE DEF m, k, version, lost
<1>9. versions' \in Seq(Version) /\ Len(versions') = v
  BY <1>6, <1>7, <1>8, AppendProperties
<1>10. v \in Versions'
  BY <1>9, LensTyped DEF Versions
<1>11. matches' = [matches EXCEPT ![m] = [matches[m] EXCEPT !.version = v]]
  BY <1>8
<1>12. DOMAIN matches' = DOMAIN matches /\ Len(matches') = Len(matches)
  BY <1>8, LensTyped
<1>13. More
  BY <1>8, <1>9, <1>12, LensTyped DEF More
<1>14. matches' \in Seq(Match')
  <2>1. matches \in Seq(Match') /\ matches[m] \in Match'
    BY <1>4, <1>13, LensTyped, MoreUnchanged, TypesGrow
  <2> HIDE DEF v
  <2>2. [matches[m] EXCEPT !.version = v] \in Match'
    BY <1>10, <2>1 DEF Match
  <2> QED BY <1>2, <1>11, <2>1, <2>2, ExceptSeq DEF MatchRefs
<1>15. atomicallys' \in [AtomicallyKeys -> Atomically']
  <2>1. atomicallys \in [AtomicallyKeys -> Atomically']
    BY <1>13, TypesGrow DEF TypeOK, DbTypeOK
  <2> HIDE DEF v
  <2>2. [atomicallys[k] EXCEPT !.all = @ \cup {v}] \in Atomically'
    <3>1. atomicallys[k] \in Atomically'
      BY <1>3, <2>1
    <3> QED BY <1>10, <3>1 DEF Atomically
  <2> QED BY <1>8, <2>1, <2>2
<1>16. KeepsTodo
  BY <1>2, <1>8, ShortSeqs, ThenKeeps
<1>17. stmts' \in Seq(Stmt') /\ versions' \in Seq(Version') /\ todo' \in [Threads -> Seq(Frames')]
  BY <1>8, <1>9, <1>13, <1>16, MoreUnchanged, LensTyped
<1>18. Len(stmts') <= MaxStmts /\ Len(matches') <= MaxMatches
  BY <1>8, <1>12, LensTyped
<1> QED BY <1>1, <1>8, <1>13, <1>14, <1>15, <1>17, <1>18, MoreUnchanged, MoreTypeOK, UnchangedKeeps

\* The parents of the match of an item.
LEMMA ParentsTyped ==
    ASSUME NEW f, f.when \in StmtRefs, f.stmt \in StmtRefs \cup {NoRef}
    PROVE  /\ Parents(f) \in Seq(StmtRefs) /\ Parents(f)[1] = f.when
           /\ Len(Parents(f)) = IF f.stmt = NoRef THEN 1 ELSE 2
           /\ f.stmt # NoRef => Parents(f)[2] = f.stmt
           /\ ToSet(Parents(f)) = IF f.stmt = NoRef THEN {f.when} ELSE {f.when, f.stmt}
<1>1. CASE f.stmt = NoRef
  <2>1. Parents(f) = <<f.when>>
    BY <1>1 DEF Parents
  <2> QED BY <1>1, <2>1, ShortSeqs DEF ToSet
<1>2. CASE f.stmt # NoRef
  <2>1. Parents(f) = <<f.when, f.stmt>>
    BY <1>2 DEF Parents
  <2> QED BY <1>2, <2>1, ShortSeqs DEF ToSet
<1> QED BY <1>1, <1>2

LEMMA UnlockedTyped ==
    ASSUME TypeOK, NEW t
    PROVE  /\ DOMAIN Unlocked(t, stmts) = StmtRefs
           /\ \A s \in StmtRefs : /\ Unlocked(t, stmts)[s] \in Stmt
                                  /\ Unlocked(t, stmts)[s].clause = stmts[s].clause
                                  /\ Unlocked(t, stmts)[s].kids = stmts[s].kids
                                  /\ Unlocked(t, stmts)[s].open = stmts[s].open
                                  /\ Unlocked(t, stmts)[s].version = stmts[s].version
           /\ stmts' = Unlocked(t, stmts) => KeepsStmts
<1>1. DOMAIN stmts = StmtRefs /\ Len(stmts) \in Nat /\ StmtRefs = 1 .. Len(stmts)
  BY LensTyped DEF StmtRefs
<1>2. \A s \in StmtRefs : stmts[s] \in Stmt
  BY StmtFields
<1>3. \A r \in Stmt : /\ [r EXCEPT !.lock = NoThread] \in Stmt
                      /\ [r EXCEPT !.lock = NoThread].clause = r.clause
                      /\ [r EXCEPT !.lock = NoThread].kids = r.kids
                      /\ [r EXCEPT !.lock = NoThread].open = r.open
                      /\ [r EXCEPT !.lock = NoThread].version = r.version
  BY DEF Stmt
<1>4. DOMAIN Unlocked(t, stmts) = StmtRefs
  BY <1>1 DEF Unlocked
<1>5. \A s \in StmtRefs : /\ Unlocked(t, stmts)[s] \in Stmt
                          /\ Unlocked(t, stmts)[s].clause = stmts[s].clause
                          /\ Unlocked(t, stmts)[s].kids = stmts[s].kids
                          /\ Unlocked(t, stmts)[s].open = stmts[s].open
                          /\ Unlocked(t, stmts)[s].version = stmts[s].version
  BY <1>1, <1>2, <1>3 DEF Unlocked
<1>6. Unlocked(t, stmts) \in [1 .. Len(stmts) -> Stmt]
  BY <1>1, <1>5 DEF Unlocked
<1>7. Unlocked(t, stmts) \in Seq(Stmt) /\ Len(Unlocked(t, stmts)) = Len(stmts)
  BY <1>1, <1>6
<1> QED BY <1>4, <1>5, <1>7 DEF KeepsStmts

LEMMA BodyFramesTyped ==
    ASSUME NEW m, NEW S, NEW C, NEW cmds \in Seq(C),
           \A e \in C : [op |-> "command", match |-> m, cmd |-> e] \in S
    PROVE  BodyFrames(m, cmds) \in Seq(S)
<1>1. Len(cmds) \in Nat /\ \A i \in 1 .. Len(cmds) : cmds[i] \in C
  BY LenProperties, ElementOfSeq
<1>2. BodyFrames(m, cmds) \in [1 .. Len(cmds) -> S]
  BY <1>1 DEF BodyFrames
<1> QED BY <1>1, <1>2

\* The commands of a When's body on a statement, or on none.
BodyOf(f) ==
    Body[stmts[f.when].clause][IF f.stmt = NoRef THEN NoClause ELSE stmts[f.stmt].clause]

LEMMA BodyTyped ==
    ASSUME TypeOK, NEW f, f.when \in RefsOf(Whens), f.stmt \in StmtRefs \cup {NoRef}
    PROVE  BodyOf(f) \in Seq(Commands)
<1>1. f.stmt # NoRef => stmts[f.stmt] \in Stmt
  BY StmtFields
<1>2. f.stmt # NoRef => stmts[f.stmt].clause \in Clauses
  BY <1>1 DEF Stmt
<1> QED BY <1>2, ProgramsAssumption DEF BodyOf, RefsOf

\* A match is made: dbInsertMatch.
LEMMA InsertMatchTypeOK ==
    ASSUME TypeOK, NEW t \in Threads, NEW f, f.when \in RefsOf(Whens),
           f.stmt \in StmtRefs \cup {NoRef},
           InsertMatch(t, Parents(f), BlockVersion(f)),
           Start(t, RunFrames(f, Len(matches) + 1)), KeepsWork,
           UNCHANGED <<index, holds, holdsMutex, later, fault, sideVars>>
    PROVE  TypeOK'
<1> DEFINE new == Len(matches) + 1
           match == [parents |-> Parents(f), open |-> TRUE, completed |-> FALSE,
                     interrupted |-> FALSE, worker |-> t, version |-> BlockVersion(f),
                     parentWasRemoved |-> FALSE, overlooked |-> FALSE,
                     lock |-> NoThread, kids |-> <<>>]
<1>1. f.when \in StmtRefs
  BY DEF RefsOf
<1>2. Parents(f) \in Seq(StmtRefs)
  BY <1>1, ParentsTyped
<1>3. /\ VersionOf(f.when) \in Versions \cup {NoVersion}
      /\ VersionOf(f.stmt) \in Versions \cup {NoVersion}
      /\ BlockVersion(f) \in Versions \cup {NoVersion}
  BY <1>1, VersionOfTyped DEF BlockVersion
<1>4. match \in Match
  BY <1>2, <1>3, EmptySeq DEF Match
<1>5. /\ new <= MaxMatches
      /\ matches' = Append(matches, match)
      /\ stmts' = [s \in DOMAIN stmts |->
                      IF s \in ToSet(Parents(f))
                      THEN [Unlocked(t, stmts)[s] EXCEPT !.kids = Append(@, new)]
                      ELSE stmts[s]]
      /\ UNCHANGED <<versions, atomicallys, signals>>
  BY DEF InsertMatch, sideVars
<1> HIDE DEF match
<1>6. matches' \in Seq(Match) /\ Len(matches') = new
  BY <1>4, <1>5, LensTyped, AppendProperties
<1>7. new \in MatchRefs' /\ MatchRefs \subseteq MatchRefs'
  BY <1>6, LensTyped DEF MatchRefs
<1>8. ASSUME NEW r \in Stmt
      PROVE  /\ [r EXCEPT !.kids = Append(@, new)].clause = r.clause
             /\ [r EXCEPT !.kids = Append(@, new)] \in [clause : Clauses, parentCount : Int,
                   keep : {"none", "keep", "scheduled"}, version : Versions \cup {NoVersion},
                   lock : Threads \cup {NoThread}, open : BOOLEAN, kids : Seq(MatchRefs')]
  <2>1. r.kids \in Seq(MatchRefs)
    BY DEF Stmt
  <2>2. r.kids \in Seq(MatchRefs')
    BY <1>7, <2>1, SeqMonotonic
  <2>3. Append(r.kids, new) \in Seq(MatchRefs')
    BY <1>7, <2>2, AppendProperties
  <2> HIDE DEF new
  <2> QED BY <2>3 DEF Stmt
<1>9. [clause : Clauses, parentCount : Int, keep : {"none", "keep", "scheduled"},
       version : Versions \cup {NoVersion}, lock : Threads \cup {NoThread}, open : BOOLEAN,
       kids : Seq(MatchRefs')] \subseteq Stmt'
  BY <1>5 DEF Stmt, Versions
<1> HIDE DEF new
<1>10. DOMAIN stmts = StmtRefs /\ Len(stmts) \in Nat /\ StmtRefs = 1 .. Len(stmts)
  BY LensTyped DEF StmtRefs
<1>11. DOMAIN stmts' = StmtRefs /\ \A s \in StmtRefs : stmts'[s].clause = stmts[s].clause
  <2>1. \A s \in StmtRefs : stmts'[s].clause = stmts[s].clause
    BY <1>5, <1>8, <1>10, UnlockedTyped
  <2> QED BY <1>5, <1>10, <2>1
<1>12. \A s \in StmtRefs : stmts[s] \in Stmt
  BY StmtFields
<1>13. \A s \in StmtRefs :
          stmts'[s] \in Stmt \cup
                        [clause : Clauses, parentCount : Int,
                         keep : {"none", "keep", "scheduled"},
                         version : Versions \cup {NoVersion},
                         lock : Threads \cup {NoThread}, open : BOOLEAN, kids : Seq(MatchRefs')]
  BY <1>5, <1>8, <1>10, <1>12, UnlockedTyped
<1>14. Len(stmts') = Len(stmts)
  BY <1>5, <1>10
<1>15. More
  BY <1>5, <1>6, <1>11, <1>14, LensTyped DEF More, new
<1>16. stmts' \in Seq(Stmt')
  <2>1. \A s \in StmtRefs : stmts'[s] \in Stmt'
    BY <1>9, <1>13, <1>15, TypesGrow
  <2>2. stmts' \in [1 .. Len(stmts) -> Stmt']
    BY <1>5, <1>10, <2>1
  <2> QED BY <1>10, <2>2
<1>17. RunFrames(f, new) \in Seq(Frames')
  <2>1. BodyOf(f) \in Seq(Commands)
    BY BodyTyped
  <2>2. \A e \in Commands : [op |-> "command", match |-> new, cmd |-> e] \in Frames'
    BY <1>7 DEF Frames
  <2>3. BodyFrames(new, BodyOf(f)) \in Seq(Frames')
    <3> HIDE DEF BodyOf
    <3> QED BY <2>1, <2>2, BodyFramesTyped
  <2>4. <<RefFrame("endBody", new)>> \in Seq(Frames')
    <3>1. RefFrame("endBody", new) \in Frames'
      BY <1>7 DEF RefFrame, Frames, DbFrames, MatchOps
    <3> QED BY <3>1, ShortSeqs
  <2>5. (IF VersionOf(f.when) # NoVersion /\ VersionOf(f.stmt) # NoVersion
         THEN <<InflightFrame(VersionOf(f.when))>> ELSE <<>>) \in Seq(Frames')
    <3>1. VersionOf(f.when) # NoVersion => InflightFrame(VersionOf(f.when)) \in Frames'
      BY <1>3, <1>15, RefFrames, FramesGrow
    <3> QED BY <3>1, ShortSeqs
  <2>6. ((IF VersionOf(f.when) # NoVersion /\ VersionOf(f.stmt) # NoVersion
          THEN <<InflightFrame(VersionOf(f.when))>> ELSE <<>>)
         \o BodyFrames(new, BodyOf(f))) \o <<RefFrame("endBody", new)>> \in Seq(Frames')
    BY <2>3, <2>4, <2>5, ConcatProperties
  <2> QED BY <2>6 DEF RunFrames, BodyOf
<1>18. todo' \in [Threads -> Seq(Frames')]
  <2>1. todo \in [Threads -> Seq(Frames')]
    BY <1>15, MoreUnchanged DEF TypeOK
  <2>2. todo' = [todo EXCEPT ![t] = RunFrames(f, new)]
    BY DEF Start, new
  <2> QED BY <1>17, <2>1, <2>2
<1>19. matches' \in Seq(Match') /\ versions' \in Seq(Version')
  BY <1>5, <1>6, <1>15, MoreUnchanged, LensTyped
<1>20. Len(stmts') <= MaxStmts /\ Len(matches') <= MaxMatches
  BY <1>5, <1>6, <1>14, LensTyped
<1> QED BY <1>5, <1>15, <1>16, <1>18, <1>19, <1>20, MoreUnchanged, MoreTypeOK

LEMMA LockAndRunTypeOK ==
    ASSUME TypeOK, NEW t \in Threads, NEW f, f.when \in RefsOf(Whens),
           f.stmt \in StmtRefs \cup {NoRef}, NEW i \in 1 .. Len(Parents(f)),
           LockAndRun(t, f, i), KeepsWork
    PROVE  TypeOK'
<1>1. f.when \in StmtRefs
  BY DEF RefsOf
<1>2. Parents(f)[i] \in StmtRefs /\ Len(Parents(f)) = IF f.stmt = NoRef THEN 1 ELSE 2
  BY <1>1, ParentsTyped, ElementOfSeq
<1>3. CASE AbortMatch(t) /\ Start(t, AbortFrames(f))
  <2>1. KeepsStmts /\ KeepsMatches /\ KeepsSignals
    BY <1>3, UnlockedTyped, UnchangedKeeps DEF AbortMatch, KeepsSignals, TypeOK, DbTypeOK
  <2>2. AbortFrames(f) \in Seq(Frames)
    BY <1>1, VersionOfTyped, InflightFramesTyped, ConcatProperties DEF AbortFrames
  <2>3. KeepsTodo
    BY <1>3, <2>2, StartKeeps DEF Start
  <2> QED BY <2>1, <2>3, UnchangedKeeps, KeepsTypeOK DEF LockAndRun, Keeps, sideVars
<1>4. CASE /\ i < Len(Parents(f)) /\ LockParent(t, Parents(f)[i])
           /\ Start(t, <<[op |-> "lockStmt", when |-> f.when, stmt |-> f.stmt]>>)
           /\ UNCHANGED <<matches, signals>>
  <2>1. KeepsStmts /\ KeepsMatches
    BY <1>2, <1>4, StmtFields, UnchangedKeeps DEF LockParent
  <2>2. f.stmt \in StmtRefs
    BY <1>2, <1>4
  <2>3. [op |-> "lockStmt", when |-> f.when, stmt |-> f.stmt] \in Frames
    BY <2>2 DEF Frames
  <2>4. KeepsTodo
    BY <1>4, <2>3, ShortSeqs, StartKeeps DEF Start
  <2>5. UNCHANGED <<index, holds, holdsMutex, later, fault, versions, atomicallys, signals>>
    BY <1>4 DEF LockAndRun
  <2> QED BY <2>1, <2>4, <2>5, UnchangedKeeps, KeepsTypeOK DEF Keeps
<1>5. CASE /\ InsertMatch(t, Parents(f), BlockVersion(f))
           /\ Start(t, RunFrames(f, Len(matches) + 1))
           /\ UNCHANGED signals
  BY <1>5, InsertMatchTypeOK DEF LockAndRun, sideVars
<1> QED BY <1>3, <1>4, <1>5 DEF LockAndRun

LEMMA TakeRunWhenTypeOK ==
    ASSUME TypeOK, NEW t \in Threads, NEW item, TakeRunWhen(t, item)
    PROVE  TypeOK'
<1>1. item \in WorkItems /\ item.cmd = "runWhen" /\ KeepsWork
  BY TakeItemKeeps DEF TakeRunWhen
<1>2. item.when \in RefsOf(Whens) /\ item.stmt \in StmtRefs \cup {NoRef}
  BY <1>1, ItemFields
<1>3. 1 \in 1 .. Len(Parents(item))
  BY <1>2, ParentsTyped DEF RefsOf
<1> QED BY <1>1, <1>2, <1>3, LockAndRunTypeOK DEF TakeRunWhen

LEMMA LockStmtTypeOK ==
    ASSUME TypeOK, NEW t \in Threads, LockStmt(t)
    PROVE  TypeOK'
<1>1. Top(t).when \in RefsOf(Whens) /\ Top(t).stmt \in StmtRefs
  BY TopTyped, FrameFields DEF LockStmt, At
<1>2. Top(t).stmt # NoRef
  BY <1>1 DEF StmtRefs, NoRef
<1>3. 2 \in 1 .. Len(Parents(Top(t)))
  BY <1>1, <1>2, ParentsTyped DEF RefsOf
<1> QED BY <1>1, <1>3, LockAndRunTypeOK, UnchangedKeeps DEF LockStmt

-----------------------------------------------------------------------------
(* All steps.                                                              *)

LEMMA InitTypeOK == Init => TypeOK
<1> SUFFICES ASSUME Init PROVE TypeOK
  OBVIOUS
<1>1. PICK program \in Programs : work = SetToBag(program)
  BY DEF Init
<1>2. program \subseteq WorkItems
  BY ProgramsAssumption DEF WorkItems
<1>3. IsABag(work) /\ BagToSet(work) \subseteq WorkItems
  BY <1>1, <1>2 DEF IsABag, SetToBag, BagToSet
<1>4. DOMAIN <<>> = {}
  OBVIOUS
<1>5. /\ stmts \in Seq(Stmt) /\ Len(stmts) = 0
      /\ matches \in Seq(Match) /\ Len(matches) = 0 /\ versions \in Seq(Version)
      /\ DOMAIN index = {} /\ DOMAIN holds = {}
  BY <1>4, EmptySeq DEF Init, DbInit
<1>6. todo \in [Threads -> Seq(Frames)]
  BY EmptySeq DEF Init, DbInit
<1>7. later \in [1 .. LaterSlots -> Later] /\ atomicallys \in [AtomicallyKeys -> Atomically]
  BY DEF Init, DbInit, Later, Atomically
<1>8. holdsMutex \in Threads \cup {NoThread} /\ signals \subseteq Threads
  BY DEF Init, DbInit
<1> QED BY <1>3, <1>5, <1>6, <1>7, <1>8, BoundsAssumption DEF TypeOK, DbTypeOK

LEMMA DbStepTypeOK ==
    ASSUME TypeOK, NEW t \in Threads, DbStep(t), work' = work
    PROVE  TypeOK'
<1>1. CASE InsertPlace(t)
  BY <1>1, InsertPlaceTypeOK
<1>2. ASSUME ~InsertPlace(t) PROVE Keeps
  BY <1>2, InsertReuseKeeps, InsertAdoptKeeps, DecrKeeps, DecrKeptKeeps, DecrScheduledKeeps,
     TestAgainKeeps, NegateKeepKeeps, StoreKeepKeeps, ScheduleRemoveKeeps, SetDueKeeps,
     ClearEntryKeeps, RecountKeptKeeps, RemoveSelfKeeps, CloseStatementKeeps, RemoveMatchKeeps,
     MarkRemovedKeeps, CloseMatchKeeps, SignalWorkerKeeps, RetractOneKeeps, HoldSetKeeps
  DEF DbStep
<1> QED BY <1>1, <1>2, KeepsTypeOK

LEMMA AtomicallyStepKeeps ==
    ASSUME TypeOK, NEW t \in Threads, AtomicallyStep(t), work' = work
    PROVE  Keeps
BY InflightDecrKeeps, ConvergedKeeps, ReapTakeListKeeps, ReapEachKeeps, ClearRootKeeps,
   ReapRootKeeps, ReapPutBackKeeps, SysmonCollectedKeeps
DEF AtomicallyStep

LEMMA StepTypeOK ==
    ASSUME TypeOK, NEW t \in Threads, Step(t)
    PROVE  TypeOK'
<1>1. CASE DbStep(t) /\ work' = work
  BY <1>1, DbStepTypeOK
<1>2. CASE AtomicallyStep(t) /\ work' = work
  BY <1>2, AtomicallyStepKeeps, KeepsTypeOK
<1>3. CASE RunSay(t) \/ RunHold(t) \/ RunPush(t) \/ RunSerially(t) \/ Notify(t)
  BY <1>3, RunSayKeeps, RunHoldKeeps, RunPushKeeps, RunSeriallyKeeps, NotifyKeeps, KeepsTypeOK
<1>4. CASE RunFresh(t)
  BY <1>4, RunFreshTypeOK
<1>5. CASE Interrupted(t) \/ ReactAsWhen(t) \/ ReactAsStmt(t)
  BY <1>5, InterruptedKeeps, ReactAsWhenKeeps, ReactAsStmtKeeps, KeepsTypeOK
<1>6. CASE LockStmt(t)
  BY <1>6, LockStmtTypeOK
<1>7. CASE EndBody(t) \/ MatchCompleted(t)
  BY <1>7, EndBodyKeeps, MatchCompletedKeeps, KeepsTypeOK
<1> QED BY <1>1, <1>2, <1>3, <1>4, <1>5, <1>6, <1>7 DEF Step

LEMMA WorkerTakesTypeOK ==
    ASSUME TypeOK, NEW t \in Threads, WorkerTakes(t)
    PROVE  TypeOK'
<1>1. PICK item \in BagToSet(work) :
        \/ TakeAssert(t, item)
        \/ TakeRetract(t, item)
        \/ TakeEval(t, item)
        \/ TakeSubscribe(t, item)
        \/ SkipItem(t, item)
        \/ TakeRunWhen(t, item)
  BY DEF WorkerTakes
<1>2. CASE TakeRunWhen(t, item)
  BY <1>2, TakeRunWhenTypeOK
<1>3. ASSUME ~TakeRunWhen(t, item) PROVE Keeps
  BY <1>1, <1>3, TakeAssertKeeps, TakeRetractKeeps, TakeEvalKeeps, TakeSubscribeKeeps, SkipItemKeeps
<1> QED BY <1>2, <1>3, KeepsTypeOK

\* Nothing changes when all work is done, and when a step stutters.
LEMMA StutterKeeps ==
    ASSUME TypeOK, UNCHANGED vars
    PROVE  Keeps
BY UnchangedKeeps DEF Keeps, vars, sideVars

LEMMA NextTypeOK ==
    ASSUME TypeOK, [Next]_vars
    PROVE  TypeOK'
<1>1. CASE \E t \in Threads : Step(t)
  BY <1>1, StepTypeOK
<1>2. CASE \E t \in Workers : WorkerTakes(t)
  BY <1>2, WorkerTakesTypeOK DEF Threads
<1>3. CASE SysmonTick
  BY <1>3, SysmonRemovesKeeps, SysmonCollectsKeeps, KeepsTypeOK DEF SysmonTick
<1>4. CASE UNCHANGED vars
  BY <1>4, StutterKeeps, KeepsTypeOK
<1> QED BY <1>1, <1>2, <1>3, <1>4 DEF Next, Stopped

\* Whatever the programs are, the evaluator never holds a reference that was not
\* given out: in the index (which finds a statement by its own clause), in the
\* statements, matches, holds, remove-later entries and versions, in the frames
\* of the threads' C calls and in the work items, whose Whens are Whens.
THEOREM EvaluatorTypeCorrect == Spec => []TypeOK
<1>1. TypeOK /\ [Next]_vars => TypeOK'
  BY NextTypeOK
<1> QED BY InitTypeOK, <1>1, PTL DEF Spec

-----------------------------------------------------------------------------
(* Stacks of calls and the inductive invariant.                            *)

EndOps == {"endBody", "completed"}

\* The frames of a thread, innermost first: a statement waits for its lock
\* alone; an entry's due time is cleared just before its statement; a body's
\* commands are the thread's last frames, but for the end of runWhenBlock, which
\* follows them if they are those of a match.
StackOK(s) ==
    \A j \in 1 .. Len(s) :
        /\ s[j].op = "lockStmt" => Len(s) = 1
        /\ s[j].op = "clearDue" => j < Len(s) /\ s[j + 1] = RefFrame("clearStmt", s[j].ref)
        /\ s[j].op \in EndOps => j = Len(s)
        /\ s[j].op = "command" =>
             /\ \A k \in j .. Len(s) :
                  \/ s[k].op = "command" /\ s[k].match = s[j].match
                  \/ k = Len(s) /\ s[k] = RefFrame("endBody", s[j].match)
             /\ s[j].match # NoRef => s[Len(s)] = RefFrame("endBody", s[j].match)

\* The thread is in runWhenBlock for match m.
EndsIn(s, m) == s # <<>> /\ s[Len(s)].op \in EndOps /\ s[Len(s)].ref = m

\* A command that makes a version, at most one of which is left to execute.
IsFresh(f) == f.op = "command" /\ f.cmd.cmd = "fresh"

FreshOnce(s) == \A j, k \in 1 .. Len(s) : IsFresh(s[j]) /\ IsFresh(s[k]) => j = k

\* A thread that goes from the stack s to n starts no body.
Inside(s, n) ==
    /\ StackOK(n) /\ FreshOnce(n)
    /\ \A m : EndsIn(n, m) => EndsIn(s, m)
    /\ \A j \in 1 .. Len(n) : IsFresh(n[j]) => \E k \in 1 .. Len(s) : s[k] = n[j]

\* It passes no prologue of When -serially either.
Within(s, n) ==
    /\ Inside(s, n)
    /\ \A m : PastPrologue(n, m) => PastPrologue(s, m)

-----------------------------------------------------------------------------
(* Stacks.                                                                 *)

\* The calls that only the steps of bodies, of sysmon and of the reaper make.
BodyOps == {"lockStmt", "command", "clearDue"} \cup EndOps
ReapOps == {"reap", "reapEach", "converged", "clearRoot"}

Calls(frames, ops) ==
    /\ \E S : frames \in Seq(S)
    /\ \A j \in 1 .. Len(frames) : frames[j].op \notin ops

\* The innermost call is replaced.
LEMMA ReplacedTop ==
    ASSUME NEW F, NEW s \in Seq(F), s # <<>>, NEW frames, \E S : frames \in Seq(S)
    PROVE  /\ Len(frames) \in Nat /\ Len(s) \in Nat \ {0} /\ s[1] = Head(s)
           /\ Len(frames \o Tail(s)) = Len(frames) + Len(s) - 1
           /\ \A j \in 1 .. Len(frames) : (frames \o Tail(s))[j] = frames[j]
           /\ \A j \in 2 .. Len(s) : (frames \o Tail(s))[Len(frames) + j - 1] = s[j]
           /\ \A j \in 1 .. Len(frames \o Tail(s)) : j > Len(frames) =>
                 /\ j - Len(frames) + 1 \in 2 .. Len(s)
                 /\ (frames \o Tail(s))[j] = s[j - Len(frames) + 1]
<1>1. PICK S : frames \in Seq(S)
  OBVIOUS
<1>2. frames \in Seq(S \cup F) /\ s \in Seq(S \cup F)
  BY <1>1, SeqMonotonic
<1>3. Tail(s) \in Seq(S \cup F) /\ Len(Tail(s)) = Len(s) - 1
      /\ \A i \in 1 .. Len(Tail(s)) : Tail(s)[i] = s[i + 1]
  BY <1>2, HeadTailProperties
<1>4. /\ Len(frames) \in Nat /\ Len(s) \in Nat \ {0} /\ s[1] = Head(s)
  BY <1>2, EmptySeq, LenProperties
<1> DEFINE n == frames \o Tail(s)
<1>5. /\ Len(n) = Len(frames) + Len(Tail(s))
      /\ \A i \in 1 .. Len(frames) + Len(Tail(s)) :
            n[i] = IF i <= Len(frames) THEN frames[i] ELSE Tail(s)[i - Len(frames)]
  BY <1>2, <1>3, ConcatProperties
<1> HIDE DEF n
<1>6. \A j \in 1 .. Len(frames) : n[j] = frames[j]
  BY <1>3, <1>4, <1>5
<1>7. \A j \in 2 .. Len(s) : n[Len(frames) + j - 1] = s[j]
  BY <1>3, <1>4, <1>5
<1>8. \A j \in 1 .. Len(n) : j > Len(frames) =>
         j - Len(frames) + 1 \in 2 .. Len(s) /\ n[j] = s[j - Len(frames) + 1]
  BY <1>3, <1>4, <1>5
<1> QED BY <1>3, <1>4, <1>6, <1>7, <1>8 DEF n

\* The calls of the step are not a body's.  If the one they replace is not the
\* prologue of When -serially, the step passes none.
LEMMA ReplacedWithin ==
    ASSUME NEW F, NEW s \in Seq(F), s # <<>>, StackOK(s), FreshOnce(s),
           NEW frames, Calls(frames, BodyOps)
    PROVE  /\ Inside(s, frames \o Tail(s))
           /\ (s[1].op = "command" => s[1].cmd # SeriallyCmd) => Within(s, frames \o Tail(s))
<1> DEFINE n == frames \o Tail(s)
           d == Len(frames)
<1>1. /\ d \in Nat /\ Len(s) \in Nat \ {0} /\ s[1] = Head(s)
      /\ Len(n) = d + Len(s) - 1
      /\ \A j \in 1 .. d : n[j] = frames[j]
      /\ \A j \in 2 .. Len(s) : n[d + j - 1] = s[j]
      /\ \A j \in 1 .. Len(n) : j > d => j - d + 1 \in 2 .. Len(s) /\ n[j] = s[j - d + 1]
  BY ReplacedTop DEF Calls
<1>2. \A j \in 1 .. d : n[j].op \notin BodyOps
  BY <1>1 DEF Calls
<1>3. n = <<>> => Len(n) = 0
  BY EmptySeq
<1> HIDE DEF n, d
<1>11. d \in Nat /\ Len(s) \in Nat /\ Len(n) \in Nat /\ Len(n) = d + Len(s) - 1
  BY <1>1
<1>4. StackOK(n)
  <2> SUFFICES ASSUME NEW j \in 1 .. Len(n), n[j].op \in BodyOps
               PROVE  /\ n[j].op = "lockStmt" => Len(n) = 1
                      /\ n[j].op = "clearDue" =>
                            j < Len(n) /\ n[j + 1] = RefFrame("clearStmt", n[j].ref)
                      /\ n[j].op \in EndOps => j = Len(n)
                      /\ n[j].op = "command" =>
                           /\ \A k \in j .. Len(n) :
                                \/ n[k].op = "command" /\ n[k].match = n[j].match
                                \/ k = Len(n) /\ n[k] = RefFrame("endBody", n[j].match)
                           /\ n[j].match # NoRef =>
                                n[Len(n)] = RefFrame("endBody", n[j].match)
    BY DEF StackOK, BodyOps
  <2>1. j > d
    <3>1. j \notin 1 .. d
      BY <1>2
    <3> QED BY <1>11, <3>1
  <2> DEFINE i == j - d + 1
  <2>2. i \in 2 .. Len(s) /\ n[j] = s[i]
    BY <1>1, <2>1
  <2>3. \A k \in i .. Len(s) : d + k - 1 \in j .. Len(n) /\ n[d + k - 1] = s[k]
    BY <1>1, <2>2
  <2>4. \A k \in j .. Len(n) : k - d + 1 \in i .. Len(s) /\ n[k] = s[k - d + 1]
    BY <1>1, <2>1
  <2>5. n[Len(n)] = s[Len(s)] /\ Len(n) - d + 1 = Len(s)
    BY <1>1, <2>2, <2>4
  <2>6. n[j].op # "lockStmt"
    BY <1>1, <2>2 DEF StackOK
  <2>7. n[j].op = "clearDue" => j < Len(n) /\ n[j + 1] = RefFrame("clearStmt", n[j].ref)
    <3> SUFFICES ASSUME s[i].op = "clearDue"
                 PROVE  j < Len(n) /\ n[j + 1] = RefFrame("clearStmt", n[j].ref)
      BY <2>2
    <3>1. i < Len(s) /\ s[i + 1] = RefFrame("clearStmt", s[i].ref)
      BY <1>1, <2>2 DEF StackOK
    <3>2. j + 1 \in j .. Len(n) /\ j + 1 - d + 1 = i + 1
      BY <1>11, <3>1
    <3> QED BY <1>1, <2>2, <2>4, <3>1, <3>2
  <2>8. n[j].op \in EndOps => j = Len(n)
    <3>1. n[j].op \in EndOps => i = Len(s)
      BY <1>1, <2>2 DEF StackOK
    <3> QED BY <1>1, <2>5, <3>1
  <2>9. n[j].op = "command" =>
           /\ \A k \in j .. Len(n) :
                \/ n[k].op = "command" /\ n[k].match = n[j].match
                \/ k = Len(n) /\ n[k] = RefFrame("endBody", n[j].match)
           /\ n[j].match # NoRef => n[Len(n)] = RefFrame("endBody", n[j].match)
    <3> SUFFICES ASSUME s[i].op = "command"
                 PROVE  /\ \A k \in j .. Len(n) :
                             \/ n[k].op = "command" /\ n[k].match = n[j].match
                             \/ k = Len(n) /\ n[k] = RefFrame("endBody", n[j].match)
                        /\ n[j].match # NoRef => n[Len(n)] = RefFrame("endBody", n[j].match)
      BY <2>2
    <3>1. /\ \A k \in i .. Len(s) :
                \/ s[k].op = "command" /\ s[k].match = s[i].match
                \/ k = Len(s) /\ s[k] = RefFrame("endBody", s[i].match)
          /\ s[i].match # NoRef => s[Len(s)] = RefFrame("endBody", s[i].match)
      BY <1>1, <2>2 DEF StackOK
    <3>2. ASSUME NEW k \in j .. Len(n)
          PROVE  \/ n[k].op = "command" /\ n[k].match = n[j].match
                 \/ k = Len(n) /\ n[k] = RefFrame("endBody", n[j].match)
      <4>1. k - d + 1 \in i .. Len(s) /\ n[k] = s[k - d + 1]
        BY <2>4
      <4>2. k - d + 1 = Len(s) => k = Len(n)
        BY <1>1, <2>5
      <4> QED BY <2>2, <3>1, <4>1, <4>2
    <3> QED BY <2>2, <2>5, <3>1, <3>2
  <2> QED BY <2>6, <2>7, <2>8, <2>9
<1>5. ASSUME NEW j \in 1 .. Len(n), n[j].op \in BodyOps
      PROVE  j - d + 1 \in 2 .. Len(s) /\ n[j] = s[j - d + 1] /\ j > d
  BY <1>1, <1>2, <1>5
<1>6. ASSUME n # <<>>, n[Len(n)].op \in BodyOps
      PROVE  s[Len(s)] = n[Len(n)] /\ Len(s) > 1
  <2>1. Len(n) \in 1 .. Len(n)
    BY <1>1, <1>6, <1>3
  <2> QED BY <1>1, <1>5, <1>6, <2>1
<1>7. \A m : EndsIn(n, m) => EndsIn(s, m)
  BY <1>6 DEF EndsIn, BodyOps
<1>8. \A j \in 1 .. Len(n) : IsFresh(n[j]) => \E k \in 1 .. Len(s) : s[k] = n[j]
  <2> SUFFICES ASSUME NEW j \in 1 .. Len(n), IsFresh(n[j])
               PROVE  \E k \in 1 .. Len(s) : s[k] = n[j]
    OBVIOUS
  <2>1. j - d + 1 \in 1 .. Len(s) /\ n[j] = s[j - d + 1]
    BY <1>5 DEF IsFresh, BodyOps
  <2> QED BY <2>1
<1>9. FreshOnce(n)
  <2> SUFFICES ASSUME NEW j \in 1 .. Len(n), NEW k \in 1 .. Len(n), IsFresh(n[j]), IsFresh(n[k])
               PROVE  j = k
    BY DEF FreshOnce
  <2>1. /\ j - d + 1 \in 1 .. Len(s) /\ n[j] = s[j - d + 1]
        /\ k - d + 1 \in 1 .. Len(s) /\ n[k] = s[k - d + 1]
    BY <1>5 DEF IsFresh, BodyOps
  <2>2. j - d + 1 = k - d + 1
    BY <2>1 DEF FreshOnce
  <2> QED BY <1>1, <2>2
<1>10. ASSUME s[1].op = "command" => s[1].cmd # SeriallyCmd
       PROVE  \A m : PastPrologue(n, m) => PastPrologue(s, m)
  <2> SUFFICES ASSUME NEW m, PastPrologue(n, m) PROVE PastPrologue(s, m)
    OBVIOUS
  <2>1. n # <<>> /\ n[Len(n)] = RefFrame("endBody", m) /\ n[Len(n)].op \in BodyOps
    BY <1>3 DEF PastPrologue, RefFrame, BodyOps, EndOps
  <2>2. s[Len(s)] = RefFrame("endBody", m) /\ Len(s) > 1
    BY <1>6, <2>1
  <2>3. ASSUME NEW j \in 2 .. Len(s), s[j].op = "command" PROVE s[j].cmd # SeriallyCmd
    <3>1. d + j - 1 \in 1 .. Len(n) /\ n[d + j - 1] = s[j]
      BY <1>1
    <3> QED BY <2>3, <3>1 DEF PastPrologue
  <2>4. \A j \in 1 .. Len(s) : j = 1 \/ j \in 2 .. Len(s)
    BY <1>1
  <2> QED BY <1>10, <2>2, <2>3, <2>4 DEF PastPrologue
<1> QED BY <1>4, <1>7, <1>8, <1>9, <1>10 DEF Inside, Within, n

\* A thread starts on calls that are not a body's.
LEMMA StartedWithin ==
    ASSUME NEW s, NEW frames, Calls(frames, BodyOps)
    PROVE  Within(s, frames)
<1>1. \A j \in 1 .. Len(frames) : frames[j].op \notin BodyOps
  BY DEF Calls
<1>2. PICK S : frames \in Seq(S)
  BY DEF Calls
<1>3. frames # <<>> => Len(frames) \in 1 .. Len(frames)
  BY <1>2, EmptySeq
<1>4. Len(frames) > 1 => Len(frames) \in 1 .. Len(frames)
  BY <1>2, LenProperties
<1>5. StackOK(frames) /\ FreshOnce(frames)
  BY <1>1 DEF StackOK, FreshOnce, IsFresh, BodyOps
<1>6. \A m : ~EndsIn(frames, m)
  BY <1>1, <1>3 DEF EndsIn, BodyOps
<1>7. \A m : ~PastPrologue(frames, m)
  BY <1>1, <1>4 DEF PastPrologue, BodyOps, EndOps, RefFrame
<1> QED BY <1>1, <1>5, <1>6, <1>7 DEF Within, Inside, IsFresh, BodyOps

LEMMA UnchangedWithin ==
    ASSUME NEW s, StackOK(s), FreshOnce(s)
    PROVE  Within(s, s)
BY DEF Within, Inside

\* A body is cut short.
LEMMA CutShortWithin ==
    ASSUME NEW F, NEW s \in Seq(F), StackOK(s), FreshOnce(s)
    PROVE  Within(s, NoCommands(s))
<1>1. CASE NoCommands(s) = <<>>
  <2>1. Calls(<<>>, BodyOps)
    BY EmptySeq DEF Calls
  <2> QED BY <1>1, <2>1, StartedWithin
<1>2. CASE NoCommands(s) # <<>>
  <2> DEFINE last == s[Len(s)]
  <2>1. s # <<>> /\ last.op # "command" /\ NoCommands(s) = <<last>>
    BY <1>2 DEF NoCommands, Last
  <2>2. Len(s) \in 1 .. Len(s)
    BY <2>1, EmptySeq
  <2>3. last.op # "clearDue"
    BY <2>2 DEF StackOK
  <2> HIDE DEF last
  <2>4. /\ Len(<<last>>) = 1 /\ <<last>>[1] = last /\ <<last>> # <<>>
        /\ \A j \in 1 .. 1 : j = 1
    OBVIOUS
  <2>5. StackOK(<<last>>) /\ FreshOnce(<<last>>)
    BY <2>1, <2>3, <2>4 DEF StackOK, FreshOnce
  <2>6. \A m : EndsIn(<<last>>, m) => EndsIn(s, m)
    BY <2>1, <2>4 DEF EndsIn, last
  <2>7. \A m : ~PastPrologue(<<last>>, m)
    BY <2>4 DEF PastPrologue
  <2>8. \A j \in 1 .. Len(<<last>>) : ~IsFresh(<<last>>[j])
    BY <2>1, <2>4 DEF IsFresh
  <2> QED BY <2>1, <2>5, <2>6, <2>7, <2>8 DEF Within, Inside
<1> QED BY <1>1, <1>2

\* The body of a Subscribe: is no match's.
LEMMA SubscribeWithin ==
    ASSUME NEW s, NEW cmds \in Seq(FreeCommands)
    PROVE  Within(s, BodyFrames(NoRef, cmds))
<1> DEFINE n == BodyFrames(NoRef, cmds)
<1>1. Len(cmds) \in Nat /\ Len(n) = Len(cmds)
  BY LenProperties DEF BodyFrames
<1>2. \A j \in 1 .. Len(n) : n[j] = [op |-> "command", match |-> NoRef, cmd |-> cmds[j]]
  BY <1>1 DEF BodyFrames
<1>3. \A j \in 1 .. Len(n) : cmds[j] \in FreeCommands
  BY <1>1, ElementOfSeq
<1>4. \A cmd \in FreeCommands : cmd.cmd # "fresh"
  BY DEF FreeCommands
<1>5. n # <<>> => Len(n) # 0
  BY <1>1 DEF BodyFrames
<1> HIDE DEF n
<1>6. \A j \in 1 .. Len(n) : n[j].op = "command" /\ n[j].match = NoRef /\ ~IsFresh(n[j])
  <2> SUFFICES ASSUME NEW j \in 1 .. Len(n)
               PROVE  n[j].op = "command" /\ n[j].match = NoRef /\ ~IsFresh(n[j])
    OBVIOUS
  <2>1. n[j] = [op |-> "command", match |-> NoRef, cmd |-> cmds[j]] /\ cmds[j].cmd # "fresh"
    BY <1>2, <1>3, <1>4
  <2> QED BY <2>1 DEF IsFresh
<1>7. StackOK(n) /\ FreshOnce(n)
  <2>1. FreshOnce(n)
    BY <1>6 DEF FreshOnce
  <2>2. \A j \in 1 .. Len(n) : \A k \in j .. Len(n) : k \in 1 .. Len(n)
    BY <1>1
  <2> QED BY <1>6, <2>1, <2>2 DEF StackOK, EndOps
<1>8. n # <<>> => Len(n) \in 1 .. Len(n)
  BY <1>1, <1>5
<1>9. Len(n) > 1 => Len(n) \in 1 .. Len(n)
  BY <1>1
<1>10. \A m : ~EndsIn(n, m) /\ ~PastPrologue(n, m)
  BY <1>6, <1>8, <1>9 DEF EndsIn, PastPrologue, EndOps, RefFrame
<1> QED BY <1>6, <1>7, <1>10 DEF Within, Inside, n

\* The place of what is put together of three parts.
LEMMA ThreeParts ==
    ASSUME NEW S, NEW u \in Seq(S), NEW v \in Seq(S), NEW w \in Seq(S)
    PROVE  /\ Len(u \o v \o w) = Len(u) + Len(v) + Len(w)
           /\ \A i \in 1 .. Len(u) : (u \o v \o w)[i] = u[i]
           /\ \A i \in 1 .. Len(v) : (u \o v \o w)[Len(u) + i] = v[i]
           /\ \A i \in 1 .. Len(w) : (u \o v \o w)[Len(u) + Len(v) + i] = w[i]
<1>1. Len(u) \in Nat /\ Len(v) \in Nat /\ Len(w) \in Nat
  BY LenProperties
<1> DEFINE x == u \o v
<1>2. /\ x \in Seq(S) /\ Len(x) = Len(u) + Len(v)
      /\ \A i \in 1 .. Len(u) + Len(v) : x[i] = IF i <= Len(u) THEN u[i] ELSE v[i - Len(u)]
  BY ConcatProperties
<1> HIDE DEF x
<1>7. x \in Seq(S)
  BY <1>2
<1>3. /\ Len(x \o w) = Len(x) + Len(w)
      /\ \A i \in 1 .. Len(x) + Len(w) : (x \o w)[i] = IF i <= Len(x) THEN x[i] ELSE w[i - Len(x)]
  BY <1>7, ConcatProperties
<1>4. \A i \in 1 .. Len(u) : (x \o w)[i] = u[i]
  BY <1>1, <1>2, <1>3
<1>5. \A i \in 1 .. Len(v) : (x \o w)[Len(u) + i] = v[i]
  BY <1>1, <1>2, <1>3
<1>6. \A i \in 1 .. Len(w) : (x \o w)[Len(u) + Len(v) + i] = w[i]
  BY <1>1, <1>2, <1>3
<1> QED BY <1>2, <1>3, <1>4, <1>5, <1>6 DEF x

\* The body of a new match starts.
LEMMA RunFramesStack ==
    ASSUME TypeOK, NEW f, f.when \in RefsOf(Whens), f.stmt \in StmtRefs \cup {NoRef}, NEW m
    PROVE  LET n == RunFrames(f, m)
           IN  /\ StackOK(n) /\ FreshOnce(n) /\ n # <<>> /\ Len(n) \in Nat
               /\ n[Len(n)] = RefFrame("endBody", m)
               /\ \A j \in 1 .. Len(n) :
                     n[j].op \in {"inflightDecr", "command", "endBody"}
                     /\ (n[j].op = "command" => n[j].match = m)
               /\ stmts[f.when].clause \in SeriallyWhens => \A k : ~PastPrologue(n, k)
<1> DEFINE body == BodyOf(f)
           pre == IF VersionOf(f.when) # NoVersion /\ VersionOf(f.stmt) # NoVersion
                  THEN <<InflightFrame(VersionOf(f.when))>> ELSE <<>>
           run == BodyFrames(m, body)
           end == <<RefFrame("endBody", m)>>
           n == pre \o run \o end
           b == Len(body)
           p == Len(pre)
<1>1. body \in Seq(Commands)
  BY BodyTyped
<1>2. RunFrames(f, m) = n
  BY DEF RunFrames, BodyOf
<1> DEFINE S == {InflightFrame(VersionOf(f.when)), RefFrame("endBody", m)}
                \cup [op : {"command"}, match : {m}, cmd : Commands]
<1>3. pre \in Seq(S) /\ end \in Seq(S) /\ Len(end) = 1 /\ end[1] = RefFrame("endBody", m)
      /\ p \in {0, 1} /\ \A j \in 1 .. p : pre[j].op = "inflightDecr"
  <2> DEFINE a == InflightFrame(VersionOf(f.when))
             e == RefFrame("endBody", m)
  <2>1. a \in S /\ e \in S /\ a.op = "inflightDecr"
    BY DEF InflightFrame
  <2> HIDE DEF S, a, e
  <2>2. <<>> \in Seq(S) /\ Len(<<>>) = 0 /\ <<a>> \in Seq(S) /\ <<e>> \in Seq(S)
    BY <2>1, ShortSeqs, EmptySeq
  <2>3. Len(<<a>>) = 1 /\ <<a>>[1] = a /\ Len(<<e>>) = 1 /\ <<e>>[1] = e
    OBVIOUS
  <2>4. end = <<e>> /\ (pre = <<a>> \/ pre = <<>>)
    BY DEF a, e
  <2>5. end \in Seq(S) /\ Len(end) = 1 /\ end[1] = RefFrame("endBody", m)
    BY <2>2, <2>3, <2>4 DEF e
  <2> HIDE DEF pre, end
  <2>6. CASE pre = <<a>>
    BY <2>1, <2>2, <2>3, <2>5, <2>6
  <2>7. CASE pre = <<>>
    BY <2>2, <2>5, <2>7
  <2> QED BY <2>4, <2>6, <2>7
<1>4. run \in Seq(S) /\ Len(run) = b /\ b \in Nat
      /\ \A j \in 1 .. b : run[j] = [op |-> "command", match |-> m, cmd |-> body[j]]
  <2>1. b \in Nat /\ \A j \in 1 .. b : body[j] \in Commands
    BY <1>1, LenProperties, ElementOfSeq
  <2>2. \A e \in Commands : [op |-> "command", match |-> m, cmd |-> e] \in S
    OBVIOUS
  <2> HIDE DEF S, body
  <2>3. run \in Seq(S)
    BY <1>1, <2>2, BodyFramesTyped
  <2>4. DOMAIN run = 1 .. b
    BY DEF BodyFrames
  <2>5. Len(run) = b
    BY <2>1, <2>3, <2>4, LenProperties
  <2> QED BY <2>1, <2>3, <2>5 DEF BodyFrames
<1> HIDE DEF S, body, pre, run, end
<1>6. /\ Len(n) = p + b + 1
      /\ \A i \in 1 .. p : n[i] = pre[i]
      /\ \A i \in 1 .. b : n[p + i] = run[i]
      /\ n[p + b + 1] = end[1]
  <2>1. pre \in Seq(S)
    BY <1>3
  <2>3. run \in Seq(S)
    BY <1>4
  <2>4. end \in Seq(S)
    BY <1>3
  <2>2. /\ Len(n) = Len(pre) + Len(run) + Len(end)
        /\ \A i \in 1 .. Len(pre) : n[i] = pre[i]
        /\ \A i \in 1 .. Len(run) : n[Len(pre) + i] = run[i]
        /\ \A i \in 1 .. Len(end) : n[Len(pre) + Len(run) + i] = end[i]
    <3>1. \A u, v, w \in Seq(S) :
            /\ Len(u \o v \o w) = Len(u) + Len(v) + Len(w)
            /\ \A i \in 1 .. Len(u) : (u \o v \o w)[i] = u[i]
            /\ \A i \in 1 .. Len(v) : (u \o v \o w)[Len(u) + i] = v[i]
            /\ \A i \in 1 .. Len(w) : (u \o v \o w)[Len(u) + Len(v) + i] = w[i]
      BY ThreeParts
    <3> QED BY <2>1, <2>3, <2>4, <3>1
  <2> QED BY <1>3, <1>4, <2>2
<1> HIDE DEF n
<1>7. \A j \in 1 .. p : n[j].op = "inflightDecr"
  BY <1>3, <1>4, <1>6
<1>8. \A j \in p + 1 .. p + b : n[j] = [op |-> "command", match |-> m, cmd |-> body[j - p]]
  <2> SUFFICES ASSUME NEW j \in p + 1 .. p + b
               PROVE  n[j] = [op |-> "command", match |-> m, cmd |-> body[j - p]]
    OBVIOUS
  <2>1. j - p \in 1 .. b /\ p + (j - p) = j
    BY <1>3, <1>4
  <2> QED BY <1>4, <1>6, <2>1
<1>9. n[p + b + 1] = RefFrame("endBody", m)
  BY <1>3, <1>4, <1>6
<1>10. \A j \in 1 .. Len(n) :
         \/ j \in 1 .. p /\ n[j].op = "inflightDecr"
         \/ j \in p + 1 .. p + b /\ n[j].op = "command" /\ n[j].match = m
         \/ j = Len(n) /\ n[j].op = "endBody"
  <2> SUFFICES ASSUME NEW j \in 1 .. Len(n)
               PROVE  \/ j \in 1 .. p /\ n[j].op = "inflightDecr"
                      \/ j \in p + 1 .. p + b /\ n[j].op = "command" /\ n[j].match = m
                      \/ j = Len(n) /\ n[j].op = "endBody"
    OBVIOUS
  <2>1. j \in 1 .. p \/ j \in p + 1 .. p + b \/ j = p + b + 1
    BY <1>3, <1>4, <1>6
  <2>2. CASE j \in p + 1 .. p + b
    <3>1. n[j] = [op |-> "command", match |-> m, cmd |-> body[j - p]]
      BY <1>8, <2>2
    <3> QED BY <2>2, <3>1
  <2> QED BY <1>6, <1>7, <1>9, <2>1, <2>2 DEF RefFrame
<1>11. n # <<>> /\ Len(n) \in Nat
  <2>1. Len(<<>>) = 0
    BY EmptySeq
  <2> QED BY <1>3, <1>4, <1>6, <2>1
<1>12. StackOK(n)
  <2> SUFFICES ASSUME NEW j \in 1 .. Len(n)
               PROVE  /\ n[j].op \notin {"lockStmt", "clearDue"}
                      /\ n[j].op \in EndOps => j = Len(n)
                      /\ n[j].op = "command" =>
                           /\ n[j].match = m
                           /\ \A k \in j .. Len(n) :
                                \/ n[k].op = "command" /\ n[k].match = m
                                \/ k = Len(n) /\ n[k] = RefFrame("endBody", m)
    BY <1>6, <1>9 DEF StackOK
  <2>1. \A k \in j .. Len(n) : j > p => k \in 1 .. Len(n) /\ k > p
    BY <1>3, <1>4, <1>6
  <2>2. n[j].op = "command" => j > p
    BY <1>3, <1>4, <1>10
  <2>3. \A k \in 1 .. Len(n) : k > p => k \notin 1 .. p
    BY <1>3
  <2> QED BY <1>6, <1>9, <1>10, <2>1, <2>2, <2>3 DEF EndOps
<1>13. FreshOnce(n)
  <2> SUFFICES ASSUME NEW j \in 1 .. Len(n), NEW k \in 1 .. Len(n), IsFresh(n[j]), IsFresh(n[k])
               PROVE  j = k
    BY DEF FreshOnce
  <2>1. j \in p + 1 .. p + b /\ k \in p + 1 .. p + b
    BY <1>10 DEF IsFresh
  <2>2. j - p \in 1 .. b /\ k - p \in 1 .. b
    BY <1>3, <1>4, <2>1
  <2>3. body[j - p].cmd = "fresh" /\ body[k - p].cmd = "fresh"
    <3>1. /\ n[j] = [op |-> "command", match |-> m, cmd |-> body[j - p]]
          /\ n[k] = [op |-> "command", match |-> m, cmd |-> body[k - p]]
      BY <1>8, <2>1
    <3> QED BY <3>1 DEF IsFresh
  <2>4. j - p = k - p
    <3>1. \E w \in Whens : \E c \in Clauses \cup {NoClause} : body = Body[w][c]
      <4>1. stmts[f.when].clause \in Whens
        BY DEF RefsOf
      <4>2. f.stmt # NoRef => stmts[f.stmt].clause \in Clauses
        BY StmtFields DEF Stmt
      <4> QED BY <4>1, <4>2 DEF body, BodyOf
    <3> QED BY <2>2, <2>3, <3>1, ProloguesAssumption
  <2> QED BY <1>3, <2>1, <2>4
<1>14. ASSUME stmts[f.when].clause \in SeriallyWhens, NEW k PROVE ~PastPrologue(n, k)
  <2>1. SeriallyCmd \in ToSet(body)
    <3>1. f.stmt # NoRef => stmts[f.stmt].clause \in Clauses
      BY StmtFields DEF Stmt
    <3> QED BY <1>14, <3>1, ProloguesAssumption DEF body, BodyOf
  <2>2. DOMAIN body = 1 .. b
    BY <1>1, LenProperties
  <2>3. PICK i \in 1 .. b : body[i] = SeriallyCmd
    BY <2>1, <2>2 DEF ToSet
  <2>4. p + i \in p + 1 .. p + b /\ p + i \in 1 .. Len(n) /\ p + i - p = i
    BY <1>3, <1>4, <1>6
  <2>5. n[p + i].op = "command" /\ n[p + i].cmd = SeriallyCmd
    <3>1. n[p + i] = [op |-> "command", match |-> m, cmd |-> body[i]]
      BY <1>8, <2>4
    <3> QED BY <2>3, <3>1
  <2> QED BY <2>4, <2>5 DEF PastPrologue
<1>15. /\ n[Len(n)] = RefFrame("endBody", m)
       /\ \A j \in 1 .. Len(n) :
             n[j].op \in {"inflightDecr", "command", "endBody"}
             /\ (n[j].op = "command" => n[j].match = m)
  BY <1>6, <1>9, <1>10
<1> QED BY <1>2, <1>11, <1>12, <1>13, <1>14, <1>15

-----------------------------------------------------------------------------
(* The inductive invariant of the bodies.                                  *)

Stacks == \A t \in Threads : StackOK(todo[t]) /\ FreshOnce(todo[t])

\* One thread is in runWhenBlock for a match, and until the match is completed.
RunsOnce ==
    \A m \in MatchRefs : \A t \in Threads : EndsIn(todo[t], m) =>
        /\ ~matches[m].completed
        /\ \A u \in Threads : EndsIn(todo[u], m) => u = t

\* A match is a child of its When.
MatchesAgree ==
    \A m \in MatchRefs :
        /\ matches[m].parents # <<>>
        /\ m \in ToSet(stmts[matches[m].parents[1]].kids)

\* The root of a version has that version.
RootsAgree ==
    \A v \in Versions : versions[v].root # NoRef => matches[versions[v].root].version = v

\* A match that is still to make its version is no root.
FreshFirst ==
    \A t \in Threads : \A j \in 1 .. Len(todo[t]) : IsFresh(todo[t][j]) =>
        \A v \in Versions : versions[v].root # todo[t][j].match

BodiesInv ==
    Stacks /\ RunsOnce /\ MatchesAgree /\ SeriallyExclusive /\ RootsAgree /\ FreshFirst

\* Only thread t moves.
Moves(t) == \A u \in Threads : u # t => todo'[u] = todo[u]

SteadyStmts ==
    \A s \in StmtRefs : /\ stmts'[s].clause = stmts[s].clause
                        /\ stmts'[s].version = stmts[s].version
                        /\ stmts'[s].kids = stmts[s].kids
                        /\ stmts'[s].open => stmts[s].open

SameParents ==
    /\ Len(matches') = Len(matches)
    /\ \A m \in MatchRefs : matches'[m].parents = matches[m].parents

SameVersions == \A m \in MatchRefs : matches'[m].version = matches[m].version

SameCompleted == \A m \in MatchRefs : matches'[m].completed = matches[m].completed

SteadyMatches == SameParents /\ SameVersions /\ SameCompleted

\* A version may lose its root and never gets one.
SteadyRoots ==
    /\ Len(versions') = Len(versions)
    /\ \A v \in Versions : /\ versions'[v].key = versions[v].key
                            /\ versions'[v].root \in {versions[v].root, NoRef}

LEMMA StacksStep ==
    ASSUME Stacks, NEW t \in Threads, Moves(t), Inside(todo[t], todo'[t])
    PROVE  Stacks'
BY DEF Stacks, Moves, Inside

\* The references a match and a stack hold.
LEMMA MatchTyped ==
    ASSUME TypeOK, NEW m \in MatchRefs
    PROVE  /\ matches[m] \in Match /\ m # NoRef
           /\ matches[m].parents \in Seq(StmtRefs)
           /\ matches[m].parents # <<>> => matches[m].parents[1] \in StmtRefs
<1>1. matches[m] \in Match
  BY MatchFields
<1>2. matches[m].parents \in Seq(StmtRefs)
  BY <1>1 DEF Match
<1>3. matches[m].parents # <<>> => 1 \in 1 .. Len(matches[m].parents)
  BY <1>2, EmptySeq
<1> QED BY <1>1, <1>2, <1>3, ElementOfSeq DEF MatchRefs, NoRef

LEMMA StackTyped ==
    ASSUME TypeOK, NEW t \in Threads
    PROVE  /\ todo[t] \in Seq(Frames) /\ Len(todo[t]) \in Nat
           /\ \A j \in 1 .. Len(todo[t]) : todo[t][j] \in Frames
           /\ \A m : EndsIn(todo[t], m) => m \in MatchRefs
           /\ \A m : PastPrologue(todo[t], m) => EndsIn(todo[t], m)
           /\ \A j \in 1 .. Len(todo[t]) : IsFresh(todo[t][j]) => todo[t][j].match \in MatchRefs
<1>1. todo[t] \in Seq(Frames)
  BY DEF TypeOK
<1>2. Len(todo[t]) \in Nat /\ \A j \in 1 .. Len(todo[t]) : todo[t][j] \in Frames
  BY <1>1, LenProperties, ElementOfSeq
<1>3. todo[t] # <<>> => Len(todo[t]) \in 1 .. Len(todo[t])
  BY <1>1, EmptySeq
<1>4. \A f \in Frames : f.op \in EndOps => f.ref \in MatchRefs
  BY FrameFields DEF EndOps, MatchOps
<1>5. \A m : EndsIn(todo[t], m) => m \in MatchRefs
  BY <1>2, <1>3, <1>4 DEF EndsIn
<1>6. todo[t] = <<>> => Len(todo[t]) = 0
  BY EmptySeq
<1>7. \A m : PastPrologue(todo[t], m) => EndsIn(todo[t], m)
  BY <1>2, <1>6 DEF PastPrologue, EndsIn, EndOps, RefFrame
<1>8. \A f \in Frames : IsFresh(f) => f.match \in MatchRefs
  <2>1. \A cmd \in FreeCommands : cmd.cmd # "fresh"
    BY DEF FreeCommands
  <2> QED BY <2>1, FrameFields DEF IsFresh
<1> QED BY <1>1, <1>2, <1>5, <1>7, <1>8

LEMMA RunsOnceStep ==
    ASSUME TypeOK, RunsOnce, NEW t \in Threads, Moves(t), Inside(todo[t], todo'[t]),
           SameParents, SameCompleted
    PROVE  RunsOnce'
<1>1. MatchRefs' = MatchRefs
  BY DEF MatchRefs, SameParents, SameCompleted
<1>2. \A u \in Threads : \A m : EndsIn(todo'[u], m) => EndsIn(todo[u], m)
  BY DEF Moves, Inside
<1> QED BY <1>1, <1>2 DEF RunsOnce, SameParents, SameCompleted

LEMMA MatchesAgreeStep ==
    ASSUME TypeOK, MatchesAgree, SameParents, SteadyStmts
    PROVE  MatchesAgree'
<1>1. MatchRefs' = MatchRefs
  BY DEF MatchRefs, SameParents, SameVersions
<1> SUFFICES ASSUME NEW m \in MatchRefs
             PROVE  /\ matches'[m].parents # <<>>
                    /\ m \in ToSet(stmts'[matches'[m].parents[1]].kids)
  BY <1>1 DEF MatchesAgree
<1>2. matches'[m].parents = matches[m].parents /\ matches[m].parents # <<>>
  BY DEF MatchesAgree, SameParents, SameVersions
<1>3. matches[m].parents[1] \in StmtRefs
  BY <1>2, MatchTyped
<1> QED BY <1>2, <1>3 DEF MatchesAgree, SteadyStmts

\* A step that passes no prologue keeps the bodies of a When -serially apart.
LEMMA SeriallyStep ==
    ASSUME TypeOK, MatchesAgree, SeriallyExclusive, NEW t \in Threads, Moves(t),
           Within(todo[t], todo'[t]), SameParents, SteadyStmts, TypeOK'
    PROVE  SeriallyExclusive'
<1>1. DOMAIN matches = MatchRefs /\ DOMAIN matches' = MatchRefs
  BY LenProperties DEF TypeOK, DbTypeOK, MatchRefs, SameParents, SameVersions
<1> SUFFICES ASSUME NEW m \in MatchRefs, NEW n \in MatchRefs,
                    stmts'[matches'[m].parents[1]].open,
                    stmts'[matches'[m].parents[1]].clause \in SeriallyWhens,
                    matches'[n].parents[1] = matches'[m].parents[1],
                    NEW r \in Threads, NEW u \in Threads,
                    PastPrologue(todo'[r], m), PastPrologue(todo'[u], n)
             PROVE  m = n
  BY <1>1 DEF SeriallyExclusive
<1>2. /\ matches'[m].parents = matches[m].parents /\ matches'[n].parents = matches[n].parents
      /\ matches[m].parents # <<>>
  BY DEF SameParents, SameVersions, MatchesAgree
<1>3. matches[m].parents[1] \in StmtRefs
  BY <1>2, MatchTyped
<1>4. /\ stmts[matches[m].parents[1]].open
      /\ stmts[matches[m].parents[1]].clause \in SeriallyWhens
  BY <1>2, <1>3 DEF SteadyStmts
<1>5. PastPrologue(todo[r], m) /\ PastPrologue(todo[u], n)
  BY DEF Within, Moves
<1> QED BY <1>1, <1>2, <1>4, <1>5 DEF SeriallyExclusive

LEMMA RootsStep ==
    ASSUME TypeOK, RootsAgree, SameParents, SameVersions, SteadyRoots
    PROVE  RootsAgree'
<1>1. Versions' = Versions
  BY DEF Versions, SteadyRoots
<1> SUFFICES ASSUME NEW v \in Versions, versions'[v].root # NoRef
             PROVE  matches'[versions'[v].root].version = v
  BY <1>1 DEF RootsAgree
<1>2. versions'[v].root = versions[v].root
  BY DEF SteadyRoots
<1>3. versions[v] \in Version
  BY VersionFields
<1>4. versions[v].root \in MatchRefs
  BY <1>2, <1>3 DEF Version
<1> QED BY <1>2, <1>4 DEF RootsAgree, SameParents, SameVersions

LEMMA FreshStep ==
    ASSUME TypeOK, FreshFirst, NEW t \in Threads, Moves(t), Inside(todo[t], todo'[t]), SteadyRoots
    PROVE  FreshFirst'
<1>1. Versions' = Versions
  BY DEF Versions, SteadyRoots
<1> SUFFICES ASSUME NEW u \in Threads, NEW j \in 1 .. Len(todo'[u]), IsFresh(todo'[u][j]),
                    NEW v \in Versions
             PROVE  versions'[v].root # todo'[u][j].match
  BY <1>1 DEF FreshFirst
<1>2. PICK k \in 1 .. Len(todo[u]) : todo[u][k] = todo'[u][j]
  BY DEF Moves, Inside
<1>3. versions[v].root # todo'[u][j].match
  BY <1>2 DEF FreshFirst
<1>4. todo'[u][j].match # NoRef
  BY <1>2, StackTyped, MatchTyped
<1> QED BY <1>3, <1>4 DEF SteadyRoots

\* The steps that start no body, pass no prologue and make no version.
LEMMA BodiesStep ==
    ASSUME TypeOK, BodiesInv, TypeOK', NEW t \in Threads, Moves(t), Within(todo[t], todo'[t]),
           SteadyStmts, SteadyMatches, SteadyRoots
    PROVE  BodiesInv'
<1>1. Inside(todo[t], todo'[t])
  BY DEF Within
<1>2. SameParents /\ SameVersions /\ SameCompleted
  BY DEF SteadyMatches
<1> QED BY <1>1, <1>2, StacksStep, RunsOnceStep, MatchesAgreeStep, SeriallyStep, RootsStep, FreshStep
        DEF BodiesInv

-----------------------------------------------------------------------------
(* What most steps do to the variables.                                    *)

LEMMA UnchangedSteady ==
    /\ stmts' = stmts => SteadyStmts
    /\ matches' = matches => SteadyMatches
    /\ versions' = versions => SteadyRoots
BY DEF SteadyStmts, SteadyMatches, SameParents, SameVersions, SameCompleted, SteadyRoots

LEMMA StmtSteady ==
    ASSUME TypeOK, NEW s \in StmtRefs, NEW x
    PROVE  /\ stmts' = [stmts EXCEPT ![s].parentCount = x] => SteadyStmts
           /\ stmts' = [stmts EXCEPT ![s].keep = x] => SteadyStmts
           /\ stmts' = [stmts EXCEPT ![s].lock = x] => SteadyStmts
           /\ stmts' = [stmts EXCEPT ![s].open = FALSE] => SteadyStmts
<1>1. DOMAIN stmts = StmtRefs
  BY LensTyped DEF StmtRefs
<1>2. stmts[s] \in Stmt
  BY StmtFields
<1>3. ASSUME NEW e, e.clause = stmts[s].clause, e.kids = stmts[s].kids, e.open => stmts[s].open,
             e.version = stmts[s].version,
             stmts' = [stmts EXCEPT ![s] = e]
      PROVE  SteadyStmts
  BY <1>1, <1>3 DEF SteadyStmts
<1>4. /\ [stmts[s] EXCEPT !.parentCount = x].clause = stmts[s].clause
      /\ [stmts[s] EXCEPT !.parentCount = x].kids = stmts[s].kids
      /\ [stmts[s] EXCEPT !.parentCount = x].version = stmts[s].version
      /\ [stmts[s] EXCEPT !.parentCount = x].open = stmts[s].open
  BY <1>2 DEF Stmt
<1>5. /\ [stmts[s] EXCEPT !.keep = x].clause = stmts[s].clause
      /\ [stmts[s] EXCEPT !.keep = x].kids = stmts[s].kids
      /\ [stmts[s] EXCEPT !.keep = x].version = stmts[s].version
      /\ [stmts[s] EXCEPT !.keep = x].open = stmts[s].open
  BY <1>2 DEF Stmt
<1>6. /\ [stmts[s] EXCEPT !.lock = x].clause = stmts[s].clause
      /\ [stmts[s] EXCEPT !.lock = x].kids = stmts[s].kids
      /\ [stmts[s] EXCEPT !.lock = x].version = stmts[s].version
      /\ [stmts[s] EXCEPT !.lock = x].open = stmts[s].open
  BY <1>2 DEF Stmt
<1>7. /\ [stmts[s] EXCEPT !.open = FALSE].clause = stmts[s].clause
      /\ [stmts[s] EXCEPT !.open = FALSE].kids = stmts[s].kids
      /\ [stmts[s] EXCEPT !.open = FALSE].version = stmts[s].version
      /\ [stmts[s] EXCEPT !.open = FALSE].open => stmts[s].open
  BY <1>2 DEF Stmt
<1> QED BY <1>3, <1>4, <1>5, <1>6, <1>7

LEMMA MatchSteady ==
    ASSUME TypeOK, NEW m \in MatchRefs, NEW x
    PROVE  /\ matches' = [matches EXCEPT ![m].lock = x] => SteadyMatches
           /\ matches' = [matches EXCEPT ![m].open = x] => SteadyMatches
           /\ \A y : matches' = [matches EXCEPT ![m].parentWasRemoved = x, ![m].overlooked = y]
                    => SteadyMatches
           /\ matches' = [matches EXCEPT ![m].kids = Append(@, x), ![m].lock = NoThread]
                    => SteadyMatches
<1>1. DOMAIN matches = MatchRefs /\ matches \in Seq(Match) /\ MatchRefs = 1 .. Len(matches)
  BY LensTyped DEF MatchRefs, TypeOK, DbTypeOK
<1>2. matches[m] \in Match
  BY MatchFields
<1>3. ASSUME NEW e, e.parents = matches[m].parents, e.completed = matches[m].completed,
             e.version = matches[m].version, matches' = [matches EXCEPT ![m] = e]
      PROVE  SteadyMatches
  <2>1. matches \in Seq(Match \cup {e})
    BY <1>1, SeqMonotonic
  <2>2. Len(matches') = Len(matches)
    BY <1>1, <1>3, <2>1, ExceptSeq
  <2> QED BY <1>1, <1>3, <2>2 DEF SteadyMatches, SameParents, SameVersions, SameCompleted
<1>4. /\ [matches[m] EXCEPT !.lock = x].parents = matches[m].parents
      /\ [matches[m] EXCEPT !.lock = x].completed = matches[m].completed
      /\ [matches[m] EXCEPT !.lock = x].version = matches[m].version
  BY <1>2 DEF Match
<1>5. /\ [matches[m] EXCEPT !.open = x].parents = matches[m].parents
      /\ [matches[m] EXCEPT !.open = x].completed = matches[m].completed
      /\ [matches[m] EXCEPT !.open = x].version = matches[m].version
  BY <1>2 DEF Match
<1>6. ASSUME NEW y, matches' = [matches EXCEPT ![m].parentWasRemoved = x, ![m].overlooked = y]
      PROVE  SteadyMatches
  <2> DEFINE e == [matches[m] EXCEPT !.parentWasRemoved = x, !.overlooked = y]
  <2>1. [matches EXCEPT ![m].parentWasRemoved = x, ![m].overlooked = y] = [matches EXCEPT ![m] = e]
    OBVIOUS
  <2>2. /\ e.parents = matches[m].parents /\ e.completed = matches[m].completed
        /\ e.version = matches[m].version
    BY <1>2 DEF Match
  <2> HIDE DEF e
  <2> QED BY <1>3, <1>6, <2>1, <2>2
<1>7. ASSUME matches' = [matches EXCEPT ![m].kids = Append(@, x), ![m].lock = NoThread]
      PROVE  SteadyMatches
  <2> DEFINE e == [matches[m] EXCEPT !.kids = Append(@, x), !.lock = NoThread]
  <2>1. [matches EXCEPT ![m].kids = Append(@, x), ![m].lock = NoThread] = [matches EXCEPT ![m] = e]
    OBVIOUS
  <2>2. /\ e.parents = matches[m].parents /\ e.completed = matches[m].completed
        /\ e.version = matches[m].version
    BY <1>2 DEF Match
  <2> HIDE DEF e
  <2> QED BY <1>3, <1>7, <2>1, <2>2
<1> QED BY <1>3, <1>4, <1>5, <1>6, <1>7

LEMMA VersionSteady ==
    ASSUME TypeOK, NEW v \in Versions
    PROVE  /\ \A x : versions' = [versions EXCEPT ![v].inflight = x] => SteadyRoots
           /\ versions' = [versions EXCEPT ![v].root = NoRef] => SteadyRoots
           /\ versions' = [versions EXCEPT ![v].lost = @ + 1] => SteadyRoots
           /\ \A x : /\ [versions EXCEPT ![v].inflight = x][v].key = versions[v].key
                    /\ [versions EXCEPT ![v].inflight = x][v].root = versions[v].root
<1>1. DOMAIN versions = Versions /\ versions \in Seq(Version) /\ Versions = 1 .. Len(versions)
  BY LensTyped DEF Versions, TypeOK, DbTypeOK
<1>2. versions[v] \in Version
  BY VersionFields
<1>3. ASSUME NEW e, e.key = versions[v].key, e.root \in {versions[v].root, NoRef},
             versions' = [versions EXCEPT ![v] = e]
      PROVE  SteadyRoots
  <2>1. versions \in Seq(Version \cup {e})
    BY <1>1, SeqMonotonic
  <2>2. Len(versions') = Len(versions)
    BY <1>1, <1>3, <2>1, ExceptSeq
  <2> QED BY <1>1, <1>3, <2>2 DEF SteadyRoots
<1>4. \A x : /\ [versions[v] EXCEPT !.inflight = x].key = versions[v].key
            /\ [versions[v] EXCEPT !.inflight = x].root = versions[v].root
  BY <1>2 DEF Version
<1>5. /\ [versions[v] EXCEPT !.root = NoRef].key = versions[v].key
      /\ [versions[v] EXCEPT !.root = NoRef].root = NoRef
  BY <1>2 DEF Version
<1>6. /\ [versions[v] EXCEPT !.lost = @ + 1].key = versions[v].key
      /\ [versions[v] EXCEPT !.lost = @ + 1].root = versions[v].root
  BY <1>2 DEF Version
<1> QED BY <1>1, <1>3, <1>4, <1>5, <1>6

LEMMA CountsSteady ==
    ASSUME TypeOK, NEW v \in Versions \cup {NoVersion}
    PROVE  /\ versions' = Incr(versions, v) => SteadyRoots
           /\ versions' = Lose(versions, v) => SteadyRoots
BY VersionSteady, UnchangedSteady DEF Incr, Lose

-----------------------------------------------------------------------------
(* Steps that are none of a body's own.                                    *)

OtherOps == BodyOps \cup ReapOps

\* The thread replaces its innermost call by others that are neither a body's
\* nor the reaper's.
Plainly(t) ==
    /\ todo[t] # <<>> /\ Top(t).op \notin EntryOps
    /\ Top(t).op = "command" => Top(t).cmd # SeriallyCmd
    /\ \E frames : Calls(frames, OtherOps) /\ Then(t, frames)

Steady(t) ==
    /\ Plainly(t) \/ todo' = todo
    /\ SteadyStmts /\ SteadyMatches /\ SteadyRoots
    /\ atomicallys' = atomicallys /\ later' = later

LEMMA ShortCalls ==
    ASSUME NEW ops
    PROVE  /\ Calls(<<>>, ops)
           /\ \A f : f.op \notin ops => Calls(<<f>>, ops)
           /\ \A f, g : f.op \notin ops /\ g.op \notin ops => Calls(<<f, g>>, ops)
           /\ \A f, g, h : f.op \notin ops /\ g.op \notin ops /\ h.op \notin ops
                          => Calls(<<f, g, h>>, ops)
<1>1. Calls(<<>>, ops)
  BY EmptySeq DEF Calls
<1>2. ASSUME NEW f, f.op \notin ops PROVE Calls(<<f>>, ops)
  <2>1. <<f>> \in Seq({f})
    BY ShortSeqs
  <2>2. \E S : <<f>> \in Seq(S)
    BY <2>1
  <2>3. \A j \in 1 .. Len(<<f>>) : <<f>>[j].op \notin ops
    BY <1>2
  <2> QED BY <2>2, <2>3 DEF Calls
<1>3. ASSUME NEW f, NEW g, f.op \notin ops /\ g.op \notin ops PROVE Calls(<<f, g>>, ops)
  <2>1. <<f, g>> \in Seq({f, g})
    BY ShortSeqs
  <2>2. \E S : <<f, g>> \in Seq(S)
    BY <2>1
  <2>3. \A j \in 1 .. Len(<<f, g>>) : <<f, g>>[j].op \notin ops
    BY <1>3
  <2> QED BY <2>2, <2>3 DEF Calls
<1>4. ASSUME NEW f, NEW g, NEW h, f.op \notin ops /\ g.op \notin ops /\ h.op \notin ops
      PROVE  Calls(<<f, g, h>>, ops)
  <2>1. <<f, g, h>> \in Seq({f, g, h})
    BY ShortSeqs
  <2>2. \E S : <<f, g, h>> \in Seq(S)
    BY <2>1
  <2>3. \A j \in 1 .. Len(<<f, g, h>>) : <<f, g, h>>[j].op \notin ops
    BY <1>4
  <2> QED BY <2>2, <2>3 DEF Calls
<1> QED BY <1>1, <1>2, <1>3, <1>4

LEMMA CallsConcat ==
    ASSUME NEW ops, NEW u, Calls(u, ops), NEW v, Calls(v, ops)
    PROVE  Calls(u \o v, ops)
<1>1. PICK S : u \in Seq(S)
  BY DEF Calls
<1>2. PICK T : v \in Seq(T)
  BY DEF Calls
<1>3. u \in Seq(S \cup T)
  BY <1>1, SeqMonotonic
<1>4. v \in Seq(S \cup T)
  BY <1>2, SeqMonotonic
<1>5. /\ u \o v \in Seq(S \cup T) /\ Len(u \o v) = Len(u) + Len(v)
      /\ \A i \in 1 .. Len(u) + Len(v) : (u \o v)[i] = IF i <= Len(u) THEN u[i] ELSE v[i - Len(u)]
  BY <1>3, <1>4, ConcatProperties
<1>6. Len(u) \in Nat /\ Len(v) \in Nat
  BY <1>3, <1>4, LenProperties
<1>7. \A i \in 1 .. Len(u) + Len(v) : i <= Len(u) \/ i - Len(u) \in 1 .. Len(v)
  BY <1>6
<1>8. \A i \in 1 .. Len(u) + Len(v) : i <= Len(u) => i \in 1 .. Len(u)
  BY <1>6
<1> QED BY <1>5, <1>7, <1>8 DEF Calls

LEMMA FramesForCalls ==
    ASSUME NEW ops, NEW op, op \notin ops, NEW R, NEW refs \in Seq(R)
    PROVE  Calls(FramesFor(op, refs), ops)
<1>1. FramesFor(op, refs) \in Seq({RefFrame(op, r) : r \in R})
  BY FramesForTyped
<1>2. Len(refs) \in Nat /\ DOMAIN FramesFor(op, refs) = 1 .. Len(refs)
  BY LenProperties DEF FramesFor
<1>3. Len(FramesFor(op, refs)) = Len(refs)
  BY <1>1, <1>2, LenProperties
<1> QED BY <1>1, <1>3 DEF Calls, FramesFor, RefFrame

\* The innermost call is one with this name.
LEMMA AtPlain ==
    ASSUME NEW t, NEW op, At(t, op), op \notin EntryOps, op # "command",
           NEW frames, Calls(frames, OtherOps), Then(t, frames)
    PROVE  Plainly(t)
BY DEF Plainly, At

LEMMA AtCommandPlain ==
    ASSUME NEW t, NEW name, AtCommand(t, name), name # "serially",
           NEW frames, Calls(frames, OtherOps), Then(t, frames)
    PROVE  Plainly(t)
BY DEF Plainly, At, AtCommand, EntryOps, SeriallyCmd

\* Most calls are plain.
PlainOps ==
    StmtOps \cup {"place", "reuse", "adopt", "holdSet", "storeKeep", "unmatch", "markRemoved",
                  "closeMatch", "signal", "reapRoot", "inflightDecr", "collected"}

LEMMA PlainCalls ==
    /\ PlainOps \cap (OtherOps \cup EntryOps) = {} /\ "command" \notin PlainOps
    /\ Calls(<<>>, OtherOps)
    /\ \A op \in PlainOps \cup {"setDue"} : \A r : Calls(<<RefFrame(op, r)>>, OtherOps)
    /\ \A f : f.op \in PlainOps => Calls(<<f>>, OtherOps)
    /\ \A v : Calls(InflightFrames(v), OtherOps)
<1>1. PlainOps \cap (OtherOps \cup EntryOps) = {} /\ "command" \notin PlainOps
      /\ "setDue" \notin OtherOps
  BY DEF PlainOps, StmtOps, OtherOps, BodyOps, EndOps, ReapOps, EntryOps
<1>2. Calls(<<>>, OtherOps) /\ \A f : f.op \notin OtherOps => Calls(<<f>>, OtherOps)
  BY ShortCalls
<1>3. \A op, r : RefFrame(op, r).op = op
  BY DEF RefFrame
<1>4. \A v : InflightFrame(v).op = "inflightDecr"
  BY DEF InflightFrame
<1>5. \A op \in PlainOps \cup {"setDue"} : \A r : Calls(<<RefFrame(op, r)>>, OtherOps)
  BY <1>1, <1>2, <1>3
<1>6. \A v : Calls(InflightFrames(v), OtherOps)
  BY <1>1, <1>2, <1>4 DEF InflightFrames, PlainOps
<1>7. \A f : f.op \in PlainOps => Calls(<<f>>, OtherOps)
  BY <1>1, <1>2
<1> QED BY <1>1, <1>2, <1>5, <1>6, <1>7

LEMMA PlainThen ==
    ASSUME NEW t, NEW op \in PlainOps, At(t, op)
    PROVE  \A frames : Calls(frames, OtherOps) /\ Then(t, frames) => Plainly(t)
<1>1. op \notin EntryOps /\ op # "command"
  BY PlainCalls
<1> QED BY <1>1, AtPlain

LEMMA HoldSetCalls ==
    ASSUME NEW f
    PROVE  Calls(HoldSetFrames(f), OtherOps)
<1>1. [op |-> "holdSet", key |-> f.key, ref |-> f.ref, old |-> f.old].op \in PlainOps
  BY DEF PlainOps
<1> QED BY <1>1, PlainCalls DEF HoldSetFrames

LEMMA InsertPlaceSteady ==
    ASSUME TypeOK, NEW t \in Threads, InsertPlace(t)
    PROVE  Steady(t)
<1> DEFINE f == Top(t)
<1>1. At(t, "place") /\ "place" \in PlainOps
  BY DEF InsertPlace, PlainOps
<1>2. f \in Frames /\ f.op = "place"
  BY <1>1, TopTyped DEF At
<1>3. f \in [op : {"place", "reuse", "adopt"}, clause : Clauses,
             parent : MatchRefs \cup {NoRef}, keep : {"none", "keep"},
             version : Versions \cup {NoVersion}, key : Keys \cup {NoKey},
             old : StmtRefs \cup {NoRef}, ref : StmtRefs \cup {NoRef}]
  BY <1>2, FrameFields
<1> HIDE DEF f
<1>4. \A r : [f EXCEPT !.op = "reuse", !.ref = r].op = "reuse"
             /\ [f EXCEPT !.op = "adopt", !.ref = r].op = "adopt"
  BY <1>3
<1>5. \A r : Calls(<<[f EXCEPT !.op = "reuse", !.ref = r]>>, OtherOps)
             /\ Calls(<<[f EXCEPT !.op = "adopt", !.ref = r]>>, OtherOps)
  BY <1>4, PlainCalls DEF PlainOps
<1>6. Plainly(t)
  BY <1>1, <1>5, PlainThen DEF InsertPlace, f
<1>7. SteadyStmts
  <2>1. CASE stmts' = stmts
    BY <2>1, UnchangedSteady
  <2>2. ASSUME NEW e, stmts' = Append(stmts, e) PROVE SteadyStmts
    <3>1. stmts \in Seq(Stmt \cup {e})
      BY SeqMonotonic DEF TypeOK, DbTypeOK
    <3>2. \A s \in StmtRefs : stmts'[s] = stmts[s]
      BY <2>2, <3>1, AppendProperties DEF StmtRefs
    <3> QED BY <3>2 DEF SteadyStmts
  <2> QED BY <2>1, <2>2 DEF InsertPlace
<1> QED BY <1>6, <1>7, UnchangedSteady DEF Steady, InsertPlace, sideVars

LEMMA AddChildSteady ==
    ASSUME TypeOK, NEW m \in MatchRefs \cup {NoRef}, NEW s, AddChildAndUnlock(m, s)
    PROVE  SteadyMatches
BY MatchSteady, UnchangedSteady DEF AddChildAndUnlock

LEMMA InsertReuseSteady ==
    ASSUME TypeOK, NEW t \in Threads, InsertReuse(t)
    PROVE  Steady(t)
<1> DEFINE f == Top(t)
<1>1. At(t, "reuse") /\ "reuse" \in PlainOps
  BY DEF InsertReuse, PlainOps
<1>2. f \in Frames /\ f.op = "reuse"
  BY <1>1, TopTyped DEF At
<1>3. f \in [op : {"place", "reuse", "adopt"}, clause : Clauses,
             parent : MatchRefs \cup {NoRef}, keep : {"none", "keep"},
             version : Versions \cup {NoVersion}, key : Keys \cup {NoKey},
             old : StmtRefs \cup {NoRef}, ref : StmtRefs \cup {NoRef}]
  BY <1>2, FrameFields
<1> HIDE DEF f
<1>4. [f EXCEPT !.op = "place"].op = "place"
  BY <1>3
<1>5. Calls(<<[f EXCEPT !.op = "place"]>>, OtherOps)
  BY <1>4, PlainCalls DEF PlainOps
<1>6. Plainly(t)
  BY <1>1, <1>5, HoldSetCalls, PlainThen DEF InsertReuse, f
<1>7. CASE CanReuse(f.ref)
  <2>1. f.ref \in StmtRefs
    BY <1>3, <1>7 DEF CanReuse, Live
  <2>2. SteadyStmts
    BY <1>7, <2>1, StmtSteady DEF InsertReuse, IncrParentCount, f
  <2>3. f.parent \in MatchRefs \cup {NoRef} /\ f.version \in Versions \cup {NoVersion}
    BY <1>3
  <2>4. SteadyMatches /\ SteadyRoots
    BY <1>7, <2>3, AddChildSteady, CountsSteady DEF InsertReuse, f
  <2> QED BY <1>6, <2>2, <2>4 DEF Steady, InsertReuse
<1>8. CASE ~CanReuse(f.ref)
  BY <1>6, <1>8, UnchangedSteady DEF Steady, InsertReuse, f
<1> QED BY <1>7, <1>8

LEMMA InsertAdoptSteady ==
    ASSUME TypeOK, NEW t \in Threads, InsertAdopt(t)
    PROVE  Steady(t)
<1> DEFINE f == Top(t)
<1>1. At(t, "adopt") /\ "adopt" \in PlainOps /\ "react" \in PlainOps
  BY DEF InsertAdopt, PlainOps, StmtOps
<1>2. f \in Frames /\ f.op = "adopt"
  BY <1>1, TopTyped DEF At
<1>3. f.parent \in MatchRefs \cup {NoRef}
  BY <1>2, FrameFields
<1>4. Calls(HoldSetFrames(f) \o <<RefFrame("react", f.ref)>>, OtherOps)
  <2>1. Calls(HoldSetFrames(f), OtherOps) /\ Calls(<<RefFrame("react", f.ref)>>, OtherOps)
    BY <1>1, PlainCalls, HoldSetCalls
  <2> QED BY <2>1, CallsConcat
<1>5. Plainly(t) \/ todo' = todo
  BY <1>1, <1>4, PlainThen DEF InsertAdopt
<1>6. SteadyMatches
  BY <1>3, AddChildSteady, UnchangedSteady DEF InsertAdopt
<1> QED BY <1>5, <1>6, UnchangedSteady DEF Steady, InsertAdopt, sideVars

\* A statement's count or keepMs changes, or it is closed.
LEMMA AtStmtPlain ==
    ASSUME TypeOK, NEW t \in Threads, NEW op \in StmtOps, At(t, op)
    PROVE  /\ Top(t).ref \in StmtRefs
           /\ \A frames : Calls(frames, OtherOps) /\ Then(t, frames) => Plainly(t)
           /\ \A o \in StmtOps : Calls(<<RefFrame(o, Top(t).ref)>>, OtherOps)
BY AtStmt, PlainThen, PlainCalls DEF PlainOps

LEMMA DecrSteady ==
    ASSUME TypeOK, NEW t \in Threads, Decr(t)
    PROVE  Steady(t)
<1>1. At(t, "decr") /\ {"decr", "removeSelf", "decrKept", "testAgain"} \subseteq StmtOps
  BY DEF Decr, StmtOps
<1>2. Top(t).ref \in StmtRefs
  BY <1>1, AtStmtPlain
<1>3. Plainly(t)
  BY <1>1, AtStmtPlain, PlainCalls DEF Decr
<1>4. SteadyStmts
  BY <1>2, StmtSteady, UnchangedSteady DEF Decr
<1> QED BY <1>3, <1>4, UnchangedSteady DEF Steady, Decr, sideVars

LEMMA DecrThenSteady ==
    ASSUME TypeOK, NEW t \in Threads, NEW op \in StmtOps, At(t, op),
           NEW atZero, Calls(atZero, OtherOps), NEW otherwise, Calls(otherwise, OtherOps),
           DecrThen(t, atZero, otherwise)
    PROVE  Steady(t)
<1>1. Plainly(t)
  BY AtStmtPlain DEF DecrThen
<1>2. SteadyStmts
  BY AtStmtPlain, StmtSteady DEF DecrThen
<1> QED BY <1>1, <1>2, UnchangedSteady DEF Steady, DecrThen, sideVars

LEMMA DecrKeptSteady ==
    ASSUME TypeOK, NEW t \in Threads, DecrKept(t)
    PROVE  Steady(t)
<1> DEFINE s == Top(t).ref
<1>1. At(t, "decrKept") /\ "decrKept" \in StmtOps
  BY DEF DecrKept, StmtOps
<1>2. {"negateKeep", "schedule", "recount"} \subseteq PlainOps
  BY DEF StmtOps, PlainOps
<1>3. /\ RefFrame("negateKeep", s).op \notin OtherOps
      /\ RefFrame("schedule", s).op \notin OtherOps
      /\ RefFrame("recount", s).op \notin OtherOps
  BY <1>2, PlainCalls DEF RefFrame
<1>4. Calls(<<RefFrame("negateKeep", s), RefFrame("schedule", s), RefFrame("recount", s)>>,
            OtherOps)
  BY <1>3, ShortCalls
<1> QED BY <1>1, <1>4, DecrThenSteady, PlainCalls DEF DecrKept

LEMMA DecrScheduledSteady ==
    ASSUME TypeOK, NEW t \in Threads, DecrScheduled(t)
    PROVE  Steady(t)
<1>1. /\ At(t, "decrScheduled") /\ "decrScheduled" \in StmtOps
      /\ {"removeSelf", "negateKeep"} \subseteq StmtOps
  BY DEF DecrScheduled, StmtOps
<1>2. /\ Calls(<<RefFrame("removeSelf", Top(t).ref)>>, OtherOps)
      /\ Calls(<<RefFrame("negateKeep", Top(t).ref)>>, OtherOps)
  BY <1>1, AtStmtPlain
<1> QED BY <1>1, <1>2, DecrThenSteady DEF DecrScheduled

LEMMA TestAgainSteady ==
    ASSUME TypeOK, NEW t \in Threads, TestAgain(t)
    PROVE  Steady(t)
<1>1. At(t, "testAgain") /\ {"testAgain", "decrScheduled"} \subseteq StmtOps
  BY DEF TestAgain, StmtOps
<1>2. Plainly(t)
  BY <1>1, AtStmtPlain, PlainCalls DEF TestAgain
<1> QED BY <1>2, UnchangedSteady DEF Steady, TestAgain, sideVars

LEMMA NegateKeepSteady ==
    ASSUME TypeOK, NEW t \in Threads, NegateKeep(t)
    PROVE  Steady(t)
<1>1. At(t, "negateKeep") /\ "negateKeep" \in StmtOps /\ "storeKeep" \in PlainOps
  BY DEF NegateKeep, StmtOps, PlainOps
<1>2. \A s, k : Calls(<<[op |-> "storeKeep", ref |-> s, keep |-> k]>>, OtherOps)
  <2>1. \A s, k : [op |-> "storeKeep", ref |-> s, keep |-> k].op \in PlainOps
    BY <1>1
  <2> QED BY <2>1, PlainCalls
<1>3. Plainly(t)
  BY <1>1, <1>2, AtStmtPlain DEF NegateKeep
<1> QED BY <1>3, UnchangedSteady DEF Steady, NegateKeep, sideVars

LEMMA StoreKeepSteady ==
    ASSUME TypeOK, NEW t \in Threads, StoreKeep(t)
    PROVE  Steady(t)
<1>1. At(t, "storeKeep") /\ "storeKeep" \in PlainOps
  BY DEF StoreKeep, PlainOps
<1>2. Top(t).ref \in StmtRefs
  BY <1>1, TopTyped, FrameFields DEF At
<1>3. Plainly(t)
  BY <1>1, PlainThen, PlainCalls DEF StoreKeep
<1>4. SteadyStmts
  BY <1>2, StmtSteady DEF StoreKeep
<1> QED BY <1>3, <1>4, UnchangedSteady DEF Steady, StoreKeep, sideVars

LEMMA RecountKeptSteady ==
    ASSUME TypeOK, NEW t \in Threads, RecountKept(t)
    PROVE  Steady(t)
<1>1. At(t, "recount") /\ "recount" \in StmtOps
  BY DEF RecountKept, StmtOps
<1>2. Plainly(t)
  BY <1>1, AtStmtPlain, PlainCalls DEF RecountKept
<1>3. SteadyStmts
  BY <1>1, AtStmtPlain, StmtSteady DEF RecountKept, IncrParentCount
<1> QED BY <1>2, <1>3, UnchangedSteady DEF Steady, RecountKept, sideVars

LEMMA RemoveSelfSteady ==
    ASSUME TypeOK, NEW t \in Threads, RemoveSelf(t)
    PROVE  Steady(t)
<1>1. At(t, "removeSelf") /\ {"removeSelf", "close"} \subseteq StmtOps
  BY DEF RemoveSelf, StmtOps
<1>2. Plainly(t) \/ todo' = todo
  BY <1>1, AtStmtPlain DEF RemoveSelf
<1> QED BY <1>2, UnchangedSteady DEF Steady, RemoveSelf, sideVars

LEMMA CloseStatementSteady ==
    ASSUME TypeOK, NEW t \in Threads, CloseStatement(t)
    PROVE  Steady(t)
<1> DEFINE s == Top(t).ref
<1>1. At(t, "close") /\ "close" \in StmtOps
  BY DEF CloseStatement, StmtOps
<1>2. s \in StmtRefs /\ stmts[s] \in Stmt
  BY <1>1, AtStmt
<1>3. stmts[s].kids \in Seq(MatchRefs)
  BY <1>2 DEF Stmt
<1>4. Calls(FramesFor("unmatch", stmts[s].kids), OtherOps)
  <2>1. "unmatch" \notin OtherOps
    BY PlainCalls DEF PlainOps
  <2> QED BY <1>3, <2>1, FramesForCalls
<1>5. Plainly(t) \/ todo' = todo
  BY <1>1, <1>4, AtStmtPlain DEF CloseStatement
<1>6. SteadyStmts
  BY <1>2, StmtSteady, UnchangedSteady DEF CloseStatement
<1> QED BY <1>5, <1>6, UnchangedSteady DEF Steady, CloseStatement, sideVars

LEMMA CloseCalls ==
    ASSUME TypeOK, NEW t \in Threads, NEW op \in PlainOps, At(t, op),
           NEW m \in MatchRefs, Close(t, m)
    PROVE  Plainly(t) /\ SteadyMatches
<1>1. matches[m] \in Match
  BY MatchFields
<1>2. matches[m].kids \in Seq(StmtRefs)
  BY <1>1 DEF Match
<1>3. "decr" \notin OtherOps /\ "signal" \in PlainOps
  BY PlainCalls DEF PlainOps, StmtOps
<1>4. Calls(FramesFor("decr", matches[m].kids), OtherOps)
  BY <1>2, <1>3, FramesForCalls
<1>5. Calls(FramesFor("decr", matches[m].kids)
              \o (IF matches[m].completed THEN <<>> ELSE <<RefFrame("signal", m)>>), OtherOps)
  <2>1. Calls(<<>>, OtherOps) /\ Calls(<<RefFrame("signal", m)>>, OtherOps)
    BY <1>3, PlainCalls
  <2> QED BY <1>4, <2>1, CallsConcat
<1>6. Plainly(t)
  BY <1>5, PlainThen DEF Close
<1> QED BY <1>6, MatchSteady DEF Close

LEMMA RemoveMatchSteady ==
    ASSUME TypeOK, NEW t \in Threads, RemoveMatch(t)
    PROVE  Steady(t)
<1>1. /\ At(t, "unmatch") /\ {"unmatch", "markRemoved", "closeMatch"} \subseteq PlainOps
      /\ "unmatch" \in MatchOps
  BY DEF RemoveMatch, PlainOps, MatchOps
<1>2. Top(t).ref \in MatchRefs
  BY <1>1, AtMatch
<1>3. Plainly(t) /\ SteadyMatches
  BY <1>1, <1>2, CloseCalls, PlainThen, PlainCalls, UnchangedSteady DEF RemoveMatch
<1> QED BY <1>3, UnchangedSteady DEF Steady, RemoveMatch, sideVars

LEMMA MarkRemovedSteady ==
    ASSUME TypeOK, NEW t \in Threads, MarkRemoved(t)
    PROVE  Steady(t)
<1>1. At(t, "markRemoved") /\ "markRemoved" \in PlainOps /\ "markRemoved" \in MatchOps
  BY DEF MarkRemoved, PlainOps, MatchOps
<1>2. Top(t).ref \in MatchRefs
  BY <1>1, AtMatch
<1>3. Plainly(t)
  BY <1>1, PlainThen, PlainCalls DEF MarkRemoved
<1>4. SteadyMatches
  BY <1>2, MatchSteady DEF MarkRemoved
<1> QED BY <1>3, <1>4, UnchangedSteady DEF Steady, MarkRemoved, sideVars

LEMMA CloseMatchSteady ==
    ASSUME TypeOK, NEW t \in Threads, CloseMatch(t)
    PROVE  Steady(t)
<1>1. At(t, "closeMatch") /\ "closeMatch" \in PlainOps /\ "closeMatch" \in MatchOps
  BY DEF CloseMatch, PlainOps, MatchOps
<1>2. Top(t).ref \in MatchRefs
  BY <1>1, AtMatch
<1>3. Plainly(t) /\ SteadyMatches
  BY <1>1, <1>2, CloseCalls, PlainThen, PlainCalls, UnchangedSteady DEF CloseMatch
<1> QED BY <1>3, UnchangedSteady DEF Steady, CloseMatch, sideVars

LEMMA SignalWorkerSteady ==
    ASSUME TypeOK, NEW t \in Threads, SignalWorker(t)
    PROVE  Steady(t)
<1>1. At(t, "signal") /\ "signal" \in PlainOps
  BY DEF SignalWorker, PlainOps
<1>2. Plainly(t)
  BY <1>1, PlainThen, PlainCalls DEF SignalWorker
<1> QED BY <1>2, UnchangedSteady DEF Steady, SignalWorker

LEMMA RetractOneSteady ==
    ASSUME TypeOK, NEW t \in Threads, RetractOne(t)
    PROVE  Steady(t)
<1>1. At(t, "retractOne") /\ {"retractOne", "decr"} \subseteq StmtOps
  BY DEF RetractOne, StmtOps
<1>2. Plainly(t) \/ todo' = todo
  BY <1>1, AtStmtPlain DEF RetractOne
<1> QED BY <1>2, UnchangedSteady DEF Steady, RetractOne, sideVars

LEMMA HoldSetSteady ==
    ASSUME TypeOK, NEW t \in Threads, HoldSet(t)
    PROVE  Steady(t)
<1>1. At(t, "holdSet") /\ "holdSet" \in PlainOps
  BY DEF HoldSet, PlainOps
<1>2. Plainly(t)
  BY <1>1, PlainThen, PlainCalls DEF HoldSet
<1> QED BY <1>2, UnchangedSteady DEF Steady, HoldSet, sideVars

LEMMA SysmonCollectedSteady ==
    ASSUME TypeOK, NEW t \in Threads, SysmonCollected(t)
    PROVE  Steady(t)
<1>1. At(t, "collected") /\ "collected" \in PlainOps
  BY DEF SysmonCollected, PlainOps
<1>2. Plainly(t)
  BY <1>1, PlainThen, PlainCalls DEF SysmonCollected
<1> QED BY <1>2, UnchangedSteady DEF Steady, SysmonCollected, sideVars

LEMMA ReapRootSteady ==
    ASSUME TypeOK, NEW t \in Threads, ReapRoot(t)
    PROVE  Steady(t)
<1>1. At(t, "reapRoot") /\ {"reapRoot", "unmatch"} \subseteq PlainOps
  BY DEF ReapRoot, PlainOps
<1>2. Plainly(t)
  BY <1>1, PlainThen, PlainCalls DEF ReapRoot
<1> QED BY <1>2, UnchangedSteady DEF Steady, ReapRoot, sideVars

LEMMA InsertFrameCalls ==
    ASSUME NEW c, NEW parent, NEW keep, NEW version, NEW key, NEW old
    PROVE  Calls(<<InsertFrame(c, parent, keep, version, key, old)>>, OtherOps)
<1>1. InsertFrame(c, parent, keep, version, key, old).op \in PlainOps
  BY DEF InsertFrame, PlainOps
<1> QED BY <1>1, PlainCalls

LEMMA RunSaySteady ==
    ASSUME TypeOK, NEW t \in Threads, RunSay(t)
    PROVE  Steady(t)
<1> DEFINE m == Top(t).match
           cmd == Top(t).cmd
           version == IF cmd.clause \in Unversioned THEN NoVersion ELSE matches[m].version
           f == InsertFrame(cmd.clause, m, cmd.keep, version, NoKey, NoRef)
<1>1. AtCommand(t, "say") /\ InsertUnder(t, f)
  BY DEF RunSay
<1>2. m \in MatchRefs
  BY <1>1, InBody
<1>3. matches[m] \in Match
  BY <1>2, MatchFields
<1>4. version \in Versions \cup {NoVersion}
  BY <1>3 DEF Match
<1>5. Calls(<<f>>, OtherOps) /\ Calls(<<>>, OtherOps)
  BY InsertFrameCalls, PlainCalls
<1>6. f.parent = m /\ f.version = version
  BY DEF InsertFrame
<1> HIDE DEF f, m, version
<1>7. Plainly(t)
  BY <1>1, <1>5, AtCommandPlain DEF InsertUnder
<1>8. SteadyMatches
  BY <1>1, <1>2, <1>6, MatchSteady, UnchangedSteady DEF InsertUnder
<1>9. SteadyRoots
  BY <1>1, <1>4, <1>6, CountsSteady, UnchangedSteady DEF InsertUnder
<1> QED BY <1>7, <1>8, <1>9, UnchangedSteady DEF Steady, RunSay

LEMMA RunHoldSteady ==
    ASSUME TypeOK, NEW t \in Threads, RunHold(t)
    PROVE  Steady(t)
<1> DEFINE f == Top(t).cmd
           old == HoldOf(f.key).statement
           dropOld == IF old = NoRef THEN <<>> ELSE <<RefFrame("decr", old)>>
<1>1. AtCommand(t, "hold") /\ HoldLock(t, f)
  BY DEF RunHold
<1>2. Calls(dropOld, OtherOps)
  BY PlainCalls DEF PlainOps, StmtOps
<1>3. \A acquired :
         Calls(<<InsertFrame(f.clause, NoRef, f.keep, NoVersion, f.key, acquired)>> \o dropOld,
               OtherOps)
  BY <1>2, InsertFrameCalls, CallsConcat
<1> HIDE DEF f
<1>4. Plainly(t)
  BY <1>1, <1>2, <1>3, AtCommandPlain, PlainCalls DEF HoldLock
<1> QED BY <1>1, <1>4, UnchangedSteady DEF Steady, HoldLock, sideVars

LEMMA RunPushSteady ==
    ASSUME TypeOK, NEW t \in Threads, RunPush(t)
    PROVE  Steady(t)
<1>1. Plainly(t)
  BY AtCommandPlain, PlainCalls DEF RunPush
<1> QED BY <1>1, UnchangedSteady DEF Steady, RunPush, sideVars

LEMMA NotifySteady ==
    ASSUME TypeOK, NEW t \in Threads, Notify(t)
    PROVE  Steady(t)
<1>1. Plainly(t)
  BY AtCommandPlain, PlainCalls DEF Notify
<1> QED BY <1>1, UnchangedSteady DEF Steady, Notify, sideVars

LEMMA PushSteady ==
    ASSUME TypeOK, NEW pairs, PushRunWhens(pairs)
    PROVE  SteadyRoots
<1>1. /\ versions \in Seq(Version) /\ DOMAIN versions = Versions
      /\ Versions = 1 .. Len(versions) /\ Len(versions) \in Nat
  BY LensTyped DEF Versions, TypeOK, DbTypeOK
<1>2. \A v \in Versions : versions[v] \in Version
  BY VersionFields
<1>3. PICK n : versions' = [v \in DOMAIN versions |->
                              [versions[v] EXCEPT !.inflight = @ + n[v]]]
  <2> DEFINE n == [v \in DOMAIN versions |->
                     Cardinality({p \in pairs : VersionOf(p[1]) = v})
                     + Cardinality({p \in pairs : VersionOf(p[2]) = v})]
  <2>1. versions' = [v \in DOMAIN versions |-> [versions[v] EXCEPT !.inflight = @ + n[v]]]
    BY DEF PushRunWhens
  <2> HIDE DEF n
  <2> QED BY <2>1
<1>4. \A v \in Versions : versions'[v] = [versions[v] EXCEPT !.inflight = @ + n[v]]
  BY <1>1, <1>3
<1>5. \A v \in Versions : \A x : [versions[v] EXCEPT !.inflight = x].key = versions[v].key
                               /\ [versions[v] EXCEPT !.inflight = x].root = versions[v].root
  BY <1>2 DEF Version
<1>6. Len(versions') = Len(versions)
  BY <1>1, <1>3
<1>7. ASSUME NEW v \in Versions
      PROVE  versions'[v].key = versions[v].key /\ versions'[v].root = versions[v].root
  <2>1. \E x : versions'[v] = [versions[v] EXCEPT !.inflight = x]
    BY <1>4
  <2> QED BY <1>5, <2>1
<1> QED BY <1>6, <1>7 DEF SteadyRoots

LEMMA ReactAsWhenSteady ==
    ASSUME TypeOK, NEW t \in Threads, ReactAsWhen(t)
    PROVE  Steady(t)
<1>1. At(t, "react") /\ {"react", "reactAsStmt"} \subseteq PlainOps
  BY DEF ReactAsWhen, StmtOps, PlainOps
<1>2. Plainly(t)
  BY <1>1, PlainThen, PlainCalls DEF ReactAsWhen
<1>3. SteadyRoots
  BY PushSteady DEF ReactAsWhen
<1> QED BY <1>2, <1>3, UnchangedSteady DEF Steady, ReactAsWhen

LEMMA ReactAsStmtSteady ==
    ASSUME TypeOK, NEW t \in Threads, ReactAsStmt(t)
    PROVE  Steady(t)
<1>1. (At(t, "react") \/ At(t, "reactAsStmt")) /\ {"react", "reactAsStmt"} \subseteq PlainOps
  BY DEF ReactAsStmt, StmtOps, PlainOps
<1>2. Plainly(t)
  BY <1>1, PlainThen, PlainCalls DEF ReactAsStmt
<1>3. SteadyRoots
  BY PushSteady DEF ReactAsStmt
<1> QED BY <1>2, <1>3, UnchangedSteady DEF Steady, ReactAsStmt

-----------------------------------------------------------------------------
(* What a step does to a thread's calls.                                   *)

\* No call that will write an entry of the remove-later table is dropped.
EntriesStay(s, n) ==
    \A j \in 1 .. Len(s) : s[j].op \in {"setDue", "clearStmt"} =>
        \E k \in 1 .. Len(n) : n[k] = s[j]

\* No call of the reaper is made.
NoReap(s, n) ==
    \A j \in 1 .. Len(n) : n[j].op \in ReapOps => \E k \in 1 .. Len(s) : s[k] = n[j]

Quiet(t) ==
    /\ Moves(t) /\ Within(todo[t], todo'[t])
    /\ EntriesStay(todo[t], todo'[t]) /\ NoReap(todo[t], todo'[t])

\* The innermost call of a thread is replaced.
LEMMA ThenMoves ==
    ASSUME TypeOK, NEW t \in Threads, NEW frames, Then(t, frames)
    PROVE  todo'[t] = frames \o Tail(todo[t]) /\ Moves(t)
BY DEF Then, Moves, TypeOK

LEMMA StartMoves ==
    ASSUME TypeOK, NEW t \in Threads, NEW frames, Start(t, frames)
    PROVE  todo'[t] = frames /\ Moves(t)
BY DEF Start, Moves, TypeOK

LEMMA ReplacedEntries ==
    ASSUME NEW F, NEW s \in Seq(F), s # <<>>, NEW frames, \E S : frames \in Seq(S),
           s[1].op \notin EntryOps
    PROVE  EntriesStay(s, frames \o Tail(s))
<1> DEFINE n == frames \o Tail(s)
           d == Len(frames)
<1>1. /\ d \in Nat /\ Len(s) \in Nat \ {0} /\ Len(n) = d + Len(s) - 1
      /\ \A j \in 2 .. Len(s) : n[d + j - 1] = s[j]
  BY ReplacedTop
<1> HIDE DEF n, d
<1> SUFFICES ASSUME NEW j \in 1 .. Len(s), s[j].op \in {"setDue", "clearStmt"}
             PROVE  \E k \in 1 .. Len(n) : n[k] = s[j]
  BY DEF EntriesStay, n
<1>2. j # 1
  BY DEF EntryOps
<1>3. j \in 2 .. Len(s) /\ d + j - 1 \in 1 .. Len(n)
  BY <1>1, <1>2
<1> QED BY <1>1, <1>3

LEMMA ReplacedReaps ==
    ASSUME NEW F, NEW s \in Seq(F), s # <<>>, NEW frames, \E S : frames \in Seq(S)
    PROVE  LET n == frames \o Tail(s)
           IN  \A j \in 1 .. Len(n) : n[j].op \in ReapOps =>
                  \/ \E k \in 2 .. Len(s) : s[k] = n[j]
                  \/ \E k \in 1 .. Len(frames) : frames[k] = n[j]
<1> DEFINE n == frames \o Tail(s)
           d == Len(frames)
<1>1. /\ d \in Nat /\ Len(s) \in Nat \ {0} /\ Len(n) = d + Len(s) - 1
      /\ \A j \in 1 .. d : n[j] = frames[j]
      /\ \A j \in 1 .. Len(n) : j > d => j - d + 1 \in 2 .. Len(s) /\ n[j] = s[j - d + 1]
  BY ReplacedTop
<1> HIDE DEF n, d
<1> SUFFICES ASSUME NEW j \in 1 .. Len(n), n[j].op \in ReapOps
             PROVE  \/ \E k \in 2 .. Len(s) : s[k] = n[j]
                    \/ \E k \in 1 .. d : frames[k] = n[j]
  BY DEF n, d
<1>2. CASE j > d
  <2>1. j - d + 1 \in 2 .. Len(s) /\ n[j] = s[j - d + 1]
    BY <1>1, <1>2
  <2> QED BY <2>1
<1>3. CASE ~(j > d)
  <2>1. j \in 1 .. d
    BY <1>1, <1>3
  <2> QED BY <1>1, <2>1
<1> QED BY <1>2, <1>3

LEMMA UnchangedQuiet ==
    ASSUME TypeOK, Stacks, NEW t \in Threads, todo'[t] = todo[t], Moves(t)
    PROVE  Quiet(t)
<1>1. Within(todo[t], todo'[t])
  BY UnchangedWithin DEF Stacks
<1> QED BY <1>1 DEF Quiet, EntriesStay, NoReap

LEMMA PlainlyQuiet ==
    ASSUME TypeOK, Stacks, NEW t \in Threads, Plainly(t)
    PROVE  Quiet(t)
<1> DEFINE s == todo[t]
<1>1. PICK frames : Calls(frames, OtherOps) /\ Then(t, frames)
  BY DEF Plainly
<1>2. s \in Seq(Frames) /\ s # <<>> /\ s[1] = Top(t)
  BY StackTyped DEF Plainly, Top
<1>3. Calls(frames, BodyOps) /\ Calls(frames, ReapOps)
  BY <1>1 DEF Calls, OtherOps
<1>4. todo'[t] = frames \o Tail(s) /\ Moves(t)
  BY <1>1, ThenMoves
<1>5. Within(s, frames \o Tail(s))
  BY <1>2, <1>3, ReplacedWithin DEF Stacks, Plainly
<1>6. \E S : frames \in Seq(S)
  BY <1>1 DEF Calls
<1>7. EntriesStay(s, frames \o Tail(s))
  BY <1>2, <1>6, ReplacedEntries DEF Plainly
<1>8. NoReap(s, frames \o Tail(s))
  <2> DEFINE n == frames \o Tail(s)
  <2>1. \A j \in 1 .. Len(n) : n[j].op \in ReapOps =>
           \/ \E k \in 2 .. Len(s) : s[k] = n[j]
           \/ \E k \in 1 .. Len(frames) : frames[k] = n[j]
    BY <1>2, <1>6, ReplacedReaps
  <2>2. \A k \in 2 .. Len(s) : k \in 1 .. Len(s)
    BY <1>2, LenProperties
  <2> HIDE DEF n
  <2>3. \A j \in 1 .. Len(n) : n[j].op \in ReapOps => \E k \in 1 .. Len(s) : s[k] = n[j]
    BY <1>3, <2>1, <2>2 DEF Calls
  <2> QED BY <2>3 DEF NoReap, n
<1> QED BY <1>4, <1>5, <1>7, <1>8 DEF Quiet

\* An idle thread, or one that waits for a lock, starts on something.
Idle(t) == todo[t] = <<>> \/ (Len(todo[t]) = 1 /\ todo[t][1].op = "lockStmt")

LEMMA IdleEntries ==
    ASSUME NEW t, Idle(t), NEW n
    PROVE  EntriesStay(todo[t], n)
<1>1. CASE todo[t] = <<>>
  BY <1>1, EmptySeq DEF EntriesStay
<1>2. CASE Len(todo[t]) = 1 /\ todo[t][1].op = "lockStmt"
  BY <1>2 DEF EntriesStay
<1> QED BY <1>1, <1>2 DEF Idle

LEMMA StartQuiet ==
    ASSUME TypeOK, NEW t \in Threads, Idle(t), NEW frames, Start(t, frames),
           Within(todo[t], frames), \A j \in 1 .. Len(frames) : frames[j].op \notin ReapOps
    PROVE  Quiet(t)
BY StartMoves, IdleEntries DEF Quiet, NoReap

LEMMA SteadyQuiet ==
    ASSUME TypeOK, Stacks, NEW t \in Threads, Steady(t)
    PROVE  Quiet(t)
<1>1. CASE Plainly(t)
  BY <1>1, PlainlyQuiet
<1>2. CASE todo' = todo
  BY <1>2, UnchangedQuiet DEF Moves
<1> QED BY <1>1, <1>2 DEF Steady

-----------------------------------------------------------------------------
(* The invariants of the remove-later table and of the reaper's lists, and *)
(* the steps that disturb none of the three.                               *)

\* The versions of a key.
OfKey(k) == {v \in Versions : versions[v].key = k}

\* The version, or a newer one of its key, has converged.
Passed(v) == v <= atomicallys[versions[v].key].newest

\* A reaper goes through versions of its key.  It is one that reaps what is
\* older than a converged version, or sysmon's, which reaps converged ones.
ReapAgrees(f) ==
    /\ f.op \in {"reap", "reapEach"} =>
          /\ f.rest \subseteq OfKey(f.key) /\ f.kept \subseteq OfKey(f.key)
          /\ IF f.newer = NoVersion THEN f.onlyConverged
             ELSE f.newer <= atomicallys[f.key].newest
    /\ f.op \in {"converged", "clearRoot"} => f.version \in Versions /\ Passed(f.version)

ListsAgree ==
    /\ \A k \in AtomicallyKeys : /\ atomicallys[k].all \subseteq OfKey(k)
                                 /\ atomicallys[k].latest <= atomicallys[k].newest
    /\ \A t \in Threads : \A j \in 1 .. Len(todo[t]) : ReapAgrees(todo[t][j])

Calm(t) ==
    /\ Quiet(t)
    /\ SteadyStmts /\ SteadyMatches /\ SteadyRoots
    /\ atomicallys' = atomicallys /\ later' = later

LEMMA SteadyCalm ==
    ASSUME TypeOK, Stacks, NEW t \in Threads, Steady(t)
    PROVE  Calm(t)
BY SteadyQuiet DEF Steady, Calm

\* Only the stack of a thread changes, and perhaps a version loses a count.
LEMMA QuietCalm ==
    ASSUME NEW t, Quiet(t), SteadyRoots, UNCHANGED <<stmts, matches, later, atomicallys>>
    PROVE  Calm(t)
BY UnchangedSteady DEF Calm

LEMMA EntriesStep ==
    ASSUME EntryWillFire, NEW t \in Threads, Moves(t), EntriesStay(todo[t], todo'[t]), later' = later
    PROVE  EntryWillFire'
<1> SUFFICES ASSUME NEW i \in 1 .. LaterSlots, later[i].stmt # NoRef, ~later[i].due
             PROVE  \E u \in Threads : \E j \in 1 .. Len(todo'[u]) :
                       todo'[u][j] \in {RefFrame("setDue", i), RefFrame("clearStmt", i)}
  BY DEF EntryWillFire
<1>1. PICK u \in Threads : \E j \in 1 .. Len(todo[u]) :
         todo[u][j] \in {RefFrame("setDue", i), RefFrame("clearStmt", i)}
  BY DEF EntryWillFire
<1>2. PICK j \in 1 .. Len(todo[u]) :
         todo[u][j] \in {RefFrame("setDue", i), RefFrame("clearStmt", i)}
  BY <1>1
<1>3. todo[u][j].op \in {"setDue", "clearStmt"}
  BY <1>2 DEF RefFrame
<1>4. \E k \in 1 .. Len(todo'[u]) : todo'[u][k] = todo[u][j]
  BY <1>3 DEF Moves, EntriesStay
<1> QED BY <1>2, <1>4

LEMMA ListsStep ==
    ASSUME ListsAgree, NEW t \in Threads, Moves(t), NoReap(todo[t], todo'[t]),
           SteadyRoots, atomicallys' = atomicallys
    PROVE  ListsAgree'
<1>1. /\ Versions' = Versions /\ \A k : OfKey(k)' = OfKey(k)
      /\ \A v \in Versions : Passed(v)' <=> Passed(v)
  BY DEF Versions, OfKey, Passed, SteadyRoots
<1>2. ASSUME NEW u \in Threads, NEW j \in 1 .. Len(todo'[u]), todo'[u][j].op \in ReapOps
      PROVE  \E k \in 1 .. Len(todo[u]) : todo[u][k] = todo'[u][j]
  BY <1>2 DEF Moves, NoReap
<1>3. ASSUME NEW u \in Threads, NEW j \in 1 .. Len(todo'[u]) PROVE ReapAgrees(todo'[u][j])
  BY <1>2 DEF ListsAgree, ReapAgrees, ReapOps
<1>4. \A f : ReapAgrees(f) => ReapAgrees(f)'
  BY <1>1 DEF ReapAgrees
<1>5. \A u \in Threads : \A j \in 1 .. Len(todo'[u]) : ReapAgrees(todo[u][j])'
  BY <1>3, <1>4 DEF ReapAgrees
<1> QED BY <1>1, <1>5 DEF ListsAgree

EvaluatorInv == BodiesInv /\ EntryWillFire /\ ListsAgree

LEMMA CalmInv ==
    ASSUME TypeOK, TypeOK', EvaluatorInv, NEW t \in Threads, Calm(t)
    PROVE  EvaluatorInv'
BY BodiesStep, EntriesStep, ListsStep DEF Calm, Quiet, EvaluatorInv

-----------------------------------------------------------------------------
(* Calm steps that start something.                                        *)

LEMMA StartCalls ==
    ASSUME TypeOK, NEW t \in Threads, Idle(t), NEW frames, Start(t, frames), Calls(frames, OtherOps)
    PROVE  Quiet(t)
<1>1. Calls(frames, BodyOps) /\ \A j \in 1 .. Len(frames) : frames[j].op \notin ReapOps
  BY DEF Calls, OtherOps
<1> QED BY <1>1, StartedWithin, StartQuiet

LEMMA TakeAssertCalm ==
    ASSUME TypeOK, NEW t \in Threads, NEW item, TakeAssert(t, item)
    PROVE  Calm(t)
<1>1. Idle(t)
  BY DEF TakeAssert, TakeItem, Idle
<1>2. Quiet(t)
  BY <1>1, StartCalls, InsertFrameCalls DEF TakeAssert
<1> QED BY <1>2, QuietCalm, UnchangedSteady DEF TakeAssert, sideVars

LEMMA TakeRetractCalm ==
    ASSUME TypeOK, NEW t \in Threads, NEW item, TakeRetract(t, item)
    PROVE  Calm(t)
<1>1. Idle(t)
  BY DEF TakeRetract, TakeItem, Idle
<1> DEFINE S == {index[c] : c \in DOMAIN index \cap item.pattern}
<1>2. S \subseteq StmtRefs
  BY DEF TypeOK, DbTypeOK, RefsOf
<1>3. IsFiniteSet(StmtRefs)
  BY LenProperties, FS_Interval DEF TypeOK, DbTypeOK, StmtRefs
<1>4. IsFiniteSet(S)
  BY <1>2, <1>3, FS_Subset
<1>5. SetToSeq(S) \in Seq(S) /\ "retractOne" \notin OtherOps
  BY <1>4, SetToSeqTyped, PlainCalls DEF PlainOps, StmtOps
<1> HIDE DEF S
<1>6. Calls(FramesFor("retractOne", SetToSeq(S)), OtherOps)
  BY <1>5, FramesForCalls
<1>7. Calls(RetractFrames(item.pattern), OtherOps)
  BY <1>6 DEF RetractFrames, S
<1>8. Quiet(t)
  BY <1>1, <1>7, StartCalls DEF TakeRetract
<1> QED BY <1>8, QuietCalm, UnchangedSteady DEF TakeRetract, sideVars

LEMMA TakeEvalCalm ==
    ASSUME TypeOK, NEW t \in Threads, NEW item, TakeEval(t, item)
    PROVE  Calm(t)
<1>1. Idle(t)
  BY DEF TakeEval, TakeItem, Idle
<1>2. EvalFrame(item).op \notin OtherOps
  BY DEF EvalFrame, OtherOps, BodyOps, EndOps, ReapOps
<1>3. Quiet(t)
  BY <1>1, <1>2, StartCalls, ShortCalls DEF TakeEval
<1> QED BY <1>3, QuietCalm, UnchangedSteady DEF TakeEval, sideVars

LEMMA TakeSubscribeCalm ==
    ASSUME TypeOK, NEW t \in Threads, NEW item, TakeSubscribe(t, item)
    PROVE  Calm(t)
<1>1. Idle(t)
  BY DEF TakeSubscribe, TakeItem, Idle
<1>2. item \in WorkItems /\ item.cmd = "runSubscribe"
  BY TakeItemKeeps DEF TakeSubscribe
<1>3. item.ref \in RefsOf(Subscribes) /\ item.event \in Events
  BY <1>2 DEF WorkItems, FreeCommands
<1> DEFINE cmds == Body[stmts[item.ref].clause][item.event]
           frames == BodyFrames(NoRef, cmds)
<1>4. cmds \in Seq(FreeCommands)
  BY <1>3, ProgramsAssumption DEF RefsOf
<1>5. Start(t, frames) \/ Start(t, <<>>)
  BY DEF TakeSubscribe
<1> HIDE DEF cmds
<1>6. Within(todo[t], frames)
  BY <1>4, SubscribeWithin
<1>7. \A j \in 1 .. Len(frames) : frames[j].op \notin ReapOps
  <2>1. Len(cmds) \in Nat
    BY <1>4, LenProperties
  <2>2. Len(frames) = Len(cmds)
    BY <2>1 DEF BodyFrames
  <2>3. \A j \in 1 .. Len(cmds) : frames[j].op = "command"
    BY DEF BodyFrames
  <2> QED BY <2>2, <2>3 DEF ReapOps
<1> HIDE DEF frames
<1>8. Quiet(t)
  BY <1>1, <1>5, <1>6, <1>7, StartQuiet, StartCalls, PlainCalls
<1> QED BY <1>8, QuietCalm, UnchangedSteady DEF TakeSubscribe, sideVars

LEMMA LoseRoots ==
    ASSUME TypeOK, NEW vs \in Seq(Version), Len(vs) = Len(versions),
           \A v \in Versions : vs[v].key = versions[v].key /\ vs[v].root = versions[v].root,
           NEW w \in Versions \cup {NoVersion}
    PROVE  \A v \in Versions : /\ Lose(vs, w)[v].key = versions[v].key
                               /\ Lose(vs, w)[v].root = versions[v].root
<1>1. CASE w = NoVersion
  BY <1>1 DEF Lose
<1>2. CASE w # NoVersion
  <2>1. w \in 1 .. Len(vs) /\ Versions = 1 .. Len(vs) /\ DOMAIN vs = 1 .. Len(vs)
    BY <1>2, LenProperties DEF Versions
  <2>2. vs[w] \in Version
    BY <2>1, ElementOfSeq
  <2> DEFINE e == [vs[w] EXCEPT !.lost = @ + 1]
  <2>3. e.key = vs[w].key /\ e.root = vs[w].root
    BY <2>2 DEF Version
  <2>4. Lose(vs, w) = [vs EXCEPT ![w] = e]
    BY <1>2 DEF Lose
  <2> HIDE DEF e
  <2> QED BY <2>1, <2>3, <2>4
<1> QED BY <1>1, <1>2

LEMMA SkipItemCalm ==
    ASSUME TypeOK, Stacks, NEW t \in Threads, NEW item, SkipItem(t, item)
    PROVE  Calm(t)
<1>1. item \in WorkItems /\ item.cmd = "runWhen"
  BY TakeItemKeeps DEF SkipItem
<1>2. item.when \in StmtRefs /\ item.stmt \in StmtRefs \cup {NoRef}
  BY <1>1, ItemFields DEF RefsOf
<1>3. /\ VersionOf(item.when) \in Versions \cup {NoVersion}
      /\ VersionOf(item.stmt) \in Versions \cup {NoVersion}
  BY <1>2, VersionOfTyped
<1> DEFINE vs == Lose(versions, VersionOf(item.when))
<1>4. vs \in Seq(Version) /\ Len(vs) = Len(versions)
  BY <1>3, LoseTyped
<1>5. versions' = Lose(vs, VersionOf(item.stmt))
  BY DEF SkipItem
<1>6. versions \in Seq(Version)
  BY DEF TypeOK, DbTypeOK
<1>7. \A v \in Versions : vs[v].key = versions[v].key /\ vs[v].root = versions[v].root
  BY <1>3, <1>6, LoseRoots
<1> HIDE DEF vs
<1>8. \A v \in Versions : /\ versions'[v].key = versions[v].key
                          /\ versions'[v].root = versions[v].root
  BY <1>3, <1>4, <1>5, <1>7, LoseRoots
<1>9. SteadyRoots
  BY <1>8, SkipItemKeeps DEF SteadyRoots, Keeps, KeepsVersions
<1>10. Quiet(t)
  BY UnchangedQuiet DEF SkipItem, Moves
<1> QED BY <1>9, <1>10, QuietCalm DEF SkipItem

LEMMA SysmonRemovesCalm ==
    ASSUME TypeOK, NEW i \in 1 .. LaterSlots, SysmonRemoves(i)
    PROVE  Calm(Sysmon)
<1> DEFINE s == todo[Sysmon]
           n == <<RefFrame("decr", later[i].stmt), RefFrame("clearDue", i), RefFrame("clearStmt", i)>>
<1>1. Sysmon \in Threads /\ Idle(Sysmon) /\ Start(Sysmon, n)
  BY DEF SysmonRemoves, Threads, Idle, Start
<1>2. /\ Len(n) = 3 /\ n[1].op = "decr" /\ n[2] = RefFrame("clearDue", i)
      /\ n[3] = RefFrame("clearStmt", i)
  BY DEF RefFrame
<1> HIDE DEF n
<1>3. \A j \in 1 .. Len(n) : j \in {1, 2, 3}
  BY <1>2
<1>4. /\ RefFrame("clearDue", i).op = "clearDue" /\ RefFrame("clearDue", i).ref = i
      /\ RefFrame("clearStmt", i).op = "clearStmt"
      /\ \A m : RefFrame("endBody", m).op = "endBody"
  BY DEF RefFrame
<1>5. StackOK(n)
  BY <1>2, <1>3, <1>4 DEF StackOK, EndOps
<1>6. \A j \in 1 .. Len(n) : ~IsFresh(n[j]) /\ n[j].op \notin ReapOps
  BY <1>2, <1>3, <1>4 DEF IsFresh, ReapOps
<1>7. \A m : ~EndsIn(n, m) /\ ~PastPrologue(n, m)
  BY <1>2, <1>4 DEF EndsIn, PastPrologue, EndOps
<1>8. Within(s, n)
  BY <1>5, <1>6, <1>7 DEF Within, Inside, FreshOnce
<1>9. Quiet(Sysmon)
  BY <1>1, <1>6, <1>8, StartQuiet
<1> QED BY <1>9, QuietCalm, UnchangedSteady DEF SysmonRemoves, sideVars

\* What is left of a body is dropped.
LEMMA CutShortQuiet ==
    ASSUME TypeOK, Stacks, NEW t \in Threads, todo[t] = <<>> \/ todo[t][1].op = "command",
           todo' = [todo EXCEPT ![t] = NoCommands(@)]
    PROVE  Quiet(t)
<1> DEFINE s == todo[t]
           n == NoCommands(s)
<1>1. todo'[t] = n /\ Moves(t)
  BY DEF Moves, TypeOK
<1>2. s \in Seq(Frames) /\ Len(s) \in Nat /\ StackOK(s) /\ FreshOnce(s)
  BY StackTyped DEF Stacks
<1>3. Within(s, n)
  BY <1>2, CutShortWithin
<1>4. EntriesStay(s, n)
  <2>1. CASE s = <<>>
    BY <2>1, EmptySeq DEF EntriesStay
  <2>2. CASE s # <<>>
    <3>1. 1 \in 1 .. Len(s) /\ s[1].op = "command"
      BY <1>2, <2>2, EmptySeq
    <3>2. \A k \in 1 .. Len(s) : s[k].op = "command" \/ s[k] = RefFrame("endBody", s[1].match)
      BY <1>2, <3>1 DEF StackOK
    <3>3. \A k \in 1 .. Len(s) : s[k].op \notin {"setDue", "clearStmt"}
      BY <3>2 DEF RefFrame
    <3> QED BY <3>3 DEF EntriesStay
  <2> QED BY <2>1, <2>2
<1>5. NoReap(s, n)
  <2>1. CASE n = <<>>
    BY <2>1, EmptySeq DEF NoReap
  <2>2. CASE n # <<>>
    <3>1. s # <<>> /\ n = <<s[Len(s)]>>
      BY <2>2 DEF NoCommands, Last
    <3>2. Len(s) \in 1 .. Len(s)
      BY <1>2, <3>1, EmptySeq
    <3> HIDE DEF n
    <3>3. \A j \in 1 .. Len(n) : n[j] = s[Len(s)]
      BY <3>1
    <3> QED BY <3>2, <3>3 DEF NoReap
  <2> QED BY <2>1, <2>2
<1> QED BY <1>1, <1>3, <1>4, <1>5 DEF Quiet

LEMMA InterruptedCalm ==
    ASSUME TypeOK, Stacks, NEW t \in Threads, Interrupted(t)
    PROVE  Calm(t)
<1>1. todo[t] = <<>> \/ todo[t][1].op = "command"
  BY StackTyped DEF Interrupted, At, Top
<1>2. Quiet(t)
  BY <1>1, CutShortQuiet DEF Interrupted
<1>3. SteadyMatches
  <2>1. DOMAIN matches = MatchRefs
    BY LensTyped DEF MatchRefs
  <2>2. \A m \in MatchRefs : matches[m] \in Match
    BY MatchFields
  <2>3. \A r \in Match : /\ [r EXCEPT !.interrupted = TRUE].parents = r.parents
                         /\ [r EXCEPT !.interrupted = TRUE].completed = r.completed
                         /\ [r EXCEPT !.interrupted = TRUE].version = r.version
    BY DEF Match
  <2>4. \A m \in MatchRefs : \/ matches'[m] = matches[m]
                             \/ matches'[m] = [matches[m] EXCEPT !.interrupted = TRUE]
    BY <2>1 DEF Interrupted
  <2>5. Len(matches') = Len(matches)
    BY InterruptedKeeps DEF Keeps, KeepsMatches
  <2> QED BY <2>2, <2>3, <2>4, <2>5 DEF SteadyMatches, SameParents, SameVersions, SameCompleted
<1> QED BY <1>2, <1>3, UnchangedSteady DEF Calm, Interrupted

\* The prologue of When -serially that leaves.
LEMMA SeriallyTop ==
    ASSUME TypeOK, NEW t \in Threads, RunSerially(t)
    PROVE  /\ todo[t] # <<>> /\ Top(t) = todo[t][1]
           /\ Top(t).op = "command" /\ Top(t).cmd = SeriallyCmd /\ Top(t).match \in MatchRefs
<1>1. AtCommand(t, "serially")
  BY DEF RunSerially
<1>2. Top(t).cmd \in Commands /\ Top(t).cmd.cmd = "serially" /\ Top(t).match \in MatchRefs
  BY <1>1, AtCommandTyped, InBody
<1>3. Top(t).cmd = SeriallyCmd
  BY <1>2 DEF Commands, FreeCommands
<1>4. todo[t] # <<>> /\ Top(t).op \in {"command", "eval"}
  BY <1>1 DEF AtCommand, At
<1>5. Top(t) \in Frames
  BY <1>4, TopTyped
<1>6. Top(t).op = "command"
  <2>1. SeriallyCmd \notin FreeCommands
    BY DEF SeriallyCmd, FreeCommands
  <2> QED BY <1>3, <1>4, <1>5, <2>1
          DEF Frames, DbFrames, AtomicallyFrames, StmtOps, MatchOps, EntryOps
<1> QED BY <1>2, <1>3, <1>4, <1>6, StackTyped DEF Top

LEMMA SeriallyLeavesCalm ==
    ASSUME TypeOK, Stacks, NEW t \in Threads, RunSerially(t),
           IncompleteChildMatches(Top(t).match) > 1
    PROVE  Calm(t)
<1>1. todo' = [todo EXCEPT ![t] = NoCommands(@)]
  BY DEF RunSerially
<1>2. Quiet(t)
  BY <1>1, SeriallyTop, CutShortQuiet
<1> QED BY <1>2, QuietCalm, UnchangedSteady DEF RunSerially, sideVars

\* A match is not made, or the thread goes on to lock the statement.
LEMMA AbortCalm ==
    ASSUME TypeOK, NEW t \in Threads, Idle(t), NEW f, AbortMatch(t), Start(t, AbortFrames(f)),
           UNCHANGED <<later, versions, atomicallys>>
    PROVE  Calm(t)
<1>1. Calls(AbortFrames(f), OtherOps)
  BY PlainCalls, CallsConcat DEF AbortFrames
<1>2. Quiet(t)
  BY <1>1, StartCalls
<1>3. SteadyStmts
  BY UnlockedTyped DEF AbortMatch, SteadyStmts
<1> QED BY <1>2, <1>3, UnchangedSteady DEF Calm, AbortMatch

LEMMA LockCalm ==
    ASSUME TypeOK, NEW t \in Threads, todo[t] = <<>>, NEW s \in StmtRefs, LockParent(t, s),
           NEW f, f.op = "lockStmt", Start(t, <<f>>), UNCHANGED <<matches, later, sideVars>>
    PROVE  Calm(t)
<1> DEFINE n == <<f>>
<1>1. Len(n) = 1 /\ n[1] = f /\ n # <<>>
  OBVIOUS
<1> HIDE DEF n
<1>2. \A j \in 1 .. Len(n) : j = 1
  BY <1>1
<1>3. StackOK(n) /\ FreshOnce(n)
  BY <1>1, <1>2 DEF StackOK, FreshOnce, EndOps
<1>4. \A j \in 1 .. Len(n) : ~IsFresh(n[j]) /\ n[j].op \notin ReapOps
  BY <1>1, <1>2 DEF IsFresh, ReapOps
<1>5. \A m : ~EndsIn(n, m) /\ ~PastPrologue(n, m)
  BY <1>1 DEF EndsIn, PastPrologue, EndOps
<1>6. Within(todo[t], n)
  BY <1>3, <1>4, <1>5 DEF Within, Inside
<1>7. Start(t, n) /\ Idle(t)
  BY DEF n, Idle
<1>8. Quiet(t)
  BY <1>4, <1>6, <1>7, StartQuiet
<1>9. SteadyStmts
  BY StmtSteady DEF LockParent
<1> QED BY <1>8, <1>9, UnchangedSteady DEF Calm, sideVars
=============================================================================
