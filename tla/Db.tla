--------------------------------- MODULE Db ---------------------------------
(***************************************************************************)
(* The statement database (db.c): a graph of statements and matches, the   *)
(* index that finds statements by clause, and the holds.                   *)
(*                                                                         *)
(* A statement is alive while something supports it (a match, a hold or an *)
(* assertion); a match is alive while all its parent statements are.       *)
(* Removal is a recursion between the two that several threads can be in   *)
(* at once, beside threads that insert.                                    *)
(*                                                                         *)
(* Each thread has a stack `todo` of frames, the C calls it still has to   *)
(* make; every action executes the top frame of one thread up to the next  *)
(* point where another thread can interfere, and replaces the frame by the *)
(* frames it leads to.  A reference never comes back to life (SlotPool),   *)
(* so statements and matches are numbered in order of creation.            *)
(***************************************************************************)
EXTENDS Integers, Sequences, SequencesExt, FiniteSets, TrieRemoval

CONSTANTS Workers,      \* threads that take work items
          Sysmon,       \* the thread of sysmon.c
          Clauses,      \* what statements can say
          Continues,    \* <<longer, shorter>>: a clause starts with all of another
          Keys,         \* hold keys
          AtomicallyKeys,   \* keys of When -atomically
          LaterSlots,   \* REMOVE_LATER_MAX
          MaxStmts,     \* bound: statements created in a behaviour
          MaxMatches    \* bound: matches created in a behaviour

ASSUME BoundsAssumption == MaxStmts \in Nat /\ MaxMatches \in Nat

\* Longer and longer clauses.
ASSUME ContinuesAssumption ==
    /\ Continues \subseteq Clauses \X Clauses
    /\ \A c \in Clauses : <<c, c>> \notin Continues
    /\ \A c, d, e \in Clauses :
          <<c, d>> \in Continues /\ <<d, e>> \in Continues => <<c, e>> \in Continues

Threads == Workers \cup {Sysmon}

NoThread == "nobody"
NoClause == "empty clause"
NoKey == "no key"
NoRef == 0              \* STATEMENT_REF_NULL, MATCH_REF_NULL
NoVersion == 0          \* no AtomicallyVersion

VARIABLES
    index,       \* clause -> reference, for the clauses in the trie
    stmts,       \* sequence of statements, the dead ones included
    matches,     \* sequence of matches, the dead ones included
    holds,       \* key -> version and statement of the Hold
    holdsMutex,  \* thread that has db->holdsMutex
    later,       \* removeLater: slot -> statement sysmon is to remove, and when
    versions,    \* sequence of AtomicallyVersions, in order of creation
    atomicallys, \* key -> Atomically
    signals,     \* threads that SIGUSR1 is on its way to
    todo,        \* thread -> its frames, innermost first
    fault        \* "none", or the assertion that stopped the process

\* What few operations touch.
sideVars == <<versions, atomicallys, signals>>

\* The references given out so far.
StmtRefs == 1 .. Len(stmts)
MatchRefs == 1 .. Len(matches)
Versions == 1 .. Len(versions)

\* The statements with one of the clauses.
RefsOf(clauses) == {s \in StmtRefs : stmts[s].clause \in clauses}

Stmt == [clause : Clauses,
         parentCount : Int,
         keep : {"none", "keep", "scheduled"},   \* keepMs 0, > 0, < 0
         version : Versions \cup {NoVersion},    \* atomicallyVersion
         lock : Threads \cup {NoThread},         \* childMatchesMutex
         open : BOOLEAN,                         \* childMatches # NULL
         kids : Seq(MatchRefs)]                  \* childMatches

Match == [parents : Seq(StmtRefs),
          open : BOOLEAN,                        \* not CHILD_STATEMENTS_REMOVING
          completed : BOOLEAN,
          interrupted : BOOLEAN,                 \* its body was cut short by a signal
          worker : Threads,                      \* workerThreadIndex
          version : Versions \cup {NoVersion},   \* atomicallyVersion
          parentWasRemoved : BOOLEAN,
          overlooked : BOOLEAN,                  \* marked after the reaper had passed
          lock : Threads \cup {NoThread},        \* childStatementsMutex
          kids : Seq(StmtRefs)]                  \* childStatements

Hold == [version : Int, statement : StmtRefs \cup {NoRef}]

\* An entry of removeLater; due is "canRemoveAtTick has been written".
Later == [stmt : StmtRefs \cup {NoRef}, due : BOOLEAN]

\* lost counts the increments that no decrement will ever match.
Version == [key : AtomicallyKeys,
            inflight : Int,                     \* inflightCount
            root : MatchRefs \cup {NoRef},
            lost : Nat]

\* A version's number is its place among the versions of all keys, which puts
\* those of one key in the order of the code's numbers.  latest is
\* latestConvergedVersion; newest is the newest version that ever converged.
Atomically == [all : SUBSET Versions,
               latest : Versions \cup {NoVersion},
               newest : Versions \cup {NoVersion}]

\* What a thread can still have to do, by the reference each call takes.
StmtOps == {"decr", "decrKept", "testAgain", "decrScheduled", "negateKeep", "schedule",
            "recount", "removeSelf", "close", "react", "reactAsStmt", "retractOne"}
MatchOps == {"unmatch", "markRemoved", "closeMatch", "signal", "endBody", "completed",
             "reapRoot"}
EntryOps == {"setDue", "clearDue", "clearStmt"}

DbFrames ==
    [op : {"place", "reuse", "adopt"}, clause : Clauses, parent : MatchRefs \cup {NoRef},
     keep : {"none", "keep"}, version : Versions \cup {NoVersion},
     key : Keys \cup {NoKey}, old : StmtRefs \cup {NoRef}, ref : StmtRefs \cup {NoRef}]
    \cup [op : {"holdSet"}, key : Keys, ref : StmtRefs, old : StmtRefs \cup {NoRef}]
    \cup [op : StmtOps, ref : StmtRefs]
    \cup [op : {"storeKeep"}, ref : StmtRefs, keep : {"keep", "scheduled"}]
    \cup [op : MatchOps, ref : MatchRefs]
    \cup [op : EntryOps, ref : 1 .. LaterSlots]

\* Every reference is one that was given out, in the index to a statement with
\* that clause.
DbTypeOK ==
    /\ DOMAIN index \subseteq Clauses
    /\ \A c \in DOMAIN index : index[c] \in RefsOf({c})
    /\ stmts \in Seq(Stmt) /\ Len(stmts) <= MaxStmts
    /\ matches \in Seq(Match) /\ Len(matches) <= MaxMatches
    /\ DOMAIN holds \subseteq Keys
    /\ \A k \in DOMAIN holds : holds[k] \in Hold
    /\ holdsMutex \in Threads \cup {NoThread}
    /\ later \in [1 .. LaterSlots -> Later]
    /\ versions \in Seq(Version)
    /\ atomicallys \in [AtomicallyKeys -> Atomically]
    /\ signals \subseteq Threads

DbInit ==
    /\ index = <<>>
    /\ stmts = <<>>
    /\ matches = <<>>
    /\ holds = <<>>
    /\ holdsMutex = NoThread
    /\ later = [i \in 1 .. LaterSlots |-> [stmt |-> NoRef, due |-> FALSE]]
    /\ versions = <<>>
    /\ atomicallys = [k \in AtomicallyKeys |->
                        [all |-> {}, latest |-> NoVersion, newest |-> NoVersion]]
    /\ signals = {}
    /\ todo = [t \in Threads |-> <<>>]
    /\ fault = "none"

-----------------------------------------------------------------------------
(* Frames.                                                                 *)

Top(t) == Head(todo[t])

At(t, op) == fault = "none" /\ todo[t] # <<>> /\ Top(t).op = op

\* The top frame is replaced by the frames it leads to.
Then(t, frames) == todo' = [todo EXCEPT ![t] = frames \o Tail(@)]

Without(f, xs) == [y \in DOMAIN f \ xs |-> f[y]]

Extend(f, x, v) == [y \in DOMAIN f \cup {x} |-> IF y = x THEN v ELSE f[y]]

\* statementAcquire succeeds on it: the statement is not dead.  (One that is
\* dead but still held is acquired too; every caller then finds parentCount 0
\* or childMatches NULL and goes the way it goes when the acquire fails.)
Live(s) == s # NoRef /\ stmts[s].open

\* A statement to insert, for a Hold! (key and the statement it replaces) or not.
InsertFrame(c, parent, keep, version, key, old) ==
    [op |-> "place", clause |-> c, parent |-> parent, keep |-> keep,
     version |-> version, key |-> key, old |-> old, ref |-> NoRef]

RefFrame(op, ref) == [op |-> op, ref |-> ref]

FramesFor(op, refs) == [i \in 1 .. Len(refs) |-> RefFrame(op, refs[i])]

-----------------------------------------------------------------------------
(* dbInsertOrReuseStatement.                                               *)

\* One more operation in flight in version v, if it is one.
Incr(vs, v) == IF v = NoVersion THEN vs ELSE [vs EXCEPT ![v].inflight = @ + 1]

\* Under a match: acquire it and lock its childStatements; give up when the
\* match is being removed.  The provisional statement made then counts as in
\* flight (statementNew).
InsertUnder(t, f) ==
    /\ matches[f.parent].lock = NoThread
    /\ IF matches[f.parent].open
       THEN /\ matches' = [matches EXCEPT ![f.parent].lock = t]
            /\ versions' = Incr(versions, f.version)
            /\ Then(t, <<f>>)
       ELSE /\ Then(t, <<>>)
            /\ UNCHANGED <<matches, versions>>

\* trieAdd finds the clause and adds nothing.
Present_Never(c) == FALSE
Present(c) == c \in DOMAIN index

\* One round of the CAS loop on the trie: add the new statement, or find the
\* reference that is already there.
InsertPlace(t) ==
    LET f == Top(t)
        new == Len(stmts) + 1
    IN  /\ At(t, "place")
        /\ IF Present(f.clause)
           THEN /\ Then(t, <<[f EXCEPT !.op = "reuse",
                                       !.ref = index[f.clause]]>>)
                /\ UNCHANGED <<index, stmts>>
           ELSE /\ new <= MaxStmts
                /\ stmts' = Append(stmts, [clause |-> f.clause,
                                           parentCount |-> 1,
                                           keep |-> f.keep,
                                           version |-> f.version,
                                           lock |-> NoThread,
                                           open |-> TRUE,
                                           kids |-> <<>>])
                /\ index' = Extend(index, f.clause, new)
                /\ Then(t, <<[f EXCEPT !.op = "adopt", !.ref = new]>>)
        /\ UNCHANGED <<matches, holds, holdsMutex, later, fault, sideVars>>

\* statementTryIncrParentCount fails on a statement that is on its way out.
CanReuse_Dying(s) == Live(s)
CanReuse_Shared(s) == Live(s) /\ stmts[s].parentCount > 1
CanReuse(s) == Live(s) /\ stmts[s].parentCount # 0

IncrParentCount_Never(s) == stmts' = stmts
IncrParentCount(s) == stmts' = [stmts EXCEPT ![s].parentCount = @ + 1]

\* The match gains the child and the parent lock is given back.
AddChildAndUnlock(m, s) ==
    IF m = NoRef THEN matches' = matches
    ELSE matches' = [matches EXCEPT ![m].kids = Append(@, s),
                                    ![m].lock = NoThread]

\* What the provisional statement had counted in flight stays counted.
Lose(vs, v) == IF v = NoVersion THEN vs ELSE [vs EXCEPT ![v].lost = @ + 1]

\* A Hold! goes on to store the reference.
HoldSetFrames(f) ==
    IF f.key = NoKey THEN <<>>
    ELSE <<[op |-> "holdSet", key |-> f.key, ref |-> f.ref, old |-> f.old]>>

\* The reference was read in an earlier step; retry if it went stale.
InsertReuse(t) ==
    LET f == Top(t)
    IN  /\ At(t, "reuse")
        /\ IF CanReuse(f.ref)
           THEN /\ IncrParentCount(f.ref)
                /\ AddChildAndUnlock(f.parent, f.ref)
                /\ versions' = Lose(versions, f.version)
                /\ Then(t, HoldSetFrames(f))
           ELSE /\ Then(t, <<[f EXCEPT !.op = "place"]>>)
                /\ UNCHANGED <<stmts, matches, versions>>
        /\ UNCHANGED <<index, holds, holdsMutex, later, fault, atomicallys, signals>>

\* assert(newStmt != NULL), then hang the statement under its parent match.
\* The caller reacts to it (a frame of the evaluator).
InsertAdopt(t) ==
    LET f == Top(t)
    IN  /\ At(t, "adopt")
        /\ IF Live(f.ref)
           THEN /\ AddChildAndUnlock(f.parent, f.ref)
                /\ Then(t, HoldSetFrames(f) \o <<RefFrame("react", f.ref)>>)
                /\ fault' = fault
           ELSE /\ fault' = "assert(newStmt != NULL)"
                /\ UNCHANGED <<matches, todo>>
        /\ UNCHANGED <<index, stmts, holds, holdsMutex, later, sideVars>>

-----------------------------------------------------------------------------
(* dbInsertMatch: the parents are locked one after the other, each must    *)
(* be open; with the last one locked the match is inserted and all of them *)
(* are unlocked.                                                           *)

\* Whether t can lock childMatches of s now (the mutex is recursive).
CanLock(t, s) == stmts[s].lock \in {NoThread, t}

Unlocked(t, ss) ==
    [s \in DOMAIN ss |-> IF ss[s].lock = t THEN [ss[s] EXCEPT !.lock = NoThread] ELSE ss[s]]

LockParent(t, s) == stmts' = [stmts EXCEPT ![s].lock = t]

\* A parent is gone: give the locks back and insert nothing.  matchRemoveSelf on
\* the match that was not inserted may find its worker, t itself, too long on it.
AbortMatch(t) ==
    /\ stmts' = Unlocked(t, stmts) /\ matches' = matches
    /\ signals' \in {signals, signals \cup {t}}

CanInsertMatch_FirstParent(s, parents) == Live(parents[1])
CanInsertMatch(s, parents) == Live(s)

InsertMatch_WrongRef(t, parents, version) ==
    LET m == Len(matches) + 1
    IN  /\ m <= MaxMatches
        /\ matches' = Append(matches, [parents |-> parents, open |-> TRUE,
                                       completed |-> FALSE, interrupted |-> FALSE,
                                       worker |-> t,
                                       version |-> version, parentWasRemoved |-> FALSE,
                                       overlooked |-> FALSE,
                                       lock |-> NoThread, kids |-> <<>>])
        /\ stmts' = [s \in DOMAIN stmts |->
                        IF s \in ToSet(parents)
                        THEN [Unlocked(t, stmts)[s] EXCEPT !.kids = Append(@, m - 1)]
                        ELSE stmts[s]]
InsertMatch(t, parents, version) ==
    LET m == Len(matches) + 1
    IN  /\ m <= MaxMatches
        /\ matches' = Append(matches, [parents |-> parents, open |-> TRUE,
                                       completed |-> FALSE, interrupted |-> FALSE,
                                       worker |-> t,
                                       version |-> version, parentWasRemoved |-> FALSE,
                                       overlooked |-> FALSE,
                                       lock |-> NoThread, kids |-> <<>>])
        /\ stmts' = [s \in DOMAIN stmts |->
                        IF s \in ToSet(parents)
                        THEN [Unlocked(t, stmts)[s] EXCEPT !.kids = Append(@, m)]
                        ELSE stmts[s]]

-----------------------------------------------------------------------------
(* statementDecrParentCountAndMaybeRemoveSelf and the removals it leads to. *)

\* Without keepMs the count is decremented in one step, and the statement
\* removed at zero.  keepMs is tested three times: > 0, < 0 and = 0.
Decr(t) ==
    LET s == Top(t).ref
        count == stmts[s].parentCount - 1
    IN  /\ At(t, "decr")
        /\ \/ /\ ~Live(s)
              /\ Then(t, <<>>)
              /\ stmts' = stmts
           \/ /\ Live(s) /\ stmts[s].keep = "none"
              /\ stmts' = [stmts EXCEPT ![s].parentCount = count]
              /\ Then(t, IF count = 0 THEN <<RefFrame("removeSelf", s)>> ELSE <<>>)
           \/ /\ Live(s) /\ stmts[s].keep = "keep"
              /\ Then(t, <<RefFrame("decrKept", s)>>)
              /\ stmts' = stmts
           \/ /\ Live(s) /\ stmts[s].keep = "scheduled"
              /\ Then(t, <<RefFrame("testAgain", s)>>)
              /\ stmts' = stmts
        /\ UNCHANGED <<index, matches, holds, holdsMutex, later, fault, sideVars>>

\* When keepMs was negated back since the first test, no test succeeds and
\* nothing is decremented.
TestAgain(t) ==
    LET s == Top(t).ref
    IN  /\ At(t, "testAgain")
        /\ Then(t, IF stmts[s].keep = "scheduled"
                   THEN <<RefFrame("decrScheduled", s)>> ELSE <<>>)
        /\ UNCHANGED <<index, stmts, matches, holds, holdsMutex, later, fault, sideVars>>

DecrThen(t, atZero, otherwise) ==
    LET s == Top(t).ref
        count == stmts[s].parentCount - 1
    IN  /\ stmts' = [stmts EXCEPT ![s].parentCount = count]
        /\ Then(t, IF count = 0 THEN atZero ELSE otherwise)
        /\ UNCHANGED <<index, matches, holds, holdsMutex, later, fault, sideVars>>

\* keepMs was > 0: at zero, negate it, schedule a removal, and count the
\* statement up again until sysmon takes that support back.
DecrKept(t) ==
    LET s == Top(t).ref
    IN  /\ At(t, "decrKept")
        /\ DecrThen(t, <<RefFrame("negateKeep", s), RefFrame("schedule", s),
                         RefFrame("recount", s)>>, <<>>)

\* keepMs was < 0: at zero, carry the removal out; a statement that was
\* revived gets its keepMs back.
DecrScheduled(t) ==
    LET s == Top(t).ref
    IN  /\ At(t, "decrScheduled")
        /\ DecrThen(t, <<RefFrame("removeSelf", s)>>, <<RefFrame("negateKeep", s)>>)

NegatedKeep(keep) == IF keep = "keep" THEN "scheduled" ELSE "keep"

\* keepMs is read, and its negation stored: two steps.
NegateKeep(t) ==
    LET s == Top(t).ref
    IN  /\ At(t, "negateKeep")
        /\ Then(t, <<[op |-> "storeKeep", ref |-> s,
                      keep |-> NegatedKeep(stmts[s].keep)]>>)
        /\ UNCHANGED <<index, stmts, matches, holds, holdsMutex, later, fault, sideVars>>

StoreKeep(t) ==
    /\ At(t, "storeKeep")
    /\ stmts' = [stmts EXCEPT ![Top(t).ref].keep = Top(t).keep]
    /\ Then(t, <<>>)
    /\ UNCHANGED <<index, matches, holds, holdsMutex, later, fault, sideVars>>

\* sysmonScheduleRemoveAfter: take the first free entry by a CAS on its
\* statement, and write the due time afterwards; a full table ends the process.
FreeEntries == {i \in 1 .. LaterSlots : later[i].stmt = NoRef}

ScheduleRemove(t) ==
    /\ At(t, "schedule")
    /\ IF FreeEntries # {}
       THEN /\ \E first \in FreeEntries :
                  /\ \A i \in FreeEntries : first <= i
                  /\ later' = [later EXCEPT ![first].stmt = Top(t).ref]
                  /\ Then(t, <<RefFrame("setDue", first)>>)
            /\ fault' = fault
       ELSE /\ fault' = "ran out of remove-later slots"
            /\ UNCHANGED <<later, todo>>
    /\ UNCHANGED <<index, stmts, matches, holds, holdsMutex, sideVars>>

SetDue(t) ==
    /\ At(t, "setDue")
    /\ later' = [later EXCEPT ![Top(t).ref].due = TRUE]
    /\ Then(t, <<>>)
    /\ UNCHANGED <<index, stmts, matches, holds, holdsMutex, fault, sideVars>>

RecountKept(t) ==
    /\ At(t, "recount")
    /\ IncrParentCount(Top(t).ref)
    /\ Then(t, <<>>)
    /\ UNCHANGED <<index, matches, holds, holdsMutex, later, fault, sideVars>>

\* The CAS loop of trieRemove takes out whatever statement is indexed under
\* the clause of s, and under clauses related to it.
DeindexClauseOf_Never(s) == index' = index
DeindexClauseOf(s) ==
    index' = Without(index, Dropped(DOMAIN index, stmts[s].clause, Continues))

\* statementRemoveSelf up to its critical section.
RemoveSelf(t) ==
    LET s == Top(t).ref
    IN  /\ At(t, "removeSelf")
        /\ IF stmts[s].parentCount = 0
           THEN /\ DeindexClauseOf(s)
                /\ Then(t, <<RefFrame("close", s)>>)
                /\ fault' = fault
           ELSE /\ fault' = "assert(stmt->parentCount == 0)"
                /\ UNCHANGED <<index, todo>>
        /\ UNCHANGED <<stmts, matches, holds, holdsMutex, later, sideVars>>

\* Close childMatches and mark the statement dead, then remove each child.
CloseStatement(t) ==
    LET s == Top(t).ref
    IN  /\ At(t, "close")
        /\ CanLock(t, s)
        /\ IF stmts[s].open
           THEN /\ stmts' = [stmts EXCEPT ![s].open = FALSE]
                /\ Then(t, FramesFor("unmatch", stmts[s].kids))
                /\ fault' = fault
           ELSE /\ fault' = "assert(childMatches != NULL)"
                /\ UNCHANGED <<stmts, todo>>
        /\ UNCHANGED <<index, matches, holds, holdsMutex, later, sideVars>>

\* The root match of a version that is not older than the last one to converge
\* is left to the reaper.
IsKeptRoot_OnlyNewer(m) ==
    LET v == matches[m].version
    IN  /\ v # NoVersion
        /\ versions[v].root = m
        /\ v > atomicallys[versions[v].key].latest
IsKeptRoot(m) ==
    LET v == matches[m].version
    IN  /\ v # NoVersion
        /\ versions[v].root = m
        /\ v >= atomicallys[versions[v].key].latest

\* Close the match, take its support from each child, and then see to the
\* worker that is still on it.
Close_LeftOpen(t, m) ==
    /\ matches' = matches
    /\ Then(t, FramesFor("decr", matches[m].kids)
               \o IF matches[m].completed THEN <<>> ELSE <<RefFrame("signal", m)>>)
Close(t, m) ==
    /\ matches' = [matches EXCEPT ![m].open = FALSE]
    /\ Then(t, FramesFor("decr", matches[m].kids)
               \o IF matches[m].completed THEN <<>> ELSE <<RefFrame("signal", m)>>)

\* matchRemoveSelf first decides whether the match is a root to keep, which it
\* marks in a later step.  Otherwise it closes the match: at once when the
\* body has ended, for then nothing can come in between.
RemoveMatch(t) ==
    LET m == Top(t).ref
    IN  /\ At(t, "unmatch")
        /\ \/ /\ IsKeptRoot(m)
              /\ Then(t, <<RefFrame("markRemoved", m)>>)
              /\ matches' = matches
           \/ /\ ~IsKeptRoot(m) /\ ~matches[m].completed
              /\ Then(t, <<RefFrame("closeMatch", m)>>)
              /\ matches' = matches
           \/ /\ ~IsKeptRoot(m) /\ matches[m].completed /\ matches[m].open
              /\ Close(t, m)
           \/ /\ ~IsKeptRoot(m) /\ matches[m].completed /\ ~matches[m].open
              /\ Then(t, <<>>)
              /\ matches' = matches
        /\ UNCHANGED <<index, stmts, holds, holdsMutex, later, fault, sideVars>>

\* The reaper may have passed between the two steps; then nothing will ever
\* remove the match.
MarkRemoved(t) ==
    LET m == Top(t).ref
    IN  /\ At(t, "markRemoved")
        /\ matches' = [matches EXCEPT ![m].parentWasRemoved = TRUE,
                                      ![m].overlooked = versions[matches[m].version].root # m]
        /\ Then(t, <<>>)
        /\ UNCHANGED <<index, stmts, holds, holdsMutex, later, fault, sideVars>>

\* Wait for an insertion under the match to finish; the second remover of a
\* match finds it closed.
CloseMatch(t) ==
    LET m == Top(t).ref
    IN  /\ At(t, "closeMatch")
        /\ matches[m].lock = NoThread
        /\ IF matches[m].open
           THEN Close(t, m)
           ELSE Then(t, <<>>) /\ matches' = matches
        /\ UNCHANGED <<index, stmts, holds, holdsMutex, later, fault, sideVars>>

\* A worker that is still on the match, and has been for 100 ms, is signalled.
\* The signal may reach it later, on another item.
SignalWorker(t) ==
    LET m == Top(t).ref
    IN  /\ At(t, "signal")
        /\ \/ signals' = signals
           \/ ~matches[m].completed /\ signals' = signals \cup {matches[m].worker}
        /\ Then(t, <<>>)
        /\ UNCHANGED <<index, stmts, matches, holds, holdsMutex, later, fault,
                       versions, atomicallys>>

\* sysmon finds a remove-later entry whose time has come, removes the
\* statement and then frees the entry, field by field.  keepMs is no bound on
\* the delay of the thread that scheduled it: any time will do.
SysmonRemoves(i) ==
    /\ fault = "none" /\ todo[Sysmon] = <<>>
    /\ later[i].stmt # NoRef /\ later[i].due
    /\ todo' = [todo EXCEPT ![Sysmon] = <<RefFrame("decr", later[i].stmt),
                                          RefFrame("clearDue", i),
                                          RefFrame("clearStmt", i)>>]
    /\ UNCHANGED <<index, stmts, matches, holds, holdsMutex, later, fault, sideVars>>

ClearEntry_StmtFirst(t) ==
    LET i == Top(t).ref
    IN  /\ \/ At(t, "clearDue") /\ later' = [later EXCEPT ![i].stmt = NoRef]
           \/ At(t, "clearStmt") /\ later' = [later EXCEPT ![i].due = FALSE]
        /\ Then(t, <<>>)
        /\ UNCHANGED <<index, stmts, matches, holds, holdsMutex, fault, sideVars>>
ClearEntry(t) ==
    LET i == Top(t).ref
    IN  /\ \/ At(t, "clearDue") /\ later' = [later EXCEPT ![i].due = FALSE]
           \/ At(t, "clearStmt") /\ later' = [later EXCEPT ![i].stmt = NoRef]
        /\ Then(t, <<>>)
        /\ UNCHANGED <<index, stmts, matches, holds, holdsMutex, fault, sideVars>>

-----------------------------------------------------------------------------
(* dbRetractStatements: look the statements up, then take a support from   *)
(* each; the acquire is not checked.                                       *)

RetractFrames(pattern) ==
    FramesFor("retractOne", SetToSeq({index[c] : c \in DOMAIN index \cap pattern}))

RetractOne(t) ==
    /\ At(t, "retractOne")
    /\ IF Live(Top(t).ref)
       THEN /\ Then(t, <<RefFrame("decr", Top(t).ref)>>)
            /\ fault' = fault
       ELSE /\ fault' = "NULL statement in dbRetractStatements"
            /\ todo' = todo
    /\ UNCHANGED <<index, stmts, matches, holds, holdsMutex, later, sideVars>>

-----------------------------------------------------------------------------
(* dbHoldStatement, and its caller's part: react to the new statement, then *)
(* drop the old one.                                                        *)

HoldOf(k) ==
    IF k \in DOMAIN holds THEN holds[k] ELSE [version |-> -1, statement |-> NoRef]

HoldVersion(f) == IF f.version < 0 THEN HoldOf(f.key).version + 1 ELSE f.version

HoldUnchanged_AnyVersion(f) ==
    LET old == HoldOf(f.key).statement
    IN  Live(old) /\ stmts[old].clause = f.clause
HoldUnchanged(f) ==
    LET old == HoldOf(f.key).statement
    IN  \/ HoldVersion(f) <= HoldOf(f.key).version
        \/ Live(old) /\ stmts[old].clause = f.clause

\* The CAS loop of trieRemove on the clause of the old statement, if it could
\* be acquired.
Deindex(old) ==
    IF old = NoRef THEN index' = index ELSE DeindexClauseOf(old)

\* Hold f.clause under f.key.  An empty clause ends the hold; otherwise the
\* mutex is kept until the reference of the new statement is stored.
HoldLock(t, f) ==
    LET old == HoldOf(f.key).statement
        acquired == IF Live(old) THEN old ELSE NoRef
        dropOld == IF old = NoRef THEN <<>> ELSE <<RefFrame("decr", old)>>
    IN  /\ holdsMutex = NoThread
        /\ \/ /\ HoldUnchanged(f)
              /\ holds' = Extend(holds, f.key, HoldOf(f.key))
              /\ Then(t, <<>>)
              /\ UNCHANGED <<index, holdsMutex>>
           \/ /\ ~HoldUnchanged(f) /\ f.clause = NoClause
              /\ holds' = Without(holds, {f.key})
              /\ Deindex(acquired)
              /\ Then(t, dropOld)
              /\ holdsMutex' = holdsMutex
           \/ /\ ~HoldUnchanged(f) /\ f.clause # NoClause
              /\ holds' = Extend(holds, f.key, [version |-> HoldVersion(f), statement |-> old])
              /\ holdsMutex' = t
              /\ Then(t, <<InsertFrame(f.clause, NoRef, f.keep, NoVersion, f.key, acquired)>>
                         \o dropOld)
              /\ index' = index
        /\ UNCHANGED <<stmts, matches, later, fault, sideVars>>

\* The old statement leaves the index before its support is taken away.
HoldSet(t) ==
    LET f == Top(t)
    IN  /\ At(t, "holdSet")
        /\ holds' = [holds EXCEPT ![f.key].statement = f.ref]
        /\ Deindex(f.old)
        /\ holdsMutex' = NoThread
        /\ Then(t, <<>>)
        /\ UNCHANGED <<stmts, matches, later, fault, sideVars>>

-----------------------------------------------------------------------------

DbStep(t) ==
    \/ InsertPlace(t)
    \/ InsertReuse(t)
    \/ InsertAdopt(t)
    \/ Decr(t)
    \/ DecrKept(t)
    \/ DecrScheduled(t)
    \/ TestAgain(t)
    \/ NegateKeep(t)
    \/ StoreKeep(t)
    \/ ScheduleRemove(t)
    \/ SetDue(t)
    \/ ClearEntry(t)
    \/ RecountKept(t)
    \/ RemoveSelf(t)
    \/ CloseStatement(t)
    \/ RemoveMatch(t)
    \/ MarkRemoved(t)
    \/ CloseMatch(t)
    \/ SignalWorker(t)
    \/ RetractOne(t)
    \/ HoldSet(t)
=============================================================================
