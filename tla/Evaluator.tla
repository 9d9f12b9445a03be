----------------------------- MODULE Evaluator -----------------------------
(***************************************************************************)
(* The evaluator (folk.c): work items, the reaction to a new statement and *)
(* the bodies of Whens, on top of the database.                            *)
(*                                                                         *)
(* A When is a statement too.  Whoever creates a statement asks the index  *)
(* for the Whens that react to it, and for the statements it reacts to if  *)
(* it is a When, and pushes a work item for every pair; a worker that      *)
(* takes the item makes a match of the pair and runs the body under it.    *)
(*                                                                         *)
(* What programs do is data: a program is the set of work items it starts  *)
(* with, Reacts gives the clauses a When's pattern matches (the events of  *)
(* a Subscribe:), Body the commands its body executes on one of them.      *)
(***************************************************************************)
EXTENDS Atomically, Bags

CONSTANTS Whens,       \* the clauses that are Whens
          Nonatomically,   \* those among them with -nonatomically
          Subscribes,  \* the clauses that are Subscribe:s
          Events,      \* what Notify: can say
          Reacts,      \* When -> clauses, {} for When { ... }; Subscribe: -> events
          Body,        \* When or Subscribe: -> clause or event -> commands
          Programs     \* each a set of commands to make work items from

VARIABLE work    \* bag of work items in all the work queues

vars == <<index, stmts, matches, holds, holdsMutex, later, sideVars, todo, fault,
          work>>

-----------------------------------------------------------------------------
(* Commands of programs.  Say inserts under the current match, Hold! and    *)
(* Notify: act at once; Assert! and Retract! become work items.  The        *)
(* prologue of When -serially and of When -atomically are commands too.     *)

SayCmd(c, keep) == [cmd |-> "say", clause |-> c, keep |-> keep]
HoldCmd(k, version, c, keep) ==
    [cmd |-> "hold", key |-> k, version |-> version, clause |-> c, keep |-> keep]
AssertCmd(c) == [cmd |-> "assert", clause |-> c]
RetractCmd(pattern) == [cmd |-> "retract", pattern |-> pattern]
NotifyCmd(event) == [cmd |-> "notify", event |-> event]
FreshCmd(k) == [cmd |-> "fresh", key |-> k]
SeriallyCmd == [cmd |-> "serially"]

\* The commands that can be executed outside of a match, and all of them.
FreeCommands ==
    [cmd : {"hold"}, key : Keys, version : Int, clause : Clauses \cup {NoClause},
     keep : {"none", "keep"}]
    \cup [cmd : {"assert"}, clause : Clauses]
    \cup [cmd : {"retract"}, pattern : SUBSET Clauses]
    \cup [cmd : {"notify"}, event : Events]

Commands ==
    FreeCommands
    \cup [cmd : {"say"}, clause : Clauses, keep : {"none", "keep"}]
    \cup [cmd : {"fresh"}, key : AtomicallyKeys]
    \cup {SeriallyCmd}

ASSUME WhensAssumption ==
    /\ Whens \subseteq Clauses /\ Subscribes \subseteq Clauses
    /\ Nonatomically \subseteq Whens
    /\ \A w \in Whens : Reacts[w] \subseteq Clauses
    /\ \A w \in Subscribes : Reacts[w] \subseteq Events

\* A program starts from outside of any match, and so does a Subscribe: body.
ASSUME ProgramsAssumption ==
    /\ \A program \in Programs : program \subseteq FreeCommands
    /\ \A w \in Whens : \A c \in Clauses \cup {NoClause} : Body[w][c] \in Seq(Commands)
    /\ \A w \in Subscribes : \A e \in Events : Body[w][e] \in Seq(FreeCommands)

AtomicallyWhens ==
    {w \in Whens : \E c \in Clauses \cup {NoClause} :
        \E i \in 1 .. Len(Body[w][c]) : Body[w][c][i].cmd = "fresh"}

SeriallyWhens ==
    {w \in Whens : \E c \in Clauses \cup {NoClause} : SeriallyCmd \in ToSet(Body[w][c])}

\* The prologue is part of the When, whatever it is run on, and is there once.
ASSUME ProloguesAssumption ==
    /\ \A w \in SeriallyWhens : \A c \in Clauses \cup {NoClause} :
          SeriallyCmd \in ToSet(Body[w][c])
    /\ \A w \in Whens : \A c \in Clauses \cup {NoClause} :
          \A i, j \in 1 .. Len(Body[w][c]) :
             Body[w][c][i].cmd = "fresh" /\ Body[w][c][j].cmd = "fresh" => i = j

-----------------------------------------------------------------------------

\* What is in the work queues, and on the threads' stacks.
WorkItems ==
    FreeCommands
    \cup [cmd : {"runWhen"}, when : RefsOf(Whens), stmt : StmtRefs \cup {NoRef}]
    \cup [cmd : {"runSubscribe"}, ref : RefsOf(Subscribes), event : Events]

Frames ==
    DbFrames \cup AtomicallyFrames
    \cup [op : {"command"}, match : MatchRefs, cmd : Commands]
    \cup [op : {"command", "eval"}, match : {NoRef}, cmd : FreeCommands]
    \cup [op : {"lockStmt"}, when : RefsOf(Whens), stmt : StmtRefs]

TypeOK ==
    /\ DbTypeOK
    /\ todo \in [Threads -> Seq(Frames)]
    /\ IsABag(work) /\ BagToSet(work) \subseteq WorkItems

Init ==
    /\ DbInit
    /\ work \in {SetToBag(program) : program \in Programs}

-----------------------------------------------------------------------------
(* Commands, each executed in a step of its own.                            *)

\* A command of the body of match m is a frame of its own, so that a signal can
\* end the body between two commands.
BodyFrames(m, cmds) ==
    [i \in 1 .. Len(cmds) |-> [op |-> "command", match |-> m, cmd |-> cmds[i]]]

\* The code of an EVAL item runs outside of any block.
EvalFrame(cmd) == [op |-> "eval", match |-> NoRef, cmd |-> cmd]

AtCommand(t, name) == (At(t, "command") \/ At(t, "eval")) /\ Top(t).cmd.cmd = name

\* A Say inherits the version of the match, but a Subscribe: never has one, nor
\* has a When -nonatomically, nor a When -atomically, whose bodies make theirs.
Unversioned == Subscribes \cup Nonatomically \cup AtomicallyWhens

RunSay(t) ==
    LET m == Top(t).match
        cmd == Top(t).cmd
        version == IF cmd.clause \in Unversioned THEN NoVersion ELSE matches[m].version
    IN  /\ AtCommand(t, "say")
        /\ InsertUnder(t, InsertFrame(cmd.clause, m, cmd.keep, version, NoKey, NoRef))
        /\ UNCHANGED <<index, stmts, holds, holdsMutex, later, fault, atomicallys, signals,
                       work>>

RunHold(t) == AtCommand(t, "hold") /\ HoldLock(t, Top(t).cmd) /\ UNCHANGED work

RunFresh(t) ==
    AtCommand(t, "fresh") /\ FreshVersion(t, Top(t).match, Top(t).cmd.key) /\ UNCHANGED work

\* Assert! and Retract! only push a work item.
RunPush(t) ==
    /\ AtCommand(t, "assert") \/ AtCommand(t, "retract")
    /\ work' = work (+) SetToBag({Top(t).cmd})
    /\ Then(t, <<>>)
    /\ UNCHANGED <<index, stmts, matches, holds, holdsMutex, later, fault, sideVars>>

\* What is left of a body is dropped: of its frames only the last one stays, the
\* end of runWhenBlock (the body of a Subscribe: has none).
NoCommands(frames) ==
    IF frames # <<>> /\ Last(frames).op # "command" THEN <<Last(frames)>> ELSE <<>>

\* statementIncompleteChildMatchesCount of the When of match m.
IncompleteChildMatches(m) ==
    LET w == matches[m].parents[1]
    IN  IF stmts[w].open
        THEN Cardinality({i \in 1 .. Len(stmts[w].kids) : ~matches[stmts[w].kids[i]].completed})
        ELSE 0

\* The prologue of When -serially: leave if another match of the When runs.
RunSerially_OffByOne(t) ==
    LET m == Top(t).match
    IN  /\ AtCommand(t, "serially")
        /\ CanLock(t, matches[m].parents[1])
        /\ todo' = [todo EXCEPT ![t] = IF IncompleteChildMatches(m) > 2
                                       THEN NoCommands(@) ELSE Tail(@)]
        /\ UNCHANGED <<index, stmts, matches, holds, holdsMutex, later, fault, sideVars,
                       work>>
RunSerially(t) ==
    LET m == Top(t).match
    IN  /\ AtCommand(t, "serially")
        /\ CanLock(t, matches[m].parents[1])
        /\ todo' = [todo EXCEPT ![t] = IF IncompleteChildMatches(m) > 1
                                       THEN NoCommands(@) ELSE Tail(@)]
        /\ UNCHANGED <<index, stmts, matches, holds, holdsMutex, later, fault, sideVars,
                       work>>

\* SIGUSR1 arrives: the interpreter abandons the rest of the block it is in, be
\* it the one the signal was meant for or not.  The worker exits after it, or
\* when it is between two items, and another one takes its place.
Interrupted(t) ==
    /\ fault = "none" /\ t \in signals
    /\ At(t, "command") \/ todo[t] = <<>>
    /\ todo' = [todo EXCEPT ![t] = NoCommands(@)]
    /\ signals' = signals \ {t}
    /\ matches' = [m \in DOMAIN matches |->
                      IF todo[t] # <<>> /\ Top(t).match = m
                      THEN [matches[m] EXCEPT !.interrupted = TRUE] ELSE matches[m]]
    /\ UNCHANGED <<index, stmts, holds, holdsMutex, later, fault,
                   versions, atomicallys, work>>

-----------------------------------------------------------------------------
(* reactToNewStatement and Notify.                                         *)

RunWhenItem(w, s) == [cmd |-> "runWhen", when |-> w, stmt |-> s]
RunSubscribeItem(s, event) == [cmd |-> "runSubscribe", ref |-> s, event |-> event]

\* dbQuery: the references indexed under some of the clauses, now.
Query(cs) == {index[c] : c \in DOMAIN index \cap cs}

WhensFor(c) == {w \in Whens : c \in Reacts[w]}

StatementsFor_NoScan(pattern) == IF pattern = {} THEN {NoRef} ELSE {}
StatementsFor(pattern) == IF pattern = {} THEN {NoRef} ELSE Query(pattern)

VersionOf(s) == IF s = NoRef THEN NoVersion ELSE stmts[s].version

\* pushRunWhenBlock for each pair: both versions have one more in flight.
PushRunWhens_Uncounted(pairs) ==
    /\ work' = work (+) SetToBag({RunWhenItem(p[1], p[2]) : p \in pairs})
    /\ versions' = versions
PushRunWhens(pairs) ==
    LET pushes(v) == Cardinality({p \in pairs : VersionOf(p[1]) = v})
                     + Cardinality({p \in pairs : VersionOf(p[2]) = v})
    IN  /\ work' = work (+) SetToBag({RunWhenItem(p[1], p[2]) : p \in pairs})
        /\ versions' = [v \in DOMAIN versions |->
                           [versions[v] EXCEPT !.inflight = @ + pushes(v)]]

\* A new When runs on the statements that are already there, ...
ReactAsWhen(t) ==
    LET w == Top(t).ref
    IN  /\ At(t, "react") /\ stmts[w].clause \in Whens
        /\ PushRunWhens({<<w, s>> : s \in StatementsFor(Reacts[stmts[w].clause])})
        /\ Then(t, <<RefFrame("reactAsStmt", w)>>)
        /\ UNCHANGED <<index, stmts, matches, holds, holdsMutex, later, fault,
                       atomicallys, signals>>

\* ... and the Whens that are already there run on a new statement (not on a
\* Subscribe:).  After its reactions the statement is no longer in flight.
ReactAsStmt(t) ==
    LET s == Top(t).ref
        c == stmts[s].clause
        found == IF c \in Subscribes THEN {} ELSE Query(WhensFor(c))
    IN  /\ At(t, "reactAsStmt") \/ (At(t, "react") /\ c \notin Whens)
        /\ PushRunWhens({<<w, s>> : w \in {r \in found : Live(r)}})
        /\ Then(t, InflightFrames(stmts[s].version))
        /\ UNCHANGED <<index, stmts, matches, holds, holdsMutex, later, fault,
                       atomicallys, signals>>

\* Notify: one item for every live Subscribe: to the event.
Notify(t) ==
    LET event == Top(t).cmd.event
        found == Query({c \in Subscribes : event \in Reacts[c]})
    IN  /\ AtCommand(t, "notify")
        /\ work' = work (+) SetToBag({RunSubscribeItem(s, event) : s \in {r \in found : Live(r)}})
        /\ Then(t, <<>>)
        /\ UNCHANGED <<index, stmts, matches, holds, holdsMutex, later, fault, sideVars>>

-----------------------------------------------------------------------------
(* workerRun, runWhenBlock and runSubscribeBlock.                          *)

\* t takes the item off a queue and goes on with the frames.
Start(t, frames) == todo' = [todo EXCEPT ![t] = frames]

TakeItem(t, item) ==
    /\ fault = "none" /\ todo[t] = <<>>
    /\ item \in BagToSet(work)
    /\ work' = work (-) SetToBag({item})

TakeAssert(t, item) ==
    /\ TakeItem(t, item) /\ item.cmd = "assert"
    /\ Start(t, <<InsertFrame(item.clause, NoRef, "none", NoVersion, NoKey, NoRef)>>)
    /\ UNCHANGED <<index, stmts, matches, holds, holdsMutex, later, fault, sideVars>>

TakeRetract(t, item) ==
    /\ TakeItem(t, item) /\ item.cmd = "retract"
    /\ Start(t, RetractFrames(item.pattern))
    /\ UNCHANGED <<index, stmts, matches, holds, holdsMutex, later, fault, sideVars>>

TakeEval(t, item) ==
    /\ TakeItem(t, item) /\ item.cmd \in {"hold", "notify"}
    /\ Start(t, <<EvalFrame(item)>>)
    /\ UNCHANGED <<index, stmts, matches, holds, holdsMutex, later, fault, sideVars>>

\* The body of a Subscribe: runs without a match.
TakeSubscribe(t, item) ==
    /\ TakeItem(t, item) /\ item.cmd = "runSubscribe"
    /\ Start(t, IF Live(item.ref)
                THEN BodyFrames(NoRef, Body[stmts[item.ref].clause][item.event]) ELSE <<>>)
    /\ UNCHANGED <<index, stmts, matches, holds, holdsMutex, later, fault, sideVars>>

\* f is a RUN_WHEN item, or the frame of one.
Parents(f) == IF f.stmt = NoRef THEN <<f.when>> ELSE <<f.when, f.stmt>>

\* A statement that is gone can no longer be acquired, unless someone still
\* holds it.  What the item had counted in flight stays counted.
SkipItem(t, item) ==
    /\ TakeItem(t, item) /\ item.cmd = "runWhen"
    /\ \E i \in 1 .. Len(Parents(item)) : ~Live(Parents(item)[i])
    /\ versions' = Lose(Lose(versions, VersionOf(item.when)), VersionOf(item.stmt))
    /\ UNCHANGED <<index, stmts, matches, holds, holdsMutex, later, todo, fault,
                   atomicallys, signals>>

\* Without a match the item is no longer in flight.
AbortFrames(f) == InflightFrames(VersionOf(f.when)) \o InflightFrames(VersionOf(f.stmt))

\* The run belongs to the statement's version or else to the When's, and takes
\* over what the item had counted there; if it had counted in both, the other
\* count is given back.
BlockVersion(f) ==
    IF VersionOf(f.stmt) # NoVersion THEN VersionOf(f.stmt) ELSE VersionOf(f.when)

RunFrames(f, m) ==
    LET what == IF f.stmt = NoRef THEN NoClause ELSE stmts[f.stmt].clause
        both == VersionOf(f.when) # NoVersion /\ VersionOf(f.stmt) # NoVersion
    IN  (IF both THEN <<InflightFrame(VersionOf(f.when))>> ELSE <<>>)
        \o BodyFrames(m, Body[stmts[f.when].clause][what])
        \o <<RefFrame("endBody", m)>>

\* Lock the i-th parent, which must still be there, and go on to the next; with
\* the last one locked the match is made and its body run.
LockAndRun(t, f, i) ==
    LET parents == Parents(f)
    IN  /\ CanLock(t, parents[i])
        /\ \/ /\ ~CanInsertMatch(parents[i], parents)
              /\ AbortMatch(t)
              /\ Start(t, AbortFrames(f))
           \/ /\ CanInsertMatch(parents[i], parents) /\ i < Len(parents)
              /\ LockParent(t, parents[i])
              /\ Start(t, <<[op |-> "lockStmt", when |-> f.when, stmt |-> f.stmt]>>)
              /\ UNCHANGED <<matches, signals>>
           \/ /\ CanInsertMatch(parents[i], parents) /\ i = Len(parents)
              /\ InsertMatch(t, parents, BlockVersion(f))
              /\ Start(t, RunFrames(f, Len(matches) + 1))
              /\ UNCHANGED signals
        /\ UNCHANGED <<index, holds, holdsMutex, later, fault, versions, atomicallys>>

TakeRunWhen(t, item) ==
    TakeItem(t, item) /\ item.cmd = "runWhen" /\ LockAndRun(t, item, 1)

LockStmt(t) ==
    At(t, "lockStmt") /\ LockAndRun(t, Top(t), 2) /\ UNCHANGED work

\* The end of runWhenBlock: the run is no longer in flight, then completed.
EndBody(t) ==
    LET m == Top(t).ref
        v == matches[m].version
    IN  /\ At(t, "endBody")
        /\ IF v = NoVersion
           THEN /\ matches' = [matches EXCEPT ![m].completed = TRUE]
                /\ Then(t, <<>>)
           ELSE /\ Then(t, <<InflightFrame(v), RefFrame("completed", m)>>)
                /\ matches' = matches
        /\ UNCHANGED <<index, stmts, holds, holdsMutex, later, fault, sideVars, work>>

MatchCompleted(t) ==
    /\ At(t, "completed")
    /\ matches' = [matches EXCEPT ![Top(t).ref].completed = TRUE]
    /\ Then(t, <<>>)
    /\ UNCHANGED <<index, stmts, holds, holdsMutex, later, fault, sideVars, work>>

-----------------------------------------------------------------------------

Step(t) ==
    \/ (DbStep(t) \/ AtomicallyStep(t)) /\ UNCHANGED work
    \/ RunSay(t)
    \/ RunHold(t)
    \/ RunFresh(t)
    \/ RunPush(t)
    \/ RunSerially(t)
    \/ Notify(t)
    \/ Interrupted(t)
    \/ ReactAsWhen(t)
    \/ ReactAsStmt(t)
    \/ LockStmt(t)
    \/ EndBody(t)
    \/ MatchCompleted(t)

\* Two of the things sysmon does in a tick; the order does not matter.
SysmonTick ==
    /\ \/ \E i \in 1 .. LaterSlots : SysmonRemoves(i)
       \/ \E k \in AtomicallyKeys : SysmonCollects(k)
    /\ UNCHANGED work

WorkerTakes(t) ==
    \E item \in BagToSet(work) :
        \/ TakeAssert(t, item)
        \/ TakeRetract(t, item)
        \/ TakeEval(t, item)
        \/ TakeSubscribe(t, item)
        \/ SkipItem(t, item)
        \/ TakeRunWhen(t, item)

Quiescent == /\ work = EmptyBag
             /\ \A i \in 1 .. LaterSlots : later[i].stmt = NoRef
             /\ \A k \in AtomicallyKeys : Collectable(k) = {}
             /\ signals = {}
             /\ \A t \in Threads : todo[t] = <<>>

\* All work is done, or the process has been stopped by an assertion.
Stopped == (Quiescent \/ fault # "none") /\ UNCHANGED vars

Next ==
    \/ \E t \in Threads : Step(t)
    \/ \E t \in Workers : WorkerTakes(t)
    \/ SysmonTick
    \/ Stopped

\* The operating system lets every thread run on, and a worker loop that
\* finds items takes them.
Fairness ==
    /\ \A t \in Threads : WF_vars(Step(t))
    /\ WF_vars(\E t \in Workers : WorkerTakes(t))
    /\ WF_vars(SysmonTick)

Spec == Init /\ [][Next]_vars /\ Fairness

-----------------------------------------------------------------------------
(* Properties.                                                             *)

\* The assertions of db.c hold and no NULL is followed.
NoFault == fault = "none"

Supporters(s) ==
    {m \in DOMAIN matches : matches[m].open /\ s \in ToSet(matches[m].kids)}

\* A statement that a live match has said, or that a settled hold points to,
\* is alive and found by its clause: removal never takes what is supported.
SupportedIsIndexed ==
    \A s \in DOMAIN stmts :
        \/ Supporters(s) # {}
        \/ holdsMutex = NoThread /\ \E k \in DOMAIN holds : holds[k].statement = s
        => /\ stmts[s].open
           /\ stmts[s].clause \in DOMAIN index
           /\ index[stmts[s].clause] = s

\* No two statements with supporters say the same.
OnePerClause ==
    \A s, r \in DOMAIN stmts :
        /\ stmts[s].clause = stmts[r].clause
        /\ stmts[s].open /\ stmts[s].parentCount > 0
        /\ stmts[r].open /\ stmts[r].parentCount > 0
        => s = r

\* What programs and bodies can execute.
AllCommands ==
    (UNION Programs)
    \cup (UNION {ToSet(Body[w][c]) : w \in Whens, c \in Clauses \cup {NoClause}})
    \cup (UNION {ToSet(Body[w][e]) : w \in Subscribes, e \in Events})

\* The clause neither continues another one nor is continued by one.
StandsAlone(c) == \A d \in Clauses : <<c, d>> \notin Continues /\ <<d, c>> \notin Continues

\* Clauses that stand alone, are said and asserted, and that no command holds,
\* retracts, or says with -keep.
SaidClauses ==
    {c \in Clauses : StandsAlone(c) /\ \A cmd \in AllCommands :
        /\ cmd.cmd = "hold" => cmd.clause # c
        /\ cmd.cmd = "retract" => c \notin cmd.pattern
        /\ cmd.cmd = "say" /\ cmd.clause = c => cmd.keep = "none"}

\* Of such a clause a statement that a live match has said is alive and counts
\* it, and one that is counted is the one the index finds: removal never takes
\* what is supported, nor a second statement is made beside it.
SaidIsIndexed ==
    \A s \in RefsOf(SaidClauses) :
        /\ Supporters(s) # {} => stmts[s].open /\ stmts[s].parentCount > 0
        /\ stmts[s].open /\ stmts[s].parentCount > 0
           => stmts[s].clause \in DOMAIN index /\ index[stmts[s].clause] = s

\* The match has said all that its body says.
SaidAll(m) ==
    LET parents == matches[m].parents
        what == IF Len(parents) = 1 THEN NoClause ELSE stmts[parents[2]].clause
        said == {stmts[s].clause : s \in ToSet(matches[m].kids)}
    IN  \A cmd \in ToSet(Body[stmts[parents[1]].clause][what]) :
            cmd.cmd = "say" => cmd.clause \in said

\* Once all work is done every When has a live match with every statement it
\* reacts to, whichever of the two came last, and the match has said all that
\* the body says, unless a signal interrupted it or it ran serially.
ReactionsComplete ==
    Quiescent =>
        \A w \in {index[c] : c \in DOMAIN index \cap Whens} :
            \A s \in IF Reacts[stmts[w].clause] = {} THEN {NoRef}
                     ELSE Query(Reacts[stmts[w].clause]) :
                \E m \in DOMAIN matches :
                    /\ matches[m].open
                    /\ matches[m].parents = IF s = NoRef THEN <<w>> ELSE <<w, s>>
                    /\ SaidAll(m) \/ matches[m].interrupted \/ stmts[w].clause \in SeriallyWhens

\* How often live matches, holds and Assert!s support s.
Occurrences(s, seq) == Cardinality({i \in 1 .. Len(seq) : seq[i] = s})

Supports(s) ==
    LET said(m) == IF matches[m].open THEN Occurrences(s, matches[m].kids) ELSE 0
    IN  FoldSeq(+, 0, [m \in DOMAIN matches |-> said(m)])
        + Cardinality({k \in DOMAIN holds : holds[k].statement = s})
        + Cardinality({cmd \in AllCommands : cmd = AssertCmd(stmts[s].clause)})

\* Once all work is done nothing is left of what was removed: a match that
\* is alive has ended its body and has only live parents, unless it is the root
\* of a version that never converged or that the reaper overlooked; a live
\* statement is indexed, a dead one is not, and a live statement has a
\* supporter (or leaked while it was kept).
NothingOrphaned ==
    Quiescent =>
        /\ \A m \in DOMAIN matches : matches[m].open =>
              /\ matches[m].completed
              /\ \/ \A s \in ToSet(matches[m].parents) : stmts[s].open
                 \/ matches[m].overlooked
                 \/ /\ matches[m].parentWasRemoved
                    /\ versions[matches[m].version].root = m
                    /\ versions[matches[m].version].lost > 0
        /\ \A s \in DOMAIN stmts :
              /\ stmts[s].open <=> \E c \in DOMAIN index : index[c] = s
              /\ stmts[s].open /\ stmts[s].keep = "none" => Supports(s) > 0

\* Once all work is done parentCount is the number of living matches, holds
\* and Assert!s that support the statement.
CountsAreSupports ==
    Quiescent => \A s \in DOMAIN stmts :
                    stmts[s].open /\ stmts[s].keep = "none"
                    => stmts[s].parentCount = Supports(s)

\* The same of a statement with keepMs: once sysmon has taken back the support
\* that stood in for the lost one, only the others count.
KeptCountsAreSupports ==
    Quiescent => \A s \in DOMAIN stmts :
                    stmts[s].open /\ stmts[s].keep # "none"
                    => stmts[s].parentCount = Supports(s)

\* Once all work is done a key holds what its highest version said, in
\* whichever order the Hold!s were executed.
HoldsNewest ==
    LET versioned(k) == {cmd \in AllCommands : /\ cmd.cmd = "hold" /\ cmd.key = k
                                            /\ cmd.version >= 0}
        newest(k) == {cmd \in versioned(k) :
                        \A other \in versioned(k) : other.version <= cmd.version}
    IN  Quiescent => \A k \in DOMAIN holds : versioned(k) # {} =>
            \E cmd \in newest(k) : cmd.clause = stmts[holds[k].statement].clause

\* An entry of the remove-later table that is taken has a due time, or some
\* thread is about to write it, or sysmon is about to free the entry: what a
\* thread writes after it took the entry is not undone by sysmon, which frees
\* the entry field by field.
EntryWillFire ==
    \A i \in 1 .. LaterSlots :
        later[i].stmt # NoRef /\ ~later[i].due =>
            \E t \in Threads : \E j \in 1 .. Len(todo[t]) :
                todo[t][j] \in {RefFrame("setDue", i), RefFrame("clearStmt", i)}

\* A thread with these frames runs the body of match m and is past the prologue
\* of a When -serially.
PastPrologue(frames, m) ==
    /\ Len(frames) > 1
    /\ frames[Len(frames)] = RefFrame("endBody", m)
    /\ \A i \in 1 .. Len(frames) : frames[i].op = "command" => frames[i].cmd # SeriallyCmd

\* As long as a When -serially is there, at most one of its bodies runs beyond
\* the prologue that counts the other ones.
SeriallyExclusive ==
    \A m, n \in DOMAIN matches :
        LET w == matches[m].parents[1]
        IN  stmts[w].open /\ stmts[w].clause \in SeriallyWhens /\ matches[n].parents[1] = w =>
                \A t, u \in Threads : PastPrologue(todo[t], m) /\ PastPrologue(todo[u], n) => m = n

\* Where frames and copies of work items are.
FramePlaces == UNION {{t} \X DOMAIN todo[t] : t \in Threads}
ItemPlaces == UNION {{item} \X (1 .. work[item]) : item \in BagToSet(work)}

\* The frame stands for something that goes on in version v: a statement being
\* inserted or reacted to, a body that runs, a decrement to come, or a work item
\* whose statement is of v; or else for one whose When is.
FrameCounts(f, v) ==
    \/ f.op \in {"place", "reuse", "adopt", "inflightDecr"} /\ f.version = v
    \/ f.op \in {"react", "reactAsStmt"} /\ stmts[f.ref].version = v
    \/ f.op = "endBody" /\ matches[f.ref].version = v
    \/ f.op = "lockStmt" /\ VersionOf(f.stmt) = v

FrameCountsWhen(f, v) == f.op = "lockStmt" /\ VersionOf(f.when) = v

ItemCounts(item, v) == item.cmd = "runWhen" /\ VersionOf(item.stmt) = v

ItemCountsWhen(item, v) == item.cmd = "runWhen" /\ VersionOf(item.when) = v

\* What is going on in version v.  A work item with a When and a statement of v
\* counts twice, as a frame and as an item.
InProgress(v) ==
    Cardinality({p \in FramePlaces : FrameCounts(todo[p[1]][p[2]], v)})
    + Cardinality({p \in FramePlaces : FrameCountsWhen(todo[p[1]][p[2]], v)})
    + Cardinality({p \in ItemPlaces : ItemCounts(p[1], v)})
    + Cardinality({p \in ItemPlaces : ItemCountsWhen(p[1], v)})

\* inflightCount is exact but for the increments that the code is known to lose
\* (a reused statement, a skipped item, a version replaced by a fresh one).  So
\* a version converges only when nothing is going on in it, and if it lost
\* nothing it does converge.
InflightCounts ==
    \A v \in DOMAIN versions :
        versions[v].inflight = InProgress(v) + versions[v].lost

\* A version is given up only when it or a newer one of its key has converged;
\* and until it is given up its root match survives the removal of its parents
\* unless a newer one has (but not a removal that had been decided before it
\* became a root).
RootsKept ==
    [][\A v \in DOMAIN versions :
          LET m == versions[v].root
              newest == atomicallys[versions[v].key].newest
          IN  m # NoRef =>
                /\ versions'[v].root # m => v <= newest
                /\ matches[m].open /\ ~matches'[m].open
                      /\ (\A t \in Threads : todo[t] = <<>> \/ Top(t) # RefFrame("closeMatch", m))
                   => v < newest]_vars

\* Removal is recursive and waits for locks; insertion retries while a
\* removal is in progress.  All of it ends.
EventuallyQuiescent == <>Quiescent
=============================================================================
