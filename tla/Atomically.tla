----------------------------- MODULE Atomically -----------------------------
(***************************************************************************)
(* Versions of When -atomically (db.c).                                    *)
(*                                                                         *)
(* Each run of such a body makes a version of its own, whose root is the   *)
(* match of the run.  The version counts what is in flight inside it:      *)
(* bodies that run, statements nobody has reacted to, work items.  At zero *)
(* it has converged: it becomes the latest version, and the older ones are *)
(* reaped, that is, their root matches are no longer kept alive.  sysmon   *)
(* reaps converged versions when no other has converged for a while.       *)
(***************************************************************************)
EXTENDS Db

InflightFrame(v) == [op |-> "inflightDecr", version |-> v]

VersionFrame(op, v) == [op |-> op, version |-> v]

\* dbInflightDecr does nothing on a statement without a version.
InflightFrames(v) == IF v = NoVersion THEN <<>> ELSE <<InflightFrame(v)>>

ReapFrame(k, newer, onlyConverged) ==
    [op |-> "reap", key |-> k, newer |-> newer, onlyConverged |-> onlyConverged,
     rest |-> {}, kept |-> {}]

AtomicallyFrames ==
    [op : {"inflightDecr", "converged", "clearRoot"}, version : Versions]
    \cup [op : {"reap", "reapEach"}, key : AtomicallyKeys, newer : Versions \cup {NoVersion},
           onlyConverged : BOOLEAN, rest : SUBSET Versions, kept : SUBSET Versions]
    \cup [op : {"collected"}, ref : {NoRef}]

\* sysmon has atomicallysMutex while it collects.
SysmonCollecting == \E i \in 1 .. Len(todo[Sysmon]) : todo[Sysmon][i].op = "collected"

\* dbFreshAtomicallyVersionOnKey, in the prologue of the body of match m.  What
\* an inherited version had counted for the body stays counted.
FreshVersion(t, m, k) ==
    LET v == Len(versions) + 1
    IN  /\ ~SysmonCollecting
        /\ versions' = Append(Lose(versions, matches[m].version),
                              [key |-> k, inflight |-> 1, root |-> m, lost |-> 0])
        /\ matches' = [matches EXCEPT ![m].version = v]
        /\ atomicallys' = [atomicallys EXCEPT ![k].all = @ \cup {v}]
        /\ Then(t, <<>>)
        /\ UNCHANGED <<index, stmts, holds, holdsMutex, later, fault, signals>>

\* dbAtomicallyVersionInflightDecr: versions can converge in any order, and
\* more than once, ...
InflightDecr(t) ==
    LET v == Top(t).version
        k == versions[v].key
        newer == IF v > atomicallys[k].newest THEN v ELSE atomicallys[k].newest
    IN  /\ At(t, "inflightDecr")
        /\ versions' = [versions EXCEPT ![v].inflight = @ - 1]
        /\ IF versions[v].inflight = 1
           THEN /\ atomicallys' = [atomicallys EXCEPT ![k].newest = newer]
                /\ Then(t, <<VersionFrame("converged", v)>>)
           ELSE /\ Then(t, <<>>)
                /\ atomicallys' = atomicallys
        /\ UNCHANGED <<index, stmts, matches, holds, holdsMutex, later, fault, signals>>

\* ... and the last to store latestConvergedVersion need not be the newest.
Converged(t) ==
    LET v == Top(t).version
        k == versions[v].key
    IN  /\ At(t, "converged")
        /\ atomicallys' = [atomicallys EXCEPT ![k].latest = v]
        /\ Then(t, <<ReapFrame(k, v, FALSE)>>)
        /\ UNCHANGED <<index, stmts, matches, holds, holdsMutex, later, fault,
                       versions, signals>>

\* dbAtomicallyReapAllVersions takes the whole list, ...
ReapTakeList(t) ==
    LET f == Top(t)
    IN  /\ At(t, "reap")
        /\ atomicallys' = [atomicallys EXCEPT ![f.key].all = {}]
        /\ Then(t, <<[f EXCEPT !.op = "reapEach", !.rest = atomicallys[f.key].all]>>)
        /\ UNCHANGED <<index, stmts, matches, holds, holdsMutex, later, fault,
                       versions, signals>>

Reapable(f, v) ==
    /\ f.newer = NoVersion \/ v < f.newer
    /\ f.onlyConverged => versions[v].inflight = 0

\* ... goes through it, ...
ReapEach(t) ==
    LET f == Top(t)
    IN  /\ At(t, "reapEach")
        /\ \E v \in f.rest :
             LET next == [f EXCEPT !.rest = @ \ {v}]
             IN  Then(t, IF Reapable(f, v)
                         THEN <<VersionFrame("clearRoot", v), next>>
                         ELSE <<[next EXCEPT !.kept = @ \cup {v}]>>)
        /\ UNCHANGED <<index, stmts, matches, holds, holdsMutex, later, fault, sideVars>>

\* ... gives up the roots (the version may be in flight again), ...
ClearRoot(t) ==
    LET v == Top(t).version
        root == versions[v].root
    IN  /\ At(t, "clearRoot")
        /\ versions' = [versions EXCEPT ![v].root = NoRef]
        /\ Then(t, IF root = NoRef THEN <<>> ELSE <<RefFrame("reapRoot", root)>>)
        /\ UNCHANGED <<index, stmts, matches, holds, holdsMutex, later, fault,
                       atomicallys, signals>>

\* ... removes those that have lost a parent, ...
ReapRoot(t) ==
    LET m == Top(t).ref
    IN  /\ At(t, "reapRoot")
        /\ Then(t, IF matches[m].parentWasRemoved THEN <<RefFrame("unmatch", m)>> ELSE <<>>)
        /\ UNCHANGED <<index, stmts, matches, holds, holdsMutex, later, fault, sideVars>>

\* ... and puts the rest back beside what was added meanwhile.
ReapPutBack(t) ==
    LET f == Top(t)
    IN  /\ At(t, "reapEach") /\ f.rest = {}
        /\ atomicallys' = [atomicallys EXCEPT ![f.key].all = @ \cup f.kept]
        /\ Then(t, <<>>)
        /\ UNCHANGED <<index, stmts, matches, holds, holdsMutex, later, fault,
                       versions, signals>>

\* dbGarbageCollectAtomicallys, when the timeout of key k has passed.  It takes
\* the list even when it will find nothing to reap in it.
Collectable(k) == {v \in atomicallys[k].all : versions[v].inflight = 0}

SysmonCollects(k) ==
    /\ fault = "none" /\ todo[Sysmon] = <<>>
    /\ atomicallys[k].all # {}
    /\ todo' = [todo EXCEPT ![Sysmon] = <<ReapFrame(k, NoVersion, TRUE),
                                          RefFrame("collected", NoRef)>>]
    /\ UNCHANGED <<index, stmts, matches, holds, holdsMutex, later, fault, sideVars>>

SysmonCollected(t) ==
    /\ At(t, "collected")
    /\ Then(t, <<>>)
    /\ UNCHANGED <<index, stmts, matches, holds, holdsMutex, later, fault, sideVars>>

AtomicallyStep(t) ==
    \/ InflightDecr(t)
    \/ Converged(t)
    \/ ReapTakeList(t)
    \/ ReapEach(t)
    \/ ClearRoot(t)
    \/ ReapRoot(t)
    \/ ReapPutBack(t)
    \/ SysmonCollected(t)
=============================================================================
