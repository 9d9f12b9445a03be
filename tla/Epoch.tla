------------------------------- MODULE Epoch -------------------------------
(***************************************************************************)
(* Epoch-based reclamation (epoch.c) of the tries that dbQuery, insertion  *)
(* and removal share: readers take no lock, writers build a new version    *)
(* and swap the root, and what a writer unlinked is freed by sysmon once   *)
(* no thread can still be looking at it.                                   *)
(*                                                                         *)
(* One node stands for all the nodes a version of the trie does not share  *)
(* with the next.  malloc hands freed nodes out again, so that a reference *)
(* to a freed node can come to mean something else.                        *)
(***************************************************************************)
EXTENDS Integers, FiniteSets

CONSTANTS Threads,     \* threads that may enter epochs, one slot each
          Nodes,       \* what malloc can hand out
          MaxEpoch     \* bound: the collector stops counting here

ASSUME MaxEpochAssumption == MaxEpoch \in Nat

VARIABLES
    epochGlobalCounter,
    pc,            \* thread -> how far it is in epochBegin ... epochEnd
    epochCounter,  \* thread -> its published epoch
    seen,          \* thread -> global counter it read but has not published
    cur,           \* thread -> version of the trie it looks at
    allocs,        \* thread -> what it allocated in this epoch
    frees,         \* thread -> what it will retire
    retireTo,      \* thread -> garbage list it retires to
    root,          \* db->clauseToStatementRef
    live,          \* nodes that are allocated
    garbage,       \* the three lists of epochGlobalGarbage
    cpc,           \* collector: "scan", "count" or "free"
    scanned,       \* collector: threads that do not hold it up
    freeing,       \* collector: list it frees
    toFree         \* collector: what it counted in that list and has not freed

vars == <<epochGlobalCounter, pc, epochCounter, seen, cur, allocs, frees, retireTo,
          root, live, garbage, cpc, scanned, freeing, toFree>>

threadVars == <<pc, epochCounter, seen, cur, allocs, frees, retireTo>>
collectorVars == <<epochGlobalCounter, cpc, scanned, freeing, toFree>>

G == epochGlobalCounter
Lists == 0 .. 2

\* The garbage list of an epoch.
ListOf_Truncated(epoch) == IF epoch < 0 THEN -((-epoch) % 3) ELSE epoch % 3
ListOf(epoch) == epoch % 3

PCs == {"out",       \* the slot is not inUse
        "idle",      \* not active
        "active",    \* epochBegin has set active
        "read",      \* and has read the global counter
        "in",        \* and has published it
        "loaded",    \* has read the root
        "built",     \* has built a new version
        "won",       \* has swapped the root
        "retiring"}  \* in epochRetireAll

TypeOK ==
    /\ epochGlobalCounter \in Nat
    /\ pc \in [Threads -> PCs]
    /\ epochCounter \in [Threads -> Nat]
    /\ seen \in [Threads -> Nat]
    /\ cur \in [Threads -> Nodes]
    /\ allocs \in [Threads -> SUBSET Nodes]
    /\ frees \in [Threads -> SUBSET Nodes]
    /\ retireTo \in [Threads -> Lists]
    /\ root \in Nodes
    /\ live \in SUBSET Nodes
    /\ garbage \in [Lists -> SUBSET Nodes]
    /\ cpc \in {"scan", "count", "free"}
    /\ scanned \in SUBSET Threads
    /\ freeing \in Lists
    /\ toFree \in SUBSET Nodes

Init ==
    /\ epochGlobalCounter = 0
    /\ pc = [t \in Threads |-> "out"]
    /\ epochCounter = [t \in Threads |-> 0]
    /\ seen = [t \in Threads |-> 0]
    /\ root \in Nodes
    /\ cur = [t \in Threads |-> root]
    /\ allocs = [t \in Threads |-> {}]
    /\ frees = [t \in Threads |-> {}]
    /\ retireTo = [t \in Threads |-> 0]
    /\ live = {root}
    /\ garbage = [b \in Lists |-> {}]
    /\ cpc = "scan"
    /\ scanned = {}
    /\ freeing = 0
    /\ toFree = {}

Goes(t, from, to) == pc[t] = from /\ pc' = [pc EXCEPT ![t] = to]

-----------------------------------------------------------------------------
(* Threads.                                                                *)

ThreadInit(t) ==
    /\ Goes(t, "out", "idle")
    /\ epochCounter' = [epochCounter EXCEPT ![t] = 0]
    /\ allocs' = [allocs EXCEPT ![t] = {}]
    /\ frees' = [frees EXCEPT ![t] = {}]
    /\ UNCHANGED <<seen, cur, retireTo, root, live, garbage, collectorVars>>

ThreadDestroy(t) ==
    /\ Goes(t, "idle", "out")
    /\ UNCHANGED <<epochCounter, seen, cur, allocs, frees, retireTo,
                   root, live, garbage, collectorVars>>

\* epochBegin: set active, read the global counter, publish it.
BeginActive(t) ==
    /\ Goes(t, "idle", "active")
    /\ UNCHANGED <<epochCounter, seen, cur, allocs, frees, retireTo,
                   root, live, garbage, collectorVars>>

BeginRead(t) ==
    /\ Goes(t, "active", "read")
    /\ seen' = [seen EXCEPT ![t] = G]
    /\ UNCHANGED <<epochCounter, cur, allocs, frees, retireTo,
                   root, live, garbage, collectorVars>>

BeginPublish(t) ==
    /\ Goes(t, "read", "in")
    /\ epochCounter' = [epochCounter EXCEPT ![t] = seen[t]]
    /\ UNCHANGED <<seen, cur, allocs, frees, retireTo,
                   root, live, garbage, collectorVars>>

ResetFrees_Kept(t) == frees[t]
ResetFrees(t) == {}

\* epochReset undoes what a failed round allocated, then the root is read.
Load(t) ==
    /\ pc[t] \in {"in", "loaded"}
    /\ pc' = [pc EXCEPT ![t] = "loaded"]
    /\ live' = live \ allocs[t]
    /\ allocs' = [allocs EXCEPT ![t] = {}]
    /\ frees' = [frees EXCEPT ![t] = ResetFrees(t)]
    /\ cur' = [cur EXCEPT ![t] = root]
    /\ UNCHANGED <<epochCounter, seen, retireTo, root, garbage, collectorVars>>

\* trieAdd or trieRemove copies with epochAlloc, and gives what the copy
\* replaces to epochFree.
Build(t, n) ==
    /\ Goes(t, "loaded", "built")
    /\ n \in Nodes \ live
    /\ live' = live \cup {n}
    /\ allocs' = [allocs EXCEPT ![t] = @ \cup {n}]
    /\ frees' = [frees EXCEPT ![t] = @ \cup {cur[t]}]
    /\ UNCHANGED <<epochCounter, seen, cur, retireTo, root, garbage, collectorVars>>

\* The compare-and-exchange on the root; being weak, it may also fail when
\* the root is still cur.
SwapWins(t) ==
    /\ Goes(t, "built", "won")
    /\ root = cur[t]
    /\ root' \in allocs[t]
    /\ UNCHANGED <<epochCounter, seen, cur, allocs, frees, retireTo,
                   live, garbage, collectorVars>>

SwapLoses(t) ==
    /\ Goes(t, "built", "in")
    /\ UNCHANGED <<epochCounter, seen, cur, allocs, frees, retireTo,
                   root, live, garbage, collectorVars>>

RetireList_Published(t) == ListOf(epochCounter[t])
RetireList(t) == ListOf(G)

\* epochEnd: choose the list, retire one by one, become inactive.
End(t) ==
    /\ pc[t] \in {"loaded", "won"}
    /\ pc' = [pc EXCEPT ![t] = "retiring"]
    /\ allocs' = [allocs EXCEPT ![t] = {}]
    /\ retireTo' = [retireTo EXCEPT ![t] = RetireList(t)]
    /\ UNCHANGED <<epochCounter, seen, cur, frees, root, live, garbage, collectorVars>>

Retire(t, n) ==
    /\ pc[t] = "retiring"
    /\ n \in frees[t]
    /\ garbage' = [garbage EXCEPT ![retireTo[t]] = @ \cup {n}]
    /\ frees' = [frees EXCEPT ![t] = @ \ {n}]
    /\ UNCHANGED <<pc, epochCounter, seen, cur, allocs, retireTo,
                   root, live, collectorVars>>

EndInactive(t) ==
    /\ Goes(t, "retiring", "idle")
    /\ frees[t] = {}
    /\ UNCHANGED <<epochCounter, seen, cur, allocs, frees, retireTo,
                   root, live, garbage, collectorVars>>

-----------------------------------------------------------------------------
(* epochGlobalCollect.                                                     *)

Active(t) == pc[t] \notin {"out", "idle"}

\* The thread is in no epoch, or in the current one.
CaughtUp_Lagging(t) == Active(t) => epochCounter[t] \in {G - 1, G}
CaughtUp(t) == Active(t) => epochCounter[t] = G

\* Any order of the slots.
ScanThread(t) ==
    /\ cpc = "scan"
    /\ t \notin scanned
    /\ scanned' = IF CaughtUp(t) THEN scanned \cup {t} ELSE {}
    /\ UNCHANGED <<threadVars, root, live, garbage, epochGlobalCounter, cpc,
                   freeing, toFree>>

\* Garbage from two epochs ago.
FreeableList == ListOf(G - 1)

Advance ==
    /\ cpc = "scan"
    /\ scanned = Threads
    /\ G < MaxEpoch
    /\ freeing' = FreeableList
    /\ epochGlobalCounter' = G + 1
    /\ scanned' = {}
    /\ cpc' = "count"
    /\ UNCHANGED <<threadVars, root, live, garbage, toFree>>

Count ==
    /\ cpc = "count"
    /\ toFree' = garbage[freeing]
    /\ cpc' = "free"
    /\ UNCHANGED <<threadVars, root, live, garbage, epochGlobalCounter, scanned, freeing>>

FreeOne(n) ==
    /\ cpc = "free"
    /\ n \in toFree
    /\ live' = live \ {n}
    /\ toFree' = toFree \ {n}
    /\ UNCHANGED <<threadVars, root, garbage, epochGlobalCounter, cpc, scanned, freeing>>

EmptiedList_Kept == garbage
EmptiedList == [garbage EXCEPT ![freeing] = {}]

\* garbageNextIdx = 0.
CollectDone ==
    /\ cpc = "free"
    /\ toFree = {}
    /\ garbage' = EmptiedList
    /\ cpc' = "scan"
    /\ UNCHANGED <<threadVars, root, live, epochGlobalCounter, scanned, freeing, toFree>>

-----------------------------------------------------------------------------

ThreadStep(t) ==
    \/ ThreadInit(t)
    \/ ThreadDestroy(t)
    \/ BeginActive(t)
    \/ BeginRead(t)
    \/ BeginPublish(t)
    \/ Load(t)
    \/ \E n \in Nodes : Build(t, n)
    \/ SwapWins(t)
    \/ SwapLoses(t)
    \/ End(t)
    \/ \E n \in Nodes : Retire(t, n)
    \/ EndInactive(t)

Collect ==
    \/ \E t \in Threads : ScanThread(t)
    \/ Advance
    \/ Count
    \/ \E n \in Nodes : FreeOne(n)
    \/ CollectDone

Next == (\E t \in Threads : ThreadStep(t)) \/ Collect

Spec == Init /\ [][Next]_vars

-----------------------------------------------------------------------------
(* Properties.                                                             *)

\* Between reading the root and leaving the trie a thread dereferences cur.
Looking(t) == pc[t] \in {"loaded", "built"}

\* No thread looks at a version of the trie that has been freed, and the
\* current version is never freed.
NoUseAfterFree ==
    /\ root \in live
    /\ \A t \in Threads : Looking(t) => cur[t] \in live

\* What the collector still has to free of a list, and the other owners of
\* nodes: a thread that may undo its allocation, a thread that unlinked it.
Pending(b) == IF cpc = "free" /\ b = freeing THEN toFree ELSE garbage[b]
Undoable(t) == IF pc[t] \in {"in", "built"} THEN allocs[t] ELSE {}
Unlinked(t) == IF pc[t] \in {"won", "retiring"} THEN frees[t] ELSE {}

\* No node has two of them, so nothing is freed twice.
FreedOnce ==
    /\ \A t \in Threads : root \notin Undoable(t) \cup Unlinked(t)
    /\ \A b \in Lists : root \notin Pending(b)
    /\ \A t, u \in Threads : Undoable(t) \cap Unlinked(u) = {}
    /\ \A t, u \in Threads :
          t # u => /\ Undoable(t) \cap Undoable(u) = {}
                   /\ Unlinked(t) \cap Unlinked(u) = {}
    /\ \A t \in Threads : \A b \in Lists :
          (Undoable(t) \cup Unlinked(t)) \cap Pending(b) = {}
    /\ \A b, c \in Lists : b # c => Pending(b) \cap Pending(c) = {}

\* An allocated node is the root or has an owner, so nothing is lost; and
\* what has an owner is allocated.
Owned(n) ==
    \/ n = root
    \/ \E t \in Threads : n \in Undoable(t) \cup Unlinked(t)
    \/ \E b \in Lists : n \in Pending(b)

NothingLost == \A n \in Nodes : n \in live <=> Owned(n)

\* No thread adds to the list that the collector counts, frees and empties:
\* an entry added there would be dropped, or freed before it is filled in.
RetiresElsewhere ==
    \A t \in Threads :
        cpc # "scan" /\ pc[t] = "retiring" => retireTo[t] # freeing
=============================================================================
