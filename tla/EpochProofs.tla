---------------------------- MODULE EpochProofs ----------------------------
(***************************************************************************)
(* Proof that epoch-based reclamation frees a version of the trie only     *)
(* when no thread looks at it, and frees everything once, for any number   *)
(* of threads and nodes and for any number of epochs.                      *)
(*                                                                         *)
(* The argument: a thread in an epoch has published the current epoch or   *)
(* the one before (EpochInv); so an unlinked node that a thread still      *)
(* looks at is in the list of the current epoch, or in the list of the one *)
(* before with the thread holding the counter back (LookInv); and the      *)
(* collector frees the list before that (CollectInv).                      *)
(***************************************************************************)
EXTENDS Epoch, TLAPS

Inside(t) == pc[t] \in {"in", "loaded", "built", "won", "retiring"}

EpochInv ==
    \A t \in Threads :
        /\ epochCounter[t] <= G
        /\ pc[t] = "read" => /\ epochCounter[t] <= seen[t]
                             /\ seen[t] <= G
                             /\ seen[t] >= G - 1
                             /\ t \in scanned => seen[t] = G
        /\ Inside(t) => /\ epochCounter[t] >= G - 1
                        /\ t \in scanned => epochCounter[t] = G

\* What is in allocs and frees at each stage.
PhaseInv ==
    \A t \in Threads :
        /\ pc[t] \notin {"in", "built", "won"} => allocs[t] = {}
        /\ pc[t] \in {"out", "idle", "active", "read", "loaded"} => frees[t] = {}
        /\ pc[t] = "built" => /\ frees[t] = {cur[t]}
                              /\ \E n \in Nodes : allocs[t] = {n}

RetireInv ==
    \A t \in Threads :
        pc[t] = "retiring" =>
            \/ retireTo[t] = ListOf(G)
            \/ retireTo[t] = ListOf(G - 1) /\ epochCounter[t] = G - 1

CollectInv ==
    /\ cpc = "scan" => garbage[ListOf(G - 2)] = {}
    /\ cpc # "scan" => scanned = {} /\ freeing = ListOf(G - 2)

\* A version that was the root once and has not been freed.
Published(n) ==
    \/ n = root
    \/ \E u \in Threads : n \in Unlinked(u)
    \/ \E b \in Lists : n \in Pending(b)

LookInv ==
    \A t \in Threads :
        Looking(t) =>
            /\ Published(cur[t])
            /\ cur[t] \notin Pending(ListOf(G - 2))
            /\ cur[t] \in Pending(ListOf(G - 1)) => epochCounter[t] = G - 1
            /\ \A u \in Threads :
                  pc[u] = "retiring" /\ retireTo[u] = ListOf(G - 1) /\ cur[t] \in frees[u]
                  => epochCounter[t] = G - 1

IndInv ==
    /\ TypeOK
    /\ EpochInv
    /\ PhaseInv
    /\ RetireInv
    /\ CollectInv
    /\ FreedOnce
    /\ NothingLost
    /\ LookInv

-----------------------------------------------------------------------------

\* The lists of three epochs in a row are the three lists.
LEMMA ListFacts ==
    ASSUME NEW g \in Nat
    PROVE  /\ ListOf(g) \in Lists /\ ListOf(g - 1) \in Lists /\ ListOf(g - 2) \in Lists
           /\ ListOf(g) # ListOf(g - 1)
           /\ ListOf(g) # ListOf(g - 2)
           /\ ListOf(g - 1) # ListOf(g - 2)
           /\ ListOf((g + 1) - 1) = ListOf(g)
           /\ ListOf((g + 1) - 2) = ListOf(g - 1)
  BY DEF ListOf, Lists

LEMMA InitInd == Init => IndInv
<1> SUFFICES ASSUME Init PROVE IndInv
  OBVIOUS
<1>1. TypeOK
  BY DEF Init, TypeOK, PCs, Lists
<1>2. G = 0 /\ ListOf(G - 2) \in Lists
  BY ListFacts DEF Init, G
<1>3. EpochInv /\ PhaseInv /\ RetireInv /\ LookInv
  BY DEF Init, EpochInv, PhaseInv, RetireInv, LookInv, Looking, Inside, G
<1>4. CollectInv
  BY <1>2 DEF Init, CollectInv
<1>5. \A t \in Threads : Undoable(t) = {} /\ Unlinked(t) = {}
  BY DEF Init, Undoable, Unlinked
<1>6. \A b \in Lists : Pending(b) = {}
  BY DEF Init, Pending
<1>7. FreedOnce /\ NothingLost
  BY <1>5, <1>6 DEF Init, FreedOnce, NothingLost, Owned
<1> QED
  BY <1>1, <1>3, <1>4, <1>7 DEF IndInv

LEMMA TypeInd ==
    ASSUME TypeOK, [Next]_vars PROVE TypeOK'
<1>1. ASSUME NEW t \in Threads, ThreadInit(t) PROVE TypeOK'
  BY <1>1 DEF ThreadInit, TypeOK, PCs, Lists, Goes, threadVars, collectorVars, G
<1>2. ASSUME NEW t \in Threads, ThreadDestroy(t) PROVE TypeOK'
  BY <1>2 DEF ThreadDestroy, TypeOK, PCs, Lists, Goes, threadVars, collectorVars, G
<1>3. ASSUME NEW t \in Threads, BeginActive(t) PROVE TypeOK'
  BY <1>3 DEF BeginActive, TypeOK, PCs, Lists, Goes, threadVars, collectorVars, G
<1>4. ASSUME NEW t \in Threads, BeginRead(t) PROVE TypeOK'
  BY <1>4 DEF BeginRead, TypeOK, PCs, Lists, Goes, threadVars, collectorVars, G
<1>5. ASSUME NEW t \in Threads, BeginPublish(t) PROVE TypeOK'
  BY <1>5 DEF BeginPublish, TypeOK, PCs, Lists, Goes, threadVars, collectorVars, G
<1>6. ASSUME NEW t \in Threads, Load(t) PROVE TypeOK'
  BY <1>6 DEF Load, ResetFrees, TypeOK, PCs, collectorVars
<1>7. ASSUME NEW t \in Threads, SwapWins(t) PROVE TypeOK'
  BY <1>7 DEF SwapWins, TypeOK, PCs, Lists, Goes, threadVars, collectorVars, G
<1>8. ASSUME NEW t \in Threads, SwapLoses(t) PROVE TypeOK'
  BY <1>8 DEF SwapLoses, TypeOK, PCs, Lists, Goes, threadVars, collectorVars, G
<1>9. ASSUME NEW t \in Threads, End(t) PROVE TypeOK'
  BY <1>9, ListFacts DEF End, RetireList, TypeOK, PCs, collectorVars, G
<1>10. ASSUME NEW t \in Threads, EndInactive(t) PROVE TypeOK'
  BY <1>10 DEF EndInactive, TypeOK, PCs, Lists, Goes, threadVars, collectorVars, G
<1>11. ASSUME NEW t \in Threads, NEW n \in Nodes, Build(t, n) PROVE TypeOK'
  BY <1>11 DEF Build, TypeOK, PCs, Lists, Goes, threadVars, collectorVars, G
<1>12. ASSUME NEW t \in Threads, NEW n \in Nodes, Retire(t, n) PROVE TypeOK'
  BY <1>12 DEF Retire, TypeOK, collectorVars
<1>13. ASSUME NEW t \in Threads, ScanThread(t) PROVE TypeOK'
  BY <1>13 DEF ScanThread, TypeOK, threadVars
<1>14. ASSUME Advance PROVE TypeOK'
  BY <1>14, ListFacts DEF Advance, FreeableList, TypeOK, threadVars, G
<1>15. ASSUME Count PROVE TypeOK'
  BY <1>15 DEF Count, TypeOK, PCs, Lists, Goes, threadVars, collectorVars, G
<1>16. ASSUME CollectDone PROVE TypeOK'
  BY <1>16 DEF CollectDone, EmptiedList, TypeOK, threadVars
<1>17. ASSUME NEW n \in Nodes, FreeOne(n) PROVE TypeOK'
  BY <1>17 DEF FreeOne, TypeOK, PCs, Lists, Goes, threadVars, collectorVars, G
<1>18. CASE UNCHANGED vars
  BY <1>18 DEF vars, TypeOK
<1> QED
  BY <1>1, <1>2, <1>3, <1>4, <1>5, <1>6, <1>7, <1>8, <1>9, <1>10, <1>11, <1>12, <1>13, <1>14, <1>15, <1>16, <1>17, <1>18 DEF Next, ThreadStep, Collect

LEMMA EpochInd ==
    ASSUME TypeOK, EpochInv, CollectInv, [Next]_vars PROVE EpochInv'
<1>1. ASSUME NEW t \in Threads, ThreadInit(t) PROVE EpochInv'
  BY <1>1 DEF ThreadInit, EpochInv, Inside, TypeOK, Goes, threadVars, collectorVars, G
<1>2. ASSUME NEW t \in Threads, ThreadDestroy(t) PROVE EpochInv'
  BY <1>2 DEF ThreadDestroy, EpochInv, Inside, TypeOK, Goes, threadVars, collectorVars, G
<1>3. ASSUME NEW t \in Threads, BeginActive(t) PROVE EpochInv'
  BY <1>3 DEF BeginActive, EpochInv, Inside, TypeOK, Goes, threadVars, collectorVars, G
<1>4. ASSUME NEW t \in Threads, BeginRead(t) PROVE EpochInv'
  BY <1>4 DEF BeginRead, EpochInv, Inside, TypeOK, Goes, threadVars, collectorVars, G
<1>5. ASSUME NEW t \in Threads, BeginPublish(t) PROVE EpochInv'
  BY <1>5 DEF BeginPublish, EpochInv, Inside, TypeOK, Goes, threadVars, collectorVars, G
<1>6. ASSUME NEW t \in Threads, Load(t) PROVE EpochInv'
  BY <1>6 DEF Load, EpochInv, Inside, TypeOK, Goes, threadVars, collectorVars, G
<1>7. ASSUME NEW t \in Threads, SwapWins(t) PROVE EpochInv'
  BY <1>7 DEF SwapWins, EpochInv, Inside, TypeOK, Goes, threadVars, collectorVars, G
<1>8. ASSUME NEW t \in Threads, SwapLoses(t) PROVE EpochInv'
  BY <1>8 DEF SwapLoses, EpochInv, Inside, TypeOK, Goes, threadVars, collectorVars, G
<1>9. ASSUME NEW t \in Threads, End(t) PROVE EpochInv'
  BY <1>9 DEF End, EpochInv, Inside, TypeOK, Goes, threadVars, collectorVars, G
<1>10. ASSUME NEW t \in Threads, EndInactive(t) PROVE EpochInv'
  BY <1>10 DEF EndInactive, EpochInv, Inside, TypeOK, Goes, threadVars, collectorVars, G
<1>11. ASSUME NEW t \in Threads, NEW n \in Nodes, Build(t, n) PROVE EpochInv'
  BY <1>11 DEF Build, EpochInv, Inside, TypeOK, Goes, threadVars, collectorVars, G
<1>12. ASSUME NEW t \in Threads, NEW n \in Nodes, Retire(t, n) PROVE EpochInv'
  BY <1>12 DEF Retire, EpochInv, Inside, TypeOK, Goes, threadVars, collectorVars, G
<1>13. ASSUME NEW t \in Threads, ScanThread(t) PROVE EpochInv'
  BY <1>13 DEF ScanThread, CaughtUp, Active, EpochInv, Inside, TypeOK, threadVars, G
<1>14. ASSUME Advance PROVE EpochInv'
  BY <1>14 DEF Advance, EpochInv, Inside, TypeOK, threadVars, G
<1>15. ASSUME Count PROVE EpochInv'
  BY <1>15 DEF Count, EpochInv, Inside, TypeOK, Goes, threadVars, collectorVars, G
<1>16. ASSUME CollectDone PROVE EpochInv'
  BY <1>16 DEF CollectDone, EpochInv, Inside, TypeOK, Goes, threadVars, collectorVars, G
<1>17. ASSUME NEW n \in Nodes, FreeOne(n) PROVE EpochInv'
  BY <1>17 DEF FreeOne, EpochInv, Inside, TypeOK, Goes, threadVars, collectorVars, G
<1>18. CASE UNCHANGED vars
  BY <1>18 DEF vars, EpochInv, Inside, TypeOK, Goes, threadVars, collectorVars, G
<1> QED
  BY <1>1, <1>2, <1>3, <1>4, <1>5, <1>6, <1>7, <1>8, <1>9, <1>10, <1>11, <1>12, <1>13, <1>14, <1>15, <1>16, <1>17, <1>18 DEF Next, ThreadStep, Collect

LEMMA PhaseInd ==
    ASSUME TypeOK, PhaseInv, [Next]_vars PROVE PhaseInv'
<1>1. ASSUME NEW t \in Threads, ThreadInit(t) PROVE PhaseInv'
  BY <1>1 DEF ThreadInit, PhaseInv, TypeOK, Goes, threadVars, collectorVars
<1>2. ASSUME NEW t \in Threads, ThreadDestroy(t) PROVE PhaseInv'
  BY <1>2 DEF ThreadDestroy, PhaseInv, TypeOK, Goes, threadVars, collectorVars
<1>3. ASSUME NEW t \in Threads, BeginActive(t) PROVE PhaseInv'
  BY <1>3 DEF BeginActive, PhaseInv, TypeOK, Goes, threadVars, collectorVars
<1>4. ASSUME NEW t \in Threads, BeginRead(t) PROVE PhaseInv'
  BY <1>4 DEF BeginRead, PhaseInv, TypeOK, Goes, threadVars, collectorVars
<1>5. ASSUME NEW t \in Threads, BeginPublish(t) PROVE PhaseInv'
  BY <1>5 DEF BeginPublish, PhaseInv, TypeOK, Goes, threadVars, collectorVars
<1>6. ASSUME NEW t \in Threads, Load(t) PROVE PhaseInv'
  BY <1>6 DEF Load, ResetFrees, PhaseInv, TypeOK, collectorVars
<1>7. ASSUME NEW t \in Threads, SwapWins(t) PROVE PhaseInv'
  BY <1>7 DEF SwapWins, PhaseInv, TypeOK, Goes, threadVars, collectorVars
<1>8. ASSUME NEW t \in Threads, SwapLoses(t) PROVE PhaseInv'
  BY <1>8 DEF SwapLoses, PhaseInv, TypeOK, Goes, threadVars, collectorVars
<1>9. ASSUME NEW t \in Threads, End(t) PROVE PhaseInv'
  BY <1>9 DEF End, PhaseInv, TypeOK, Goes, threadVars, collectorVars
<1>10. ASSUME NEW t \in Threads, EndInactive(t) PROVE PhaseInv'
  BY <1>10 DEF EndInactive, PhaseInv, TypeOK, Goes, threadVars, collectorVars
<1>11. ASSUME NEW t \in Threads, NEW n \in Nodes, Build(t, n) PROVE PhaseInv'
  BY <1>11 DEF Build, PhaseInv, TypeOK, Goes, threadVars, collectorVars
<1>12. ASSUME NEW t \in Threads, NEW n \in Nodes, Retire(t, n) PROVE PhaseInv'
  BY <1>12 DEF Retire, PhaseInv, TypeOK, Goes, threadVars, collectorVars
<1>13. ASSUME NEW t \in Threads, ScanThread(t) PROVE PhaseInv'
  BY <1>13 DEF ScanThread, PhaseInv, TypeOK, Goes, threadVars, collectorVars
<1>14. ASSUME Advance PROVE PhaseInv'
  BY <1>14 DEF Advance, PhaseInv, TypeOK, Goes, threadVars, collectorVars
<1>15. ASSUME Count PROVE PhaseInv'
  BY <1>15 DEF Count, PhaseInv, TypeOK, Goes, threadVars, collectorVars
<1>16. ASSUME CollectDone PROVE PhaseInv'
  BY <1>16 DEF CollectDone, PhaseInv, TypeOK, Goes, threadVars, collectorVars
<1>17. ASSUME NEW n \in Nodes, FreeOne(n) PROVE PhaseInv'
  BY <1>17 DEF FreeOne, PhaseInv, TypeOK, Goes, threadVars, collectorVars
<1>18. CASE UNCHANGED vars
  BY <1>18 DEF vars, PhaseInv, TypeOK, Goes, threadVars, collectorVars
<1> QED
  BY <1>1, <1>2, <1>3, <1>4, <1>5, <1>6, <1>7, <1>8, <1>9, <1>10, <1>11, <1>12, <1>13, <1>14, <1>15, <1>16, <1>17, <1>18 DEF Next, ThreadStep, Collect

LEMMA RetireInd ==
    ASSUME TypeOK, EpochInv, RetireInv, [Next]_vars PROVE RetireInv'
<1>1. ASSUME NEW t \in Threads, ThreadInit(t) PROVE RetireInv'
  BY <1>1 DEF ThreadInit, RetireInv, TypeOK, Goes, threadVars, collectorVars, G
<1>2. ASSUME NEW t \in Threads, ThreadDestroy(t) PROVE RetireInv'
  BY <1>2 DEF ThreadDestroy, RetireInv, TypeOK, Goes, threadVars, collectorVars, G
<1>3. ASSUME NEW t \in Threads, BeginActive(t) PROVE RetireInv'
  BY <1>3 DEF BeginActive, RetireInv, TypeOK, Goes, threadVars, collectorVars, G
<1>4. ASSUME NEW t \in Threads, BeginRead(t) PROVE RetireInv'
  BY <1>4 DEF BeginRead, RetireInv, TypeOK, Goes, threadVars, collectorVars, G
<1>5. ASSUME NEW t \in Threads, BeginPublish(t) PROVE RetireInv'
  BY <1>5 DEF BeginPublish, RetireInv, TypeOK, Goes, threadVars, collectorVars, G
<1>6. ASSUME NEW t \in Threads, Load(t) PROVE RetireInv'
  BY <1>6 DEF Load, RetireInv, TypeOK, Goes, threadVars, collectorVars, G
<1>7. ASSUME NEW t \in Threads, SwapWins(t) PROVE RetireInv'
  BY <1>7 DEF SwapWins, RetireInv, TypeOK, Goes, threadVars, collectorVars, G
<1>8. ASSUME NEW t \in Threads, SwapLoses(t) PROVE RetireInv'
  BY <1>8 DEF SwapLoses, RetireInv, TypeOK, Goes, threadVars, collectorVars, G
<1>9. ASSUME NEW t \in Threads, End(t) PROVE RetireInv'
  BY <1>9 DEF End, RetireList, RetireInv, TypeOK, collectorVars, G
<1>10. ASSUME NEW t \in Threads, EndInactive(t) PROVE RetireInv'
  BY <1>10 DEF EndInactive, RetireInv, TypeOK, Goes, threadVars, collectorVars, G
<1>11. ASSUME NEW t \in Threads, NEW n \in Nodes, Build(t, n) PROVE RetireInv'
  BY <1>11 DEF Build, RetireInv, TypeOK, Goes, threadVars, collectorVars, G
<1>12. ASSUME NEW t \in Threads, NEW n \in Nodes, Retire(t, n) PROVE RetireInv'
  BY <1>12 DEF Retire, RetireInv, TypeOK, collectorVars, G
<1>13. ASSUME NEW t \in Threads, ScanThread(t) PROVE RetireInv'
  BY <1>13 DEF ScanThread, RetireInv, TypeOK, Goes, threadVars, collectorVars, G
<1>14. ASSUME Advance PROVE RetireInv'
  <2> SUFFICES ASSUME NEW t \in Threads, pc'[t] = "retiring"
               PROVE  \/ retireTo'[t] = ListOf(G')
                      \/ retireTo'[t] = ListOf(G' - 1) /\ epochCounter'[t] = G' - 1
    BY DEF RetireInv, G
  <2>1. G \in Nat /\ G' = G + 1
    BY <1>14 DEF Advance, TypeOK, G
  <2>2. epochCounter[t] = G
    BY <1>14 DEF Advance, threadVars, EpochInv, Inside
  <2>3. retireTo[t] = ListOf(G)
    BY <1>14, <2>1, <2>2 DEF Advance, threadVars, RetireInv
  <2>4. ListOf(G' - 1) = ListOf(G) /\ G' - 1 = G
    BY <2>1, ListFacts
  <2> QED
    BY <1>14, <2>2, <2>3, <2>4 DEF Advance, threadVars
<1>15. ASSUME Count PROVE RetireInv'
  BY <1>15 DEF Count, RetireInv, TypeOK, Goes, threadVars, collectorVars, G
<1>16. ASSUME CollectDone PROVE RetireInv'
  BY <1>16 DEF CollectDone, RetireInv, TypeOK, Goes, threadVars, collectorVars, G
<1>17. ASSUME NEW n \in Nodes, FreeOne(n) PROVE RetireInv'
  BY <1>17 DEF FreeOne, RetireInv, TypeOK, Goes, threadVars, collectorVars, G
<1>18. CASE UNCHANGED vars
  BY <1>18 DEF vars, RetireInv, TypeOK, Goes, threadVars, collectorVars, G
<1> QED
  BY <1>1, <1>2, <1>3, <1>4, <1>5, <1>6, <1>7, <1>8, <1>9, <1>10, <1>11, <1>12, <1>13, <1>14, <1>15, <1>16, <1>17, <1>18 DEF Next, ThreadStep, Collect

LEMMA CollectInd ==
    ASSUME TypeOK, RetireInv, CollectInv, [Next]_vars PROVE CollectInv'
<1>1. ASSUME NEW t \in Threads, ThreadInit(t) PROVE CollectInv'
  BY <1>1 DEF ThreadInit, CollectInv, TypeOK, Goes, threadVars, collectorVars, G
<1>2. ASSUME NEW t \in Threads, ThreadDestroy(t) PROVE CollectInv'
  BY <1>2 DEF ThreadDestroy, CollectInv, TypeOK, Goes, threadVars, collectorVars, G
<1>3. ASSUME NEW t \in Threads, BeginActive(t) PROVE CollectInv'
  BY <1>3 DEF BeginActive, CollectInv, TypeOK, Goes, threadVars, collectorVars, G
<1>4. ASSUME NEW t \in Threads, BeginRead(t) PROVE CollectInv'
  BY <1>4 DEF BeginRead, CollectInv, TypeOK, Goes, threadVars, collectorVars, G
<1>5. ASSUME NEW t \in Threads, BeginPublish(t) PROVE CollectInv'
  BY <1>5 DEF BeginPublish, CollectInv, TypeOK, Goes, threadVars, collectorVars, G
<1>6. ASSUME NEW t \in Threads, Load(t) PROVE CollectInv'
  BY <1>6 DEF Load, CollectInv, TypeOK, Goes, threadVars, collectorVars, G
<1>7. ASSUME NEW t \in Threads, SwapWins(t) PROVE CollectInv'
  BY <1>7 DEF SwapWins, CollectInv, TypeOK, Goes, threadVars, collectorVars, G
<1>8. ASSUME NEW t \in Threads, SwapLoses(t) PROVE CollectInv'
  BY <1>8 DEF SwapLoses, CollectInv, TypeOK, Goes, threadVars, collectorVars, G
<1>9. ASSUME NEW t \in Threads, End(t) PROVE CollectInv'
  BY <1>9 DEF End, CollectInv, TypeOK, Goes, threadVars, collectorVars, G
<1>10. ASSUME NEW t \in Threads, EndInactive(t) PROVE CollectInv'
  BY <1>10 DEF EndInactive, CollectInv, TypeOK, Goes, threadVars, collectorVars, G
<1>11. ASSUME NEW t \in Threads, NEW n \in Nodes, Build(t, n) PROVE CollectInv'
  BY <1>11 DEF Build, CollectInv, TypeOK, Goes, threadVars, collectorVars, G
<1>12. ASSUME NEW t \in Threads, NEW n \in Nodes, Retire(t, n) PROVE CollectInv'
  <2>1. retireTo[t] # ListOf(G - 2)
    BY <1>12, ListFacts DEF Retire, RetireInv, TypeOK, G
  <2> QED
    BY <1>12, <2>1, ListFacts DEF Retire, CollectInv, TypeOK, collectorVars, G
<1>13. ASSUME NEW t \in Threads, ScanThread(t) PROVE CollectInv'
  BY <1>13 DEF ScanThread, CollectInv, TypeOK, Goes, threadVars, collectorVars, G
<1>14. ASSUME Advance PROVE CollectInv'
  <2>1. ListOf(G' - 2) = ListOf(G - 1)
    BY <1>14, ListFacts DEF Advance, TypeOK, G
  <2> QED
    BY <1>14, <2>1 DEF Advance, FreeableList, CollectInv
<1>15. ASSUME Count PROVE CollectInv'
  BY <1>15 DEF Count, CollectInv, TypeOK, Goes, threadVars, collectorVars, G
<1>16. ASSUME CollectDone PROVE CollectInv'
  BY <1>16, ListFacts DEF CollectDone, EmptiedList, CollectInv, TypeOK, threadVars, G
<1>17. ASSUME NEW n \in Nodes, FreeOne(n) PROVE CollectInv'
  BY <1>17 DEF FreeOne, CollectInv, TypeOK, Goes, threadVars, collectorVars, G
<1>18. CASE UNCHANGED vars
  BY <1>18 DEF vars, CollectInv, TypeOK, Goes, threadVars, collectorVars, G
<1> QED
  BY <1>1, <1>2, <1>3, <1>4, <1>5, <1>6, <1>7, <1>8, <1>9, <1>10, <1>11, <1>12, <1>13, <1>14, <1>15, <1>16, <1>17, <1>18 DEF Next, ThreadStep, Collect

-----------------------------------------------------------------------------
(* Owners and lookers.                                                     *)

LEMMA OwnersSame ==
    ASSUME FreedOnce, NothingLost, root' = root, live' = live,
           \A t \in Threads : Undoable(t)' = Undoable(t) /\ Unlinked(t)' = Unlinked(t),
           \A b \in Lists : Pending(b)' = Pending(b)
    PROVE  FreedOnce' /\ NothingLost'
  BY DEF FreedOnce, NothingLost, Owned

\* Nothing changes for those who looked, and who starts looking sees the root.
LEMMA LookSame ==
    ASSUME TypeOK, FreedOnce, LookInv, root' = root, epochGlobalCounter' = epochGlobalCounter,
           \A t \in Threads : Unlinked(t)' = Unlinked(t),
           \A b \in Lists : Pending(b)' = Pending(b),
           \A t \in Threads :
               Looking(t)' => \/ cur'[t] = root
                              \/ /\ Looking(t)
                                 /\ cur'[t] = cur[t]
                                 /\ epochCounter'[t] = epochCounter[t],
           \A u \in Threads :
               pc'[u] = "retiring" /\ retireTo'[u] = ListOf(G - 1) =>
                   /\ pc[u] = "retiring"
                   /\ retireTo[u] = ListOf(G - 1)
                   /\ frees'[u] = frees[u]
    PROVE  LookInv'
<1>1. G' = G /\ ListOf(G - 1) \in Lists /\ ListOf(G - 2) \in Lists
  BY ListFacts DEF TypeOK, G
<1>2. SUFFICES ASSUME NEW t \in Threads, Looking(t)'
      PROVE  /\ Published(cur[t])'
             /\ cur'[t] \notin Pending(ListOf(G - 2))
             /\ cur'[t] \in Pending(ListOf(G - 1)) => epochCounter'[t] = G - 1
             /\ \A u \in Threads :
                   pc'[u] = "retiring" /\ retireTo'[u] = ListOf(G - 1) /\ cur'[t] \in frees'[u]
                   => epochCounter'[t] = G - 1
  BY <1>1 DEF LookInv
<1>3. Published(cur[t])'
  BY <1>2 DEF LookInv, Published
<1>4. CASE cur'[t] = root
  BY <1>1, <1>3, <1>4 DEF FreedOnce, Unlinked
<1>5. CASE cur'[t] # root
  BY <1>1, <1>2, <1>3, <1>5 DEF LookInv
<1> QED
  BY <1>4, <1>5

LEMMA OwnersInd ==
    ASSUME TypeOK, EpochInv, PhaseInv, RetireInv, CollectInv, FreedOnce, NothingLost, LookInv, [Next]_vars PROVE FreedOnce' /\ NothingLost' /\ LookInv'
<1>1. ASSUME NEW t \in Threads, ThreadInit(t) PROVE FreedOnce' /\ NothingLost' /\ LookInv'
  <2>1. \A u \in Threads : Undoable(u)' = Undoable(u) /\ Unlinked(u)' = Unlinked(u)
    BY <1>1 DEF ThreadInit, Undoable, Unlinked, Goes, TypeOK, PhaseInv, threadVars
  <2>2. \A b \in Lists : Pending(b)' = Pending(b)
    BY <1>1 DEF ThreadInit, Pending, collectorVars
  <2>3. root' = root /\ live' = live /\ epochGlobalCounter' = epochGlobalCounter
    BY <1>1 DEF ThreadInit, collectorVars
  <2>4. FreedOnce' /\ NothingLost'
    BY <2>1, <2>2, <2>3, OwnersSame
  <2>5. \A u \in Threads :
            Looking(u)' => /\ Looking(u)
                           /\ cur'[u] = cur[u]
                           /\ epochCounter'[u] = epochCounter[u]
    BY <1>1 DEF ThreadInit, Looking, Goes, TypeOK, threadVars
  <2>6. \A u \in Threads :
            pc'[u] = "retiring" /\ retireTo'[u] = ListOf(G - 1) =>
                /\ pc[u] = "retiring"
                /\ retireTo[u] = ListOf(G - 1)
                /\ frees'[u] = frees[u]
    BY <1>1 DEF ThreadInit, Goes, TypeOK, threadVars, G
  <2> QED
    BY <2>1, <2>2, <2>3, <2>4, <2>5, <2>6, LookSame
<1>2. ASSUME NEW t \in Threads, ThreadDestroy(t) PROVE FreedOnce' /\ NothingLost' /\ LookInv'
  <2>1. \A u \in Threads : Undoable(u)' = Undoable(u) /\ Unlinked(u)' = Unlinked(u)
    BY <1>2 DEF ThreadDestroy, Undoable, Unlinked, Goes, TypeOK, PhaseInv, threadVars
  <2>2. \A b \in Lists : Pending(b)' = Pending(b)
    BY <1>2 DEF ThreadDestroy, Pending, collectorVars
  <2>3. root' = root /\ live' = live /\ epochGlobalCounter' = epochGlobalCounter
    BY <1>2 DEF ThreadDestroy, collectorVars
  <2>4. FreedOnce' /\ NothingLost'
    BY <2>1, <2>2, <2>3, OwnersSame
  <2>5. \A u \in Threads :
            Looking(u)' => /\ Looking(u)
                           /\ cur'[u] = cur[u]
                           /\ epochCounter'[u] = epochCounter[u]
    BY <1>2 DEF ThreadDestroy, Looking, Goes, TypeOK, threadVars
  <2>6. \A u \in Threads :
            pc'[u] = "retiring" /\ retireTo'[u] = ListOf(G - 1) =>
                /\ pc[u] = "retiring"
                /\ retireTo[u] = ListOf(G - 1)
                /\ frees'[u] = frees[u]
    BY <1>2 DEF ThreadDestroy, Goes, TypeOK, threadVars, G
  <2> QED
    BY <2>1, <2>2, <2>3, <2>4, <2>5, <2>6, LookSame
<1>3. ASSUME NEW t \in Threads, BeginActive(t) PROVE FreedOnce' /\ NothingLost' /\ LookInv'
  <2>1. \A u \in Threads : Undoable(u)' = Undoable(u) /\ Unlinked(u)' = Unlinked(u)
    BY <1>3 DEF BeginActive, Undoable, Unlinked, Goes, TypeOK, PhaseInv, threadVars
  <2>2. \A b \in Lists : Pending(b)' = Pending(b)
    BY <1>3 DEF BeginActive, Pending, collectorVars
  <2>3. root' = root /\ live' = live /\ epochGlobalCounter' = epochGlobalCounter
    BY <1>3 DEF BeginActive, collectorVars
  <2>4. FreedOnce' /\ NothingLost'
    BY <2>1, <2>2, <2>3, OwnersSame
  <2>5. \A u \in Threads :
            Looking(u)' => /\ Looking(u)
                           /\ cur'[u] = cur[u]
                           /\ epochCounter'[u] = epochCounter[u]
    BY <1>3 DEF BeginActive, Looking, Goes, TypeOK, threadVars
  <2>6. \A u \in Threads :
            pc'[u] = "retiring" /\ retireTo'[u] = ListOf(G - 1) =>
                /\ pc[u] = "retiring"
                /\ retireTo[u] = ListOf(G - 1)
                /\ frees'[u] = frees[u]
    BY <1>3 DEF BeginActive, Goes, TypeOK, threadVars, G
  <2> QED
    BY <2>1, <2>2, <2>3, <2>4, <2>5, <2>6, LookSame
<1>4. ASSUME NEW t \in Threads, BeginRead(t) PROVE FreedOnce' /\ NothingLost' /\ LookInv'
  <2>1. \A u \in Threads : Undoable(u)' = Undoable(u) /\ Unlinked(u)' = Unlinked(u)
    BY <1>4 DEF BeginRead, Undoable, Unlinked, Goes, TypeOK, PhaseInv, threadVars
  <2>2. \A b \in Lists : Pending(b)' = Pending(b)
    BY <1>4 DEF BeginRead, Pending, collectorVars
  <2>3. root' = root /\ live' = live /\ epochGlobalCounter' = epochGlobalCounter
    BY <1>4 DEF BeginRead, collectorVars
  <2>4. FreedOnce' /\ NothingLost'
    BY <2>1, <2>2, <2>3, OwnersSame
  <2>5. \A u \in Threads :
            Looking(u)' => /\ Looking(u)
                           /\ cur'[u] = cur[u]
                           /\ epochCounter'[u] = epochCounter[u]
    BY <1>4 DEF BeginRead, Looking, Goes, TypeOK, threadVars
  <2>6. \A u \in Threads :
            pc'[u] = "retiring" /\ retireTo'[u] = ListOf(G - 1) =>
                /\ pc[u] = "retiring"
                /\ retireTo[u] = ListOf(G - 1)
                /\ frees'[u] = frees[u]
    BY <1>4 DEF BeginRead, Goes, TypeOK, threadVars, G
  <2> QED
    BY <2>1, <2>2, <2>3, <2>4, <2>5, <2>6, LookSame
<1>5. ASSUME NEW t \in Threads, BeginPublish(t) PROVE FreedOnce' /\ NothingLost' /\ LookInv'
  <2>1. \A u \in Threads : Undoable(u)' = Undoable(u) /\ Unlinked(u)' = Unlinked(u)
    BY <1>5 DEF BeginPublish, Undoable, Unlinked, Goes, TypeOK, PhaseInv, threadVars
  <2>2. \A b \in Lists : Pending(b)' = Pending(b)
    BY <1>5 DEF BeginPublish, Pending, collectorVars
  <2>3. root' = root /\ live' = live /\ epochGlobalCounter' = epochGlobalCounter
    BY <1>5 DEF BeginPublish, collectorVars
  <2>4. FreedOnce' /\ NothingLost'
    BY <2>1, <2>2, <2>3, OwnersSame
  <2>5. \A u \in Threads :
            Looking(u)' => /\ Looking(u)
                           /\ cur'[u] = cur[u]
                           /\ epochCounter'[u] = epochCounter[u]
    BY <1>5 DEF BeginPublish, Looking, Goes, TypeOK, threadVars
  <2>6. \A u \in Threads :
            pc'[u] = "retiring" /\ retireTo'[u] = ListOf(G - 1) =>
                /\ pc[u] = "retiring"
                /\ retireTo[u] = ListOf(G - 1)
                /\ frees'[u] = frees[u]
    BY <1>5 DEF BeginPublish, Goes, TypeOK, threadVars, G
  <2> QED
    BY <2>1, <2>2, <2>3, <2>4, <2>5, <2>6, LookSame
<1>6. ASSUME NEW t \in Threads, Load(t) PROVE FreedOnce' /\ NothingLost' /\ LookInv'
  <2>1. \A u \in Threads : Unlinked(u)' = Unlinked(u)
    BY <1>6 DEF Load, Unlinked, TypeOK
  <2>2. /\ Undoable(t) = allocs[t] /\ Undoable(t)' = {}
        /\ \A u \in Threads : u # t => Undoable(u)' = Undoable(u)
    BY <1>6 DEF Load, Undoable, TypeOK, PhaseInv
  <2>3. \A b \in Lists : Pending(b)' = Pending(b)
    BY <1>6 DEF Load, Pending, collectorVars
  <2>4. root' = root /\ live' = live \ allocs[t] /\ epochGlobalCounter' = epochGlobalCounter
    BY <1>6 DEF Load, collectorVars
  <2>5. FreedOnce'
    BY <2>1, <2>2, <2>3, <2>4 DEF FreedOnce
  <2>6. NothingLost'
    BY <2>1, <2>2, <2>3, <2>4 DEF FreedOnce, NothingLost, Owned
  <2>7. \A u \in Threads :
            Looking(u)' => \/ cur'[u] = root
                           \/ /\ Looking(u)
                              /\ cur'[u] = cur[u]
                              /\ epochCounter'[u] = epochCounter[u]
    BY <1>6 DEF Load, Looking, TypeOK
  <2>8. \A u \in Threads :
            pc'[u] = "retiring" /\ retireTo'[u] = ListOf(G - 1) =>
                /\ pc[u] = "retiring"
                /\ retireTo[u] = ListOf(G - 1)
                /\ frees'[u] = frees[u]
    BY <1>6 DEF Load, TypeOK
  <2>9. LookInv'
    BY <2>1, <2>3, <2>4, <2>7, <2>8, LookSame
  <2> QED
    BY <2>5, <2>6, <2>9
<1>7. ASSUME NEW t \in Threads, SwapWins(t) PROVE FreedOnce' /\ NothingLost' /\ LookInv'
  <2>1. PICK r \in Nodes : allocs[t] = {r}
    BY <1>7 DEF SwapWins, Goes, PhaseInv
  <2>2. /\ root' = r /\ root = cur[t] /\ live' = live
        /\ epochGlobalCounter' = epochGlobalCounter
    BY <1>7, <2>1 DEF SwapWins, collectorVars
  <2>3. /\ Undoable(t) = {r} /\ Undoable(t)' = {}
        /\ Unlinked(t) = {} /\ Unlinked(t)' = {root}
    BY <1>7, <2>1, <2>2 DEF SwapWins, Goes, Undoable, Unlinked, TypeOK, PhaseInv
  <2>4. \A u \in Threads :
            u # t => Undoable(u)' = Undoable(u) /\ Unlinked(u)' = Unlinked(u)
    BY <1>7 DEF SwapWins, Goes, Undoable, Unlinked, TypeOK
  <2>5. \A b \in Lists : Pending(b)' = Pending(b)
    BY <1>7 DEF SwapWins, Pending, collectorVars
  <2>6. FreedOnce'
    BY <2>2, <2>3, <2>4, <2>5 DEF FreedOnce
  <2>7. NothingLost'
    BY <2>2, <2>3, <2>4, <2>5 DEF NothingLost, Owned
  <2>8. G' = G /\ ListOf(G - 1) \in Lists /\ ListOf(G - 2) \in Lists
    BY <2>2, ListFacts DEF TypeOK, G
  <2>9. ASSUME NEW u \in Threads, Looking(u)' PROVE Published(cur[u])'
    <3>1. Looking(u) /\ cur'[u] = cur[u]
      BY <1>7, <2>9 DEF SwapWins, Goes, Looking, TypeOK
    <3>2. Published(cur[u])
      BY <3>1 DEF LookInv
    <3>3. \A m : Published(m) => Published(m)'
      BY <2>2, <2>3, <2>4, <2>5 DEF Published
    <3> QED
      BY <3>1, <3>2, <3>3 DEF Published
  <2>10. ASSUME NEW u \in Threads, Looking(u)'
         PROVE  /\ cur'[u] \notin Pending(ListOf(G - 2))
                /\ cur'[u] \in Pending(ListOf(G - 1)) => epochCounter'[u] = G - 1
                /\ \A w \in Threads :
                      pc'[w] = "retiring" /\ retireTo'[w] = ListOf(G - 1) /\ cur'[u] \in frees'[w]
                      => epochCounter'[u] = G - 1
    BY <1>7, <2>10 DEF SwapWins, Goes, Looking, LookInv, TypeOK
  <2>11. LookInv'
    BY <2>5, <2>8, <2>9, <2>10 DEF LookInv
  <2> QED
    BY <2>6, <2>7, <2>11
<1>8. ASSUME NEW t \in Threads, SwapLoses(t) PROVE FreedOnce' /\ NothingLost' /\ LookInv'
  <2>1. \A u \in Threads : Undoable(u)' = Undoable(u) /\ Unlinked(u)' = Unlinked(u)
    BY <1>8 DEF SwapLoses, Undoable, Unlinked, Goes, TypeOK, PhaseInv, threadVars
  <2>2. \A b \in Lists : Pending(b)' = Pending(b)
    BY <1>8 DEF SwapLoses, Pending, collectorVars
  <2>3. root' = root /\ live' = live /\ epochGlobalCounter' = epochGlobalCounter
    BY <1>8 DEF SwapLoses, collectorVars
  <2>4. FreedOnce' /\ NothingLost'
    BY <2>1, <2>2, <2>3, OwnersSame
  <2>5. \A u \in Threads :
            Looking(u)' => /\ Looking(u)
                           /\ cur'[u] = cur[u]
                           /\ epochCounter'[u] = epochCounter[u]
    BY <1>8 DEF SwapLoses, Looking, Goes, TypeOK, threadVars
  <2>6. \A u \in Threads :
            pc'[u] = "retiring" /\ retireTo'[u] = ListOf(G - 1) =>
                /\ pc[u] = "retiring"
                /\ retireTo[u] = ListOf(G - 1)
                /\ frees'[u] = frees[u]
    BY <1>8 DEF SwapLoses, Goes, TypeOK, threadVars, G
  <2> QED
    BY <2>1, <2>2, <2>3, <2>4, <2>5, <2>6, LookSame
<1>9. ASSUME NEW t \in Threads, End(t) PROVE FreedOnce' /\ NothingLost' /\ LookInv'
  <2>1. \A u \in Threads : Undoable(u)' = Undoable(u) /\ Unlinked(u)' = Unlinked(u)
    BY <1>9 DEF End, Undoable, Unlinked, Goes, TypeOK, PhaseInv, threadVars
  <2>2. \A b \in Lists : Pending(b)' = Pending(b)
    BY <1>9 DEF End, Pending, collectorVars
  <2>3. root' = root /\ live' = live /\ epochGlobalCounter' = epochGlobalCounter
    BY <1>9 DEF End, collectorVars
  <2>4. FreedOnce' /\ NothingLost'
    BY <2>1, <2>2, <2>3, OwnersSame
  <2>5. \A u \in Threads :
            Looking(u)' => /\ Looking(u)
                           /\ cur'[u] = cur[u]
                           /\ epochCounter'[u] = epochCounter[u]
    BY <1>9 DEF End, Looking, Goes, TypeOK, threadVars
  <2>6. \A u \in Threads :
            pc'[u] = "retiring" /\ retireTo'[u] = ListOf(G - 1) =>
                /\ pc[u] = "retiring"
                /\ retireTo[u] = ListOf(G - 1)
                /\ frees'[u] = frees[u]
    BY <1>9, ListFacts DEF End, RetireList, Goes, TypeOK, threadVars, G
  <2> QED
    BY <2>1, <2>2, <2>3, <2>4, <2>5, <2>6, LookSame
<1>10. ASSUME NEW t \in Threads, EndInactive(t) PROVE FreedOnce' /\ NothingLost' /\ LookInv'
  <2>1. \A u \in Threads : Undoable(u)' = Undoable(u) /\ Unlinked(u)' = Unlinked(u)
    BY <1>10 DEF EndInactive, Undoable, Unlinked, Goes, TypeOK, PhaseInv, threadVars
  <2>2. \A b \in Lists : Pending(b)' = Pending(b)
    BY <1>10 DEF EndInactive, Pending, collectorVars
  <2>3. root' = root /\ live' = live /\ epochGlobalCounter' = epochGlobalCounter
    BY <1>10 DEF EndInactive, collectorVars
  <2>4. FreedOnce' /\ NothingLost'
    BY <2>1, <2>2, <2>3, OwnersSame
  <2>5. \A u \in Threads :
            Looking(u)' => /\ Looking(u)
                           /\ cur'[u] = cur[u]
                           /\ epochCounter'[u] = epochCounter[u]
    BY <1>10 DEF EndInactive, Looking, Goes, TypeOK, threadVars
  <2>6. \A u \in Threads :
            pc'[u] = "retiring" /\ retireTo'[u] = ListOf(G - 1) =>
                /\ pc[u] = "retiring"
                /\ retireTo[u] = ListOf(G - 1)
                /\ frees'[u] = frees[u]
    BY <1>10 DEF EndInactive, Goes, TypeOK, threadVars, G
  <2> QED
    BY <2>1, <2>2, <2>3, <2>4, <2>5, <2>6, LookSame
<1>11. ASSUME NEW t \in Threads, NEW n \in Nodes, Build(t, n) PROVE FreedOnce' /\ NothingLost' /\ LookInv'
  <2>1. \A u \in Threads : Unlinked(u)' = Unlinked(u)
    BY <1>11 DEF Build, Goes, Unlinked, TypeOK
  <2>2. /\ Undoable(t) = {} /\ Undoable(t)' = {n}
        /\ \A u \in Threads : u # t => Undoable(u)' = Undoable(u)
    BY <1>11 DEF Build, Goes, Undoable, TypeOK, PhaseInv
  <2>3. \A b \in Lists : Pending(b)' = Pending(b)
    BY <1>11 DEF Build, Pending, collectorVars
  <2>4. /\ root' = root /\ live' = live \cup {n} /\ n \notin live
        /\ epochGlobalCounter' = epochGlobalCounter
    BY <1>11 DEF Build, collectorVars
  <2>5. ~Owned(n)
    BY <2>4 DEF NothingLost
  <2>6. FreedOnce'
    BY <2>1, <2>2, <2>3, <2>4, <2>5 DEF FreedOnce, Owned
  <2>7. NothingLost'
    BY <2>1, <2>2, <2>3, <2>4 DEF NothingLost, Owned
  <2>8. \A u \in Threads :
            Looking(u)' => \/ cur'[u] = root
                           \/ /\ Looking(u)
                              /\ cur'[u] = cur[u]
                              /\ epochCounter'[u] = epochCounter[u]
    BY <1>11 DEF Build, Goes, Looking, TypeOK
  <2>9. \A u \in Threads :
            pc'[u] = "retiring" /\ retireTo'[u] = ListOf(G - 1) =>
                /\ pc[u] = "retiring"
                /\ retireTo[u] = ListOf(G - 1)
                /\ frees'[u] = frees[u]
    BY <1>11 DEF Build, Goes, TypeOK
  <2>10. LookInv'
    BY <2>1, <2>3, <2>4, <2>8, <2>9, LookSame
  <2> QED
    BY <2>6, <2>7, <2>10
<1>12. ASSUME NEW t \in Threads, NEW n \in Nodes, Retire(t, n) PROVE FreedOnce' /\ NothingLost' /\ LookInv'
  <2>1. PICK l \in Lists : l = retireTo[t]
    BY DEF TypeOK
  <2>2. /\ ListOf(G - 1) \in Lists /\ ListOf(G - 2) \in Lists
        /\ l # ListOf(G - 2) /\ ListOf(G - 1) # ListOf(G - 2) /\ ListOf(G) # ListOf(G - 1)
        /\ G' = G
    BY <1>12, <2>1, ListFacts DEF Retire, RetireInv, TypeOK, collectorVars, G
  <2>3. cpc = "free" => l # freeing
    BY <2>2 DEF CollectInv
  <2>4. n \in Unlinked(t) /\ Unlinked(t)' = Unlinked(t) \ {n}
    BY <1>12 DEF Retire, Unlinked, TypeOK
  <2>5. /\ \A u \in Threads : u # t => Unlinked(u)' = Unlinked(u)
        /\ \A u \in Threads : Undoable(u)' = Undoable(u)
    BY <1>12 DEF Retire, Undoable, Unlinked, TypeOK
  <2>6. Pending(l)' = Pending(l) \cup {n}
    BY <1>12, <2>1, <2>3 DEF Retire, Pending, TypeOK, collectorVars
  <2>7. \A b \in Lists : b # l => Pending(b)' = Pending(b)
    BY <1>12, <2>1 DEF Retire, Pending, TypeOK, collectorVars
  <2>8. root' = root /\ live' = live
    BY <1>12 DEF Retire
  <2>9. FreedOnce'
    BY <2>4, <2>5, <2>6, <2>7, <2>8 DEF FreedOnce
  <2>10. NothingLost'
    BY <2>4, <2>5, <2>6, <2>7, <2>8 DEF NothingLost, Owned
  <2>11. \A m : Published(m) => Published(m)'
    BY <2>1, <2>4, <2>5, <2>6, <2>7, <2>8 DEF Published
  <2>12. LookInv'
    <3>1. SUFFICES ASSUME NEW u \in Threads, Looking(u)'
          PROVE  /\ Published(cur[u])'
                 /\ cur[u] \notin Pending(ListOf(G - 2))'
                 /\ cur[u] \in Pending(ListOf(G - 1))' => epochCounter[u] = G - 1
                 /\ \A w \in Threads :
                       pc[w] = "retiring" /\ retireTo[w] = ListOf(G - 1) /\ cur[u] \in frees'[w]
                       => epochCounter[u] = G - 1
      BY <1>12, <2>2 DEF Retire, LookInv
    <3>2. Looking(u) /\ cur' = cur
      BY <1>12, <3>1 DEF Retire, Looking
    <3>3. Published(cur[u])'
      BY <2>11, <3>2 DEF LookInv, Published
    <3>4. cur[u] \notin Pending(ListOf(G - 2))'
      BY <2>2, <2>7, <3>2 DEF LookInv
    <3>5. ASSUME cur[u] \in Pending(ListOf(G - 1))' PROVE epochCounter[u] = G - 1
      <4>1. CASE cur[u] \in Pending(ListOf(G - 1))
        BY <3>2, <4>1 DEF LookInv
      <4>2. CASE cur[u] \notin Pending(ListOf(G - 1))
        <5>1. l = ListOf(G - 1) /\ cur[u] = n
          BY <2>2, <2>6, <2>7, <3>5, <4>2
        <5> QED
          BY <1>12, <2>1, <3>2, <5>1 DEF Retire, LookInv
      <4> QED
        BY <4>1, <4>2
    <3>6. \A w \in Threads : frees'[w] \subseteq frees[w]
      BY <1>12 DEF Retire, TypeOK
    <3> QED
      BY <3>2, <3>3, <3>4, <3>5, <3>6 DEF LookInv
  <2> QED
    BY <2>9, <2>10, <2>12
<1>13. ASSUME NEW t \in Threads, ScanThread(t) PROVE FreedOnce' /\ NothingLost' /\ LookInv'
  <2>1. \A u \in Threads : Undoable(u)' = Undoable(u) /\ Unlinked(u)' = Unlinked(u)
    BY <1>13 DEF ScanThread, Undoable, Unlinked, Goes, TypeOK, PhaseInv, threadVars
  <2>2. \A b \in Lists : Pending(b)' = Pending(b)
    BY <1>13 DEF ScanThread, Pending, collectorVars
  <2>3. root' = root /\ live' = live /\ epochGlobalCounter' = epochGlobalCounter
    BY <1>13 DEF ScanThread, collectorVars
  <2>4. FreedOnce' /\ NothingLost'
    BY <2>1, <2>2, <2>3, OwnersSame
  <2>5. \A u \in Threads :
            Looking(u)' => /\ Looking(u)
                           /\ cur'[u] = cur[u]
                           /\ epochCounter'[u] = epochCounter[u]
    BY <1>13 DEF ScanThread, Looking, Goes, TypeOK, threadVars
  <2>6. \A u \in Threads :
            pc'[u] = "retiring" /\ retireTo'[u] = ListOf(G - 1) =>
                /\ pc[u] = "retiring"
                /\ retireTo[u] = ListOf(G - 1)
                /\ frees'[u] = frees[u]
    BY <1>13 DEF ScanThread, Goes, TypeOK, threadVars, G
  <2> QED
    BY <2>1, <2>2, <2>3, <2>4, <2>5, <2>6, LookSame
<1>14. ASSUME Advance PROVE FreedOnce' /\ NothingLost' /\ LookInv'
  <2>1. \A u \in Threads : Undoable(u)' = Undoable(u) /\ Unlinked(u)' = Unlinked(u)
    BY <1>14 DEF Advance, Undoable, Unlinked, threadVars
  <2>2. \A b \in Lists : Pending(b)' = Pending(b)
    BY <1>14 DEF Advance, Pending
  <2>3. root' = root /\ live' = live
    BY <1>14 DEF Advance
  <2>4. FreedOnce' /\ NothingLost'
    BY <2>1, <2>2, <2>3, OwnersSame
  <2>5. /\ G \in Nat /\ G' = G + 1 /\ G' - 1 = G
        /\ ListOf(G' - 1) = ListOf(G) /\ ListOf(G' - 2) = ListOf(G - 1)
        /\ ListOf(G) \in Lists /\ ListOf(G - 1) \in Lists
    BY <1>14, ListFacts DEF Advance, TypeOK, G
  <2>6. ASSUME NEW u \in Threads, Looking(u)'
        PROVE  /\ Published(cur[u])'
               /\ cur[u] \notin Pending(ListOf(G - 1))
               /\ epochCounter[u] = G
    <3>1. Looking(u) /\ cur' = cur
      BY <1>14, <2>6 DEF Advance, Looking, threadVars
    <3>2. epochCounter[u] = G
      BY <1>14, <3>1 DEF Advance, EpochInv, Inside, Looking
    <3>3. Published(cur[u])'
      BY <2>1, <2>2, <2>3, <3>1 DEF LookInv, Published
    <3> QED
      BY <2>5, <3>1, <3>2, <3>3 DEF LookInv
  <2>7. LookInv'
    <3>1. PICK l \in Lists : l = ListOf(G - 1)
      BY <2>5
    <3>2. SUFFICES ASSUME NEW u \in Threads, Looking(u)'
          PROVE  /\ Published(cur[u])'
                 /\ cur'[u] \notin Pending(l)'
                 /\ epochCounter'[u] = G
      BY <2>5, <3>1 DEF LookInv
    <3> QED
      BY <1>14, <2>2, <2>6, <3>1, <3>2 DEF Advance, threadVars
  <2> QED
    BY <2>4, <2>7
<1>15. ASSUME Count PROVE FreedOnce' /\ NothingLost' /\ LookInv'
  <2>1. \A u \in Threads : Undoable(u)' = Undoable(u) /\ Unlinked(u)' = Unlinked(u)
    BY <1>15 DEF Count, Undoable, Unlinked, Goes, TypeOK, PhaseInv, threadVars
  <2>2. \A b \in Lists : Pending(b)' = Pending(b)
    BY <1>15 DEF Count, Pending, collectorVars
  <2>3. root' = root /\ live' = live /\ epochGlobalCounter' = epochGlobalCounter
    BY <1>15 DEF Count, collectorVars
  <2>4. FreedOnce' /\ NothingLost'
    BY <2>1, <2>2, <2>3, OwnersSame
  <2>5. \A u \in Threads :
            Looking(u)' => /\ Looking(u)
                           /\ cur'[u] = cur[u]
                           /\ epochCounter'[u] = epochCounter[u]
    BY <1>15 DEF Count, Looking, Goes, TypeOK, threadVars
  <2>6. \A u \in Threads :
            pc'[u] = "retiring" /\ retireTo'[u] = ListOf(G - 1) =>
                /\ pc[u] = "retiring"
                /\ retireTo[u] = ListOf(G - 1)
                /\ frees'[u] = frees[u]
    BY <1>15 DEF Count, Goes, TypeOK, threadVars, G
  <2> QED
    BY <2>1, <2>2, <2>3, <2>4, <2>5, <2>6, LookSame
<1>16. ASSUME CollectDone PROVE FreedOnce' /\ NothingLost' /\ LookInv'
  <2>1. \A u \in Threads : Undoable(u)' = Undoable(u) /\ Unlinked(u)' = Unlinked(u)
    BY <1>16 DEF CollectDone, Undoable, Unlinked, Goes, TypeOK, PhaseInv, threadVars
  <2>2. \A b \in Lists : Pending(b)' = Pending(b)
    BY <1>16 DEF CollectDone, Pending, collectorVars, EmptiedList, TypeOK
  <2>3. root' = root /\ live' = live /\ epochGlobalCounter' = epochGlobalCounter
    BY <1>16 DEF CollectDone, collectorVars
  <2>4. FreedOnce' /\ NothingLost'
    BY <2>1, <2>2, <2>3, OwnersSame
  <2>5. \A u \in Threads :
            Looking(u)' => /\ Looking(u)
                           /\ cur'[u] = cur[u]
                           /\ epochCounter'[u] = epochCounter[u]
    BY <1>16 DEF CollectDone, Looking, Goes, TypeOK, threadVars
  <2>6. \A u \in Threads :
            pc'[u] = "retiring" /\ retireTo'[u] = ListOf(G - 1) =>
                /\ pc[u] = "retiring"
                /\ retireTo[u] = ListOf(G - 1)
                /\ frees'[u] = frees[u]
    BY <1>16 DEF CollectDone, Goes, TypeOK, threadVars, G
  <2> QED
    BY <2>1, <2>2, <2>3, <2>4, <2>5, <2>6, LookSame
<1>17. ASSUME NEW n \in Nodes, FreeOne(n) PROVE FreedOnce' /\ NothingLost' /\ LookInv'
  <2>1. \A u \in Threads : Undoable(u)' = Undoable(u) /\ Unlinked(u)' = Unlinked(u)
    BY <1>17 DEF FreeOne, Undoable, Unlinked, threadVars
  <2>2. PICK l \in Lists : l = freeing
    BY DEF TypeOK
  <2>3. n \in Pending(l) /\ Pending(l)' = Pending(l) \ {n}
    BY <1>17, <2>2 DEF FreeOne, Pending
  <2>4. \A b \in Lists : b # l => Pending(b)' = Pending(b)
    BY <1>17, <2>2 DEF FreeOne, Pending
  <2>5. root' = root /\ live' = live \ {n} /\ G' = G
    BY <1>17 DEF FreeOne, G
  <2>6. FreedOnce'
    BY <2>1, <2>3, <2>4, <2>5 DEF FreedOnce
  <2>7. NothingLost'
    BY <2>1, <2>3, <2>4, <2>5 DEF FreedOnce, NothingLost, Owned
  <2>8. l = ListOf(G - 2) /\ ListOf(G - 1) \in Lists /\ ListOf(G - 1) # l
    BY <1>17, <2>2, ListFacts DEF FreeOne, CollectInv, TypeOK, G
  <2>k. PICK k \in Lists : k = ListOf(G - 1)
    BY <2>8
  <2>9. ASSUME NEW u \in Threads, Looking(u)'
        PROVE  Looking(u) /\ cur' = cur /\ cur[u] # n
    BY <1>17, <2>3, <2>8, <2>9 DEF FreeOne, Looking, LookInv, threadVars
  <2>10. \A m : Published(m) /\ m # n => Published(m)'
    BY <2>1, <2>2, <2>3, <2>4, <2>5 DEF Published
  <2>11. ASSUME NEW u \in Threads, Looking(u)' PROVE Published(cur[u])'
    BY <2>9, <2>10, <2>11 DEF LookInv, Published
  <2>12. ASSUME NEW u \in Threads, Looking(u)'
         PROVE  /\ cur'[u] \notin Pending(l)'
                /\ cur'[u] \in Pending(k)' => epochCounter'[u] = G - 1
                /\ \A w \in Threads :
                      pc'[w] = "retiring" /\ retireTo'[w] = ListOf(G - 1) /\ cur'[u] \in frees'[w]
                      => epochCounter'[u] = G - 1
    BY <1>17, <2>3, <2>4, <2>8, <2>k, <2>9, <2>12 DEF FreeOne, LookInv, threadVars
  <2>13. LookInv'
    BY <2>5, <2>8, <2>k, <2>11, <2>12 DEF LookInv
  <2> QED
    BY <2>6, <2>7, <2>13
<1>18. CASE UNCHANGED vars
  BY <1>18 DEF vars, FreedOnce, NothingLost, Owned, LookInv, Published, Looking, Undoable, Unlinked, Pending, G
<1> QED
  BY <1>1, <1>2, <1>3, <1>4, <1>5, <1>6, <1>7, <1>8, <1>9, <1>10, <1>11, <1>12, <1>13, <1>14, <1>15, <1>16, <1>17, <1>18 DEF Next, ThreadStep, Collect

-----------------------------------------------------------------------------

LEMMA IndInvariant == Spec => []IndInv
<1>1. IndInv /\ [Next]_vars => IndInv'
  <2> SUFFICES ASSUME IndInv, [Next]_vars PROVE IndInv'
    OBVIOUS
  <2>1. TypeOK' /\ EpochInv' /\ PhaseInv' /\ RetireInv' /\ CollectInv'
    BY TypeInd, EpochInd, PhaseInd, RetireInd, CollectInd DEF IndInv
  <2>2. FreedOnce' /\ NothingLost' /\ LookInv'
    BY OwnersInd DEF IndInv
  <2> QED
    BY <2>1, <2>2 DEF IndInv
<1> QED
  BY <1>1, InitInd, PTL DEF Spec

\* The variables of epoch.c keep their types; in particular the index of a
\* garbage list is 0, 1 or 2.
THEOREM TypeCorrect == Spec => []TypeOK
<1>1. IndInv => TypeOK
  BY DEF IndInv
<1> QED
  BY <1>1, IndInvariant, PTL

\* A version of the trie is not freed while a thread between epochBegin and
\* epochEnd looks at it, nor while it is the current one.
THEOREM EpochsProtectReaders == Spec => []NoUseAfterFree
<1>1. IndInv => NoUseAfterFree
  <2> SUFFICES ASSUME IndInv PROVE NoUseAfterFree
    OBVIOUS
  <2>1. root \in live
    BY DEF IndInv, TypeOK, NothingLost, Owned
  <2>2. ASSUME NEW t \in Threads, Looking(t) PROVE cur[t] \in live
    <3>1. Published(cur[t]) /\ cur[t] \in Nodes
      BY <2>2 DEF IndInv, LookInv, TypeOK
    <3>2. Owned(cur[t])
      BY <3>1 DEF Published, Owned
    <3> QED
      BY <3>1, <3>2 DEF IndInv, NothingLost
  <2> QED
    BY <2>1, <2>2 DEF NoUseAfterFree
<1> QED
  BY <1>1, IndInvariant, PTL

\* epochReset, epochRetireAll and the collector never free a node twice.
THEOREM NodesAreFreedOnce == Spec => []FreedOnce
<1>1. IndInv => FreedOnce
  BY DEF IndInv
<1> QED
  BY <1>1, IndInvariant, PTL

\* Whatever is allocated is the current version, or somebody's to free.
THEOREM NodesAreNotLost == Spec => []NothingLost
<1>1. IndInv => NothingLost
  BY DEF IndInv
<1> QED
  BY <1>1, IndInvariant, PTL

\* epochRetireAll never adds to the list that epochGlobalCollect empties.
THEOREM RetirementAvoidsCollection == Spec => []RetiresElsewhere
<1>1. IndInv => RetiresElsewhere
  BY ListFacts DEF IndInv, RetiresElsewhere, RetireInv, CollectInv, TypeOK, G
<1> QED
  BY <1>1, IndInvariant, PTL
=============================================================================
