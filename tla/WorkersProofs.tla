---------------------------- MODULE WorkersProofs ----------------------------
(***************************************************************************)
(* Proof that the pool of workers neither loses nor repeats an item, leaves *)
(* none where nobody looks, and finds a slot for every thread it creates.  *)
(***************************************************************************)
EXTENDS Workers, FiniteSetTheorems, SequenceTheorems, TLAPS

\* isDeactivated is set from the decision to sleep until sem_wait has returned.
DeactivatedWhere ==
    \A i \in Slots : thread[i].isDeactivated <=> thread[i].at \in {"asleep", "awake"}

\* The lines L hold exactly the items of W, each in one place.
Holds(L, W) ==
    /\ \A x \in W : \E i \in DOMAIN L : \E k \in 1 .. Len(L[i]) : L[i][k] = x
    /\ \A i \in DOMAIN L : \A k \in 1 .. Len(L[i]) : L[i][k] \in W
    /\ \A i, j \in DOMAIN L : \A k \in 1 .. Len(L[i]), l \in 1 .. Len(L[j]) :
           L[i][k] = L[j][l] => i = j /\ k = l

LinesHoldItems == Holds(Lines, pushed \ started) /\ started \subseteq pushed

\* What an item pushes is pushed after it was started, ...
PushersStarted ==
    \A x \in Items : \A k \in 1 .. Len(Pushes[x]) :
        Pushes[x][k] \in pushed => x \in started

\* ... in order: a body of x that has `left` still to push has pushed at most
\* what comes before.
PushedSoFar(x, left) ==
    /\ x \in started
    /\ Len(left) <= Len(Pushes[x])
    /\ \A k \in 1 .. Len(left) :
           left[k] = Pushes[x][Len(Pushes[x]) - Len(left) + k]
    /\ \A k \in 1 .. Len(Pushes[x]) :
           Pushes[x][k] \in pushed => k <= Len(Pushes[x]) - Len(left)

\* One thread runs an item.
Runs(i, x) == thread[i].at = "run" /\ thread[i].item = x

BodiesInv ==
    \A i \in Slots : thread[i].at = "run" =>
        /\ thread[i].item \in Items
        /\ PushedSoFar(thread[i].item, thread[i].left)
        /\ \A j \in Slots : Runs(j, thread[i].item) => j = i

BootType == [Boots -> {NotBooting} \cup 0 .. SlotCount]

IndInv ==
    /\ TypeOK
    /\ DeactivatedWhere
    /\ NoneLeftBehind
    /\ LinesHoldItems
    /\ PushersStarted
    /\ BodiesInv

-----------------------------------------------------------------------------
(* Lines of items.                                                         *)

\* The first item of a line leaves.
LEMMA HeadLeaves ==
    ASSUME NEW D, NEW L \in [D -> Seq(Items)], NEW M \in [D -> Seq(Items)],
           NEW W, Holds(L, W), NEW d \in D, L[d] # <<>>,
           M[d] = Tail(L[d]), \A e \in D \ {d} : M[e] = L[e]
    PROVE  Head(L[d]) \in W /\ Holds(M, W \ {Head(L[d])})
<1> DEFINE x == Head(L[d])
<1>1. /\ L[d] \in Seq(Items) /\ Len(L[d]) \in Nat \ {0}
      /\ x = L[d][1]
      /\ Tail(L[d]) \in Seq(Items) /\ Len(Tail(L[d])) = Len(L[d]) - 1
      /\ \A k \in 1 .. Len(L[d]) - 1 : Tail(L[d])[k] = L[d][k + 1]
  OBVIOUS
<1>2. M \in [D -> Seq(Items)] /\ M[d] = Tail(L[d]) /\ \A e \in D \ {d} : M[e] = L[e]
  BY <1>1
<1>3. x \in W
  BY <1>1 DEF Holds
<1> DEFINE pos(e, k) == IF e = d THEN k + 1 ELSE k
<1>4. ASSUME NEW e \in D, NEW k \in 1 .. Len(M[e])
      PROVE  /\ pos(e, k) \in 1 .. Len(L[e]) /\ M[e][k] = L[e][pos(e, k)]
             /\ e = d => pos(e, k) # 1
  <2>1. CASE e = d
    BY <1>1, <1>2, <2>1
  <2>2. CASE e # d
    BY <1>1, <1>2, <2>2
  <2> QED BY <2>1, <2>2
<1>5. ASSUME NEW e \in D, NEW k \in 1 .. Len(M[e])
      PROVE  M[e][k] \in W \ {x}
  <2>1. L[e][pos(e, k)] \in W
    BY <1>4 DEF Holds
  <2>2. L[e][pos(e, k)] # L[d][1]
    BY <1>1, <1>4 DEF Holds
  <2> QED BY <1>1, <1>4, <2>1, <2>2
<1>6. ASSUME NEW y \in W \ {x}
      PROVE  \E e \in D : \E k \in 1 .. Len(M[e]) : M[e][k] = y
  <2>1. PICK e \in D : \E k \in 1 .. Len(L[e]) : L[e][k] = y
    BY DEF Holds
  <2>2. PICK k \in 1 .. Len(L[e]) : L[e][k] = y
    BY <2>1
  <2>3. CASE e = d
    <3>1. k # 1
      BY <1>1, <2>2, <2>3
    <3>2. k - 1 \in 1 .. Len(M[d]) /\ M[d][k - 1] = y
      BY <1>1, <1>2, <2>2, <2>3, <3>1
    <3> QED BY <3>2
  <2>4. CASE e # d
    BY <1>2, <2>2, <2>4
  <2> QED BY <2>3, <2>4
<1>7. ASSUME NEW e \in D, NEW f \in D, NEW k \in 1 .. Len(M[e]), NEW l \in 1 .. Len(M[f]),
             M[e][k] = M[f][l]
      PROVE  e = f /\ k = l
  <2>1. L[e][pos(e, k)] = L[f][pos(f, l)]
    BY <1>4, <1>7
  <2>2. e = f /\ pos(e, k) = pos(f, l)
    BY <1>4, <2>1 DEF Holds
  <2>3. k \in Int /\ l \in Int
    BY <1>2
  <2> QED BY <2>2, <2>3
<1>8. DOMAIN M = D
  BY <1>2
<1> HIDE DEF x
<1>9. /\ \A y \in W \ {x} : \E e \in D : \E k \in 1 .. Len(M[e]) : M[e][k] = y
      /\ \A e \in D : \A k \in 1 .. Len(M[e]) : M[e][k] \in W \ {x}
      /\ \A e, f \in D : \A k \in 1 .. Len(M[e]), l \in 1 .. Len(M[f]) :
             M[e][k] = M[f][l] => e = f /\ k = l
  BY <1>5, <1>6, <1>7, Zenon
<1>10. Holds(M, W \ {x})
  BY <1>8, <1>9, Zenon DEF Holds
<1> QED BY <1>3, <1>10 DEF x

\* The last item of a line leaves.
LEMMA LastLeaves ==
    ASSUME NEW D, NEW L \in [D -> Seq(Items)], NEW M \in [D -> Seq(Items)],
           NEW W, Holds(L, W), NEW d \in D, L[d] # <<>>,
           M[d] = Front(L[d]), \A e \in D \ {d} : M[e] = L[e]
    PROVE  Last(L[d]) \in W /\ Holds(M, W \ {Last(L[d])})
<1> DEFINE x == Last(L[d])
<1>1. /\ L[d] \in Seq(Items) /\ Len(L[d]) \in Nat \ {0}
      /\ x = L[d][Len(L[d])]
      /\ Front(L[d]) \in Seq(Items) /\ Len(Front(L[d])) = Len(L[d]) - 1
      /\ \A k \in 1 .. Len(L[d]) - 1 : Front(L[d])[k] = L[d][k]
  <2>1. PICK s \in Seq(Items) : s = L[d] /\ Len(s) \in Nat \ {0}
    OBVIOUS
  <2>2. PICK m \in Nat : m = Len(s) - 1
    <3>1. Len(s) - 1 \in Nat
      BY <2>1
    <3> QED BY <3>1
  <2>3. SubSeq(s, 1, m) \in Seq(Items)
    BY <2>2
  <2>4. Len(SubSeq(s, 1, m)) = m
    BY <2>2
  <2>5. \A k \in 1 .. m : SubSeq(s, 1, m)[k] = s[k]
    BY <2>2
  <2> QED BY <2>1, <2>2, <2>3, <2>4, <2>5 DEF Front, Last
<1>2. M \in [D -> Seq(Items)] /\ M[d] = Front(L[d]) /\ \A e \in D \ {d} : M[e] = L[e]
  BY <1>1
<1>3. x \in W
  BY <1>1 DEF Holds
<1>4. ASSUME NEW e \in D, NEW k \in 1 .. Len(M[e])
      PROVE  /\ k \in 1 .. Len(L[e]) /\ M[e][k] = L[e][k]
             /\ e = d => k # Len(L[d])
  BY <1>1, <1>2
<1>5. ASSUME NEW e \in D, NEW k \in 1 .. Len(M[e])
      PROVE  M[e][k] \in W \ {x}
  <2>1. L[e][k] \in W
    BY <1>4 DEF Holds
  <2>2. L[e][k] # L[d][Len(L[d])]
    BY <1>1, <1>4 DEF Holds
  <2> QED BY <1>1, <1>4, <2>1, <2>2
<1>6. ASSUME NEW y \in W \ {x}
      PROVE  \E e \in D : \E k \in 1 .. Len(M[e]) : M[e][k] = y
  <2>1. PICK e \in D : \E k \in 1 .. Len(L[e]) : L[e][k] = y
    BY DEF Holds
  <2>2. PICK k \in 1 .. Len(L[e]) : L[e][k] = y
    BY <2>1
  <2>3. CASE e = d
    <3>1. k # Len(L[d])
      BY <1>1, <2>2, <2>3
    <3>2. k \in 1 .. Len(M[d]) /\ M[d][k] = y
      BY <1>1, <1>2, <2>2, <2>3, <3>1
    <3> QED BY <3>2
  <2>4. CASE e # d
    BY <1>2, <2>2, <2>4
  <2> QED BY <2>3, <2>4
<1>7. ASSUME NEW e \in D, NEW f \in D, NEW k \in 1 .. Len(M[e]), NEW l \in 1 .. Len(M[f]),
             M[e][k] = M[f][l]
      PROVE  e = f /\ k = l
  <2>1. L[e][k] = L[f][l]
    BY <1>4, <1>7
  <2> QED BY <1>4, <2>1 DEF Holds
<1>8. DOMAIN M = D
  BY <1>2
<1> HIDE DEF x
<1>9. /\ \A y \in W \ {x} : \E e \in D : \E k \in 1 .. Len(M[e]) : M[e][k] = y
      /\ \A e \in D : \A k \in 1 .. Len(M[e]) : M[e][k] \in W \ {x}
      /\ \A e, f \in D : \A k \in 1 .. Len(M[e]), l \in 1 .. Len(M[f]) :
             M[e][k] = M[f][l] => e = f /\ k = l
  BY <1>5, <1>6, <1>7, Zenon
<1>10. Holds(M, W \ {x})
  BY <1>8, <1>9, Zenon DEF Holds
<1> QED BY <1>3, <1>10 DEF x

\* A new item joins the end of a line.
LEMMA ItemJoins ==
    ASSUME NEW D, NEW L \in [D -> Seq(Items)], NEW M \in [D -> Seq(Items)],
           NEW W, Holds(L, W), NEW d \in D, NEW x \in Items, x \notin W,
           M[d] = Append(L[d], x), \A e \in D \ {d} : M[e] = L[e]
    PROVE  Holds(M, W \cup {x})
<1> DEFINE n == Len(L[d]) + 1
<1>1. /\ L[d] \in Seq(Items) /\ n \in Nat \ {0}
      /\ Append(L[d], x) \in Seq(Items) /\ Len(Append(L[d], x)) = n
      /\ \A k \in 1 .. n - 1 : Append(L[d], x)[k] = L[d][k]
      /\ Append(L[d], x)[n] = x
  OBVIOUS
<1>2. M \in [D -> Seq(Items)] /\ M[d] = Append(L[d], x) /\ \A e \in D \ {d} : M[e] = L[e]
  BY <1>1
<1>3. /\ Len(M[d]) = n /\ M[d][n] = x
      /\ \A k \in 1 .. n - 1 : M[d][k] = L[d][k]
  BY <1>1, <1>2
<1>4. ASSUME NEW e \in D, NEW k \in 1 .. Len(M[e])
      PROVE  \/ k \in 1 .. Len(L[e]) /\ M[e][k] = L[e][k] /\ M[e][k] \in W
             \/ e = d /\ k = n /\ M[e][k] = x
  <2>1. CASE e = d /\ k = n
    BY <1>3, <2>1
  <2>2. CASE e # d \/ k # n
    <3>1. k \in 1 .. Len(L[e]) /\ M[e][k] = L[e][k]
      BY <1>1, <1>2, <1>3, <2>2
    <3> QED BY <3>1 DEF Holds
  <2> QED BY <2>1, <2>2
<1>5. ASSUME NEW e \in D, NEW k \in 1 .. Len(M[e])
      PROVE  M[e][k] \in W \cup {x}
  BY <1>4
<1>6. ASSUME NEW y \in W \cup {x}
      PROVE  \E e \in D : \E k \in 1 .. Len(M[e]) : M[e][k] = y
  <2>1. CASE y = x
    <3>1. n \in 1 .. Len(M[d])
      BY <1>1, <1>3
    <3> QED BY <1>3, <2>1, <3>1
  <2>2. CASE y # x
    <3>1. PICK e \in D : \E k \in 1 .. Len(L[e]) : L[e][k] = y
      BY <2>2 DEF Holds
    <3>2. PICK k \in 1 .. Len(L[e]) : L[e][k] = y
      BY <3>1
    <3>3. k \in 1 .. Len(M[e]) /\ M[e][k] = y
      <4>1. CASE e = d
        BY <1>1, <1>3, <3>2, <4>1
      <4>2. CASE e # d
        BY <1>2, <3>2, <4>2
      <4> QED BY <4>1, <4>2
    <3> QED BY <3>3
  <2> QED BY <2>1, <2>2
<1>7. ASSUME NEW e \in D, NEW f \in D, NEW k \in 1 .. Len(M[e]), NEW l \in 1 .. Len(M[f]),
             M[e][k] = M[f][l]
      PROVE  e = f /\ k = l
  <2>1. \/ k \in 1 .. Len(L[e]) /\ M[e][k] = L[e][k] /\ M[e][k] \in W
        \/ e = d /\ k = n /\ M[e][k] = x
    BY <1>4
  <2>2. \/ l \in 1 .. Len(L[f]) /\ M[f][l] = L[f][l] /\ M[f][l] \in W
        \/ f = d /\ l = n /\ M[f][l] = x
    BY <1>4
  <2>3. CASE M[e][k] = x
    BY <1>7, <2>1, <2>2, <2>3
  <2>4. CASE M[e][k] # x
    <3>1. /\ k \in 1 .. Len(L[e]) /\ l \in 1 .. Len(L[f])
          /\ L[e][k] = L[f][l]
      BY <1>7, <2>1, <2>2, <2>4
    <3> QED BY <3>1 DEF Holds
  <2> QED BY <2>3, <2>4
<1>8. DOMAIN M = D
  BY <1>2
<1>9. /\ \A y \in W \cup {x} : \E e \in D : \E k \in 1 .. Len(M[e]) : M[e][k] = y
      /\ \A e \in D : \A k \in 1 .. Len(M[e]) : M[e][k] \in W \cup {x}
      /\ \A e, f \in D : \A k \in 1 .. Len(M[e]), l \in 1 .. Len(M[f]) :
             M[e][k] = M[f][l] => e = f /\ k = l
  BY <1>5, <1>6, <1>7, Zenon
<1>10. Holds(M, W \cup {x})
  BY <1>8, <1>9, Zenon DEF Holds
<1> QED BY <1>10

LEMMA LinesType ==
    ASSUME TypeOK
    PROVE  /\ Lines \in [-1 .. SlotCount - 1 -> Seq(Items)]
           /\ Lines[-1] = global /\ -1 \in -1 .. SlotCount - 1
           /\ \A i \in Slots : i \in -1 .. SlotCount - 1 /\ Lines[i] = queue[i]
<1>1. /\ -1 \in -1 .. SlotCount - 1
      /\ \A i \in -1 .. SlotCount - 1 : i # -1 => i \in Slots
      /\ \A i \in Slots : i \in -1 .. SlotCount - 1 /\ i # -1
  BY WorkersAssumption DEF Slots
<1> QED BY <1>1 DEF Lines, TypeOK

\* What a step that changes one queue does to the lines.
LEMMA QueueLine ==
    ASSUME TypeOK, NEW i \in Slots, NEW q \in Seq(Items),
           queue' = [queue EXCEPT ![i] = q], global' = global
    PROVE  /\ queue' \in [Slots -> Seq(Items)] /\ queue'[i] = q
           /\ Lines' \in [-1 .. SlotCount - 1 -> Seq(Items)]
           /\ Lines'[i] = q
           /\ \A j \in (-1 .. SlotCount - 1) \ {i} : Lines'[j] = Lines[j]
<1>1. \A j \in -1 .. SlotCount - 1 : j # -1 => j \in Slots
  BY WorkersAssumption DEF Slots
<1>2. i # -1 /\ i \in -1 .. SlotCount - 1
  BY WorkersAssumption DEF Slots
<1>3. queue' \in [Slots -> Seq(Items)] /\ queue'[i] = q
  BY DEF TypeOK
<1>4. Lines' = [j \in -1 .. SlotCount - 1 |-> IF j = -1 THEN global ELSE queue'[j]]
  BY DEF Lines
<1> QED BY <1>1, <1>2, <1>3, <1>4 DEF Lines, TypeOK

\* What a step that changes the global queue does to them.
LEMMA GlobalLine ==
    ASSUME TypeOK, NEW q \in Seq(Items), global' = q, queue' = queue
    PROVE  /\ Lines' \in [-1 .. SlotCount - 1 -> Seq(Items)]
           /\ Lines'[-1] = q
           /\ \A j \in (-1 .. SlotCount - 1) \ {-1} : Lines'[j] = Lines[j]
<1>1. \A j \in -1 .. SlotCount - 1 : j # -1 => j \in Slots
  BY WorkersAssumption DEF Slots
<1>2. -1 \in -1 .. SlotCount - 1
  BY WorkersAssumption
<1>3. Lines' = [j \in -1 .. SlotCount - 1 |-> IF j = -1 THEN q ELSE queue[j]]
  BY DEF Lines
<1> QED BY <1>1, <1>2, <1>3 DEF Lines, TypeOK

-----------------------------------------------------------------------------
(* Thread control blocks.                                                  *)

LEMMA RunningThread ==
    ASSUME NEW t \in Thread, NEW x \in Items
    PROVE  /\ Running(t, x) \in Thread
           /\ Running(t, x).at = "run" /\ Running(t, x).item = x
           /\ Running(t, x).left = Pushes[x]
           /\ Running(t, x).isDeactivated = t.isDeactivated
BY WorkersAssumption DEF Running, Thread, Places

\* Threads that differ only in what sysmon has noted.
SameThreads ==
    \A i \in Slots : /\ thread'[i].at = thread[i].at
                     /\ thread'[i].item = thread[i].item
                     /\ thread'[i].left = thread[i].left
                     /\ thread'[i].isDeactivated = thread[i].isDeactivated

LEMMA InitInd == Init => IndInv
<1> SUFFICES ASSUME Init PROVE IndInv
  OBVIOUS
<1>0. 0 \in Slots /\ Boot \in Items /\ Pushes \in [Items -> Seq(Items)]
  BY WorkersAssumption DEF Slots
<1>1. NoThread \in Thread
  BY WorkersAssumption DEF NoThread, Thread, Places
<1>2. /\ Running(NoThread, Boot) \in Thread
      /\ Running(NoThread, Boot).at = "run" /\ Running(NoThread, Boot).item = Boot
      /\ Running(NoThread, Boot).left = Pushes[Boot]
      /\ Running(NoThread, Boot).isDeactivated = NoThread.isDeactivated
  BY <1>0, <1>1, RunningThread
<1>3. NoThread.at = "none" /\ NoThread.isDeactivated = FALSE
  BY DEF NoThread
<1>4. /\ thread \in [Slots -> Thread]
      /\ thread[0] = Running(NoThread, Boot)
      /\ \A i \in Slots \ {0} : thread[i] = NoThread
  BY <1>0, <1>1, <1>2 DEF Init
<1>5. TypeOK
  BY <1>0, <1>4, WorkersAssumption DEF Init, TypeOK
<1>6. DeactivatedWhere
  BY <1>2, <1>3, <1>4 DEF DeactivatedWhere
<1>7. NoneLeftBehind
  BY DEF Init, NoneLeftBehind
<1>8. LinesHoldItems
  <2>1. \A i \in -1 .. SlotCount - 1 : Lines[i] = <<>>
    BY WorkersAssumption DEF Init, Lines, Slots
  <2>2. Len(<<>>) = 0
    OBVIOUS
  <2>3. DOMAIN Lines = -1 .. SlotCount - 1
    BY DEF Lines
  <2>4. pushed \ started = {} /\ started \subseteq pushed
    BY DEF Init
  <2>5. \A i \in DOMAIN Lines : 1 .. Len(Lines[i]) = {}
    BY <2>1, <2>2, <2>3
  <2> QED BY <2>4, <2>5 DEF LinesHoldItems, Holds
<1>9. PushersStarted
  BY <1>0, PushedOnce DEF Init, PushersStarted
<1>10. BodiesInv
  <2>1. \A i \in Slots : thread[i].at = "run" => i = 0
    BY <1>3, <1>4
  <2>2. PushedSoFar(Boot, Pushes[Boot])
    <3>1. Pushes[Boot] \in Seq(Items) /\ Len(Pushes[Boot]) \in Nat
      BY <1>0
    <3>2. \A k \in 1 .. Len(Pushes[Boot]) : Pushes[Boot][k] \notin pushed
      BY <1>0, PushedOnce DEF Init
    <3>3. Boot \in started
      BY DEF Init
    <3> QED BY <3>1, <3>2, <3>3 DEF PushedSoFar
  <2> QED BY <1>0, <1>2, <1>4, <2>1, <2>2 DEF BodiesInv, Runs
<1> QED BY <1>5, <1>6, <1>7, <1>8, <1>9, <1>10 DEF IndInv

\* A step that changes where one thread is, but to no body, and no queue.
LEMMA QuietInd ==
    ASSUME IndInv, NEW i \in Slots,
           thread' \in [Slots -> Thread],
           \A j \in Slots \ {i} : thread'[j] = thread[j],
           thread'[i].at # "run",
           thread'[i].isDeactivated <=> thread'[i].at \in {"asleep", "awake"},
           thread'[i].at = "none" \/ thread'[i].isDeactivated => queue[i] = <<>>,
           UNCHANGED <<queue, global, pushed, started>>,
           threadCount' \in 1 .. SlotCount,
           booting' \in BootType
    PROVE  IndInv'
<1> USE DEF IndInv
<1>1. TypeOK'
  BY DEF TypeOK, BootType
<1>2. DeactivatedWhere'
  BY DEF DeactivatedWhere
<1>3. NoneLeftBehind'
  BY DEF NoneLeftBehind, Alive, At
<1>4. LinesHoldItems' /\ PushersStarted'
  BY DEF LinesHoldItems, Lines, PushersStarted
<1>5. BodiesInv'
  <2>1. \A x, l : PushedSoFar(x, l)' <=> PushedSoFar(x, l)
    BY DEF PushedSoFar
  <2> SUFFICES ASSUME NEW j \in Slots, thread'[j].at = "run"
               PROVE  /\ thread'[j].item \in Items
                      /\ PushedSoFar(thread[j].item, thread[j].left)'
                      /\ \A k \in Slots : Runs(k, thread[j].item)' => k = j
    BY DEF BodiesInv
  <2>2. thread'[j] = thread[j]
    OBVIOUS
  <2>3. PICK x, l : x = thread[j].item /\ l = thread[j].left
    OBVIOUS
  <2>4. x \in Items /\ PushedSoFar(x, l) /\ \A k \in Slots : Runs(k, x) => k = j
    BY <2>2, <2>3 DEF BodiesInv
  <2>5. PushedSoFar(x, l)'
    BY <2>1, <2>4
  <2>6. \A k \in Slots : Runs(k, x)' => Runs(k, x)
    BY DEF Runs
  <2> QED BY <2>2, <2>3, <2>4, <2>5, <2>6 DEF Runs, PushedSoFar
<1> QED BY <1>1, <1>2, <1>3, <1>4, <1>5

\* A thread takes item x from a line and runs it.
LEMMA StartInd ==
    ASSUME IndInv, NEW i \in Slots, NEW x \in pushed \ started,
           thread[i].at \in {"loop", "steal", "global"},
           Start(i, x),
           queue' \in [Slots -> Seq(Items)], global' \in Seq(Items),
           \A j \in Slots : queue[j] = <<>> => queue'[j] = <<>>,
           Holds(Lines', (pushed \ started) \ {x}),
           UNCHANGED <<threadCount, booting, pushed>>
    PROVE  IndInv'
<1> USE DEF IndInv
<1>0. x \in Items /\ thread[i] \in Thread /\ ~thread[i].isDeactivated
  BY DEF TypeOK, DeactivatedWhere
<1>1. /\ thread' \in [Slots -> Thread]
      /\ \A j \in Slots \ {i} : thread'[j] = thread[j]
      /\ thread'[i].at = "run" /\ thread'[i].item = x /\ thread'[i].left = Pushes[x]
      /\ ~thread'[i].isDeactivated
  BY <1>0, RunningThread DEF Start, TypeOK
<1>2. started' = started \cup {x}
  BY DEF Start
<1>3. TypeOK'
  BY <1>0, <1>1, <1>2 DEF TypeOK
<1>4. DeactivatedWhere' /\ NoneLeftBehind'
  BY <1>1 DEF DeactivatedWhere, NoneLeftBehind, Alive, At
<1>5. LinesHoldItems'
  <2>1. pushed' \ started' = (pushed \ started) \ {x} /\ started' \subseteq pushed'
    BY <1>2 DEF LinesHoldItems
  <2> QED BY <2>1 DEF LinesHoldItems
<1>6. PushersStarted'
  BY <1>2 DEF PushersStarted
<1>7. BodiesInv'
  <2>1. \A j \in Slots : ~Runs(j, x)
    BY DEF BodiesInv, Runs, PushedSoFar
  <2>2. PushedSoFar(x, Pushes[x])'
    <3>1. Len(Pushes[x]) \in Nat
      BY <1>0, WorkersAssumption
    <3>2. \A k \in 1 .. Len(Pushes[x]) : Pushes[x][k] \notin pushed
      BY <1>0 DEF PushersStarted
    <3> QED BY <1>2, <3>1, <3>2 DEF PushedSoFar
  <2>3. \A j \in Slots : \A y : Runs(j, y)' <=> IF j = i THEN y = x ELSE Runs(j, y)
    BY <1>1 DEF Runs
  <2>4. \A y, l : PushedSoFar(y, l) => PushedSoFar(y, l)'
    BY <1>2 DEF PushedSoFar
  <2> SUFFICES ASSUME NEW j \in Slots, thread'[j].at = "run"
               PROVE  /\ thread'[j].item \in Items
                      /\ PushedSoFar(thread[j].item, thread[j].left)'
                      /\ \A k \in Slots : Runs(k, thread[j].item)' => k = j
    BY DEF BodiesInv
  <2>5. PICK y, l : y = thread'[j].item /\ l = thread'[j].left
    OBVIOUS
  <2>6. y \in Items /\ PushedSoFar(y, l)' /\ \A k \in Slots : Runs(k, y)' => k = j
    <3>1. CASE j = i
      BY <1>0, <1>1, <2>1, <2>2, <2>3, <2>5, <3>1
    <3>2. CASE j # i
      <4>1. y \in Items /\ PushedSoFar(y, l) /\ \A k \in Slots : Runs(k, y) => k = j
        BY <1>1, <2>5, <3>2 DEF BodiesInv
      <4>2. Runs(j, y)
        BY <1>1, <2>5, <3>2 DEF Runs
      <4> QED BY <2>1, <2>3, <2>4, <4>1, <4>2
    <3> QED BY <3>1, <3>2
  <2> QED BY <2>5, <2>6 DEF Runs, PushedSoFar
<1> QED BY <1>3, <1>4, <1>5, <1>6, <1>7

\* A body pushes its next item, which was not pushed before.
LEMMA PushItemInd ==
    ASSUME IndInv, NEW i \in Slots, PushItem(i)
    PROVE  IndInv'
<1> USE DEF IndInv
<1>1. PICK y, left, P : y = thread[i].item /\ left = thread[i].left /\ P = Pushes[y]
  OBVIOUS
<1>2. /\ thread[i] \in Thread /\ thread[i].at = "run" /\ left # <<>>
      /\ left \in Seq(Items) /\ Len(left) \in Nat \ {0}
  BY <1>1 DEF PushItem, At, TypeOK, Thread
<1>3. y \in Items /\ PushedSoFar(y, left) /\ \A j \in Slots : Runs(j, y) => j = i
  BY <1>1, <1>2 DEF BodiesInv
<1>4. P \in Seq(Items) /\ Len(P) \in Nat
  BY <1>1, <1>3, WorkersAssumption
<1>a. /\ y \in started /\ Len(left) <= Len(P)
      /\ \A k \in 1 .. Len(left) : left[k] = P[Len(P) - Len(left) + k]
      /\ \A k \in 1 .. Len(P) : P[k] \in pushed => k <= Len(P) - Len(left)
  BY <1>1, <1>3 DEF PushedSoFar
<1>5. PICK n \in Nat : n = Len(P) - Len(left) + 1
  <2>1. Len(P) - Len(left) + 1 \in Nat
    BY <1>2, <1>4, <1>a
  <2> QED BY <2>1
<1>6. PICK x : x = Head(left)
  OBVIOUS
<1>7. n \in 1 .. Len(P) /\ x = P[n] /\ x \in Items
  <2>1. n \in 1 .. Len(P) /\ 1 \in 1 .. Len(left)
    BY <1>2, <1>4, <1>5, <1>a
  <2>2. x = left[1] /\ left[1] = P[n]
    BY <1>2, <1>5, <1>6, <1>a, <2>1
  <2> QED BY <1>4, <2>1, <2>2
<1>8. x \notin pushed
  BY <1>2, <1>4, <1>5, <1>7, <1>a
<1>9. /\ thread' \in [Slots -> Thread]
      /\ \A j \in Slots \ {i} : thread'[j] = thread[j]
      /\ thread'[i].at = "run" /\ thread'[i].item = y /\ thread'[i].left = Tail(left)
      /\ thread'[i].isDeactivated = thread[i].isDeactivated
  <2>1. thread' = [thread EXCEPT ![i].left = Tail(@)]
    BY DEF PushItem
  <2>2. Tail(left) \in Seq(Items)
    BY <1>2
  <2> QED BY <1>1, <1>2, <2>1, <2>2 DEF TypeOK, Thread
<1>10. /\ queue' = [queue EXCEPT ![i] = Append(@, x)] /\ global' = global
       /\ pushed' = pushed \cup {x} /\ started' = started
       /\ UNCHANGED <<threadCount, booting>>
  BY <1>1, <1>6 DEF PushItem
<1>11. /\ queue' \in [Slots -> Seq(Items)]
       /\ Lines' \in [-1 .. SlotCount - 1 -> Seq(Items)]
       /\ Lines'[i] = Append(Lines[i], x)
       /\ \A j \in (-1 .. SlotCount - 1) \ {i} : Lines'[j] = Lines[j]
  <2>1. queue[i] \in Seq(Items) /\ Lines[i] = queue[i]
    BY LinesType DEF TypeOK
  <2>2. Append(queue[i], x) \in Seq(Items)
    BY <1>7, <2>1
  <2>3. queue' = [queue EXCEPT ![i] = Append(queue[i], x)] /\ global' = global
    BY <1>10 DEF TypeOK
  <2> QED BY <2>1, <2>2, <2>3, QueueLine
<1>12. TypeOK'
  BY <1>7, <1>9, <1>10, <1>11 DEF TypeOK
<1>13. DeactivatedWhere'
  BY <1>2, <1>9 DEF DeactivatedWhere
<1>14. NoneLeftBehind'
  <2>1. ~thread[i].isDeactivated
    BY <1>2 DEF DeactivatedWhere
  <2> QED BY <1>9, <1>10, <2>1 DEF NoneLeftBehind, Alive, At, TypeOK
<1>15. LinesHoldItems'
  <2>1. pushed' \ started' = (pushed \ started) \cup {x} /\ started' \subseteq pushed'
    BY <1>8, <1>10 DEF LinesHoldItems
  <2>2. /\ Lines \in [-1 .. SlotCount - 1 -> Seq(Items)] /\ i \in -1 .. SlotCount - 1
    BY LinesType
  <2>3. Holds(Lines, pushed \ started) /\ x \notin pushed \ started
    BY <1>8 DEF LinesHoldItems
  <2>4. Holds(Lines', (pushed \ started) \cup {x})
    <3>1. PICK D, L, M, W : /\ D = -1 .. SlotCount - 1 /\ W = pushed \ started
                            /\ L = Lines /\ M = Lines'
      OBVIOUS
    <3>2. /\ L \in [D -> Seq(Items)] /\ M \in [D -> Seq(Items)]
          /\ i \in D /\ x \in Items /\ Holds(L, W) /\ x \notin W
          /\ M[i] = Append(L[i], x) /\ \A j \in D \ {i} : M[j] = L[j]
      BY <1>7, <1>11, <2>2, <2>3, <3>1
    <3>3. Holds(M, W \cup {x})
      BY <3>2, ItemJoins
    <3> QED BY <3>1, <3>3
  <2> QED BY <2>1, <2>4 DEF LinesHoldItems
<1>16. \A z \in Items : \A k \in 1 .. Len(Pushes[z]) : Pushes[z][k] = x => z = y /\ k = n
  BY <1>1, <1>3, <1>7, PushedOnce
<1>17. PushersStarted'
  BY <1>3, <1>10, <1>16 DEF PushersStarted, PushedSoFar
<1>18. BodiesInv'
  <2>1. \A j \in Slots : \A z : Runs(j, z)' <=> Runs(j, z)
    BY <1>1, <1>2, <1>9 DEF Runs
  <2>2. PushedSoFar(y, Tail(left))'
    <3>1. /\ Len(Tail(left)) = Len(left) - 1
          /\ \A k \in 1 .. Len(left) - 1 : Tail(left)[k] = left[k + 1]
      BY <1>2
    <3>3. \A k \in 1 .. Len(left) - 1 :
             Tail(left)[k] = P[Len(P) - (Len(left) - 1) + k]
      <4> TAKE k \in 1 .. Len(left) - 1
      <4>1. k + 1 \in 1 .. Len(left) /\ Tail(left)[k] = left[k + 1]
        BY <1>2, <3>1
      <4>2. left[k + 1] = P[Len(P) - Len(left) + (k + 1)]
        BY <1>a, <4>1
      <4>3. Len(P) - Len(left) + (k + 1) = Len(P) - (Len(left) - 1) + k
        BY <1>2, <1>4
      <4> QED BY <4>1, <4>2, <4>3
    <3>4. \A k \in 1 .. Len(P) : P[k] \in pushed' => k <= Len(P) - (Len(left) - 1)
      <4> TAKE k \in 1 .. Len(P)
      <4>1. P[k] = x => k = n
        BY <1>1, <1>3, <1>16
      <4> QED BY <1>2, <1>4, <1>5, <1>10, <1>a, <4>1
    <3>5. Len(left) - 1 <= Len(P)
      BY <1>2, <1>4, <1>a
    <3> QED BY <1>1, <1>10, <1>a, <3>1, <3>3, <3>4, <3>5 DEF PushedSoFar
  <2>3. ASSUME NEW z \in Items, z # y, NEW l, PushedSoFar(z, l)
        PROVE  PushedSoFar(z, l)'
    <3>1. \A k \in 1 .. Len(Pushes[z]) : Pushes[z][k] # x
      BY <1>16, <2>3
    <3> QED BY <1>10, <2>3, <3>1 DEF PushedSoFar
  <2> SUFFICES ASSUME NEW j \in Slots, thread'[j].at = "run"
               PROVE  /\ thread'[j].item \in Items
                      /\ PushedSoFar(thread[j].item, thread[j].left)'
                      /\ \A k \in Slots : Runs(k, thread[j].item)' => k = j
    BY DEF BodiesInv
  <2>5. PICK z, l : z = thread'[j].item /\ l = thread'[j].left
    OBVIOUS
  <2>6. z \in Items /\ PushedSoFar(z, l)' /\ \A k \in Slots : Runs(k, z)' => k = j
    <3>1. CASE j = i
      BY <1>3, <1>9, <2>1, <2>2, <2>5, <3>1
    <3>2. CASE j # i
      <4>1. z \in Items /\ PushedSoFar(z, l) /\ \A k \in Slots : Runs(k, z) => k = j
        BY <1>9, <2>5, <3>2 DEF BodiesInv
      <4>2. z # y
        BY <1>1, <1>2, <3>2, <4>1 DEF Runs
      <4> QED BY <2>1, <2>3, <4>1, <4>2
    <3> QED BY <3>1, <3>2
  <2> QED BY <2>5, <2>6 DEF Runs, PushedSoFar
<1> QED BY <1>12, <1>13, <1>14, <1>15, <1>17, <1>18

\* One item moves from the end of a worker's queue to the global one.
LEMMA DonateOneInd ==
    ASSUME IndInv, NEW i \in Slots, DonateOne(i)
    PROVE  IndInv'
<1> USE DEF IndInv
<1>1. PICK x, q : x = Last(queue[i]) /\ q = Front(queue[i])
  OBVIOUS
<1>2. /\ queue' = [queue EXCEPT ![i] = q] /\ global' = Append(global, x)
      /\ UNCHANGED <<thread, threadCount, booting, pushed, started>>
      /\ queue[i] # <<>>
  BY <1>1 DEF DonateOne
<1> DEFINE D == -1 .. SlotCount - 1  W == pushed \ started
           M == [Lines EXCEPT ![i] = q]
<1>3. /\ Lines \in [D -> Seq(Items)] /\ i \in D /\ -1 \in D /\ i # -1
      /\ Lines[i] = queue[i] /\ Lines[-1] = global
      /\ \A j \in D : j # -1 => j \in Slots
  BY LinesType, WorkersAssumption DEF Slots
<1>4. q \in Seq(Items)
  BY <1>1, <1>2 DEF Front, TypeOK
<1>5. /\ M \in [D -> Seq(Items)] /\ M[i] = q /\ M[-1] = global
      /\ \A j \in D \ {i} : M[j] = Lines[j]
  BY <1>3, <1>4
<1> HIDE DEF M
<1>6. x \in W /\ Holds(M, W \ {x})
  <2>1. PICK C, L, N, V : C = D /\ V = W /\ L = Lines /\ N = M
    OBVIOUS
  <2>2. /\ L \in [C -> Seq(Items)] /\ N \in [C -> Seq(Items)]
        /\ i \in C /\ Holds(L, V) /\ L[i] # <<>> /\ x = Last(L[i])
        /\ N[i] = Front(L[i]) /\ \A j \in C \ {i} : N[j] = L[j]
    BY <1>1, <1>2, <1>3, <1>5, <2>1 DEF LinesHoldItems
  <2>3. x \in V /\ Holds(N, V \ {x})
    BY <2>2, LastLeaves
  <2> QED BY <2>1, <2>3
<1>7. /\ queue' \in [Slots -> Seq(Items)] /\ global' \in Seq(Items) /\ x \in Items
  BY <1>2, <1>4, <1>6 DEF TypeOK
<1>8. LinesHoldItems'
  <2>1. /\ Lines' \in [D -> Seq(Items)]
        /\ Lines'[-1] = Append(M[-1], x)
        /\ \A j \in D \ {-1} : Lines'[j] = M[j]
    <3>1. Lines' = [j \in D |-> IF j = -1 THEN Append(global, x) ELSE queue'[j]]
      BY <1>2 DEF Lines
    <3>2. \A j \in D \ {-1} : queue'[j] = M[j]
      BY <1>2, <1>3, <1>5, LinesType DEF TypeOK
    <3> QED BY <1>2, <1>3, <1>5, <1>7, <3>1, <3>2
  <2>2. Holds(Lines', (W \ {x}) \cup {x})
    <3>1. PICK C, N, L, V : C = D /\ V = W \ {x} /\ N = M /\ L = Lines'
      OBVIOUS
    <3>2. /\ N \in [C -> Seq(Items)] /\ L \in [C -> Seq(Items)]
          /\ -1 \in C /\ x \in Items /\ Holds(N, V) /\ x \notin V
          /\ L[-1] = Append(N[-1], x) /\ \A j \in C \ {-1} : L[j] = N[j]
      BY <1>3, <1>5, <1>6, <1>7, <2>1, <3>1
    <3>3. Holds(L, V \cup {x})
      BY <3>2, ItemJoins
    <3> QED BY <3>1, <3>3
  <2>3. (W \ {x}) \cup {x} = W
    BY <1>6
  <2> QED BY <1>2, <2>2, <2>3 DEF LinesHoldItems
<1>9. TypeOK'
  BY <1>2, <1>7 DEF TypeOK
<1>10. DeactivatedWhere' /\ PushersStarted'
  BY <1>2 DEF DeactivatedWhere, PushersStarted
<1>11. NoneLeftBehind'
  BY <1>2 DEF NoneLeftBehind, Alive, At, TypeOK
<1>12. BodiesInv'
  BY <1>2 DEF BodiesInv, PushedSoFar, Runs
<1> QED BY <1>8, <1>9, <1>10, <1>11, <1>12

-----------------------------------------------------------------------------
(* The actions.                                                            *)

\* The first item of a line was waiting, and waits no longer.
LEMMA HeadTaken ==
    ASSUME IndInv, NEW d \in -1 .. SlotCount - 1, Lines[d] # <<>>,
           Lines' \in [-1 .. SlotCount - 1 -> Seq(Items)],
           Lines'[d] = Tail(Lines[d]),
           \A e \in (-1 .. SlotCount - 1) \ {d} : Lines'[e] = Lines[e]
    PROVE  /\ Head(Lines[d]) \in pushed \ started
           /\ Holds(Lines', (pushed \ started) \ {Head(Lines[d])})
<1>1. PICK C, L, N, V, x : /\ C = -1 .. SlotCount - 1 /\ V = pushed \ started
                           /\ L = Lines /\ N = Lines' /\ x = Head(Lines[d])
  OBVIOUS
<1>2. /\ L \in [C -> Seq(Items)] /\ N \in [C -> Seq(Items)]
      /\ d \in C /\ Holds(L, V) /\ L[d] # <<>> /\ x = Head(L[d])
      /\ N[d] = Tail(L[d]) /\ \A e \in C \ {d} : N[e] = L[e]
  BY <1>1, LinesType DEF IndInv, LinesHoldItems
<1>3. x \in V /\ Holds(N, V \ {x})
  BY <1>2, HeadLeaves
<1> QED BY <1>1, <1>3

\* So was the last one.
LEMMA LastTaken ==
    ASSUME IndInv, NEW d \in -1 .. SlotCount - 1, Lines[d] # <<>>,
           Lines' \in [-1 .. SlotCount - 1 -> Seq(Items)],
           Lines'[d] = Front(Lines[d]),
           \A e \in (-1 .. SlotCount - 1) \ {d} : Lines'[e] = Lines[e]
    PROVE  /\ Last(Lines[d]) \in pushed \ started
           /\ Holds(Lines', (pushed \ started) \ {Last(Lines[d])})
<1>1. PICK C, L, N, V, x : /\ C = -1 .. SlotCount - 1 /\ V = pushed \ started
                           /\ L = Lines /\ N = Lines' /\ x = Last(Lines[d])
  OBVIOUS
<1>2. /\ L \in [C -> Seq(Items)] /\ N \in [C -> Seq(Items)]
      /\ d \in C /\ Holds(L, V) /\ L[d] # <<>> /\ x = Last(L[d])
      /\ N[d] = Front(L[d]) /\ \A e \in C \ {d} : N[e] = L[e]
  BY <1>1, LinesType DEF IndInv, LinesHoldItems
<1>3. x \in V /\ Holds(N, V \ {x})
  BY <1>2, LastLeaves
<1> QED BY <1>1, <1>3

LEMMA TakeFromGlobalInd ==
    ASSUME IndInv, NEW i \in Slots, thread[i].at \in {"loop", "global"},
           global # <<>>, TakeFromGlobal(i)
    PROVE  IndInv'
<1>1. TypeOK /\ global \in Seq(Items) /\ Tail(global) \in Seq(Items)
  BY DEF IndInv, TypeOK
<1>2. global' = Tail(global) /\ UNCHANGED <<queue, threadCount, booting, pushed>>
  BY DEF TakeFromGlobal
<1>3. -1 \in -1 .. SlotCount - 1 /\ Lines[-1] = global
  BY <1>1, LinesType
<1>4. /\ Lines' \in [-1 .. SlotCount - 1 -> Seq(Items)]
      /\ Lines'[-1] = Tail(global)
      /\ \A j \in (-1 .. SlotCount - 1) \ {-1} : Lines'[j] = Lines[j]
  BY <1>1, <1>2, GlobalLine
<1>5. /\ Head(global) \in pushed \ started
      /\ Holds(Lines', (pushed \ started) \ {Head(global)})
  BY <1>3, <1>4, HeadTaken
<1>6. Start(i, Head(global))
  BY DEF TakeFromGlobal
<1> QED BY <1>1, <1>2, <1>5, <1>6, StartInd DEF TypeOK

LEMMA TakeOwnInd ==
    ASSUME IndInv, NEW i \in Slots, TakeOwn(i)
    PROVE  IndInv'
<1>1. TypeOK /\ queue[i] \in Seq(Items) /\ Front(queue[i]) \in Seq(Items)
  BY DEF IndInv, TypeOK, TakeOwn, Front
<1>2. /\ queue' = [queue EXCEPT ![i] = Front(queue[i])] /\ queue[i] # <<>>
      /\ UNCHANGED <<global, threadCount, booting, pushed>>
      /\ thread[i].at = "loop" /\ Start(i, Last(queue[i]))
  BY <1>1 DEF TakeOwn, At, TypeOK
<1>3. i \in -1 .. SlotCount - 1 /\ Lines[i] = queue[i]
  BY <1>1, LinesType
<1>4. /\ queue' \in [Slots -> Seq(Items)]
      /\ Lines' \in [-1 .. SlotCount - 1 -> Seq(Items)]
      /\ Lines'[i] = Front(queue[i])
      /\ \A j \in (-1 .. SlotCount - 1) \ {i} : Lines'[j] = Lines[j]
  BY <1>1, <1>2, QueueLine
<1>5. /\ Last(queue[i]) \in pushed \ started
      /\ Holds(Lines', (pushed \ started) \ {Last(queue[i])})
  BY <1>2, <1>3, <1>4, LastTaken
<1>6. \A j \in Slots : queue[j] = <<>> => queue'[j] = <<>>
  BY <1>1, <1>2 DEF TypeOK
<1>7. global' \in Seq(Items)
  BY <1>1, <1>2 DEF TypeOK
<1> QED BY <1>2, <1>4, <1>5, <1>6, <1>7, StartInd

LEMMA StealItemInd ==
    ASSUME IndInv, NEW i \in Slots, NEW v \in Slots, StealItem(i, v)
    PROVE  IndInv'
<1>1. TypeOK /\ queue[v] \in Seq(Items) /\ Tail(queue[v]) \in Seq(Items)
  BY DEF IndInv, TypeOK, StealItem
<1>2. /\ queue' = [queue EXCEPT ![v] = Tail(queue[v])] /\ queue[v] # <<>>
      /\ UNCHANGED <<global, threadCount, booting, pushed>>
      /\ thread[i].at = "steal" /\ Start(i, Head(queue[v]))
  BY <1>1 DEF StealItem, At, TypeOK
<1>3. v \in -1 .. SlotCount - 1 /\ Lines[v] = queue[v]
  BY <1>1, LinesType
<1>4. /\ queue' \in [Slots -> Seq(Items)]
      /\ Lines' \in [-1 .. SlotCount - 1 -> Seq(Items)]
      /\ Lines'[v] = Tail(queue[v])
      /\ \A j \in (-1 .. SlotCount - 1) \ {v} : Lines'[j] = Lines[j]
  BY <1>1, <1>2, QueueLine
<1>5. /\ Head(queue[v]) \in pushed \ started
      /\ Holds(Lines', (pushed \ started) \ {Head(queue[v])})
  BY <1>2, <1>3, <1>4, HeadTaken
<1>6. \A j \in Slots : queue[j] = <<>> => queue'[j] = <<>>
  BY <1>1, <1>2 DEF TypeOK
<1>7. global' \in Seq(Items)
  BY <1>1, <1>2 DEF TypeOK
<1> QED BY <1>2, <1>4, <1>5, <1>6, <1>7, StartInd

LEMMA GotoThread ==
    ASSUME TypeOK, NEW i \in Slots, NEW place \in Places, Goto(i, place)
    PROVE  /\ thread' \in [Slots -> Thread]
           /\ \A j \in Slots \ {i} : thread'[j] = thread[j]
           /\ thread'[i].at = place
           /\ thread'[i].isDeactivated = thread[i].isDeactivated
BY DEF Goto, TypeOK, Thread

\* Steps that only move a thread to another place.
LEMMA GotoInd ==
    ASSUME IndInv, NEW i \in Slots, NEW place \in Places, Goto(i, place),
           place \notin {"none", "run", "asleep", "awake"},
           thread[i].at \notin {"asleep", "awake"},
           UNCHANGED <<queue, global, pushed, started>>,
           threadCount' \in 1 .. SlotCount,
           booting' \in BootType
    PROVE  IndInv'
<1>1. /\ thread' \in [Slots -> Thread]
      /\ \A j \in Slots \ {i} : thread'[j] = thread[j]
      /\ thread'[i].at = place
      /\ thread'[i].isDeactivated = thread[i].isDeactivated
  BY GotoThread DEF IndInv
<1>2. ~thread[i].isDeactivated
  BY DEF IndInv, DeactivatedWhere
<1> QED BY <1>1, <1>2, QuietInd

LEMMA MoveInd ==
    ASSUME IndInv, NEW i \in Slots,
           \/ TestCount(i) \/ SetCount(i) \/ NothingOwn(i)
           \/ \E v \in Slots : StealNothing(i, v)
           \/ EndBody(i) \/ Unblock(i) \/ KillBody(i)
           \/ At(i, "global") /\ Goto(i, "loop")
              /\ UNCHANGED <<queue, global, threadCount, booting, pushed, started>>
    PROVE  IndInv'
<1>0. /\ threadCount \in 1 .. SlotCount
      /\ booting \in BootType
      /\ i + 1 \in 1 .. SlotCount
  BY WorkersAssumption DEF IndInv, TypeOK, Slots, BootType
<1>1. PICK place \in Places :
        /\ Goto(i, place)
        /\ place \notin {"none", "run", "asleep", "awake"}
  BY DEF TestCount, SetCount, NothingOwn, StealNothing, EndBody, Unblock,
         KillBody, Places
<1>2. thread[i].at \notin {"asleep", "awake"}
  BY DEF TestCount, SetCount, NothingOwn, StealNothing, EndBody, Unblock,
         KillBody, At, Alive
<1>3. UNCHANGED <<queue, global, pushed, started>>
  BY DEF TestCount, SetCount, NothingOwn, StealNothing, EndBody, Unblock,
         KillBody
<1>4. /\ threadCount' \in 1 .. SlotCount
      /\ booting' \in BootType
  BY <1>0 DEF TestCount, SetCount, NothingOwn, StealNothing, EndBody, Unblock,
         KillBody
<1> QED BY <1>1, <1>2, <1>3, <1>4, GotoInd

LEMMA AfterItemInd ==
    ASSUME IndInv, NEW i \in Slots, AfterItem(i)
    PROVE  IndInv'
<1>1. ~thread[i].isDeactivated
  BY DEF IndInv, DeactivatedWhere, AfterItem, At
<1>2. PICK place \in {"donate", "loop"} :
        place = IF thread[i].wasObservedAsBlocked THEN "donate" ELSE "loop"
  OBVIOUS
<1>3. thread \in [Slots -> Thread]
  BY DEF IndInv, TypeOK
<1>4. PICK t : t = [thread EXCEPT ![i].item = NoItem]
  OBVIOUS
<1>5. /\ t \in [Slots -> Thread]
      /\ \A j \in Slots \ {i} : t[j] = thread[j]
      /\ t[i].isDeactivated = thread[i].isDeactivated
  BY <1>3, <1>4 DEF Thread
<1>6. PICK u : u = [t EXCEPT ![i].wasObservedAsBlocked = FALSE]
  OBVIOUS
<1>7. /\ u \in [Slots -> Thread]
      /\ \A j \in Slots \ {i} : u[j] = t[j]
      /\ u[i].isDeactivated = t[i].isDeactivated
  BY <1>5, <1>6 DEF Thread
<1>8. thread' = [u EXCEPT ![i].at = place]
  BY <1>2, <1>4, <1>6 DEF AfterItem
<1>9. place \in Places
  BY DEF Places
<1>10. /\ thread' \in [Slots -> Thread]
       /\ \A j \in Slots \ {i} : thread'[j] = u[j]
       /\ thread'[i].at = place
       /\ thread'[i].isDeactivated = u[i].isDeactivated
  BY <1>7, <1>8, <1>9 DEF Thread
<1> QED BY <1>1, <1>5, <1>7, <1>10, QuietInd DEF AfterItem, IndInv, TypeOK, BootType

LEMMA DeactivateInd ==
    ASSUME IndInv, NEW i \in Slots, Deactivate(i)
    PROVE  IndInv'
<1>1. CASE DonateOne(i)
  BY <1>1, DonateOneInd
<1>2. CASE ~DonateOne(i)
  <2>1. /\ queue[i] = <<>>
        /\ thread' = [thread EXCEPT ![i].isDeactivated = TRUE, ![i].at = "asleep"]
        /\ UNCHANGED <<queue, global, threadCount, booting, pushed, started>>
    BY <1>2 DEF Deactivate
  <2>2. /\ thread' \in [Slots -> Thread]
        /\ \A j \in Slots \ {i} : thread'[j] = thread[j]
        /\ thread'[i].at = "asleep" /\ thread'[i].isDeactivated
    BY <2>1 DEF IndInv, TypeOK, Thread, Places
  <2> QED BY <2>1, <2>2, QuietInd DEF IndInv, TypeOK, BootType
<1> QED BY <1>1, <1>2

LEMMA WakeInd ==
    ASSUME IndInv, NEW i \in Slots, Wake(i)
    PROVE  IndInv'
<1>1. thread[i].isDeactivated /\ queue[i] = <<>>
  BY DEF IndInv, DeactivatedWhere, NoneLeftBehind, Wake, At
<1>2. /\ thread' \in [Slots -> Thread]
      /\ \A j \in Slots \ {i} : thread'[j] = thread[j]
      /\ \/ thread'[i].at = "awake" /\ thread'[i].isDeactivated
         \/ thread'[i].at = "loop" /\ ~thread'[i].isDeactivated
  <2>1. CASE At(i, "asleep") /\ thread[i].reactivate > 0
              /\ thread' = [thread EXCEPT ![i].reactivate = @ - 1, ![i].at = "awake"]
    <3>1. thread \in [Slots -> Thread] /\ thread[i] \in Thread
      BY DEF IndInv, TypeOK
    <3>2. PICK r \in 0 .. MaxPosts : r = thread[i].reactivate - 1
      BY <2>1, <3>1, WorkersAssumption DEF Thread
    <3>3. thread' = [thread EXCEPT ![i].reactivate = r, ![i].at = "awake"]
      BY <2>1, <3>1, <3>2
    <3>4. PICK t : t = [thread EXCEPT ![i].reactivate = r]
      OBVIOUS
    <3>5. /\ t \in [Slots -> Thread]
          /\ \A j \in Slots \ {i} : t[j] = thread[j]
          /\ t[i].isDeactivated = thread[i].isDeactivated
      BY <3>1, <3>4 DEF Thread
    <3>6. thread' = [t EXCEPT ![i].at = "awake"]
      BY <3>3, <3>4
    <3> QED BY <1>1, <3>5, <3>6 DEF Thread, Places
  <2>2. CASE thread' = [thread EXCEPT ![i].isDeactivated = FALSE, ![i].at = "loop"]
    BY <2>2 DEF IndInv, TypeOK, Thread, Places
  <2> QED BY <2>1, <2>2 DEF Wake
<1> QED BY <1>1, <1>2, QuietInd DEF Wake, IndInv, TypeOK, BootType

LEMMA ExitInd ==
    ASSUME IndInv, NEW i \in Slots, Exit(i)
    PROVE  IndInv'
<1>1. CASE DonateOne(i)
  BY <1>1, DonateOneInd
<1>2. CASE ~DonateOne(i)
  <2>1. /\ queue[i] = <<>> /\ thread[i].at = "exit"
        /\ thread' = [thread EXCEPT ![i].at = "none", ![i].item = NoItem, ![i].left = <<>>]
        /\ UNCHANGED <<queue, global, threadCount, booting, pushed, started>>
    BY <1>2 DEF Exit, At
  <2>2. ~thread[i].isDeactivated
    BY <2>1 DEF IndInv, DeactivatedWhere
  <2>3. /\ thread' \in [Slots -> Thread]
        /\ \A j \in Slots \ {i} : thread'[j] = thread[j]
        /\ thread'[i].at = "none" /\ ~thread'[i].isDeactivated
    <3>1. thread \in [Slots -> Thread]
      BY DEF IndInv, TypeOK
    <3>2. PICK t : t = [thread EXCEPT ![i].at = "none", ![i].item = NoItem]
      OBVIOUS
    <3>3. /\ t \in [Slots -> Thread]
          /\ \A j \in Slots \ {i} : t[j] = thread[j]
          /\ t[i].at = "none" /\ ~t[i].isDeactivated
      BY <2>2, <3>1, <3>2 DEF Thread, Places
    <3>4. thread' = [t EXCEPT ![i].left = <<>>]
      BY <2>1, <3>2
    <3>5. PICK e \in Seq(Items) : e = <<>>
      BY EmptySeq
    <3>6. thread' = [t EXCEPT ![i].left = e]
      BY <3>4, <3>5
    <3> QED BY <3>3, <3>6 DEF Thread
  <2> QED BY <2>1, <2>3, QuietInd DEF IndInv, TypeOK, BootType
<1> QED BY <1>1, <1>2

\* sysmon notes who waits and posts semaphores.
LEMMA SysmonThreads ==
    ASSUME TypeOK, SysmonTick
    PROVE  /\ thread' \in [Slots -> Thread] /\ SameThreads
           /\ booting' \in BootType
           /\ booting' = booting \/ (Living <= Target + Extra /\ Spawn)
           /\ UNCHANGED <<queue, global, threadCount, pushed, started>>
<1>0. thread \in [Slots -> Thread] /\ booting \in BootType /\ MaxPosts \in Nat
  BY WorkersAssumption DEF TypeOK, BootType
<1>1. PICK blocked \in {Waiting \cup more : more \in SUBSET MayWait} :
        LET seen == [i \in Slots |->
                       IF i \in Observed
                       THEN [thread[i] EXCEPT !.wasObservedAsBlocked = i \in blocked]
                       ELSE thread[i]]
        IN  /\ IF Cardinality(Observed \ blocked) < Target
               THEN ReactivateOrSpawn(seen)
               ELSE thread' = seen /\ UNCHANGED booting
            /\ UNCHANGED <<queue, global, threadCount, pushed, started>>
  BY DEF SysmonTick
<1>2. PICK seen : seen = [i \in Slots |->
                            IF i \in Observed
                            THEN [thread[i] EXCEPT !.wasObservedAsBlocked = i \in blocked]
                            ELSE thread[i]]
  OBVIOUS
<1>3. seen \in [Slots -> Thread]
  <2> SUFFICES ASSUME NEW i \in Slots
               PROVE  (IF i \in Observed
                       THEN [thread[i] EXCEPT !.wasObservedAsBlocked = i \in blocked]
                       ELSE thread[i]) \in Thread
    BY <1>2
  <2>1. PICK b \in BOOLEAN : b = (i \in blocked)
    <3>1. (i \in blocked) \in BOOLEAN
      OBVIOUS
    <3> QED BY <3>1, Zenon
  <2>2. thread[i] \in Thread
    BY <1>0
  <2>3. [thread[i] EXCEPT !.wasObservedAsBlocked = b] \in Thread
    BY <2>2 DEF Thread
  <2> QED BY <2>1, <2>2, <2>3
<1>4. \A i \in Slots : /\ seen[i].at = thread[i].at
                       /\ seen[i].item = thread[i].item
                       /\ seen[i].left = thread[i].left
                       /\ seen[i].isDeactivated = thread[i].isDeactivated
  BY <1>0, <1>2 DEF Thread
<1>5. \/ ReactivateOrSpawn(seen)
      \/ thread' = seen /\ booting' = booting
  BY <1>1, <1>2
<1>6. PICK f : f = CHOOSE i \in Deactivated : \A j \in Deactivated : i <= j
  OBVIOUS
<1>7. \/ thread' = seen
      \/ seen[f].reactivate < MaxPosts
         /\ thread' = [seen EXCEPT ![f].reactivate = seen[f].reactivate + 1]
  <2>1. CASE ReactivateOrSpawn(seen)
    <3>1. CASE Deactivated # {}
      BY <1>6, <2>1, <3>1 DEF ReactivateOrSpawn
    <3>2. CASE Deactivated = {}
      BY <2>1, <3>2 DEF ReactivateOrSpawn
    <3> QED BY <3>1, <3>2
  <2> QED BY <1>5, <2>1
<1>8. thread' \in [Slots -> Thread] /\ SameThreads
  <2>1. CASE thread' = seen
    BY <1>3, <1>4, <2>1 DEF SameThreads
  <2>2. CASE f \notin Slots /\ thread' = [seen EXCEPT ![f].reactivate = seen[f].reactivate + 1]
    <3>1. thread' = seen
      BY <1>3, <2>2
    <3> QED BY <2>1, <3>1
  <2>3. CASE f \in Slots /\ seen[f].reactivate < MaxPosts
             /\ thread' = [seen EXCEPT ![f].reactivate = seen[f].reactivate + 1]
    <3>1. PICK r \in 0 .. MaxPosts : r = seen[f].reactivate + 1
      BY <1>0, <1>3, <2>3 DEF Thread
    <3>2. thread' = [seen EXCEPT ![f].reactivate = r] /\ f \in Slots
      BY <2>3, <3>1
    <3>3. thread' \in [Slots -> Thread]
      BY <1>3, <3>2 DEF Thread
    <3>4. \A i \in Slots : /\ thread'[i].at = seen[i].at
                           /\ thread'[i].item = seen[i].item
                           /\ thread'[i].left = seen[i].left
                           /\ thread'[i].isDeactivated = seen[i].isDeactivated
      BY <1>3, <3>2 DEF Thread
    <3> QED BY <1>4, <3>3, <3>4 DEF SameThreads
  <2> QED BY <1>7, <2>1, <2>2, <2>3
<1>9. booting' = booting \/ (Living <= Target + Extra /\ Spawn)
  BY <1>5 DEF ReactivateOrSpawn
<1>10. booting' \in BootType
  <2>1. 0 \in {NotBooting} \cup 0 .. SlotCount
    BY WorkersAssumption
  <2> QED BY <1>0, <1>9, <2>1 DEF Spawn, BootType
<1> QED BY <1>1, <1>8, <1>9, <1>10

\* Steps that move no thread and no item.
LEMMA SameInd ==
    ASSUME IndInv, thread' \in [Slots -> Thread], SameThreads,
           UNCHANGED <<queue, global, threadCount, pushed, started>>,
           booting' \in BootType
    PROVE  IndInv'
<1> USE DEF IndInv
<1>1. TypeOK'
  BY DEF TypeOK, BootType
<1>2. DeactivatedWhere'
  BY DEF DeactivatedWhere, SameThreads
<1>3. NoneLeftBehind'
  BY DEF NoneLeftBehind, Alive, At, SameThreads
<1>4. Lines' = Lines
  BY DEF Lines
<1>5. LinesHoldItems' /\ PushersStarted'
  BY <1>4 DEF LinesHoldItems, Holds, PushersStarted
<1>6. BodiesInv'
  <2>1. \A x, l : PushedSoFar(x, l)' <=> PushedSoFar(x, l)
    BY DEF PushedSoFar
  <2> SUFFICES ASSUME NEW j \in Slots, thread'[j].at = "run"
               PROVE  /\ thread'[j].item \in Items
                      /\ PushedSoFar(thread[j].item, thread[j].left)'
                      /\ \A k \in Slots : Runs(k, thread[j].item)' => k = j
    BY DEF BodiesInv
  <2>2. PICK x, l : x = thread[j].item /\ l = thread[j].left
    OBVIOUS
  <2>3. thread[j].at = "run" /\ x = thread'[j].item /\ l = thread'[j].left
    BY <2>2 DEF SameThreads
  <2>4. x \in Items /\ PushedSoFar(x, l) /\ \A k \in Slots : Runs(k, x) => k = j
    BY <2>2, <2>3 DEF BodiesInv
  <2>5. PushedSoFar(x, l)'
    BY <2>1, <2>4
  <2>6. \A k \in Slots : Runs(k, x)' => Runs(k, x)
    BY DEF Runs, SameThreads
  <2> QED BY <2>3, <2>4, <2>5, <2>6 DEF Runs, PushedSoFar
<1> QED BY <1>1, <1>2, <1>3, <1>5, <1>6

LEMMA TrySlotInd ==
    ASSUME IndInv, NEW b \in Boots, NEW i \in Slots, TrySlot(b, i)
    PROVE  IndInv'
<1>0. booting \in BootType /\ threadCount \in 1 .. SlotCount /\ thread \in [Slots -> Thread]
  BY DEF IndInv, TypeOK, BootType
<1>1. {i + 1, NotBooting} \subseteq {NotBooting} \cup 0 .. SlotCount
  BY WorkersAssumption DEF Slots
<1>2. booting' \in BootType
  BY <1>0, <1>1 DEF TrySlot, BootType
<1>3. CASE Alive(i)
  BY <1>0, <1>2, <1>3, SameInd DEF TrySlot, SameThreads
<1>4. CASE ~Alive(i)
  <2>1. Goto(i, "count") /\ UNCHANGED <<queue, global, threadCount, pushed, started>>
    BY <1>4 DEF TrySlot
  <2>2. thread[i].at \notin {"asleep", "awake"}
    BY <1>4 DEF Alive, At
  <2> QED BY <1>0, <1>2, <2>1, <2>2, GotoInd DEF Places
<1> QED BY <1>3, <1>4

LEMMA NextInd == IndInv /\ [Next]_vars => IndInv'
<1> SUFFICES ASSUME IndInv, [Next]_vars PROVE IndInv'
  OBVIOUS
<1>1. CASE UNCHANGED vars
  <2>1. UNCHANGED <<thread, queue, global, threadCount, booting, pushed, started>>
    BY <1>1 DEF vars
  <2> QED BY <2>1, SameInd DEF IndInv, TypeOK, SameThreads, BootType
<1>2. CASE SysmonTick
  BY <1>2, SysmonThreads, SameInd DEF IndInv
<1>3. ASSUME NEW i \in Slots, Step(i) \/ KillBody(i)
      PROVE  IndInv'
  <2>1. CASE TakeGlobalFirst(i)
    BY <2>1, TakeFromGlobalInd DEF TakeGlobalFirst, At
  <2>2. CASE TakeGlobalLast(i)
    BY <2>2, TakeFromGlobalInd, MoveInd DEF TakeGlobalLast, At
  <2>3. CASE TakeOwn(i)
    BY <2>3, TakeOwnInd
  <2>4. CASE \E v \in Slots : StealItem(i, v)
    BY <2>4, StealItemInd
  <2>5. CASE PushItem(i)
    BY <2>5, PushItemInd
  <2>6. CASE AfterItem(i) \/ Deactivate(i) \/ Wake(i) \/ Exit(i)
    BY <2>6, AfterItemInd, DeactivateInd, WakeInd, ExitInd
  <2>7. CASE \/ TestCount(i) \/ SetCount(i) \/ NothingOwn(i)
             \/ \E v \in Slots : StealNothing(i, v)
             \/ EndBody(i) \/ Unblock(i) \/ KillBody(i)
    BY <2>7, MoveInd
  <2> QED BY <1>3, <2>1, <2>2, <2>3, <2>4, <2>5, <2>6, <2>7 DEF Step
<1>4. ASSUME NEW b \in Boots, NEW i \in Slots, TrySlot(b, i)
      PROVE  IndInv'
  BY <1>4, TrySlotInd
<1> QED BY <1>1, <1>2, <1>3, <1>4 DEF Next

LEMMA Invariance == Spec => []IndInv
<1>1. Init => IndInv
  BY InitInd
<1>2. IndInv /\ [Next]_vars => IndInv'
  BY NextInd
<1> QED BY <1>1, <1>2, PTL DEF Spec

-----------------------------------------------------------------------------
(* The properties.                                                         *)

\* Lines that hold the items W hold each of them in one place, and no other.
LEMMA PlacesOfHeld ==
    ASSUME TypeOK, LinesHoldItems, NEW x \in Items
    PROVE  Cardinality(PlacesOf(x)) = IF x \in pushed \ started THEN 1 ELSE 0
<1> DEFINE D == -1 .. SlotCount - 1
<1>0. Lines \in [D -> Seq(Items)] /\ DOMAIN Lines = D
  BY LinesType
<1>1. \A p : p \in PlacesOf(x)
             <=> \E i \in D : \E k \in 1 .. Len(Lines[i]) : p = <<i, k>> /\ Lines[i][k] = x
  <2> SUFFICES ASSUME NEW p
               PROVE  p \in PlacesOf(x)
                      <=> \E i \in D : \E k \in 1 .. Len(Lines[i]) :
                             p = <<i, k>> /\ Lines[i][k] = x
    OBVIOUS
  <2> DEFINE K(i) == {k \in 1 .. Len(Lines[i]) : Lines[i][k] = x}
  <2>1. p \in PlacesOf(x) <=> \E i \in D : p \in {i} \X K(i)
    BY <1>0, Zenon DEF PlacesOf
  <2>2. ASSUME NEW i \in D
        PROVE  p \in {i} \X K(i) <=> \E k \in K(i) : p = <<i, k>>
    <3>1. PICK S : S = K(i)
      OBVIOUS
    <3>2. p \in {i} \X S <=> \E k \in S : p = <<i, k>>
      OBVIOUS
    <3> QED BY <3>1, <3>2
  <2>3. ASSUME NEW i \in D
        PROVE  (\E k \in K(i) : p = <<i, k>>)
               <=> \E k \in 1 .. Len(Lines[i]) : p = <<i, k>> /\ Lines[i][k] = x
    BY Zenon
  <2> QED BY <2>1, <2>2, <2>3
<1>2. CASE x \notin pushed \ started
  <2>1. PlacesOf(x) = {}
    BY <1>0, <1>1, <1>2 DEF LinesHoldItems, Holds
  <2> QED BY <1>2, <2>1, FS_EmptySet
<1>3. CASE x \in pushed \ started
  <2>1. PICK i \in D : \E k \in 1 .. Len(Lines[i]) : Lines[i][k] = x
    BY <1>0, <1>3 DEF LinesHoldItems, Holds
  <2>2. PICK k \in 1 .. Len(Lines[i]) : Lines[i][k] = x
    BY <2>1
  <2>3. \A j \in D : \A l \in 1 .. Len(Lines[j]) : Lines[j][l] = x => j = i /\ l = k
    BY <1>0, <2>2 DEF LinesHoldItems, Holds
  <2>4. PlacesOf(x) = {<<i, k>>}
    BY <1>1, <2>2, <2>3, Zenon
  <2>5. Cardinality({<<i, k>>}) = 1
    BY FS_Singleton
  <2> QED BY <1>3, <2>4, <2>5
<1> QED BY <1>2, <1>3

\* Every variable keeps its type: a thread is in a known place with a known
\* item, and threadCount never exceeds THREADS_MAX.
THEOREM WorkersTypeCorrect == Spec => []TypeOK
<1>1. IndInv => TypeOK
  BY DEF IndInv
<1> QED BY <1>1, Invariance, PTL

\* A pushed item waits in exactly one place of the worker and global queues
\* until it is run, and no item is there twice or after it was run: stealing
\* (workQueueSteal), the donation before a deactivation (workerRun) and the one
\* of workerExit lose nothing and repeat nothing.
THEOREM WorkersConserveItems == Spec => []ItemsConserved
<1>1. IndInv => ItemsConserved
  BY PlacesOfHeld DEF IndInv, ItemsConserved
<1> QED BY <1>1, Invariance, PTL

\* The queue of a slot without a thread, or with a deactivated one, is empty:
\* what the comment in workerExit relies on.
THEOREM WorkersLeaveNoneBehind == Spec => []NoneLeftBehind
<1>1. IndInv => NoneLeftBehind
  BY DEF IndInv
<1> QED BY <1>1, Invariance, PTL

-----------------------------------------------------------------------------
(* The slots.                                                              *)

AliveSlots == {i \in Slots : thread[i].at # "none"}

\* The living threads in slot j or beyond, and the booting ones that have come
\* as far as j.
AliveFrom(j) == {i \in AliveSlots : i >= j}
BootsFrom(j) == {b \in Boots : booting[b] >= j}

\* There is room in the slots from j on for all of both.
RoomFrom(j) == Cardinality(AliveFrom(j)) + Cardinality(BootsFrom(j)) <= SlotCount - j
Room == \A j \in 0 .. SlotCount : RoomFrom(j)

LEMMA SlotSets ==
    /\ IsFiniteSet(AliveSlots) /\ Living = Cardinality(AliveSlots) /\ Living \in Nat
    /\ \A j : IsFiniteSet(AliveFrom(j)) /\ Cardinality(AliveFrom(j)) \in Nat
    /\ \A j : IsFiniteSet(BootsFrom(j)) /\ Cardinality(BootsFrom(j)) \in 0 .. MaxBooting
<1>1. IsFiniteSet(Slots) /\ IsFiniteSet(Boots) /\ Cardinality(Boots) = MaxBooting
  BY FS_Interval, WorkersAssumption DEF Slots, Boots
<1>2. IsFiniteSet(AliveSlots)
  BY <1>1, FS_Subset DEF AliveSlots
<1>3. Living = Cardinality(AliveSlots)
  BY DEF Living, AliveSlots, Alive, At
<1>4. \A j : IsFiniteSet(AliveFrom(j))
  BY <1>2, FS_Subset DEF AliveFrom
<1>5. ASSUME NEW j
      PROVE  IsFiniteSet(BootsFrom(j)) /\ Cardinality(BootsFrom(j)) \in 0 .. MaxBooting
  <2>1. BootsFrom(j) \subseteq Boots
    BY DEF BootsFrom
  <2> QED BY <1>1, <2>1, FS_Subset, FS_CardinalityType, WorkersAssumption
<1> QED BY <1>2, <1>3, <1>4, <1>5, FS_CardinalityType

\* The step of a booting thread from a taken slot to the next one, or into a
\* free one; what a step does to the living and the booting threads.
StepsOver(b, i) ==
    /\ booting[b] = i /\ i \in AliveSlots /\ AliveSlots' = AliveSlots
    /\ booting' = [booting EXCEPT ![b] = i + 1]

Takes(b, i) ==
    /\ booting[b] = i /\ i \in Slots \ AliveSlots /\ AliveSlots' = AliveSlots \cup {i}
    /\ booting' = [booting EXCEPT ![b] = NotBooting]

Created(b) ==
    /\ booting[b] = NotBooting /\ Living <= Target + Extra /\ AliveSlots' = AliveSlots
    /\ booting' = [booting EXCEPT ![b] = 0]

LEMMA AliveStep ==
    ASSUME TypeOK, [Next]_vars
    PROVE  \/ AliveSlots' \subseteq AliveSlots /\ booting' = booting
           \/ \E b \in Boots : Created(b)
           \/ \E b \in Boots, i \in Slots : StepsOver(b, i) \/ Takes(b, i)
<1>0. thread \in [Slots -> Thread]
  BY DEF TypeOK
<1>1. CASE UNCHANGED vars
  BY <1>1 DEF vars, AliveSlots
<1>2. CASE SysmonTick
  <2>1. AliveSlots' = AliveSlots
    BY <1>2, SysmonThreads DEF AliveSlots, SameThreads
  <2>2. booting' = booting \/ (Living <= Target + Extra /\ Spawn)
    BY <1>2, SysmonThreads
  <2> QED BY <2>1, <2>2 DEF Spawn, Created
<1>3. ASSUME NEW b \in Boots, NEW i \in Slots, TrySlot(b, i)
      PROVE  StepsOver(b, i) \/ Takes(b, i)
  <2>1. CASE Alive(i)
    BY <1>3, <2>1 DEF TrySlot, StepsOver, AliveSlots, Alive, At
  <2>2. CASE ~Alive(i)
    <3>1. i \in Slots \ AliveSlots /\ Goto(i, "count")
      BY <1>3, <2>2 DEF TrySlot, Alive, At, AliveSlots
    <3>2. thread'[i].at = "count" /\ \A j \in Slots \ {i} : thread'[j] = thread[j]
      BY <3>1, GotoThread DEF Places
    <3>3. AliveSlots' = AliveSlots \cup {i}
      BY <3>1, <3>2 DEF AliveSlots
    <3> QED BY <1>3, <2>2, <3>1, <3>3 DEF TrySlot, Takes
  <2> QED BY <2>1, <2>2
<1>4. ASSUME NEW i \in Slots, Step(i) \/ KillBody(i)
      PROVE  AliveSlots' \subseteq AliveSlots /\ booting' = booting
  <2>0. booting' = booting
    BY <1>4 DEF Step, KillBody, TestCount, SetCount, TakeGlobalFirst, TakeGlobalLast,
         TakeFromGlobal, TakeOwn, NothingOwn, StealItem, StealNothing, PushItem, EndBody,
         Unblock, AfterItem, Deactivate, DonateOne, Wake, Exit
  <2>1. i \in AliveSlots
    BY <1>4 DEF Step, KillBody, TestCount, SetCount, TakeGlobalFirst, TakeGlobalLast,
         TakeOwn, NothingOwn, StealItem, StealNothing, PushItem, EndBody,
         Unblock, AfterItem, Deactivate, Wake, Exit, At, AliveSlots
  <2>2. \A j \in Slots \ {i} : thread'[j] = thread[j]
    BY <1>0, <1>4 DEF Step, KillBody, TestCount, SetCount, TakeGlobalFirst, TakeGlobalLast,
         TakeFromGlobal, TakeOwn, NothingOwn, StealItem, StealNothing, PushItem, EndBody,
         Unblock, AfterItem, Deactivate, DonateOne, Wake, Exit, Goto, Start
  <2>3. AliveSlots' \subseteq AliveSlots
    BY <2>1, <2>2 DEF AliveSlots
  <2> QED BY <2>0, <2>3
<1> QED BY <1>1, <1>2, <1>3, <1>4 DEF Next

\* Room is kept: whoever goes on from slot j leaves a living thread behind, for
\* which there was room from j on.
LEMMA RoomStep ==
    ASSUME Target + Extra + MaxBooting <= SlotCount, TypeOK, Room, [Next]_vars
    PROVE  Room'
<1>0. /\ SlotCount \in Nat /\ Target \in Nat /\ Extra \in Nat /\ MaxBooting \in Nat
      /\ booting \in BootType /\ NotBooting = -1
      /\ AliveSlots \subseteq Slots /\ Slots \subseteq Int
  BY WorkersAssumption DEF TypeOK, BootType, NotBooting, AliveSlots, Slots
<1> SUFFICES ASSUME NEW j \in 0 .. SlotCount PROVE RoomFrom(j)'
  BY DEF Room
<1>a. j \in Int /\ j >= 0 /\ \A b \in Boots : booting[b] \in Int
  BY <1>0 DEF BootType
<1>1. PICK A, B : A = AliveFrom(j) /\ B = BootsFrom(j)
  OBVIOUS
<1>2. PICK A1, B1 : A1 = AliveFrom(j)' /\ B1 = BootsFrom(j)'
  OBVIOUS
<1>3. /\ IsFiniteSet(A) /\ IsFiniteSet(B) /\ Cardinality(A) \in Nat /\ Cardinality(B) \in Nat
      /\ Cardinality(A) + Cardinality(B) <= SlotCount - j
  BY <1>1, SlotSets, WorkersAssumption DEF Room, RoomFrom
<1>4. SUFFICES Cardinality(A1) + Cardinality(B1) <= SlotCount - j
  BY <1>2 DEF RoomFrom
<1>5. CASE AliveSlots' \subseteq AliveSlots /\ booting' = booting
  <2>1. A1 \subseteq A /\ B1 = B
    BY <1>1, <1>2, <1>5 DEF AliveFrom, BootsFrom
  <2>2. Cardinality(A1) \in Nat /\ Cardinality(A1) <= Cardinality(A)
    BY <1>3, <2>1, FS_Subset, FS_CardinalityType
  <2> QED BY <1>0, <1>3, <1>a, <2>1, <2>2
<1>6. ASSUME NEW b \in Boots, Created(b)
      PROVE  Cardinality(A1) + Cardinality(B1) <= SlotCount - j
  <2>1. A1 = A
    BY <1>1, <1>2, <1>6 DEF AliveFrom, Created
  <2>2. booting' = [booting EXCEPT ![b] = 0] /\ booting[b] = -1
    BY <1>0, <1>6 DEF Created
  <2>3. CASE j = 0
    <3>1. Cardinality(B1) \in 0 .. MaxBooting
      <4>1. \A k : Cardinality(BootsFrom(k)') \in 0 .. MaxBooting
        <5>1. IsFiniteSet(Boots) /\ Cardinality(Boots) = MaxBooting
          BY FS_Interval, <1>0 DEF Boots
        <5>2. \A k : BootsFrom(k)' \subseteq Boots
          BY DEF BootsFrom
        <5> QED BY <1>0, <5>1, <5>2, FS_Subset, FS_CardinalityType
      <4> QED BY <1>2, <4>1
    <3>2. Cardinality(A) <= Living /\ Living \in Nat
      <4>1. A \subseteq AliveSlots
        BY <1>1 DEF AliveFrom
      <4> QED BY <4>1, SlotSets, FS_Subset
    <3>3. Living <= Target + Extra
      BY <1>6 DEF Created
    <3> QED BY <1>0, <1>3, <2>1, <2>3, <3>1, <3>2, <3>3
  <2>4. CASE j # 0
    <3>1. B1 = B
      BY <1>0, <1>1, <1>2, <1>a, <2>2, <2>4 DEF BootsFrom, BootType
    <3> QED BY <1>3, <2>1, <3>1
  <2> QED BY <2>3, <2>4
<1>7. ASSUME NEW b \in Boots, NEW i \in Slots, Takes(b, i)
      PROVE  Cardinality(A1) + Cardinality(B1) <= SlotCount - j
  <2>0. /\ booting' = [booting EXCEPT ![b] = -1] /\ booting[b] = i /\ i \in Int
        /\ AliveSlots' = AliveSlots \cup {i} /\ i \notin AliveSlots
    BY <1>0, <1>7 DEF Takes
  <2>1. CASE i < j
    <3>1. A1 = A /\ B1 = B
      BY <1>0, <1>1, <1>2, <1>a, <2>0, <2>1 DEF AliveFrom, BootsFrom, BootType
    <3> QED BY <1>3, <3>1
  <2>2. CASE i >= j
    <3>1. A1 = A \cup {i} /\ i \notin A
      BY <1>0, <1>1, <1>2, <1>a, <2>0, <2>2 DEF AliveFrom
    <3>2. B1 = B \ {b} /\ b \in B
      BY <1>0, <1>1, <1>2, <1>a, <2>0, <2>2 DEF BootsFrom, BootType
    <3>3. Cardinality(A1) = Cardinality(A) + 1
      BY <1>3, <3>1, FS_AddElement
    <3>4. Cardinality(B1) = Cardinality(B) - 1
      BY <1>3, <3>2, FS_RemoveElement
    <3> QED BY <1>0, <1>3, <1>a, <3>3, <3>4
  <2> QED BY <1>a, <2>0, <2>1, <2>2
<1>8. ASSUME NEW b \in Boots, NEW i \in Slots, StepsOver(b, i)
      PROVE  Cardinality(A1) + Cardinality(B1) <= SlotCount - j
  <2>0. /\ booting' = [booting EXCEPT ![b] = i + 1] /\ booting[b] = i /\ i \in Int
        /\ AliveSlots' = AliveSlots /\ i \in AliveSlots /\ i >= 0 /\ i <= SlotCount - 1
    BY <1>0, <1>8 DEF StepsOver, Slots
  <2>1. A1 = A
    BY <1>1, <1>2, <2>0 DEF AliveFrom
  <2>2. CASE j # i + 1
    <3>1. B1 = B
      BY <1>0, <1>1, <1>2, <1>a, <2>0, <2>2 DEF BootsFrom, BootType
    <3> QED BY <1>3, <2>1, <3>1
  <2>3. CASE j = i + 1
    <3>1. PICK C, D : C = AliveFrom(i) /\ D = BootsFrom(i)
      OBVIOUS
    <3>2. i \in 0 .. SlotCount
      BY <1>0, <2>0
    <3>3. /\ IsFiniteSet(C) /\ IsFiniteSet(D) /\ Cardinality(C) \in Nat
          /\ Cardinality(D) \in Nat /\ Cardinality(C) + Cardinality(D) <= SlotCount - i
      BY <3>1, <3>2, SlotSets, WorkersAssumption DEF Room, RoomFrom
    <3>4. A = C \ {i} /\ i \in C
      <4>1. \A k \in AliveSlots : k >= i + 1 <=> k >= i /\ k # i
        BY <1>0, <2>0
      <4>2. A = {k \in AliveSlots : k >= i + 1} /\ C = {k \in AliveSlots : k >= i}
        BY <1>1, <2>3, <3>1 DEF AliveFrom
      <4>3. i >= i
        BY <2>0
      <4>4. \A k : k \in A <=> k \in C /\ k # i
        BY <4>1, <4>2, Zenon
      <4> QED BY <2>0, <4>2, <4>3, <4>4
    <3>5. B1 \subseteq D
      BY <1>0, <1>2, <1>a, <2>0, <2>3, <3>1 DEF BootsFrom, BootType
    <3>6. Cardinality(A) = Cardinality(C) - 1
      BY <3>3, <3>4, FS_RemoveElement
    <3>7. Cardinality(B1) \in Nat /\ Cardinality(B1) <= Cardinality(D)
      BY <3>3, <3>5, FS_Subset, FS_CardinalityType
    <3> QED BY <1>0, <1>3, <2>0, <2>1, <2>3, <3>3, <3>6, <3>7
  <2> QED BY <2>2, <2>3
<1> QED BY <1>5, <1>6, <1>7, <1>8, AliveStep

\* workerMain finds a free slot for every thread that is created, although slots
\* are freed behind it, provided THREADS_MAX exceeds the first threads, and the
\* cap of workerReactivateOrSpawn (which does not count the threads that look for
\* a slot) together with the threads that do so at a time.
THEOREM WorkersSlotsSuffice ==
    ASSUME 1 + FirstWorkers <= SlotCount, Target + Extra + MaxBooting <= SlotCount
    PROVE  Spec => []SlotsSuffice
<1>0. /\ SlotCount \in Nat \ {0} /\ MaxBooting \in Nat /\ FirstWorkers \in 0 .. MaxBooting
  BY WorkersAssumption
<1>1. Init => Room
  <2> SUFFICES ASSUME Init, NEW j \in 0 .. SlotCount PROVE RoomFrom(j)
    BY DEF Room
  <2>1. AliveSlots = {0}
    <3>1. thread[0].at = "run" /\ 0 \in Slots
      BY <1>0, WorkersAssumption DEF Init, Running, NoThread, Slots
    <3>2. \A i \in Slots \ {0} : thread[i].at = "none"
      BY DEF Init, NoThread
    <3> QED BY <3>1, <3>2 DEF AliveSlots
  <2>2. CASE j = 0
    <3>1. AliveFrom(j) = {0}
      BY <2>1, <2>2 DEF AliveFrom
    <3>2. BootsFrom(j) = 1 .. FirstWorkers
      BY <1>0, <2>2 DEF BootsFrom, Boots, Init, NotBooting
    <3>3. Cardinality(AliveFrom(j)) = 1 /\ Cardinality(BootsFrom(j)) = FirstWorkers
      <4>1. FirstWorkers \in Int /\ FirstWorkers >= 0
        BY <1>0
      <4>2. Cardinality(1 .. FirstWorkers) = FirstWorkers
        BY <4>1, FS_Interval
      <4> QED BY <3>1, <3>2, <4>2, FS_Singleton
    <3> QED BY <1>0, <2>2, <3>3 DEF RoomFrom
  <2>3. CASE j # 0
    <3>1. AliveFrom(j) = {} /\ BootsFrom(j) = {}
      BY <1>0, <2>1, <2>3 DEF AliveFrom, BootsFrom, Boots, Init, NotBooting
    <3>2. Cardinality(AliveFrom(j)) = 0 /\ Cardinality(BootsFrom(j)) = 0
      BY <3>1, FS_EmptySet
    <3> QED BY <1>0, <3>2 DEF RoomFrom
  <2> QED BY <2>2, <2>3
<1>2. TypeOK /\ Room /\ [Next]_vars => Room'
  BY RoomStep
<1>3. TypeOK /\ Room => SlotsSuffice
  <2> SUFFICES ASSUME Room, NEW b \in Boots, booting[b] = SlotCount PROVE FALSE
    BY DEF SlotsSuffice
  <2>1. PICK A, B : A = AliveFrom(SlotCount) /\ B = BootsFrom(SlotCount)
    OBVIOUS
  <2>2. /\ IsFiniteSet(B) /\ Cardinality(A) \in Nat /\ Cardinality(B) \in Nat
        /\ Cardinality(A) + Cardinality(B) <= SlotCount - SlotCount
    BY <1>0, <2>1, SlotSets DEF Room, RoomFrom
  <2>3. b \in B
    BY <1>0, <2>1 DEF BootsFrom
  <2>4. Cardinality(B) # 0
    BY <2>2, <2>3, FS_EmptySet
  <2> QED BY <1>0, <2>2, <2>4
<1> QED BY <1>1, <1>2, <1>3, WorkersTypeCorrect, PTL DEF Spec

=============================================================================
