-------------------------- MODULE WorkQueueProofs --------------------------
(***************************************************************************)
(* Proof that the work-stealing queue of workqueue.c implements a          *)
(* double-ended queue, for any number of thieves, items and resizes.       *)
(***************************************************************************)
EXTENDS WorkQueue, FiniteSetTheorems, SequenceTheorems, TLAPS

\* An array of some size, with room for one item at least.
Array == UNION {[0 .. n - 1 -> Items \cup {NoItem}] : n \in Nat \ {0}}

Pushing == {"pushTop", "resize", "publish", "pushStore", "pushBottom"}
Taking == {"takeTop", "takeRace", "takeRestore"}

\* What is at index i, counted from the first item ever.
Cell(i) == At(arrays[array], i)

WorkQueueTypeOK ==
    /\ top \in Nat /\ bottom \in Int /\ ob \in Int /\ ot \in Nat
    /\ arrays \in Seq(Array) /\ array \in 1 .. Len(arrays)
    /\ pushed \in 0 .. MaxItems
    /\ opc \in {"idle"} \cup Pushing \cup Taking
    /\ tpc \in [Thieves -> {"idle", "bottom", "array", "item", "race"}]
    /\ tt \in [Thieves -> Nat] /\ ta \in [Thieves -> 1 .. Len(arrays)]
    /\ tx \in [Thieves -> Items \cup {NoItem}]

\* The owner's locals while it pushes, ...
PushInv ==
    /\ opc \in Pushing => ob = bottom /\ pushed > 0
    /\ opc = "publish" =>
           /\ Size(arrays[array]) < Size(arrays[Len(arrays)])
           /\ \A i \in top .. ob - 1 : At(arrays[Len(arrays)], i) = Cell(i)
    /\ opc \in {"pushStore", "pushBottom"} => ob - top < Size(arrays[array])
    /\ opc = "pushBottom" => Cell(ob) = pushed

\* ... and while it takes.
TakeInv ==
    /\ opc \in Taking => bottom = ob - 1
    /\ opc \in {"takeTop", "takeRace"} => answer = {}
    /\ opc = "takeRace" => ot = ob - 1 /\ ot <= top /\ ox = Cell(ot)
    /\ opc = "takeRestore" => top = ob

\* The items that are in the queue or were handed out are those pushed before.
Known == 1 .. IF opc \in Pushing THEN pushed - 1 ELSE pushed

Contents ==
    /\ \A i \in top .. LogicalBottom - 1 : Cell(i) \in Known
    /\ given \subseteq Known

\* A thief that will win its race read the first item of the queue.
ThiefInv(h) ==
    /\ tt[h] <= top
    /\ tpc[h] \in {"array", "item", "race"} /\ tt[h] = top =>
           /\ top < LogicalBottom
           /\ tpc[h] = "item" => At(arrays[ta[h]], tt[h]) = Cell(top)
           /\ tpc[h] = "race" => tx[h] = Cell(top)

IndInv ==
    /\ WorkQueueTypeOK
    /\ FitsInArray
    /\ PushInv
    /\ TakeInv
    /\ Contents
    /\ \A h \in Thieves : ThiefInv(h)

-----------------------------------------------------------------------------
(* Circular arrays.                                                        *)

LEMMA ModFacts ==
    ASSUME NEW n \in Nat \ {0}, NEW i \in Nat
    PROVE  i % n \in 0 .. n - 1 /\ i \div n \in Int /\ i = n * (i \div n) + (i % n)
<1>1. n \in Int /\ n > 0 /\ i \in Int
  OBVIOUS
<1>2. i % n \in 0 .. n - 1 /\ i \div n \in Int
  BY <1>1
<1>3. i = n * (i \div n) + (i % n)
  BY <1>1
<1> QED BY <1>2, <1>3

\* Two indices less than the size apart share a cell only if they are equal.
LEMMA ModInjective ==
    ASSUME NEW n \in Nat \ {0}, NEW i \in Nat, NEW j \in Nat,
           i - j < n, j - i < n, i % n = j % n
    PROVE  i = j
<1>1. i % n \in 0 .. n - 1 /\ i \div n \in Int /\ i = n * (i \div n) + (i % n)
  BY ModFacts
<1>2. j % n \in 0 .. n - 1 /\ j \div n \in Int /\ j = n * (j \div n) + (j % n)
  BY ModFacts
<1>a. PICK q \in Int : q = i \div n
  BY <1>1
<1>b. PICK r \in Int : r = j \div n
  BY <1>2
<1>c. PICK m \in 0 .. n - 1 : m = i % n
  BY <1>1
<1>3. m \in Int /\ m = j % n
  BY <1>c
<1>4. i = n * q + m /\ j = n * r + m
  BY <1>1, <1>2, <1>a, <1>b, <1>c, <1>3
<1>5. ASSUME q < r PROVE FALSE
  BY <1>3, <1>4, <1>5
<1>6. ASSUME r < q PROVE FALSE
  BY <1>3, <1>4, <1>6
<1> QED BY <1>4, <1>5, <1>6

LEMMA ArrayOfSize ==
    ASSUME NEW n \in Nat \ {0}, NEW a \in [0 .. n - 1 -> Items \cup {NoItem}]
    PROVE  a \in Array /\ Size(a) = n
<1>1. Cardinality(0 .. n - 1) = n
  BY FS_Interval
<1> QED BY <1>1 DEF Array, Size

LEMMA SizeOf ==
    ASSUME NEW a \in Array
    PROVE  /\ Size(a) \in Nat \ {0}
           /\ a \in [0 .. Size(a) - 1 -> Items \cup {NoItem}]
<1>1. PICK n \in Nat \ {0} : a \in [0 .. n - 1 -> Items \cup {NoItem}]
  BY DEF Array
<1>2. Size(a) = n
  BY <1>1, ArrayOfSize
<1> QED BY <1>1, <1>2

LEMMA AtType ==
    ASSUME NEW a \in Array, NEW i \in Nat
    PROVE  At(a, i) \in Items \cup {NoItem}
<1>1. PICK n \in Nat \ {0} : n = Size(a) /\ a \in [0 .. n - 1 -> Items \cup {NoItem}]
  BY SizeOf
<1>2. i % n \in 0 .. n - 1
  BY ModFacts
<1> QED BY <1>1, <1>2 DEF At

Stored(a, i, x) == [a EXCEPT ![i % Size(a)] = x]

\* A store changes one index and none that is less than the size away.
LEMMA AtStored ==
    ASSUME NEW a \in Array, NEW i \in Nat, NEW x \in Items \cup {NoItem}
    PROVE  /\ Stored(a, i, x) \in Array /\ Size(Stored(a, i, x)) = Size(a)
           /\ At(Stored(a, i, x), i) = x
           /\ \A j \in Nat : i # j /\ i - j < Size(a) /\ j - i < Size(a)
                             => At(Stored(a, i, x), j) = At(a, j)
<1>a. PICK b : b = Stored(a, i, x)
  OBVIOUS
<1>1. PICK n \in Nat \ {0} : n = Size(a) /\ a \in [0 .. n - 1 -> Items \cup {NoItem}]
  BY SizeOf
<1>2. PICK m \in 0 .. n - 1 : m = i % n
  BY ModFacts
<1>3. b = [a EXCEPT ![m] = x]
  BY <1>a, <1>1, <1>2 DEF Stored
<1>4. b \in [0 .. n - 1 -> Items \cup {NoItem}] /\ b[m] = x
  BY <1>1, <1>3
<1>5. b \in Array /\ Size(b) = n
  BY <1>4, ArrayOfSize
<1>6. ASSUME NEW j \in Nat, i # j, i - j < n, j - i < n
      PROVE  At(b, j) = At(a, j)
  <2>1. j % n # m
    BY <1>2, <1>6, ModInjective
  <2>2. PICK l \in 0 .. n - 1 : l = j % n
    BY ModFacts
  <2>3. b[l] = a[l]
    BY <1>1, <1>3, <2>1, <2>2
  <2> QED BY <1>1, <1>5, <2>2, <2>3 DEF At
<1>7. At(b, i) = x
  BY <1>2, <1>4, <1>5 DEF At
<1> QED BY <1>a, <1>1, <1>5, <1>6, <1>7

\* workQueueResize copies every index from `from` to `to`.
LEMMA AtCopied ==
    ASSUME NEW a \in Array, NEW n \in Nat \ {0}, NEW from \in Nat, NEW to \in Int,
           to - from < n
    PROVE  /\ Copied(a, n, from, to) \in Array /\ Size(Copied(a, n, from, to)) = n
           /\ \A j \in from .. to : At(Copied(a, n, from, to), j) = At(a, j)
<1> DEFINE b == Copied(a, n, from, to)
<1>1. \A j \in from .. to : j \in Nat /\ At(a, j) \in Items \cup {NoItem}
  BY AtType
<1>2. b \in [0 .. n - 1 -> Items \cup {NoItem}]
  <2> SUFFICES ASSUME NEW i \in 0 .. n - 1
               PROVE  (IF \E j \in from .. to : j % n = i
                       THEN At(a, CHOOSE j \in from .. to : j % n = i) ELSE NoItem)
                      \in Items \cup {NoItem}
    BY DEF Copied
  <2>1. CASE \E j \in from .. to : j % n = i
    <3>1. PICK k : k = CHOOSE j \in from .. to : j % n = i
      OBVIOUS
    <3>2. k \in from .. to
      BY <2>1, <3>1
    <3> QED BY <1>1, <2>1, <3>1, <3>2
  <2> QED BY <2>1
<1>3. b \in Array /\ Size(b) = n
  BY <1>2, ArrayOfSize
<1>4. ASSUME NEW j \in from .. to
      PROVE  At(b, j) = At(a, j)
  <2>1. PICK i \in 0 .. n - 1 : i = j % n
    BY <1>1, ModFacts
  <2>2. PICK k : k = CHOOSE l \in from .. to : l % n = i
    OBVIOUS
  <2>3. k \in from .. to /\ k % n = i
    BY <2>1, <2>2
  <2>4. k - j < n /\ j - k < n /\ k \in Nat /\ j \in Nat
    BY <2>3
  <2>5. k = j
    BY <2>1, <2>3, <2>4, ModInjective
  <2>6. b[i] = At(a, k)
    BY <2>1, <2>2 DEF Copied
  <2> QED BY <1>3, <2>1, <2>5, <2>6 DEF At
<1> QED BY <1>3, <1>4

-----------------------------------------------------------------------------
(* The invariant is inductive.                                             *)

LEMMA InitInd == Init => IndInv
<1> SUFFICES ASSUME Init PROVE IndInv
  OBVIOUS
<1>a. PICK n \in Nat \ {0} : n = 2
  OBVIOUS
<1>1. EmptyArray(n) \in [0 .. n - 1 -> Items \cup {NoItem}]
  BY DEF EmptyArray
<1>2. EmptyArray(2) \in Array /\ Size(EmptyArray(2)) = 2
  BY <1>a, <1>1, ArrayOfSize
<1>3. PICK e \in Array : e = EmptyArray(2) /\ Size(e) = 2
  BY <1>2
<1>4. arrays = <<e>>
  BY <1>3 DEF Init
<1>5. arrays \in Seq(Array) /\ Len(arrays) = 1 /\ arrays[1] = e
  BY <1>4
<1>6. WorkQueueTypeOK
  BY <1>5, WorkQueueAssumption DEF Init, WorkQueueTypeOK
<1>7. LogicalBottom = 0 /\ top = 0 /\ opc = "idle" /\ array = 1
  BY DEF Init, LogicalBottom
<1>8. FitsInArray
  BY <1>3, <1>5, <1>7 DEF FitsInArray
<1>9. PushInv /\ TakeInv
  BY <1>7 DEF PushInv, TakeInv, Pushing, Taking
<1>10. Contents
  BY <1>7 DEF Init, Contents
<1>11. \A h \in Thieves : ThiefInv(h)
  BY DEF Init, ThiefInv
<1> QED BY <1>6, <1>8, <1>9, <1>10, <1>11 DEF IndInv

\* What every step may use.
LEMMA Facts ==
    ASSUME IndInv
    PROVE  /\ top \in Nat /\ bottom \in Int /\ ob \in Int /\ pushed \in Nat
           /\ LogicalBottom \in Nat /\ top <= LogicalBottom
           /\ LogicalBottom - top <= Size(arrays[array])
           /\ arrays \in Seq(Array) /\ Len(arrays) \in Nat /\ array \in 1 .. Len(arrays)
           /\ arrays[array] \in Array /\ Size(arrays[array]) \in Nat \ {0}
           /\ opc \in Taking => LogicalBottom = ob /\ bottom = ob - 1
           /\ opc \notin Taking => LogicalBottom = bottom
           /\ opc \in Pushing => ob = bottom /\ ob \in Nat /\ opc \notin Taking
<1>1. /\ top \in Nat /\ bottom \in Int /\ ob \in Int /\ pushed \in Nat
      /\ arrays \in Seq(Array) /\ Len(arrays) \in Nat /\ array \in 1 .. Len(arrays)
  BY WorkQueueAssumption DEF IndInv, WorkQueueTypeOK
<1>2. arrays[array] \in Array
  BY <1>1
<1>3. Size(arrays[array]) \in Nat \ {0}
  BY <1>2, SizeOf
<1>4. /\ opc \in Taking => LogicalBottom = ob /\ bottom = ob - 1
      /\ opc \notin Taking => LogicalBottom = bottom
  BY DEF IndInv, TakeInv, LogicalBottom, Taking
<1>5. LogicalBottom \in Int /\ top <= LogicalBottom
      /\ LogicalBottom - top <= Size(arrays[array])
  BY <1>1, <1>4 DEF IndInv, FitsInArray
<1>6. LogicalBottom \in Nat
  BY <1>1, <1>5
<1>7. opc \in Pushing => opc \notin Taking /\ ob = bottom
  BY DEF Pushing, Taking, IndInv, PushInv
<1> QED BY <1>1, <1>2, <1>3, <1>4, <1>5, <1>6, <1>7

\* Steps of the owner that leave the arrays alone and do not lower the bottom:
\* the thieves cannot tell.
LEMMA ThievesUnaware ==
    ASSUME IndInv, UNCHANGED <<arrays, array, thiefVars>>, top' \in Nat, top <= top',
           top' = top /\ top < LogicalBottom => top < LogicalBottom'
    PROVE  \A h \in Thieves : ThiefInv(h)'
<1> SUFFICES ASSUME NEW h \in Thieves PROVE ThiefInv(h)'
  OBVIOUS
<1>1. /\ top \in Nat /\ tt[h] \in Nat /\ ThiefInv(h)
      /\ UNCHANGED <<arrays, array, tpc, tt, ta, tx>>
  BY DEF IndInv, WorkQueueTypeOK, thiefVars
<1>2. CASE top' = top
  BY <1>1, <1>2 DEF ThiefInv, Cell
<1>3. CASE top' # top
  <2>1. tt'[h] < top'
    BY <1>1, <1>3 DEF ThiefInv
  <2> QED BY <1>1, <2>1 DEF ThiefInv
<1> QED BY <1>2, <1>3

LEMMA PushBeginInd == IndInv /\ PushBegin => IndInv'
<1> SUFFICES ASSUME IndInv, PushBegin PROVE IndInv'
  OBVIOUS
<1>0. /\ opc = "idle" /\ opc' = "pushTop" /\ pushed < MaxItems /\ pushed' = pushed + 1
      /\ ob' = bottom
      /\ UNCHANGED <<top, bottom, arrays, array, given, answer, ot, ox, tpc, tt, ta, tx>>
  BY DEF PushBegin, OwnerGoes, thiefVars
<1>1. LogicalBottom = bottom /\ LogicalBottom' = bottom
  BY <1>0 DEF LogicalBottom
<1>2. WorkQueueTypeOK'
  BY <1>0, WorkQueueAssumption DEF IndInv, WorkQueueTypeOK, Pushing
<1>3. FitsInArray'
  BY <1>0, <1>1 DEF IndInv, FitsInArray
<1>4. PushInv' /\ TakeInv'
  BY <1>0, Facts DEF PushInv, TakeInv, Pushing, Taking
<1>5. Contents'
  <2>1. Known' = Known
    BY <1>0, Facts DEF Known, Pushing
  <2> QED BY <1>0, <1>1, <2>1 DEF IndInv, Contents, Cell
<1>6. \A h \in Thieves : ThiefInv(h)'
  BY <1>0, <1>1, Facts, ThievesUnaware DEF thiefVars
<1> QED BY <1>2, <1>3, <1>4, <1>5, <1>6 DEF IndInv

LEMMA PushReadTopInd == IndInv /\ PushReadTop => IndInv'
<1> SUFFICES ASSUME IndInv, PushReadTop PROVE IndInv'
  OBVIOUS
<1>0. /\ opc = "pushTop" /\ opc' \in {"resize", "pushStore"}
      /\ opc' = "pushStore" => ob - top <= Size(arrays[array]) - 1
      /\ UNCHANGED <<top, bottom, arrays, array, pushed, given, answer, ob, ot, ox>>
      /\ UNCHANGED <<tpc, tt, ta, tx>>
  BY Facts DEF PushReadTop, Full, thiefVars
<1>1. LogicalBottom = bottom /\ LogicalBottom' = bottom
  BY <1>0 DEF LogicalBottom
<1>2. WorkQueueTypeOK'
  BY <1>0 DEF IndInv, WorkQueueTypeOK, Pushing
<1>3. FitsInArray'
  BY <1>0, <1>1 DEF IndInv, FitsInArray
<1>4. PushInv' /\ TakeInv'
  BY <1>0, Facts DEF IndInv, PushInv, TakeInv, Pushing, Taking
<1>5. Contents'
  <2>1. Known' = Known
    BY <1>0, Facts DEF Known, Pushing
  <2> QED BY <1>0, <1>1, <2>1 DEF IndInv, Contents, Cell
<1>6. \A h \in Thieves : ThiefInv(h)'
  BY <1>0, <1>1, Facts, ThievesUnaware DEF thiefVars
<1> QED BY <1>2, <1>3, <1>4, <1>5, <1>6 DEF IndInv

LEMMA ResizeInd == IndInv /\ Resize => IndInv'
<1> SUFFICES ASSUME IndInv, Resize PROVE IndInv'
  OBVIOUS
<1> DEFINE a == arrays[array]
           c == Copied(a, 2 * Size(a), top, bottom - 1)
<1>0. /\ opc = "resize" /\ opc' = "publish" /\ arrays' = Append(arrays, c)
      /\ UNCHANGED <<top, bottom, array, pushed, given, answer, ob, ot, ox, tpc, tt, ta, tx>>
  BY DEF Resize, OwnerGoes, thiefVars
<1>a. opc \in Pushing /\ opc' \in Pushing /\ opc' \notin Taking
  BY <1>0 DEF Pushing, Taking
<1>1. LogicalBottom = bottom /\ LogicalBottom' = bottom /\ ob = bottom
  BY <1>0, <1>a, Facts DEF LogicalBottom
<1>b. PICK n \in Nat \ {0} : n = 2 * Size(a) /\ Size(a) < n /\ (bottom - 1) - top < n
  <2>1. 2 * Size(a) \in Nat \ {0} /\ Size(a) < 2 * Size(a) /\ (bottom - 1) - top < 2 * Size(a)
    BY <1>1, Facts
  <2> QED BY <2>1
<1>c. /\ c \in Array /\ Size(c) = n /\ \A i \in top .. bottom - 1 : At(c, i) = At(a, i)
  <2>1. PICK d \in Array, from \in Nat, to \in Int : d = a /\ from = top /\ to = bottom - 1
    BY Facts
  <2>2. to - from < n
    BY <1>b, <2>1
  <2>3. c = Copied(d, n, from, to)
    BY <1>b, <2>1
  <2>4. /\ Copied(d, n, from, to) \in Array /\ Size(Copied(d, n, from, to)) = n
        /\ \A j \in from .. to : At(Copied(d, n, from, to), j) = At(d, j)
    BY <2>2, AtCopied
  <2> QED BY <2>1, <2>3, <2>4
<1>d. /\ arrays' \in Seq(Array) /\ Len(arrays') = Len(arrays) + 1 /\ Len(arrays) \in Nat
      /\ arrays'[Len(arrays')] = c
      /\ \A k \in 1 .. Len(arrays) : arrays'[k] = arrays[k]
  <2>1. PICK d \in Array : d = c
    BY <1>c
  <2>2. arrays \in Seq(Array) /\ arrays' = Append(arrays, d)
    BY <1>0, <2>1, Facts
  <2>3. /\ arrays' \in Seq(Array) /\ Len(arrays') = Len(arrays) + 1 /\ Len(arrays) \in Nat
        /\ arrays'[Len(arrays) + 1] = d
        /\ \A k \in 1 .. Len(arrays) : arrays'[k] = arrays[k]
    BY <2>2, AppendProperties
  <2> QED BY <2>1, <2>3
<1> HIDE DEF c
<1>e. array \in 1 .. Len(arrays) /\ arrays'[array'] = a /\ \A i : Cell(i)' = Cell(i)
  BY <1>0, <1>d, Facts DEF Cell
<1>2. WorkQueueTypeOK'
  <2>1. ta' \in [Thieves -> 1 .. Len(arrays')] /\ array' \in 1 .. Len(arrays')
    BY <1>0, <1>d DEF IndInv, WorkQueueTypeOK
  <2> QED BY <1>0, <1>d, <2>1 DEF IndInv, WorkQueueTypeOK, Pushing
<1>3. FitsInArray'
  BY <1>0, <1>1, <1>e DEF IndInv, FitsInArray
<1>4. PushInv'
  <2>1. Size(arrays'[array']) < Size(arrays'[Len(arrays')])
    BY <1>b, <1>c, <1>d, <1>e
  <2>2. \A i \in top' .. ob' - 1 : At(arrays'[Len(arrays')], i) = Cell(i)'
    BY <1>0, <1>1, <1>c, <1>d, <1>e DEF Cell
  <2>3. ob' = bottom' /\ pushed' > 0
    BY <1>0, <1>1, <1>a DEF IndInv, PushInv
  <2> QED BY <1>0, <2>1, <2>2, <2>3 DEF PushInv
<1>5. TakeInv'
  BY <1>0 DEF TakeInv, Taking
<1>6. Contents'
  <2>1. Known' = Known
    BY <1>0, <1>a DEF Known
  <2> QED BY <1>0, <1>1, <1>e, <2>1 DEF IndInv, Contents
<1>7. \A h \in Thieves : ThiefInv(h)'
  <2> SUFFICES ASSUME NEW h \in Thieves PROVE ThiefInv(h)'
    OBVIOUS
  <2>1. ThiefInv(h) /\ ta[h] \in 1 .. Len(arrays)
    BY DEF IndInv, WorkQueueTypeOK
  <2>2. arrays'[ta'[h]] = arrays[ta[h]] /\ Cell(top)' = Cell(top)
    BY <1>0, <1>d, <1>e, <2>1 DEF Cell
  <2> QED BY <1>0, <1>1, <2>1, <2>2 DEF ThiefInv
<1> QED BY <1>2, <1>3, <1>4, <1>5, <1>6, <1>7 DEF IndInv

LEMMA PublishInd == IndInv /\ Publish => IndInv'
<1> SUFFICES ASSUME IndInv, Publish PROVE IndInv'
  OBVIOUS
<1>0. /\ opc = "publish" /\ opc' = "pushStore" /\ array' = Len(arrays)
      /\ UNCHANGED <<top, bottom, arrays, pushed, given, answer, ob, ot, ox, tpc, tt, ta, tx>>
  BY DEF Publish, OwnerGoes, thiefVars
<1>a. opc \in Pushing /\ opc' \in Pushing /\ opc' \notin Taking
  BY <1>0 DEF Pushing, Taking
<1>1. LogicalBottom = bottom /\ LogicalBottom' = bottom /\ ob = bottom
  BY <1>0, <1>a, Facts DEF LogicalBottom
<1>b. /\ Size(arrays[array]) < Size(arrays'[array'])
      /\ Size(arrays'[array']) \in Nat
      /\ \A i \in top .. ob - 1 : Cell(i)' = Cell(i)
  <2>1. arrays[Len(arrays)] \in Array
    BY Facts
  <2> QED BY <1>0, <2>1, SizeOf DEF IndInv, PushInv, Cell
<1>2. WorkQueueTypeOK'
  BY <1>0 DEF IndInv, WorkQueueTypeOK, Pushing
<1>3. FitsInArray'
  BY <1>0, <1>1, <1>b, Facts DEF FitsInArray
<1>4. PushInv' /\ TakeInv'
  <2>1. ob' - top' < Size(arrays'[array'])
    BY <1>0, <1>1, <1>b, Facts
  <2>2. pushed' > 0
    BY <1>0, <1>a DEF IndInv, PushInv
  <2> QED BY <1>0, <1>1, <2>1, <2>2 DEF PushInv, TakeInv, Taking
<1>5. Contents'
  <2>1. Known' = Known
    BY <1>0, <1>a DEF Known
  <2> QED BY <1>0, <1>1, <1>b, <2>1 DEF IndInv, Contents
<1>6. \A h \in Thieves : ThiefInv(h)'
  <2> SUFFICES ASSUME NEW h \in Thieves PROVE ThiefInv(h)'
    OBVIOUS
  <2>1. ThiefInv(h) /\ tt[h] \in Nat
    BY DEF IndInv, WorkQueueTypeOK
  <2>2. top < LogicalBottom => Cell(top)' = Cell(top)
    <3>1. top < LogicalBottom => top \in top .. ob - 1
      BY <1>1, Facts
    <3> QED BY <1>0, <1>b, <3>1 DEF Cell
  <2> QED BY <1>0, <1>1, <2>1, <2>2 DEF ThiefInv
<1> QED BY <1>2, <1>3, <1>4, <1>5, <1>6 DEF IndInv

\* The store touches no item of the queue, in whatever array a thief reads it.
LEMMA PushStoreCells ==
    ASSUME IndInv, PushStore
    PROVE  /\ arrays' \in Seq(Array) /\ Len(arrays') = Len(arrays)
           /\ Size(arrays'[array]) = Size(arrays[array])
           /\ At(arrays'[array], ob) = pushed
           /\ \A k \in 1 .. Len(arrays) : \A i \in top .. ob - 1 :
                  At(arrays'[k], i) = At(arrays[k], i)
<1>0. opc = "pushStore" /\ arrays' = [arrays EXCEPT ![array][ob % Size(arrays[array])] = pushed]
  BY DEF PushStore, OwnerGoes
<1>1. PICK a \in Array : a = arrays[array]
  BY Facts
<1>2. PICK x \in Items \cup {NoItem} : x = pushed
  BY DEF IndInv, WorkQueueTypeOK, Items, NoItem
<1>3. PICK b : b = [a EXCEPT ![ob % Size(a)] = x]
  OBVIOUS
<1>4. ob \in Nat /\ ob - top < Size(a) /\ top \in Nat
  BY <1>0, <1>1, Facts DEF Pushing, IndInv, PushInv
<1>5. /\ b \in Array /\ Size(b) = Size(a) /\ At(b, ob) = x
      /\ \A j \in Nat : ob # j /\ ob - j < Size(a) /\ j - ob < Size(a) => At(b, j) = At(a, j)
  <2>1. PICK o \in Nat : o = ob
    BY <1>4
  <2>2. b = Stored(a, o, x)
    BY <1>3, <2>1 DEF Stored
  <2>3. /\ b \in Array /\ Size(b) = Size(a) /\ At(b, o) = x
        /\ \A j \in Nat : o # j /\ o - j < Size(a) /\ j - o < Size(a) => At(b, j) = At(a, j)
    BY <2>2, AtStored
  <2> QED BY <2>1, <2>3
<1>6. arrays' = [arrays EXCEPT ![array] = b]
  BY <1>0, <1>1, <1>2, <1>3, Facts
<1>7. arrays \in Seq(Array) /\ array \in 1 .. Len(arrays)
  BY Facts
<1>8. /\ arrays' \in Seq(Array) /\ Len(arrays') = Len(arrays) /\ arrays'[array] = b
      /\ \A k \in 1 .. Len(arrays) : k # array => arrays'[k] = arrays[k]
  BY <1>5, <1>6, <1>7, ExceptSeq
<1>9. ASSUME NEW i \in top .. ob - 1 PROVE At(b, i) = At(a, i)
  <2>1. Size(a) \in Nat \ {0}
    BY SizeOf
  <2>2. i \in Nat /\ ob # i /\ ob - i < Size(a) /\ i - ob < Size(a)
    BY <1>4, <2>1
  <2> QED BY <1>5, <2>2
<1> QED BY <1>1, <1>2, <1>5, <1>8, <1>9

LEMMA PushStoreInd == IndInv /\ PushStore => IndInv'
<1> SUFFICES ASSUME IndInv, PushStore PROVE IndInv'
  OBVIOUS
<1>0. /\ opc = "pushStore" /\ opc' = "pushBottom"
      /\ UNCHANGED <<top, bottom, array, pushed, given, answer, ob, ot, ox, tpc, tt, ta, tx>>
  BY DEF PushStore, OwnerGoes, thiefVars
<1>a. opc \in Pushing /\ opc' \in Pushing /\ opc' \notin Taking
  BY <1>0 DEF Pushing, Taking
<1>1. LogicalBottom = bottom /\ LogicalBottom' = bottom /\ ob = bottom
  BY <1>0, <1>a, Facts DEF LogicalBottom
<1>b. /\ arrays' \in Seq(Array) /\ Len(arrays') = Len(arrays)
      /\ Size(arrays'[array']) = Size(arrays[array])
      /\ At(arrays'[array'], ob) = pushed
      /\ \A k \in 1 .. Len(arrays) : \A i \in top .. ob - 1 :
             At(arrays'[k], i) = At(arrays[k], i)
  BY <1>0, PushStoreCells
<1>c. \A i \in top .. ob - 1 : Cell(i)' = Cell(i)
  BY <1>0, <1>b, Facts DEF Cell
<1>2. WorkQueueTypeOK'
  BY <1>0, <1>b DEF IndInv, WorkQueueTypeOK, Pushing
<1>3. FitsInArray'
  BY <1>0, <1>1, <1>b DEF IndInv, FitsInArray
<1>4. PushInv' /\ TakeInv'
  <2>1. ob - top < Size(arrays[array]) /\ pushed > 0
    BY <1>0, <1>a DEF IndInv, PushInv
  <2>2. Cell(ob)' = pushed'
    BY <1>0, <1>b DEF Cell
  <2> QED BY <1>0, <1>1, <1>b, <2>1, <2>2 DEF PushInv, TakeInv, Taking
<1>5. Contents'
  <2>1. Known' = Known
    BY <1>0, <1>a DEF Known
  <2> QED BY <1>0, <1>1, <1>c, <2>1 DEF IndInv, Contents
<1>6. \A h \in Thieves : ThiefInv(h)'
  <2> SUFFICES ASSUME NEW h \in Thieves PROVE ThiefInv(h)'
    OBVIOUS
  <2>1. ThiefInv(h) /\ tt[h] \in Nat /\ ta[h] \in 1 .. Len(arrays)
    BY DEF IndInv, WorkQueueTypeOK
  <2>2. ASSUME top < LogicalBottom
        PROVE  Cell(top)' = Cell(top) /\ At(arrays'[ta[h]], top) = At(arrays[ta[h]], top)
    <3>1. top \in top .. ob - 1
      BY <1>1, <2>2, Facts
    <3> QED BY <1>0, <1>b, <1>c, <2>1, <3>1 DEF Cell
  <2> QED BY <1>0, <1>1, <2>1, <2>2 DEF ThiefInv
<1> QED BY <1>2, <1>3, <1>4, <1>5, <1>6 DEF IndInv

LEMMA PushBottomInd == IndInv /\ PushBottom => IndInv'
<1> SUFFICES ASSUME IndInv, PushBottom PROVE IndInv'
  OBVIOUS
<1>0. /\ opc = "pushBottom" /\ opc' = "idle" /\ bottom' = ob + 1
      /\ UNCHANGED <<top, arrays, array, pushed, given, answer, ob, ot, ox, tpc, tt, ta, tx>>
  BY DEF PushBottom, OwnerGoes, thiefVars
<1>a. opc \in Pushing /\ opc' \notin Pushing /\ opc' \notin Taking
  BY <1>0 DEF Pushing, Taking
<1>1. LogicalBottom = ob /\ LogicalBottom' = ob + 1 /\ ob \in Nat
  BY <1>0, <1>a, Facts DEF LogicalBottom
<1>b. ob - top < Size(arrays[array]) /\ pushed > 0 /\ Cell(ob) = pushed
  BY <1>0, <1>a DEF IndInv, PushInv
<1>2. WorkQueueTypeOK'
  BY <1>0, <1>1 DEF IndInv, WorkQueueTypeOK
<1>3. FitsInArray'
  BY <1>0, <1>1, <1>b, Facts DEF FitsInArray
<1>4. PushInv' /\ TakeInv'
  BY <1>0, <1>a DEF PushInv, TakeInv
<1>5. Contents'
  <2>1. Known = 1 .. pushed - 1 /\ Known' = 1 .. pushed /\ pushed \in Nat
    BY <1>0, <1>a, Facts DEF Known
  <2>2. \A i \in top .. ob - 1 : Cell(i) \in Known
    BY <1>1 DEF IndInv, Contents
  <2>3. \A i \in top .. (ob + 1) - 1 : Cell(i) \in 1 .. pushed
    BY <1>1, <1>b, <2>1, <2>2, Facts
  <2>4. given \subseteq 1 .. pushed
    BY <2>1 DEF IndInv, Contents
  <2> QED BY <1>0, <1>1, <2>1, <2>3, <2>4 DEF Contents, Cell
<1>6. \A h \in Thieves : ThiefInv(h)'
  BY <1>0, <1>1, Facts, ThievesUnaware DEF thiefVars
<1> QED BY <1>2, <1>3, <1>4, <1>5, <1>6 DEF IndInv

LEMMA TakeBeginInd == IndInv /\ TakeBegin => IndInv'
<1> SUFFICES ASSUME IndInv, TakeBegin PROVE IndInv'
  OBVIOUS
<1>0. /\ opc = "idle" /\ opc' = "takeTop" /\ ob' = bottom /\ bottom' = bottom - 1
      /\ answer' = {}
      /\ UNCHANGED <<top, arrays, array, pushed, given, ot, ox, tpc, tt, ta, tx>>
  BY DEF TakeBegin, OwnerGoes, thiefVars
<1>a. opc \notin Pushing /\ opc \notin Taking /\ opc' \notin Pushing
  BY <1>0 DEF Pushing, Taking
<1>1. LogicalBottom = bottom /\ LogicalBottom' = bottom /\ bottom \in Int
  BY <1>0, <1>a, Facts DEF LogicalBottom
<1>2. WorkQueueTypeOK'
  BY <1>0, <1>1 DEF IndInv, WorkQueueTypeOK, Taking
<1>3. FitsInArray'
  BY <1>0, <1>1 DEF IndInv, FitsInArray
<1>4. PushInv' /\ TakeInv'
  BY <1>0, <1>a DEF PushInv, TakeInv, Pushing
<1>5. Contents'
  <2>1. Known' = Known
    BY <1>0, <1>a DEF Known
  <2> QED BY <1>0, <1>1, <2>1 DEF IndInv, Contents, Cell
<1>6. \A h \in Thieves : ThiefInv(h)'
  BY <1>0, <1>1, Facts, ThievesUnaware DEF thiefVars
<1> QED BY <1>2, <1>3, <1>4, <1>5, <1>6 DEF IndInv

\* What the owner does when it has read top: it takes one of several items,
\* goes for the last, or finds nothing.
LEMMA TakeReadTopCases ==
    ASSUME IndInv, TakeReadTop
    PROVE  /\ opc = "takeTop" /\ ob \in Nat /\ top <= ob
           /\ UNCHANGED <<top, bottom, arrays, array, pushed, ob, tpc, tt, ta, tx>>
           /\ ot' = top
           /\ \/ /\ top + 1 < ob /\ opc' = "idle" /\ answer' = {Cell(ob - 1)}
                 /\ given' = given \cup {Cell(ob - 1)} /\ Cell(ob - 1) \in Known
              \/ /\ ob = top + 1 /\ opc' = "takeRace" /\ ox' = Cell(top)
                 /\ UNCHANGED <<answer, given>>
              \/ /\ ob = top /\ opc' = "takeRestore" /\ answer' = {} /\ given' = given
<1>1. /\ opc = "takeTop" /\ ot' = top
      /\ UNCHANGED <<top, bottom, arrays, array, pushed, ob, tpc, tt, ta, tx>>
  BY DEF TakeReadTop, OwnerGoes, thiefVars
<1>2. LogicalBottom = ob /\ ob \in Nat /\ top \in Nat /\ top <= ob
  BY <1>1, Facts DEF Taking
<1>3. top < ob => Cell(ob - 1) \in Known /\ Cell(ob - 1) # NoItem
  <2>1. top < ob => ob - 1 \in top .. LogicalBottom - 1
    BY <1>2
  <2>2. Known \subseteq Nat \ {0}
    BY Facts DEF Known
  <2> QED BY <2>1, <2>2 DEF IndInv, Contents, NoItem
<1>4. CASE ob - top > 1
  <2>1. top + 1 < ob /\ TakeCase(ob - top) = "idle"
    BY <1>2, <1>4 DEF TakeCase
  <2>2. opc' = "idle" /\ Returns(Cell(ob - 1))
    BY <1>2, <1>4, <2>1 DEF TakeReadTop, OwnerGoes, Cell
  <2> QED BY <1>1, <1>2, <1>3, <2>1, <2>2 DEF Returns
<1>5. CASE ob - top = 1
  <2>1. ob = top + 1 /\ TakeCase(ob - top) = "takeRace"
    BY <1>2, <1>5 DEF TakeCase
  <2>2. opc' = "takeRace" /\ ox' = Cell(ob - 1) /\ UNCHANGED <<answer, given>>
    BY <1>2, <1>5, <2>1 DEF TakeReadTop, OwnerGoes, Cell
  <2>3. ob - 1 = top
    BY <1>2, <2>1
  <2> QED BY <1>1, <1>2, <2>1, <2>2, <2>3
<1>6. CASE ob - top = 0
  <2>1. ob = top /\ TakeCase(ob - top) = "takeRestore"
    BY <1>2, <1>6 DEF TakeCase
  <2>2. opc' = "takeRestore" /\ Returns(NoItem)
    BY <1>2, <1>6, <2>1 DEF TakeReadTop, OwnerGoes
  <2> QED BY <1>1, <1>2, <2>1, <2>2 DEF Returns
<1> QED BY <1>2, <1>4, <1>5, <1>6

LEMMA TakeReadTopInd == IndInv /\ TakeReadTop => IndInv'
<1> SUFFICES ASSUME IndInv, TakeReadTop PROVE IndInv'
  OBVIOUS
<1>0. /\ opc = "takeTop" /\ ob \in Nat /\ top <= ob /\ ot' = top
      /\ UNCHANGED <<top, bottom, arrays, array, pushed, ob, tpc, tt, ta, tx>>
      /\ opc' \in {"idle", "takeRace", "takeRestore"}
      /\ \A i : Cell(i)' = Cell(i)
  BY TakeReadTopCases DEF Cell
<1>a. opc \notin Pushing /\ opc \in Taking /\ opc' \notin Pushing
  BY <1>0 DEF Pushing, Taking
<1>1. LogicalBottom = ob /\ bottom = ob - 1 /\ top \in Nat
  BY <1>a, Facts
<1>b. \/ top + 1 < ob /\ opc' = "idle" /\ LogicalBottom' = ob - 1
      \/ opc' \in {"takeRace", "takeRestore"} /\ LogicalBottom' = ob
  BY <1>0, <1>1, TakeReadTopCases DEF LogicalBottom
<1>2. WorkQueueTypeOK'
  BY <1>0, <1>1 DEF IndInv, WorkQueueTypeOK, Taking
<1>3. FitsInArray'
  <2>1. top <= LogicalBottom' /\ LogicalBottom' \in Int /\ LogicalBottom' <= ob
    BY <1>0, <1>1, <1>b
  <2> QED BY <1>0, <1>1, <2>1, Facts DEF FitsInArray
<1>4. PushInv' /\ TakeInv'
  <2>1. PushInv'
    BY <1>0, <1>a DEF PushInv, Pushing
  <2>2. opc' \in {"takeTop", "takeRace"} => answer' = {}
    BY <1>0, TakeReadTopCases DEF IndInv, TakeInv
  <2>3. opc' = "takeRace" => ot' = ob' - 1 /\ ot' <= top' /\ ox' = Cell(ot)'
    BY <1>0, <1>1, TakeReadTopCases DEF Cell
  <2>4. opc' = "takeRestore" => top' = ob'
    BY <1>0, TakeReadTopCases
  <2> QED BY <1>0, <1>1, <2>1, <2>2, <2>3, <2>4 DEF TakeInv
<1>5. Contents'
  <2>1. Known' = Known
    BY <1>0, <1>a DEF Known
  <2>2. given' \subseteq Known
    BY TakeReadTopCases DEF IndInv, Contents
  <2>3. \A i \in top' .. LogicalBottom' - 1 : i \in top .. LogicalBottom - 1
    BY <1>0, <1>1, <1>b
  <2> QED BY <1>0, <2>1, <2>2, <2>3 DEF IndInv, Contents
<1>6. \A h \in Thieves : ThiefInv(h)'
  <2>1. top < LogicalBottom => top < LogicalBottom'
    BY <1>0, <1>1, <1>b
  <2> QED BY <1>0, <1>1, <2>1, ThievesUnaware DEF thiefVars
<1> QED BY <1>2, <1>3, <1>4, <1>5, <1>6 DEF IndInv

\* The owner wins the last item, or a thief has taken it.
LEMMA TakeRaceCases ==
    ASSUME IndInv, TakeRace
    PROVE  /\ opc = "takeRace" /\ opc' = "takeRestore" /\ ob \in Nat
           /\ UNCHANGED <<bottom, arrays, array, pushed, ob, ot, ox, tpc, tt, ta, tx>>
           /\ \/ /\ ob = top + 1 /\ top' = top + 1 /\ answer' = {Cell(top)}
                 /\ given' = given \cup {Cell(top)} /\ Cell(top) \in Known
              \/ /\ ob = top /\ top' = top /\ answer' = {} /\ given' = given
<1>1. /\ opc = "takeRace" /\ opc' = "takeRestore"
      /\ UNCHANGED <<bottom, arrays, array, pushed, ob, ot, ox, tpc, tt, ta, tx>>
  BY DEF TakeRace, OwnerGoes, thiefVars
<1>2. LogicalBottom = ob /\ ob \in Nat /\ top \in Nat /\ top <= ob
  BY <1>1, Facts DEF Taking
<1>3. ot = ob - 1 /\ ot <= top /\ ox = Cell(ot)
  BY <1>1 DEF IndInv, TakeInv
<1>4. CASE top = ot
  <2>1. ob = top + 1 /\ top' = top + 1 /\ Returns(Cell(top))
    BY <1>2, <1>3, <1>4 DEF TakeRace
  <2>2. Cell(top) \in Known /\ Cell(top) # NoItem
    <3>1. top \in top .. LogicalBottom - 1
      BY <1>2, <2>1
    <3>2. Known \subseteq Nat \ {0}
      BY Facts DEF Known
    <3> QED BY <3>1, <3>2 DEF IndInv, Contents, NoItem
  <2> QED BY <1>1, <1>2, <2>1, <2>2 DEF Returns
<1>5. CASE top # ot
  <2>1. ob = top
    BY <1>2, <1>3, <1>5
  <2>2. top' = top /\ Returns(NoItem)
    BY <1>5 DEF TakeRace
  <2> QED BY <1>1, <1>2, <2>1, <2>2 DEF Returns
<1> QED BY <1>4, <1>5

LEMMA TakeRaceInd == IndInv /\ TakeRace => IndInv'
<1> SUFFICES ASSUME IndInv, TakeRace PROVE IndInv'
  OBVIOUS
<1>0. /\ opc = "takeRace" /\ opc' = "takeRestore" /\ ob \in Nat
      /\ UNCHANGED <<bottom, arrays, array, pushed, ob, ot, ox, tpc, tt, ta, tx>>
      /\ top' = ob /\ top' >= top /\ top' \in Nat
      /\ \A i : Cell(i)' = Cell(i)
  BY Facts, TakeRaceCases DEF Cell
<1>a. opc \notin Pushing /\ opc \in Taking /\ opc' \notin Pushing
  BY <1>0 DEF Pushing, Taking
<1>1. LogicalBottom = ob /\ bottom = ob - 1 /\ LogicalBottom' = ob
  BY <1>0, <1>a, Facts DEF LogicalBottom
<1>2. WorkQueueTypeOK'
  BY <1>0, <1>1 DEF IndInv, WorkQueueTypeOK, Taking
<1>3. FitsInArray'
  BY <1>0, <1>1, Facts DEF FitsInArray
<1>4. PushInv' /\ TakeInv'
  BY <1>0, <1>1, <1>a DEF PushInv, TakeInv, Pushing
<1>5. Contents'
  <2>1. Known' = Known
    BY <1>0, <1>a DEF Known
  <2>2. given' \subseteq Known
    BY TakeRaceCases DEF IndInv, Contents
  <2>3. \A i \in top' .. LogicalBottom' - 1 : i \in top .. LogicalBottom - 1
    BY <1>0, <1>1, Facts
  <2> QED BY <1>0, <2>1, <2>2, <2>3 DEF IndInv, Contents
<1>6. \A h \in Thieves : ThiefInv(h)'
  BY <1>0, <1>1, Facts, ThievesUnaware DEF thiefVars
<1> QED BY <1>2, <1>3, <1>4, <1>5, <1>6 DEF IndInv

LEMMA TakeRestoreInd == IndInv /\ TakeRestore => IndInv'
<1> SUFFICES ASSUME IndInv, TakeRestore PROVE IndInv'
  OBVIOUS
<1>0. /\ opc = "takeRestore" /\ opc' = "idle" /\ bottom' = ob
      /\ UNCHANGED <<top, arrays, array, pushed, given, answer, ob, ot, ox, tpc, tt, ta, tx>>
  BY DEF TakeRestore, RestoredBottom, OwnerGoes, thiefVars
<1>a. opc \notin Pushing /\ opc \in Taking /\ opc' \notin Pushing /\ opc' \notin Taking
  BY <1>0 DEF Pushing, Taking
<1>1. LogicalBottom = ob /\ LogicalBottom' = ob /\ ob \in Int
  BY <1>0, <1>a, Facts DEF LogicalBottom
<1>2. WorkQueueTypeOK'
  BY <1>0, <1>1 DEF IndInv, WorkQueueTypeOK
<1>3. FitsInArray'
  BY <1>0, <1>1 DEF IndInv, FitsInArray
<1>4. PushInv' /\ TakeInv'
  BY <1>0, <1>a DEF PushInv, TakeInv
<1>5. Contents'
  <2>1. Known' = Known
    BY <1>0, <1>a DEF Known
  <2> QED BY <1>0, <1>1, <2>1 DEF IndInv, Contents, Cell
<1>6. \A h \in Thieves : ThiefInv(h)'
  BY <1>0, <1>1, Facts, ThievesUnaware DEF thiefVars
<1> QED BY <1>2, <1>3, <1>4, <1>5, <1>6 DEF IndInv

\* What a thief reads changes nothing for anybody else.
LEMMA ThiefReads ==
    ASSUME IndInv, NEW h \in Thieves,
           UNCHANGED <<top, bottom, arrays, array, pushed, given, answer, ownerVars>>,
           tpc' \in [Thieves -> {"idle", "bottom", "array", "item", "race"}],
           tt' \in [Thieves -> Nat], ta' \in [Thieves -> 1 .. Len(arrays)],
           tx' \in [Thieves -> Items \cup {NoItem}],
           \A k \in Thieves \ {h} : /\ tpc'[k] = tpc[k] /\ tt'[k] = tt[k]
                                    /\ ta'[k] = ta[k] /\ tx'[k] = tx[k],
           ThiefInv(h)'
    PROVE  IndInv'
<1>0. UNCHANGED <<top, bottom, arrays, array, pushed, given, answer, opc, ob, ot, ox>>
  BY DEF ownerVars
<1>1. LogicalBottom' = LogicalBottom /\ Known' = Known /\ \A i : Cell(i)' = Cell(i)
  BY <1>0 DEF LogicalBottom, Known, Cell
<1>2. WorkQueueTypeOK'
  BY <1>0 DEF IndInv, WorkQueueTypeOK
<1>3. FitsInArray'
  BY <1>0, <1>1 DEF IndInv, FitsInArray
<1>4. PushInv' /\ TakeInv'
  BY <1>0 DEF IndInv, PushInv, TakeInv, Cell
<1>5. Contents'
  BY <1>0, <1>1 DEF IndInv, Contents
<1>6. ASSUME NEW k \in Thieves, k # h PROVE ThiefInv(k)'
  <2>1. ThiefInv(k) /\ Cell(top)' = Cell(top)
    BY <1>0 DEF IndInv, Cell
  <2> QED BY <1>0, <1>1, <1>6, <2>1 DEF ThiefInv
<1> QED BY <1>2, <1>3, <1>4, <1>5, <1>6 DEF IndInv

LEMMA StealReadsInd ==
    ASSUME IndInv, NEW h \in Thieves,
           StealReadTop(h) \/ StealReadBottom(h) \/ StealReadArray(h) \/ StealReadItem(h)
    PROVE  IndInv'
<1>0. /\ tpc \in [Thieves -> {"idle", "bottom", "array", "item", "race"}]
      /\ tt \in [Thieves -> Nat] /\ ta \in [Thieves -> 1 .. Len(arrays)]
      /\ tx \in [Thieves -> Items \cup {NoItem}]
  BY DEF IndInv, WorkQueueTypeOK
<1>1. ThiefInv(h) /\ top \in Nat /\ tt[h] \in Nat
  BY <1>0, Facts DEF IndInv
<1>2. CASE StealReadTop(h)
  <2>1. /\ tpc' = [tpc EXCEPT ![h] = "bottom"] /\ tt' = [tt EXCEPT ![h] = top]
        /\ UNCHANGED <<top, bottom, arrays, array, pushed, given, answer, ownerVars, ta, tx>>
    BY <1>2 DEF StealReadTop, ThiefGoes
  <2>2. tpc'[h] = "bottom" /\ tt'[h] = top
    BY <1>0, <2>1
  <2>3. ThiefInv(h)'
    BY <1>1, <2>1, <2>2 DEF ThiefInv
  <2> QED BY <1>0, <1>1, <2>1, <2>3, ThiefReads
<1>3. CASE StealReadBottom(h)
  <2>1. PICK place \in {"array", "idle"} :
          /\ place = "array" => bottom - tt[h] > 0
          /\ tpc' = [tpc EXCEPT ![h] = place]
    BY <1>3 DEF StealReadBottom, ThiefGoes
  <2>2. UNCHANGED <<top, bottom, arrays, array, pushed, given, answer, ownerVars, tt, ta, tx>>
    BY <1>3 DEF StealReadBottom
  <2>3. tpc'[h] = place /\ tpc' \in [Thieves -> {"idle", "bottom", "array", "item", "race"}]
        /\ \A k \in Thieves \ {h} : tpc'[k] = tpc[k]
    BY <1>0, <2>1
  <2>4. place = "array" /\ tt[h] = top => top < LogicalBottom
    BY <1>1, <2>1, Facts
  <2>5. LogicalBottom' = LogicalBottom
    BY <2>2 DEF LogicalBottom, ownerVars
  <2>6. ThiefInv(h)'
    BY <1>1, <2>2, <2>3, <2>4, <2>5 DEF ThiefInv
  <2> QED BY <1>0, <2>2, <2>3, <2>6, ThiefReads
<1>4. CASE StealReadArray(h)
  <2>1. /\ tpc[h] = "array" /\ tpc' = [tpc EXCEPT ![h] = "item"]
        /\ ta' = [ta EXCEPT ![h] = array]
        /\ UNCHANGED <<top, bottom, arrays, array, pushed, given, answer, ownerVars, tt, tx>>
    BY <1>4 DEF StealReadArray, ThiefGoes
  <2>2. /\ tpc'[h] = "item" /\ tpc' \in [Thieves -> {"idle", "bottom", "array", "item", "race"}]
        /\ \A k \in Thieves \ {h} : tpc'[k] = tpc[k]
    BY <1>0, <2>1
  <2>3. /\ ta'[h] = array /\ ta' \in [Thieves -> 1 .. Len(arrays)]
        /\ \A k \in Thieves \ {h} : ta'[k] = ta[k]
    BY <1>0, <2>1, Facts
  <2>4. LogicalBottom' = LogicalBottom
    BY <2>1 DEF LogicalBottom, ownerVars
  <2>5. ThiefInv(h)'
    BY <1>1, <2>1, <2>2, <2>3, <2>4 DEF ThiefInv, Cell
  <2> QED BY <1>0, <2>1, <2>2, <2>3, <2>5, ThiefReads
<1>5. CASE StealReadItem(h)
  <2>1. /\ tpc[h] = "item" /\ tpc' = [tpc EXCEPT ![h] = "race"]
        /\ UNCHANGED <<top, bottom, arrays, array, pushed, given, answer, ownerVars, tt, ta>>
    BY <1>5 DEF StealReadItem, ThiefGoes
  <2>2. PICK x \in Items \cup {NoItem} :
          x = At(arrays[ta[h]], tt[h]) /\ tx' = [tx EXCEPT ![h] = x]
    <3>1. arrays[ta[h]] \in Array
      BY <1>0, Facts
    <3>2. At(arrays[ta[h]], tt[h]) \in Items \cup {NoItem}
      BY <1>1, <3>1, AtType
    <3> QED BY <1>5, <3>2 DEF StealReadItem
  <2>3. /\ tpc'[h] = "race" /\ tpc' \in [Thieves -> {"idle", "bottom", "array", "item", "race"}]
        /\ \A k \in Thieves \ {h} : tpc'[k] = tpc[k]
    BY <1>0, <2>1
  <2>4. /\ tx'[h] = x /\ tx' \in [Thieves -> Items \cup {NoItem}]
        /\ \A k \in Thieves \ {h} : tx'[k] = tx[k]
    BY <1>0, <2>2
  <2>5. LogicalBottom' = LogicalBottom
    BY <2>1 DEF LogicalBottom, ownerVars
  <2>6. ThiefInv(h)'
    BY <1>1, <2>1, <2>2, <2>3, <2>4, <2>5 DEF ThiefInv, Cell
  <2> QED BY <1>0, <2>1, <2>3, <2>4, <2>6, ThiefReads
<1> QED BY <1>2, <1>3, <1>4, <1>5

\* A thief wins the first item, or has come too late.
LEMMA StealRaceCases ==
    ASSUME IndInv, NEW h \in Thieves, StealRace(h)
    PROVE  /\ UNCHANGED <<bottom, arrays, array, pushed, answer, opc, ob, ot, ox, tt, ta, tx>>
           /\ tpc' = [tpc EXCEPT ![h] = "idle"]
           /\ \/ /\ top < LogicalBottom /\ top' = top + 1
                 /\ given' = given \cup {Cell(top)} /\ Cell(top) \in Known
              \/ UNCHANGED <<top, given>>
<1>1. /\ UNCHANGED <<bottom, arrays, array, pushed, answer, opc, ob, ot, ox, tt, ta, tx>>
      /\ tpc[h] = "race" /\ tpc' = [tpc EXCEPT ![h] = "idle"]
  BY DEF StealRace, ThiefGoes, ownerVars
<1>2. CASE top = tt[h]
  <2>1. top < LogicalBottom /\ tx[h] = Cell(top)
    BY <1>1, <1>2 DEF IndInv, ThiefInv
  <2>2. top \in top .. LogicalBottom - 1
    BY <2>1, Facts
  <2>3. Cell(top) \in Known
    BY <2>2 DEF IndInv, Contents
  <2>4. top' = top + 1 /\ given' = given \cup {tx[h]}
    BY <1>2 DEF StealRace
  <2> QED BY <1>1, <2>1, <2>3, <2>4
<1>3. CASE top # tt[h]
  BY <1>1, <1>3 DEF StealRace
<1> QED BY <1>2, <1>3

LEMMA StealRaceInd ==
    ASSUME IndInv, NEW h \in Thieves, StealRace(h)
    PROVE  IndInv'
<1>0. /\ UNCHANGED <<bottom, arrays, array, pushed, answer, opc, ob, ot, ox, tt, ta, tx>>
      /\ tpc' = [tpc EXCEPT ![h] = "idle"]
      /\ top' = top \/ (top < LogicalBottom /\ top' = top + 1)
      /\ top' \in Nat /\ top <= top'
  BY StealRaceCases, Facts
<1>1. LogicalBottom' = LogicalBottom /\ Known' = Known /\ \A i : Cell(i)' = Cell(i)
  BY <1>0 DEF LogicalBottom, Known, Cell
<1>a. top' <= LogicalBottom
  BY <1>0, Facts
<1>2. WorkQueueTypeOK'
  BY <1>0 DEF IndInv, WorkQueueTypeOK
<1>3. FitsInArray'
  BY <1>0, <1>1, <1>a, Facts DEF FitsInArray
<1>4. PushInv'
  <2>1. PushInv /\ (opc \in Pushing => LogicalBottom = ob)
    BY Facts DEF IndInv
  <2>2. opc = "publish" => \A i \in top' .. ob - 1 : i \in top .. ob - 1
    BY <1>0, Facts
  <2>3. opc \in {"pushStore", "pushBottom"} => ob - top' < Size(arrays[array])
    BY <1>0, <2>1, Facts DEF PushInv
  <2> QED BY <1>0, <1>1, <2>1, <2>2, <2>3 DEF PushInv, Cell
<1>5. TakeInv'
  <2>1. opc = "takeRace" => ot <= top'
    BY <1>0, Facts DEF IndInv, TakeInv, WorkQueueTypeOK
  <2>2. opc = "takeRestore" => top' = ob
    <3>1. opc = "takeRestore" => top = ob /\ LogicalBottom = ob
      BY Facts DEF IndInv, TakeInv, Taking
    <3> QED BY <1>0, <1>a, <3>1, Facts
  <2> QED BY <1>0, <1>1, <2>1, <2>2 DEF IndInv, TakeInv, Cell
<1>6. Contents'
  <2>1. given' \subseteq Known
    BY StealRaceCases DEF IndInv, Contents
  <2>2. \A i \in top' .. LogicalBottom' - 1 : i \in top .. LogicalBottom - 1
    BY <1>0, <1>1, Facts
  <2> QED BY <1>1, <2>1, <2>2 DEF IndInv, Contents
<1>7. ASSUME NEW k \in Thieves PROVE ThiefInv(k)'
  <2>0. /\ tpc \in [Thieves -> {"idle", "bottom", "array", "item", "race"}]
        /\ tt[k] \in Nat /\ ThiefInv(k) /\ top \in Nat
    BY Facts DEF IndInv, WorkQueueTypeOK
  <2>1. CASE k = h
    <3>1. tpc'[k] = "idle"
      BY <1>0, <2>0, <2>1
    <3> QED BY <1>0, <2>0, <3>1 DEF ThiefInv
  <2>2. CASE k # h /\ top' = top
    BY <1>0, <1>1, <2>0, <2>2 DEF ThiefInv, Cell
  <2>3. CASE k # h /\ top' # top
    <3>1. tt'[k] < top'
      BY <1>0, <2>0, <2>3 DEF ThiefInv
    <3> QED BY <1>0, <2>0, <3>1 DEF ThiefInv
  <2> QED BY <2>1, <2>2, <2>3
<1> QED BY <1>2, <1>3, <1>4, <1>5, <1>6, <1>7 DEF IndInv

LEMMA NextInd == IndInv /\ [Next]_vars => IndInv'
<1> SUFFICES ASSUME IndInv, [Next]_vars PROVE IndInv'
  OBVIOUS
<1>1. CASE UNCHANGED vars
  <2>1. UNCHANGED <<top, bottom, arrays, array, pushed, given, answer, opc, ob, ot, ox>>
        /\ UNCHANGED <<tpc, tt, ta, tx>>
    BY <1>1 DEF vars, ownerVars, thiefVars
  <2> QED BY <2>1 DEF IndInv, WorkQueueTypeOK, FitsInArray, PushInv, TakeInv, Contents,
                      ThiefInv, Cell, Known, LogicalBottom
<1>2. CASE Owner
  BY <1>2, PushBeginInd, PushReadTopInd, ResizeInd, PublishInd, PushStoreInd, PushBottomInd,
     TakeBeginInd, TakeReadTopInd, TakeRaceInd, TakeRestoreInd DEF Owner
<1>3. ASSUME NEW h \in Thieves, Thief(h) PROVE IndInv'
  BY <1>3, StealReadsInd, StealRaceInd DEF Thief
<1> QED BY <1>1, <1>2, <1>3 DEF Next

LEMMA Invariance == Spec => []IndInv
<1>1. Init => IndInv
  BY InitInd
<1>2. IndInv /\ [Next]_vars => IndInv'
  BY NextInd
<1> QED BY <1>1, <1>2, PTL DEF Spec

\* The owner and the thieves agree on the length of the queue: it is never
\* negative, and workQueuePush never stores over an item that is still in it.
THEOREM WorkQueueFits == Spec => []FitsInArray
<1>1. IndInv => FitsInArray
  BY DEF IndInv
<1> QED BY <1>1, Invariance, PTL

-----------------------------------------------------------------------------
(* Every step is a step of the double-ended queue, or none.                *)

LEMMA IsAppend ==
    ASSUME NEW S, NEW q \in Seq(S), NEW r \in Seq(S), NEW x \in S,
           Len(r) = Len(q) + 1, r[Len(q) + 1] = x, \A k \in 1 .. Len(q) : r[k] = q[k]
    PROVE  r = Append(q, x)
<1>1. PICK p \in Seq(S) : p = Append(q, x)
  OBVIOUS
<1>2. Len(p) = Len(q) + 1 /\ p[Len(q) + 1] = x /\ \A k \in 1 .. Len(q) : p[k] = q[k]
  BY <1>1, AppendProperties
<1>3. \A k \in 1 .. Len(q) + 1 : k \in 1 .. Len(q) \/ k = Len(q) + 1
  OBVIOUS
<1>4. \A k \in 1 .. Len(r) : r[k] = p[k]
  BY <1>2, <1>3
<1> QED BY <1>1, <1>2, <1>4, SeqEqual

LEMMA IsTail ==
    ASSUME NEW S, NEW q \in Seq(S), NEW r \in Seq(S), q # <<>>,
           Len(r) = Len(q) - 1, \A k \in 1 .. Len(q) - 1 : r[k] = q[k + 1]
    PROVE  r = Tail(q)
<1>1. PICK p \in Seq(S) : p = Tail(q)
  OBVIOUS
<1>2. Len(p) = Len(q) - 1 /\ \A k \in 1 .. Len(q) - 1 : p[k] = q[k + 1]
  BY <1>1
<1>3. \A k \in 1 .. Len(r) : r[k] = p[k]
  BY <1>2
<1> QED BY <1>1, <1>2, <1>3, SeqEqual

LEMMA IsFront ==
    ASSUME NEW S, NEW q \in Seq(S), NEW r \in Seq(S), q # <<>>,
           Len(r) = Len(q) - 1, \A k \in 1 .. Len(q) - 1 : r[k] = q[k]
    PROVE  r = SubSeq(q, 1, Len(q) - 1)
<1>1. PICK p \in Seq(S) : p = SubSeq(q, 1, Len(q) - 1)
  OBVIOUS
<1>2. Len(p) = Len(q) - 1 /\ \A k \in 1 .. Len(q) - 1 : p[k] = q[k]
  BY <1>1
<1>3. \A k \in 1 .. Len(r) : r[k] = p[k]
  BY <1>2
<1> QED BY <1>1, <1>2, <1>3, SeqEqual

\* The queue that the refinement maps to holds the cells from top on.
QueueIsSeq ==
    /\ Queue \in Seq(Items) /\ Len(Queue) = LogicalBottom - top
    /\ \A k \in 1 .. LogicalBottom - top : Queue[k] = Cell(top + k - 1)

LEMMA QueueType == IndInv => QueueIsSeq
<1> SUFFICES ASSUME IndInv PROVE QueueIsSeq
  OBVIOUS
<1>1. PICK n \in Nat : n = LogicalBottom - top
  <2>1. LogicalBottom - top \in Nat
    BY Facts
  <2> QED BY <2>1
<1>2. \A k \in 1 .. n : Cell(top + k - 1) \in Items
  <2> SUFFICES ASSUME NEW k \in 1 .. n PROVE Cell(top + k - 1) \in Items
    OBVIOUS
  <2>1. top + k - 1 \in top .. LogicalBottom - 1
    BY <1>1, Facts
  <2>2. Known \subseteq Items
    BY WorkQueueAssumption DEF Known, Items, IndInv, WorkQueueTypeOK
  <2> QED BY <2>1, <2>2 DEF IndInv, Contents
<1>3. Queue = [k \in 1 .. n |-> Cell(top + k - 1)]
  BY <1>1 DEF Queue, Cell
<1>4. PICK q \in [1 .. n -> Items] : q = [k \in 1 .. n |-> Cell(top + k - 1)]
  BY <1>2
<1>5. q \in Seq(Items) /\ Len(q) = n
  OBVIOUS
<1>6. \A k \in 1 .. n : q[k] = Cell(top + k - 1)
  BY <1>4
<1> QED BY <1>1, <1>3, <1>4, <1>5, <1>6 DEF QueueIsSeq

LEMMA QueueTypeNext == IndInv' => QueueIsSeq'
BY QueueType, PTL

\* Steps that leave the ends and the cells between them alone.
LEMMA QueueSame ==
    ASSUME IndInv, IndInv', top' = top, LogicalBottom' = LogicalBottom,
           \A i \in top .. LogicalBottom - 1 : Cell(i)' = Cell(i)
    PROVE  Queue' = Queue
<1>1. QueueIsSeq /\ QueueIsSeq'
  BY QueueType, QueueTypeNext
<1>2. \A k \in 1 .. LogicalBottom - top : top + k - 1 \in top .. LogicalBottom - 1
  BY Facts
<1>3. \A k \in 1 .. LogicalBottom - top : Queue'[k] = Queue[k]
  BY <1>1, <1>2 DEF QueueIsSeq, Cell
<1> QED BY <1>1, <1>3, SeqEqual DEF QueueIsSeq

LEMMA InitRefines == Init => Abstract!Init
<1> SUFFICES ASSUME Init PROVE Abstract!Init
  OBVIOUS
<1>1. QueueIsSeq /\ LogicalBottom - top = 0
  BY InitInd, QueueType DEF Init, LogicalBottom
<1>2. Queue = <<>>
  BY <1>1 DEF QueueIsSeq
<1> QED BY <1>2 DEF Abstract!Init, Init

Asked == opc \in {"takeTop", "takeRace"}

\* Reading and making room are invisible, whoever does it.
LEMMA StutterRefines ==
    ASSUME IndInv, IndInv', top' = top, LogicalBottom' = LogicalBottom,
           \A i \in top .. LogicalBottom - 1 : Cell(i)' = Cell(i),
           given' = given, answer' = answer, Asked' <=> Asked
    PROVE  UNCHANGED Abstract!vars
<1>1. Queue' = Queue
  BY QueueSame
<1> QED BY <1>1 DEF Abstract!vars, Asked

LEMMA PushBottomRefines ==
    ASSUME IndInv, IndInv', PushBottom
    PROVE  Abstract!Push(pushed)
<1>0. /\ opc = "pushBottom" /\ opc' = "idle" /\ bottom' = ob + 1
      /\ UNCHANGED <<top, arrays, array, pushed, given, answer>>
      /\ \A i : Cell(i)' = Cell(i)
  BY DEF PushBottom, OwnerGoes, Cell
<1>a. opc \in Pushing
  BY <1>0 DEF Pushing
<1>1. LogicalBottom = ob /\ LogicalBottom' = ob + 1 /\ ob \in Nat /\ top \in Nat /\ top <= ob
  BY <1>0, <1>a, Facts DEF LogicalBottom
<1>2. /\ pushed \in Items /\ Cell(ob) = pushed /\ Known = 1 .. pushed - 1
  BY <1>0, <1>a DEF IndInv, PushInv, WorkQueueTypeOK, Known, Items
<1>3. pushed \notin Known /\ pushed \in Nat
  BY <1>2, Facts
<1>4. QueueIsSeq /\ QueueIsSeq'
  BY QueueType, QueueTypeNext
<1>5. PICK q \in Seq(Items), r \in Seq(Items) : q = Queue /\ r = Queue'
  BY <1>4 DEF QueueIsSeq
<1>6. /\ Len(q) = ob - top /\ Len(r) = Len(q) + 1
      /\ \A k \in 1 .. Len(q) : q[k] = Cell(top + k - 1)
      /\ \A k \in 1 .. Len(q) + 1 : r[k] = Cell(top + k - 1)
  <2>1. Len(q) = ob - top /\ \A k \in 1 .. ob - top : q[k] = Cell(top + k - 1)
    BY <1>1, <1>4, <1>5 DEF QueueIsSeq
  <2>2. /\ Len(r) = (ob + 1) - top
        /\ \A k \in 1 .. (ob + 1) - top : r[k] = Cell(top + k - 1)
    BY <1>0, <1>1, <1>4, <1>5 DEF QueueIsSeq, Cell
  <2>3. (ob + 1) - top = (ob - top) + 1
    BY <1>1
  <2> QED BY <2>1, <2>2, <2>3
<1>7. r[Len(q) + 1] = pushed
  <2>1. Len(q) + 1 \in 1 .. Len(q) + 1 /\ top + (Len(q) + 1) - 1 = ob
    BY <1>1, <1>6
  <2> QED BY <1>2, <1>6, <2>1
<1>8. r = Append(q, pushed)
  <2>1. \A k \in 1 .. Len(q) : r[k] = q[k]
    BY <1>6
  <2> QED BY <1>2, <1>6, <1>7, <2>1, IsAppend
<1>9. \A k \in DOMAIN q : q[k] # pushed
  <2>1. \A k \in 1 .. Len(q) : top + k - 1 \in top .. LogicalBottom - 1
    BY <1>1, <1>6
  <2>2. \A k \in 1 .. Len(q) : q[k] \in Known
    BY <1>6, <2>1 DEF IndInv, Contents
  <2> QED BY <1>3, <2>2
<1>10. pushed \notin given
  BY <1>3 DEF IndInv, Contents
<1>11. ~Asked /\ ~Asked'
  BY <1>0 DEF Asked
<1> QED BY <1>0, <1>5, <1>8, <1>9, <1>10, <1>11 DEF Abstract!Push, Asked

LEMMA TakeBeginRefines ==
    ASSUME IndInv, IndInv', TakeBegin
    PROVE  Abstract!Ask
<1>0. /\ opc = "idle" /\ opc' = "takeTop" /\ ob' = bottom /\ answer' = {}
      /\ UNCHANGED <<top, arrays, array, given>>
      /\ \A i : Cell(i)' = Cell(i)
  BY DEF TakeBegin, OwnerGoes, Cell
<1>1. LogicalBottom' = LogicalBottom
  BY <1>0 DEF LogicalBottom
<1>2. Queue' = Queue
  BY <1>0, <1>1, QueueSame
<1> QED BY <1>0, <1>2 DEF Abstract!Ask

\* The owner gets the item at the end of the queue, ...
LEMMA TakenRefines ==
    ASSUME IndInv, IndInv', Asked, ~Asked', top < LogicalBottom,
           \/ top' = top /\ LogicalBottom' = LogicalBottom - 1
           \/ top + 1 = LogicalBottom /\ top' = top + 1 /\ LogicalBottom' = LogicalBottom,
           \A i : Cell(i)' = Cell(i),
           answer' = {Cell(LogicalBottom - 1)},
           given' = given \cup {Cell(LogicalBottom - 1)}
    PROVE  Abstract!Take
<1>1. QueueIsSeq /\ QueueIsSeq'
  BY QueueType, QueueTypeNext
<1>2. PICK q \in Seq(Items), r \in Seq(Items) : q = Queue /\ r = Queue'
  BY <1>1 DEF QueueIsSeq
<1>3. PICK n \in Nat \ {0}, t \in Nat, b \in Nat : n = LogicalBottom - top /\ t = top /\ b = LogicalBottom
  <2>1. LogicalBottom - top \in Nat \ {0} /\ top \in Nat /\ LogicalBottom \in Nat
    BY Facts
  <2> QED BY <2>1
<1>4. Len(q) = n /\ \A k \in 1 .. n : q[k] = Cell(t + k - 1)
  BY <1>1, <1>2, <1>3 DEF QueueIsSeq
<1>5. /\ Len(r) = n - 1
      /\ \A k \in 1 .. n - 1 : r[k] = q[k]
  <2>1. CASE top' = top /\ LogicalBottom' = LogicalBottom - 1
    <3>1. LogicalBottom' - top' = n - 1
      BY <1>3, <2>1
    <3>2. Len(r) = n - 1 /\ \A k \in 1 .. n - 1 : r[k] = Cell(t + k - 1)
      BY <1>1, <1>2, <1>3, <2>1, <3>1 DEF QueueIsSeq, Cell
    <3> QED BY <1>4, <3>2
  <2>2. CASE top + 1 = LogicalBottom /\ top' = top + 1 /\ LogicalBottom' = LogicalBottom
    <3>1. LogicalBottom' - top' = 0 /\ n = 1
      BY <1>3, <2>2
    <3> QED BY <1>1, <1>2, <3>1 DEF QueueIsSeq
  <2> QED BY <2>1, <2>2
<1>6. q # <<>> /\ q[Len(q)] = Cell(LogicalBottom - 1)
  <2>1. t + n - 1 = b - 1 /\ n \in 1 .. n
    BY <1>3
  <2> QED BY <1>3, <1>4, <2>1
<1>7. r = SubSeq(q, 1, Len(q) - 1)
  BY <1>4, <1>5, <1>6, IsFront
<1> QED BY <1>2, <1>6, <1>7 DEF Abstract!Take, Asked

\* ... or is told that there is none, and there is none.
LEMMA NothingRefines ==
    ASSUME IndInv, IndInv', Asked, ~Asked', top' = top,
           LogicalBottom = top, LogicalBottom' = top, answer' = {}, given' = given
    PROVE  Abstract!TakeNone
<1>1. QueueIsSeq /\ QueueIsSeq' /\ LogicalBottom - top = 0 /\ LogicalBottom' - top' = 0
  BY QueueType, QueueTypeNext, Facts
<1>2. Queue = <<>>
  BY <1>1 DEF QueueIsSeq
<1>3. Queue' = <<>>
  BY <1>1 DEF QueueIsSeq
<1>4. answer = {}
  BY DEF Asked, IndInv, TakeInv
<1> QED BY <1>2, <1>3, <1>4 DEF Abstract!TakeNone, Asked

\* A thief that wins gets the item at the head.
LEMMA StealRefines ==
    ASSUME IndInv, IndInv', top < LogicalBottom, top' = top + 1,
           LogicalBottom' = LogicalBottom, \A i : Cell(i)' = Cell(i),
           given' = given \cup {Cell(top)}, answer' = answer, opc' = opc
    PROVE  Abstract!Steal
<1>1. QueueIsSeq /\ QueueIsSeq'
  BY QueueType, QueueTypeNext
<1>2. PICK q \in Seq(Items), r \in Seq(Items) : q = Queue /\ r = Queue'
  BY <1>1 DEF QueueIsSeq
<1>3. PICK n \in Nat \ {0}, t \in Nat : n = LogicalBottom - top /\ t = top
  <2>1. LogicalBottom - top \in Nat \ {0} /\ top \in Nat
    BY Facts
  <2> QED BY <2>1
<1>4. Len(q) = n /\ \A k \in 1 .. n : q[k] = Cell(t + k - 1)
  BY <1>1, <1>2, <1>3 DEF QueueIsSeq
<1>5. LogicalBottom' - top' = n - 1
  BY <1>3, Facts
<1>6. Len(r) = n - 1 /\ \A k \in 1 .. n - 1 : r[k] = Cell((t + 1) + k - 1)
  BY <1>1, <1>2, <1>3, <1>5 DEF QueueIsSeq, Cell
<1>7. \A k \in 1 .. n - 1 : k + 1 \in 1 .. n /\ (t + 1) + k - 1 = t + (k + 1) - 1
  OBVIOUS
<1>8. \A k \in 1 .. n - 1 : r[k] = q[k + 1]
  BY <1>4, <1>6, <1>7
<1>9. q # <<>>
  BY <1>4
<1>10. r = Tail(q)
  BY <1>4, <1>6, <1>8, <1>9, IsTail
<1>11. Head(q) = Cell(top)
  <2>1. 1 \in 1 .. n /\ t + 1 - 1 = t
    OBVIOUS
  <2>2. q[1] = Cell(t)
    BY <1>4, <2>1
  <2> QED BY <1>3, <1>9, <2>2
<1> QED BY <1>2, <1>9, <1>10, <1>11 DEF Abstract!Steal

LEMMA OwnerRefines ==
    ASSUME IndInv, IndInv', Owner
    PROVE  [Abstract!Next]_Abstract!vars
<1>1. CASE PushBegin \/ PushReadTop \/ Resize
  <2>1. /\ UNCHANGED <<top, bottom, array, given, answer>>
        /\ opc \in {"idle", "pushTop", "resize"}
        /\ opc' \in {"pushTop", "resize", "pushStore", "publish"}
    BY <1>1 DEF PushBegin, PushReadTop, Resize, OwnerGoes
  <2>2. LogicalBottom' = LogicalBottom /\ (Asked' <=> Asked)
    BY <2>1 DEF LogicalBottom, Asked
  <2>3. arrays'[array] = arrays[array]
    <3>1. CASE Resize
      <4>1. PICK c : arrays' = Append(arrays, c)
        BY <3>1 DEF Resize
      <4> QED BY <4>1, Facts
    <3>2. CASE PushBegin \/ PushReadTop
      BY <3>2 DEF PushBegin, PushReadTop
    <3> QED BY <1>1, <3>1, <3>2
  <2>4. \A i : Cell(i)' = Cell(i)
    BY <2>1, <2>3 DEF Cell
  <2> QED BY <2>1, <2>2, <2>4, StutterRefines
<1>2. CASE Publish
  <2>1. /\ opc = "publish" /\ opc' = "pushStore" /\ array' = Len(arrays)
        /\ UNCHANGED <<top, bottom, arrays, given, answer>>
    BY <1>2 DEF Publish, OwnerGoes
  <2>2. LogicalBottom = ob
    BY <2>1, Facts DEF Pushing
  <2>3. LogicalBottom' = LogicalBottom /\ (Asked' <=> Asked)
    BY <2>1 DEF LogicalBottom, Asked
  <2>4. \A i \in top .. LogicalBottom - 1 : Cell(i)' = Cell(i)
    BY <2>1, <2>2 DEF IndInv, PushInv, Cell
  <2> QED BY <2>1, <2>3, <2>4, StutterRefines
<1>3. CASE PushStore
  <2>1. /\ opc = "pushStore" /\ opc' = "pushBottom"
        /\ UNCHANGED <<top, bottom, array, given, answer>>
    BY <1>3 DEF PushStore, OwnerGoes
  <2>2. LogicalBottom = ob
    BY <2>1, Facts DEF Pushing
  <2>3. LogicalBottom' = LogicalBottom /\ (Asked' <=> Asked)
    BY <2>1 DEF LogicalBottom, Asked
  <2>4. \A i \in top .. LogicalBottom - 1 : Cell(i)' = Cell(i)
    BY <1>3, <2>1, <2>2, Facts, PushStoreCells DEF Cell
  <2> QED BY <2>1, <2>3, <2>4, StutterRefines
<1>4. CASE PushBottom
  <2>1. pushed \in Items
    BY <1>4 DEF PushBottom, OwnerGoes, IndInv, PushInv, Pushing, WorkQueueTypeOK, Items
  <2> QED BY <1>4, <2>1, PushBottomRefines DEF Abstract!Next
<1>5. CASE TakeBegin
  BY <1>5, TakeBeginRefines DEF Abstract!Next
<1>6. CASE TakeReadTop
  <2>0. /\ opc = "takeTop" /\ Asked /\ LogicalBottom = ob /\ ob \in Nat /\ bottom = ob - 1
        /\ UNCHANGED <<top, bottom, arrays, array, ob>> /\ top \in Nat
        /\ \A i : Cell(i)' = Cell(i)
    BY <1>6, TakeReadTopCases, Facts DEF Asked, Taking, Cell
  <2>1. CASE /\ top + 1 < ob /\ opc' = "idle" /\ answer' = {Cell(ob - 1)}
             /\ given' = given \cup {Cell(ob - 1)}
    <3>1. ~Asked' /\ LogicalBottom' = LogicalBottom - 1 /\ top < LogicalBottom
      BY <2>0, <2>1 DEF Asked, LogicalBottom
    <3> QED BY <2>0, <2>1, <3>1, TakenRefines DEF Abstract!Next
  <2>2. CASE ob = top + 1 /\ opc' = "takeRace" /\ UNCHANGED <<answer, given>>
    <3>1. Asked' /\ LogicalBottom' = LogicalBottom
      BY <2>0, <2>2 DEF Asked, LogicalBottom
    <3> QED BY <2>0, <2>2, <3>1, StutterRefines
  <2>3. CASE ob = top /\ opc' = "takeRestore" /\ answer' = {} /\ given' = given
    <3>1. ~Asked' /\ LogicalBottom' = top
      BY <2>0, <2>3 DEF Asked, LogicalBottom
    <3> QED BY <2>0, <2>3, <3>1, NothingRefines DEF Abstract!Next
  <2> QED BY <1>6, <2>1, <2>2, <2>3, TakeReadTopCases
<1>7. CASE TakeRace
  <2>0. /\ opc = "takeRace" /\ opc' = "takeRestore" /\ Asked /\ ~Asked'
        /\ LogicalBottom = ob /\ LogicalBottom' = ob /\ ob \in Nat /\ top \in Nat
        /\ \A i : Cell(i)' = Cell(i)
    BY <1>7, TakeRaceCases, Facts DEF Asked, Taking, Cell, LogicalBottom
  <2>1. CASE /\ ob = top + 1 /\ top' = top + 1 /\ answer' = {Cell(top)}
             /\ given' = given \cup {Cell(top)}
    <3>1. LogicalBottom - 1 = top /\ top < LogicalBottom
      BY <2>0, <2>1
    <3> QED BY <2>0, <2>1, <3>1, TakenRefines DEF Abstract!Next
  <2>2. CASE ob = top /\ top' = top /\ answer' = {} /\ given' = given
    BY <2>0, <2>2, NothingRefines DEF Abstract!Next
  <2> QED BY <1>7, <2>1, <2>2, TakeRaceCases
<1>8. CASE TakeRestore
  <2>1. /\ opc = "takeRestore" /\ opc' = "idle" /\ bottom' = ob
        /\ UNCHANGED <<top, arrays, array, given, answer>>
        /\ \A i : Cell(i)' = Cell(i)
    BY <1>8 DEF TakeRestore, RestoredBottom, OwnerGoes, Cell
  <2>2. LogicalBottom' = LogicalBottom /\ (Asked' <=> Asked)
    BY <2>1 DEF LogicalBottom, Asked
  <2> QED BY <2>1, <2>2, StutterRefines
<1> QED BY <1>1, <1>2, <1>3, <1>4, <1>5, <1>6, <1>7, <1>8 DEF Owner

LEMMA ThiefRefines ==
    ASSUME IndInv, IndInv', NEW h \in Thieves, Thief(h)
    PROVE  [Abstract!Next]_Abstract!vars
<1>1. CASE StealRace(h)
  <2>0. UNCHANGED <<bottom, arrays, array, answer, opc, ob>>
    BY <1>1, StealRaceCases
  <2>1. /\ LogicalBottom' = LogicalBottom /\ (Asked' <=> Asked)
        /\ \A i : Cell(i)' = Cell(i)
    BY <2>0 DEF LogicalBottom, Asked, Cell
  <2>2. CASE top < LogicalBottom /\ top' = top + 1 /\ given' = given \cup {Cell(top)}
    BY <2>0, <2>1, <2>2, StealRefines DEF Abstract!Next
  <2>3. CASE UNCHANGED <<top, given>>
    BY <2>0, <2>1, <2>3, StutterRefines
  <2> QED BY <1>1, <2>2, <2>3, StealRaceCases
<1>2. CASE ~StealRace(h)
  <2>0. UNCHANGED <<top, bottom, arrays, array, given, answer, opc, ob>>
    BY <1>2 DEF Thief, StealReadTop, StealReadBottom, StealReadArray, StealReadItem,
                ownerVars
  <2>1. /\ LogicalBottom' = LogicalBottom /\ (Asked' <=> Asked)
        /\ \A i : Cell(i)' = Cell(i)
    BY <2>0 DEF LogicalBottom, Asked, Cell
  <2> QED BY <2>0, <2>1, StutterRefines
<1> QED BY <1>1, <1>2

\* Seen through top, bottom and the current array, every behaviour of the
\* queue is one of the double-ended queue: across resizes, and whoever wins the
\* race for the last item, workQueueTake and workQueueSteal hand out every item
\* once, in order, and Take answers NONE only when there is nothing.
THEOREM WorkQueueImplementsDeque == Spec => ImplementsDeque
<1>1. Init => Abstract!Init
  BY InitRefines
<1>2. IndInv /\ IndInv' /\ [Next]_vars => [Abstract!Next]_Abstract!vars
  <2> SUFFICES ASSUME IndInv, IndInv', [Next]_vars PROVE [Abstract!Next]_Abstract!vars
    OBVIOUS
  <2>1. CASE UNCHANGED vars
    <3>1. UNCHANGED <<top, bottom, arrays, array, given, answer, opc, ob>>
      BY <2>1 DEF vars, ownerVars
    <3>2. /\ LogicalBottom' = LogicalBottom /\ (Asked' <=> Asked)
          /\ \A i : Cell(i)' = Cell(i)
      BY <3>1 DEF LogicalBottom, Asked, Cell
    <3> QED BY <3>1, <3>2, StutterRefines
  <2>2. CASE Owner
    BY <2>2, OwnerRefines
  <2>3. ASSUME NEW h \in Thieves, Thief(h) PROVE [Abstract!Next]_Abstract!vars
    BY <2>3, ThiefRefines
  <2> QED BY <2>1, <2>2, <2>3 DEF Next
<1> QED BY <1>1, <1>2, Invariance, PTL DEF Spec, ImplementsDeque, Abstract!Spec

=============================================================================
