----------------------------- MODULE WorkQueue -----------------------------
(***************************************************************************)
(* The work-stealing queue of a worker (workqueue.c) at the grain of its   *)
(* atomic loads and stores, in sequentially consistent order: one owner    *)
(* that pushes and takes, and thieves.  The array is circular; a full one  *)
(* is replaced by one twice its size and never freed, so that a thief may  *)
(* go on reading the old one.                                              *)
(***************************************************************************)
EXTENDS Integers, Sequences, FiniteSets

CONSTANTS Thieves,
          MaxItems     \* bound: items 1, 2, ... pushed in a behaviour

ASSUME WorkQueueAssumption == MaxItems \in Nat

Items == 1 .. MaxItems
NoItem == 0

VARIABLES
    top, bottom,
    arrays,      \* every array so far; a function from 0 .. size - 1
    array,       \* number of the current one
    pushed,      \* how many items have been pushed or are being pushed
    given,       \* items returned to a caller
    answer,      \* what the owner's last Take got: one item, or none
    opc, ob, ot, ox,     \* owner: step and locals b, t, x
    tpc, tt, ta, tx      \* thieves: step and locals t, a, x

ownerVars == <<opc, ob, ot, ox>>
thiefVars == <<tpc, tt, ta, tx>>
vars == <<top, bottom, arrays, array, pushed, given, answer, ownerVars, thiefVars>>

Size(a) == Cardinality(DOMAIN a)
At(a, i) == a[i % Size(a)]

EmptyArray(n) == [i \in 0 .. n - 1 |-> NoItem]

Init ==
    /\ top = 0 /\ bottom = 0
    /\ arrays = <<EmptyArray(2)>> /\ array = 1
    /\ pushed = 0 /\ given = {} /\ answer = {}
    /\ opc = "idle" /\ ob = 0 /\ ot = 0 /\ ox = NoItem
    /\ tpc = [h \in Thieves |-> "idle"]
    /\ tt = [h \in Thieves |-> 0]
    /\ ta = [h \in Thieves |-> 1]
    /\ tx = [h \in Thieves |-> NoItem]

OwnerGoes(from, to) == opc = from /\ opc' = to

-----------------------------------------------------------------------------
(* workQueuePush.                                                          *)

PushBegin ==
    /\ OwnerGoes("idle", "pushTop")
    /\ pushed < MaxItems
    /\ pushed' = pushed + 1
    /\ ob' = bottom
    /\ UNCHANGED <<top, bottom, arrays, array, given, answer, ot, ox, thiefVars>>

\* size > a->size - 1, with the top read now.
Full(t) == ob - t > Size(arrays[array]) - 1

PushReadTop ==
    /\ opc = "pushTop"
    /\ opc' = IF Full(top) THEN "resize" ELSE "pushStore"
    /\ UNCHANGED <<top, bottom, arrays, array, pushed, given, answer, ob, ot, ox, thiefVars>>

Copied_SameIndex(a, n, from, to) ==
    [i \in 0 .. n - 1 |-> IF i < Size(a) THEN a[i] ELSE NoItem]
Copied(a, n, from, to) ==
    [i \in 0 .. n - 1 |->
        IF \E j \in from .. to : j % n = i
        THEN At(a, CHOOSE j \in from .. to : j % n = i) ELSE NoItem]

\* workQueueResize fills the new array from the top it reads now, ...
Resize ==
    /\ OwnerGoes("resize", "publish")
    /\ arrays' = Append(arrays, Copied(arrays[array], 2 * Size(arrays[array]),
                                       top, bottom - 1))
    /\ UNCHANGED <<top, bottom, array, pushed, given, answer, ob, ot, ox, thiefVars>>

\* ... and publishes it.
Publish ==
    /\ OwnerGoes("publish", "pushStore")
    /\ array' = Len(arrays)
    /\ UNCHANGED <<top, bottom, arrays, pushed, given, answer, ob, ot, ox, thiefVars>>

PushStore ==
    /\ OwnerGoes("pushStore", "pushBottom")
    /\ arrays' = [arrays EXCEPT ![array][ob % Size(arrays[array])] = pushed]
    /\ UNCHANGED <<top, bottom, array, pushed, given, answer, ob, ot, ox, thiefVars>>

PushBottom ==
    /\ OwnerGoes("pushBottom", "idle")
    /\ bottom' = ob + 1
    /\ UNCHANGED <<top, arrays, array, pushed, given, answer, ob, ot, ox, thiefVars>>

-----------------------------------------------------------------------------
(* workQueueTake.                                                          *)

TakeBegin ==
    /\ OwnerGoes("idle", "takeTop")
    /\ ob' = bottom
    /\ bottom' = bottom - 1
    /\ answer' = {}
    /\ UNCHANGED <<top, arrays, array, pushed, given, ot, ox, thiefVars>>

Returns(x) == /\ answer' = {x} \ {NoItem}
              /\ given' = given \cup ({x} \ {NoItem})

\* Which way the top just read sends the owner: the last element is raced
\* for, one with others behind it is the owner's.
TakeCase(size) == CASE size > 1 -> "idle"
                    [] size = 1 -> "takeRace"
                    [] OTHER -> "takeRestore"

TakeReadTop ==
    LET next == TakeCase(ob - top)
        x == IF ob - top > 0 THEN At(arrays[array], ob - 1) ELSE NoItem
    IN  /\ OwnerGoes("takeTop", next)
        /\ ot' = top
        /\ ox' = x
        /\ IF next = "takeRace" THEN UNCHANGED <<answer, given>> ELSE Returns(x)
        /\ UNCHANGED <<top, bottom, arrays, array, pushed, ob, thiefVars>>

TakeRace ==
    /\ OwnerGoes("takeRace", "takeRestore")
    /\ top' = IF top = ot THEN ot + 1 ELSE top
    /\ Returns(IF top = ot THEN ox ELSE NoItem)
    /\ UNCHANGED <<bottom, arrays, array, pushed, ob, ot, ox, thiefVars>>

RestoredBottom_Kept == bottom
RestoredBottom == ob

TakeRestore ==
    /\ OwnerGoes("takeRestore", "idle")
    /\ bottom' = RestoredBottom
    /\ UNCHANGED <<top, arrays, array, pushed, given, answer, ob, ot, ox, thiefVars>>

-----------------------------------------------------------------------------
(* workQueueSteal.                                                         *)

ThiefGoes(h, from, to) == tpc[h] = from /\ tpc' = [tpc EXCEPT ![h] = to]

StealReadTop(h) ==
    /\ ThiefGoes(h, "idle", "bottom")
    /\ tt' = [tt EXCEPT ![h] = top]
    /\ UNCHANGED <<top, bottom, arrays, array, pushed, given, answer, ownerVars, ta, tx>>

StealReadBottom(h) ==
    /\ ThiefGoes(h, "bottom", IF bottom - tt[h] > 0 THEN "array" ELSE "idle")
    /\ UNCHANGED <<top, bottom, arrays, array, pushed, given, answer, ownerVars, tt, ta, tx>>

StealReadArray(h) ==
    /\ ThiefGoes(h, "array", "item")
    /\ ta' = [ta EXCEPT ![h] = array]
    /\ UNCHANGED <<top, bottom, arrays, array, pushed, given, answer, ownerVars, tt, tx>>

StealReadItem(h) ==
    /\ ThiefGoes(h, "item", "race")
    /\ tx' = [tx EXCEPT ![h] = At(arrays[ta[h]], tt[h])]
    /\ UNCHANGED <<top, bottom, arrays, array, pushed, given, answer, ownerVars, tt, ta>>

StealRace(h) ==
    /\ ThiefGoes(h, "race", "idle")
    /\ IF top = tt[h]
       THEN top' = top + 1 /\ given' = given \cup {tx[h]}
       ELSE UNCHANGED <<top, given>>
    /\ UNCHANGED <<bottom, arrays, array, pushed, answer, ownerVars, tt, ta, tx>>

-----------------------------------------------------------------------------

Owner == \/ PushBegin \/ PushReadTop \/ Resize \/ Publish \/ PushStore \/ PushBottom
         \/ TakeBegin \/ TakeReadTop \/ TakeRace \/ TakeRestore

Thief(h) == \/ StealReadTop(h) \/ StealReadBottom(h) \/ StealReadArray(h)
            \/ StealReadItem(h) \/ StealRace(h)

Next == Owner \/ \E h \in Thieves : Thief(h)

Spec == Init /\ [][Next]_vars

-----------------------------------------------------------------------------
(* Properties.                                                             *)

\* While a Take has lowered bottom and is undecided, the item it wants is
\* still in the queue.
LogicalBottom ==
    IF opc \in {"takeTop", "takeRace", "takeRestore"} THEN ob ELSE bottom

Queue == [i \in 1 .. LogicalBottom - top |-> At(arrays[array], top + i - 1)]

Abstract == INSTANCE Deque WITH queue <- Queue,
                                asked <- opc \in {"takeTop", "takeRace"}

\* Seen from outside the queue is a double-ended queue: no item is handed out
\* twice or lost when Take and Steal race for the last one, in any order and
\* across a resize, and Take says NONE only when there is nothing.
ImplementsDeque == Abstract!Spec

\* Owner and thieves agree on how much there is: the queue never has a
\* negative length, and never more items than the array has room for.
FitsInArray == LogicalBottom >= top /\ LogicalBottom - top <= Size(arrays[array])
=============================================================================
