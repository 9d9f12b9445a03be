------------------------------- MODULE Deque -------------------------------
(***************************************************************************)
(* What a worker's queue promises: the owner pushes and takes at one end,  *)
(* other workers steal at the other, every item goes to one of them, and   *)
(* the owner is told that the queue is empty only when it is.              *)
(***************************************************************************)
EXTENDS Naturals, Sequences

CONSTANTS Items

VARIABLES queue,     \* from the next to steal to the next to take
          given,     \* items that have been handed out
          asked,     \* the owner is in a Take
          answer     \* what its last Take got: one item, or none

vars == <<queue, given, asked, answer>>

Init == queue = <<>> /\ given = {} /\ asked = FALSE /\ answer = {}

Push(x) ==
    /\ x \notin given
    /\ \A i \in DOMAIN queue : queue[i] # x
    /\ queue' = Append(queue, x)
    /\ UNCHANGED <<given, asked, answer>>

Ask ==
    /\ ~asked
    /\ asked' = TRUE
    /\ answer' = {}
    /\ UNCHANGED <<queue, given>>

Take ==
    /\ asked
    /\ queue # <<>>
    /\ asked' = FALSE
    /\ answer' = {queue[Len(queue)]}
    /\ queue' = SubSeq(queue, 1, Len(queue) - 1)
    /\ given' = given \cup {queue[Len(queue)]}

TakeNone ==
    /\ asked
    /\ queue = <<>>
    /\ asked' = FALSE
    /\ UNCHANGED <<queue, given, answer>>

Steal ==
    /\ queue # <<>>
    /\ given' = given \cup {Head(queue)}
    /\ queue' = Tail(queue)
    /\ UNCHANGED <<asked, answer>>

Next == (\E x \in Items : Push(x)) \/ Ask \/ Take \/ TakeNone \/ Steal

Spec == Init /\ [][Next]_vars
=============================================================================
