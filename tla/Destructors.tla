---------------------------- MODULE Destructors ----------------------------
(***************************************************************************)
(* Destructors (db.c) on the slots of the statement and match pools.       *)
(*                                                                         *)
(* A destructor is code that runs when the last statement or match that    *)
(* carries it is destroyed: it frees what Tcl code had allocated for them. *)
(* Say and Hold! give one to a statement, Destructor to the current match; *)
(* a match inherits the destructors of its parents, a statement those of   *)
(* the matches that say it, once for each time it is said.                 *)
(*                                                                         *)
(* The sets are worked on through raw pointers, under a mutex of the slot, *)
(* and emptied by whoever destroys the slot: SlotPool's steps are extended *)
(* by what they do to the sets.                                            *)
(***************************************************************************)
EXTENDS SlotPool, Sequences

CONSTANTS MaxDestructors,    \* bound: destructors created in a behaviour
          MaxCarried         \* bound: length of one destructorSet

ASSUME DestructorsAssumption == MaxDestructors \in Nat /\ MaxCarried \in Nat

\* statementPool and matchPool are arrays.
ASSUME SlotsFinite == IsFiniteSet(Slots)

VARIABLES
    destructorSet,    \* slot -> destructors it carries, NoSet when freed
    rc,               \* sequence: how many places in sets have the destructor
    ran               \* sequence: how often its code was queued (history)

dvars == <<vars, destructorSet, rc, ran>>

DestructorIds == 1 .. MaxDestructors

NoSet == <<0>>        \* the NULL pointer

DestructorsTypeOK ==
    /\ destructorSet \in [Slots -> Seq(DestructorIds) \cup {NoSet}]
    /\ rc \in Seq(Nat) /\ ran \in Seq(Nat)
    /\ Len(rc) <= MaxDestructors /\ Len(ran) = Len(rc)

DestructorsInit ==
    /\ Init
    /\ destructorSet = [s \in Slots |-> NoSet]
    /\ rc = <<>> /\ ran = <<>>

Carried(h) == destructorSet[ptr[h]]

-----------------------------------------------------------------------------

\* destructorSetInit, while the slot is populated.
PopulateSet_NotInitialised(h) ==
    /\ Populate(h)
    /\ UNCHANGED <<destructorSet, rc, ran>>
PopulateSet(h) ==
    /\ Populate(h)
    /\ destructorSet' = [destructorSet EXCEPT ![ptr[h]] = <<>>]
    /\ UNCHANGED <<rc, ran>>

\* Say or Hold! with a destructor, after the statement was published, or the
\* command Destructor in a body: a new destructor that one set has.
AddDestructor_Unretained(h) ==
    /\ pc[h] = "held"
    /\ Len(rc) < MaxDestructors /\ Len(Carried(h)) < MaxCarried
    /\ destructorSet' = [destructorSet EXCEPT ![ptr[h]] = Append(@, Len(rc) + 1)]
    /\ rc' = Append(rc, 0)
    /\ ran' = Append(ran, 0)
    /\ UNCHANGED vars
AddDestructor(h) ==
    /\ pc[h] = "held"
    /\ Len(rc) < MaxDestructors /\ Len(Carried(h)) < MaxCarried
    /\ destructorSet' = [destructorSet EXCEPT ![ptr[h]] = Append(@, Len(rc) + 1)]
    /\ rc' = Append(rc, 1)
    /\ ran' = Append(ran, 0)
    /\ UNCHANGED vars

\* The statement was not inserted, or was there already: the destructor that
\* came with it runs at once.
RunUnused ==
    /\ Len(rc) < MaxDestructors
    /\ rc' = Append(rc, 0)
    /\ ran' = Append(ran, 1)
    /\ UNCHANGED <<vars, destructorSet>>

\* destructorRetain for each element of a set.
Retained_FirstOnly(ds) == [rc EXCEPT ![ds[1]] = @ + 1]
Retained(ds) ==
    [d \in DOMAIN rc |-> rc[d] + Cardinality({i \in 1 .. Len(ds) : ds[i] = d})]

\* destructorSetInherit, under both mutexes, between two statements or a
\* statement and a match that are held; either may be on its way out already.
Inherit(to, from) ==
    /\ pc[to] = "held" /\ pc[from] = "held" /\ ptr[to] # ptr[from]
    /\ Carried(from) # <<>>
    /\ Len(Carried(to)) + Len(Carried(from)) <= MaxCarried
    /\ destructorSet' = [destructorSet EXCEPT ![ptr[to]] = @ \o Carried(from)]
    /\ rc' = Retained(Carried(from))
    /\ UNCHANGED <<vars, ran>>

\* destructorRelease, for the next element of the set of the slot that is
\* being destroyed; destructorRun queues the code.
ReleaseNext(h) ==
    LET d == Head(Carried(h))
    IN  /\ pc[h] = "destroying" /\ Carried(h) # <<>>
        /\ destructorSet' = [destructorSet EXCEPT ![ptr[h]] = Tail(@)]
        /\ rc' = [rc EXCEPT ![d] = @ - 1]
        /\ ran' = IF rc[d] = 1 THEN [ran EXCEPT ![d] = @ + 1] ELSE ran
        /\ UNCHANGED vars

\* The set is freed, then the slot handed back.
DestroyWithSet(h) ==
    /\ Carried(h) = <<>>
    /\ Destroy(h)
    /\ destructorSet' = [destructorSet EXCEPT ![ptr[h]] = NoSet]
    /\ UNCHANGED <<rc, ran>>

-----------------------------------------------------------------------------

\* The steps of SlotPool that leave the sets alone.
OtherStep(h) ==
    /\ \/ \E s \in Slots : ScanSlot(h, s)
       \/ CheckBody(h)
       \/ ClaimSlot(h)
       \/ ClaimFails(h)
       \/ Publish(h)
       \/ AcquireFresh(h)
       \/ \E ref \in issued : Acquire(h, ref)
       \/ RemoveSelf(h)
       \/ Release(h)
    /\ UNCHANGED <<destructorSet, rc, ran>>

DestructorsNext ==
    \/ \E h \in Handles : \/ OtherStep(h)
                          \/ PopulateSet(h)
                          \/ AddDestructor(h)
                          \/ ReleaseNext(h)
                          \/ DestroyWithSet(h)
    \/ \E to, from \in Handles : Inherit(to, from)
    \/ RunUnused

DestructorsSpec == DestructorsInit /\ [][DestructorsNext]_dvars

-----------------------------------------------------------------------------
(* Properties.                                                             *)

\* The places in the sets that have destructor d.
Carriers(d) ==
    {p \in Slots \X (1 .. MaxCarried) :
        p[2] <= Len(destructorSet[p[1]]) /\ destructorSet[p[1]][p[2]] = d}

\* A destructor runs once, when the last statement or match that carries it
\* is destroyed: never while one still does, and it is not forgotten.
RunsOnceAtTheEnd ==
    \A d \in DOMAIN rc : ran[d] = IF Carriers(d) = {} THEN 1 ELSE 0

\* Whoever has a raw pointer finds a set to add to or to inherit from
\* (the assert in destructorSetAddImpl).
HeldHasSet ==
    \A h \in Handles : pc[h] \in {"held", "destroying"} => Carried(h) # NoSet
=============================================================================
