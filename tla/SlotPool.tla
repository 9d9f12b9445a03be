------------------------------ MODULE SlotPool ------------------------------
(***************************************************************************)
(* The life of the slots of statementPool and matchPool in db.c.           *)
(*                                                                         *)
(* A slot is claimed by statementNew / matchNew, populated, named to other *)
(* threads by a (slot, generation) reference, acquired and released by     *)
(* whoever holds such a reference, marked dead by the remover, destroyed   *)
(* by its last releaser and then claimed again.  References are never      *)
(* withdrawn: edge lists, tries, holds and work items keep stale ones.     *)
(*                                                                         *)
(* A handle is one raw pointer variable of some thread, with the place its *)
(* owner has reached in the code that works on it.                         *)
(***************************************************************************)
EXTENDS GenRc, FiniteSets

CONSTANTS Slots,      \* the pool, slot 0 (the null reference) left out
          Handles,    \* raw pointers that threads have at one time
          MaxLives    \* bound: claims of one slot in a behaviour

ASSUME SlotsNonEmpty == Slots # {}
ASSUME HandlesFinite == IsFiniteSet(Handles)
ASSUME MaxLivesAssumption == MaxLives \in Nat

VARIABLES
    genRc,     \* slot -> its GenRc word
    body,      \* slot -> "null" (clause / childStatements is NULL), "open"
               \*   (children can be added), "removing" (they no longer can)
    pc,        \* handle -> where its owner is
    ptr,       \* handle -> the slot it points to
    gen,       \* handle -> generation of the reference it was made from
    issued,    \* references other threads may know
    lives      \* slot -> how often it was claimed

vars == <<genRc, body, pc, ptr, gen, issued, lives>>

Refs == [slot : Slots, gen : Gens]

Ref(h) == [slot |-> ptr[h], gen |-> gen[h]]

Places == {"idle", "scanned", "checked", "claimed", "fresh", "held",
           "destroying", "aborted"}

TypeOK ==
    /\ genRc \in [Slots -> GenRcs]
    /\ body \in [Slots -> {"null", "open", "removing"}]
    /\ pc \in [Handles -> Places]
    /\ ptr \in [Handles -> Slots]
    /\ gen \in [Handles -> Gens]
    /\ issued \subseteq Refs
    /\ lives \in [Slots -> 0 .. MaxLives]

Init ==
    /\ genRc = [s \in Slots |-> FreeGenRc]
    /\ body = [s \in Slots |-> "null"]
    /\ pc = [h \in Handles |-> "idle"]
    /\ ptr = [h \in Handles |-> CHOOSE s \in Slots : TRUE]
    /\ gen = [h \in Handles |-> 0]
    /\ issued = {}
    /\ lives = [s \in Slots |-> 0]

-----------------------------------------------------------------------------
(* Claiming a slot: read the word, read the body, compare-and-swap.        *)

ScanSlot(h, s) ==
    /\ pc[h] = "idle"
    /\ LooksFree(genRc[s])
    /\ pc' = [pc EXCEPT ![h] = "scanned"]
    /\ ptr' = [ptr EXCEPT ![h] = s]
    /\ gen' = [gen EXCEPT ![h] = genRc[s].gen]
    /\ UNCHANGED <<genRc, body, issued, lives>>

CheckBody_NotChecked(h) ==
    /\ pc[h] = "scanned"
    /\ pc' = [pc EXCEPT ![h] = "checked"]
    /\ UNCHANGED <<genRc, body, ptr, gen, issued, lives>>

CheckBody(h) ==
    /\ pc[h] = "scanned"
    /\ pc' = [pc EXCEPT ![h] = IF body[ptr[h]] = "null" THEN "checked"
                                                        ELSE "idle"]
    /\ UNCHANGED <<genRc, body, ptr, gen, issued, lives>>

\* The word is still the one that was scanned.
ScanStillValid(h) ==
    LooksFree(genRc[ptr[h]]) /\ genRc[ptr[h]].gen = gen[h]

ClaimSlot(h) ==
    /\ pc[h] = "checked"
    /\ ScanStillValid(h)
    /\ lives[ptr[h]] < MaxLives
    /\ genRc' = [genRc EXCEPT ![ptr[h]] = Claimed(@)]
    /\ pc' = [pc EXCEPT ![h] = "claimed"]
    /\ lives' = [lives EXCEPT ![ptr[h]] = @ + 1]
    /\ UNCHANGED <<body, ptr, gen, issued>>

\* The CAS failed (weakly, too): on to the next index of the pool.
ClaimFails(h) ==
    /\ pc[h] = "checked"
    /\ pc' = [pc EXCEPT ![h] = "idle"]
    /\ UNCHANGED <<genRc, body, ptr, gen, issued, lives>>

Populate(h) ==
    /\ pc[h] = "claimed"
    /\ body' = [body EXCEPT ![ptr[h]] = "open"]
    /\ pc' = [pc EXCEPT ![h] = "fresh"]
    /\ UNCHANGED <<genRc, ptr, gen, issued, lives>>

-----------------------------------------------------------------------------
(* References and raw pointers.                                            *)

\* A statement is put in the trie before its inserter acquires it, a match
\* in its parents' edge lists after.
Publish(h) ==
    /\ pc[h] \in {"fresh", "held"}
    /\ issued' = issued \cup {Ref(h)}
    /\ UNCHANGED <<genRc, body, pc, ptr, gen, lives>>

\* The acquire after statementNew / matchNew; an assert follows it.
AcquireFresh(h) ==
    /\ pc[h] = "fresh"
    /\ IF CanAcquire(genRc[ptr[h]], gen[h])
       THEN /\ genRc' = [genRc EXCEPT ![ptr[h]] = Acquired(@)]
            /\ pc' = [pc EXCEPT ![h] = "held"]
       ELSE /\ pc' = [pc EXCEPT ![h] = "aborted"]
            /\ genRc' = genRc
    /\ UNCHANGED <<body, ptr, gen, issued, lives>>

\* statementAcquire / matchAcquire; NULL when the reference is stale.
Acquire(h, ref) ==
    /\ pc[h] = "idle"
    /\ ref \in issued
    /\ IF CanAcquire(genRc[ref.slot], ref.gen)
       THEN /\ genRc' = [genRc EXCEPT ![ref.slot] = Acquired(@)]
            /\ pc' = [pc EXCEPT ![h] = "held"]
            /\ ptr' = [ptr EXCEPT ![h] = ref.slot]
            /\ gen' = [gen EXCEPT ![h] = ref.gen]
       ELSE UNCHANGED <<genRc, pc, ptr, gen>>
    /\ UNCHANGED <<body, issued, lives>>

\* The critical section of statementRemoveSelf / matchRemoveSelf; a second
\* remover sees the body closed and leaves.
RemoveSelf(h) ==
    /\ pc[h] = "held"
    /\ body[ptr[h]] = "open"
    /\ body' = [body EXCEPT ![ptr[h]] = "removing"]
    /\ genRc' = [genRc EXCEPT ![ptr[h]] = MarkedDead(@)]
    /\ UNCHANGED <<pc, ptr, gen, issued, lives>>

\* statementRelease / matchRelease.  Callers have published or removed what
\* they created before they let go of it.
Release(h) ==
    /\ pc[h] = "held"
    /\ Ref(h) \in issued \/ ~genRc[ptr[h]].alive
    /\ genRc' = [genRc EXCEPT ![ptr[h]] = Released(@)]
    /\ pc' = [pc EXCEPT ![h] = IF IsLastRelease(genRc[ptr[h]])
                               THEN "destroying" ELSE "idle"]
    /\ UNCHANGED <<body, ptr, gen, issued, lives>>

\* statementDestroy / matchDestroy: the last store hands the slot back.
Destroy(h) ==
    /\ pc[h] = "destroying"
    /\ body' = [body EXCEPT ![ptr[h]] = "null"]
    /\ pc' = [pc EXCEPT ![h] = "idle"]
    /\ UNCHANGED <<genRc, ptr, gen, issued, lives>>

-----------------------------------------------------------------------------

HandleNext(h) ==
    \/ \E s \in Slots : ScanSlot(h, s)
    \/ CheckBody(h)
    \/ ClaimSlot(h)
    \/ ClaimFails(h)
    \/ Populate(h)
    \/ Publish(h)
    \/ AcquireFresh(h)
    \/ \E ref \in issued : Acquire(h, ref)
    \/ RemoveSelf(h)
    \/ Release(h)
    \/ Destroy(h)

Next == \E h \in Handles : HandleNext(h)

Spec == Init /\ [][Next]_vars

-----------------------------------------------------------------------------
(* Properties.                                                             *)

Holders(s) == {h \in Handles : pc[h] = "held" /\ ptr[h] = s}

\* A raw pointer that was acquired stays good until it is released: the slot
\* is still in the generation of the reference and has not been destroyed
\* ("the object cannot be freed/invalidated as long as rc > 0", GenRc).
HeldIntact ==
    \A h \in Handles : pc[h] = "held" =>
        /\ genRc[ptr[h]].gen = gen[h]
        /\ body[ptr[h]] # "null"

\* While statementNew / matchNew populates a slot, and while the last
\* releaser destroys it, no other handle writes or reads the slot
\* ("we should now have exclusive access").
ExclusiveOwner ==
    \A h, k \in Handles :
        /\ pc[h] \in {"claimed", "destroying"}
        /\ pc[k] \in {"claimed", "held", "destroying"}
        /\ ptr[h] = ptr[k]
        => h = k

\* A reference other threads know and could acquire now names a populated
\* slot, never one that is being claimed, destroyed or free.
AcquirableIsPopulated ==
    \A ref \in issued :
        CanAcquire(genRc[ref.slot], ref.gen) =>
            /\ body[ref.slot] # "null"
            /\ genRc[ref.slot].alive \/ genRc[ref.slot].rc > 0

\* A dead slot that nobody points to has been, or is being, given back: no
\* order of RemoveSelf and Release forgets the destruction.
NoSlotLeaks ==
    \A s \in Slots : LooksFree(genRc[s]) /\ body[s] # "null" =>
        \E h \in Handles : pc[h] = "destroying" /\ ptr[h] = s

\* The assert after statementNew / matchNew holds for a slot whose reference
\* its creator has not published yet.
FreshAcquirable ==
    \A h \in Handles : pc[h] = "fresh" /\ Ref(h) \notin issued =>
        CanAcquire(genRc[ptr[h]], gen[h])
=============================================================================
