--------------------------- MODULE SlotPoolProofs ---------------------------
(***************************************************************************)
(* Proof that a slot of the statement or match pool is never pulled from   *)
(* under a thread that acquired it, for any number of slots and handles,   *)
(* as long as no slot is claimed more often than its generation can count. *)
(***************************************************************************)
EXTENDS SlotPool, FiniteSetTheorems, TLAPS

\* rc counts exactly the raw pointers that are held.
RcCountsHolders == \A s \in Slots : genRc[s].rc = Cardinality(Holders(s))

\* The generation counts completed lives, so it has not wrapped.
GenCountsLives ==
    \A s \in Slots :
        /\ genRc[s].gen >= 0
        /\ genRc[s].gen + (IF LooksFree(genRc[s]) THEN 0 ELSE 1) <= lives[s]

\* A reference somebody may still acquire through: never from the future,
\* and of the present only while the slot is in use.
KnownRef(s, g) ==
    /\ g <= genRc[s].gen
    /\ g = genRc[s].gen =>
         body[s] # "null" /\ (genRc[s].alive \/ genRc[s].rc > 0)

IssuedKnown == \A ref \in issued : KnownRef(ref.slot, ref.gen)

ScannedInv(h) ==
    pc[h] \in {"scanned", "checked"} => gen[h] <= genRc[ptr[h]].gen

CheckedInv(h) ==
    pc[h] = "checked" /\ ScanStillValid(h) => body[ptr[h]] = "null"

ClaimedInv(h) ==
    pc[h] = "claimed" =>
        /\ genRc[ptr[h]].alive
        /\ genRc[ptr[h]].rc = 0
        /\ genRc[ptr[h]].gen = gen[h]
        /\ body[ptr[h]] = "null"
        /\ \A ref \in issued : ref.slot = ptr[h] => ref.gen < gen[h]
        /\ \A k \in Handles : ptr[k] = ptr[h] =>
              /\ pc[k] = "fresh" => gen[k] < gen[h]
              /\ pc[k] = "claimed" => k = h

FreshInv(h) ==
    pc[h] = "fresh" =>
        /\ KnownRef(ptr[h], gen[h])
        /\ Ref(h) \notin issued =>
              /\ genRc[ptr[h]].gen = gen[h]
              /\ genRc[ptr[h]].alive
              /\ genRc[ptr[h]].rc = 0
        /\ \A k \in Handles :
              pc[k] = "fresh" /\ ptr[k] = ptr[h] /\ gen[k] = gen[h] => k = h

HeldInv(h) ==
    pc[h] = "held" => /\ genRc[ptr[h]].gen = gen[h]
                      /\ body[ptr[h]] # "null"

DestroyingInv(h) ==
    pc[h] = "destroying" =>
        /\ LooksFree(genRc[ptr[h]])
        /\ body[ptr[h]] # "null"
        /\ \A k \in Handles : pc[k] = "destroying" /\ ptr[k] = ptr[h] => k = h

HandleInv ==
    \A h \in Handles :
        /\ ScannedInv(h)
        /\ CheckedInv(h)
        /\ ClaimedInv(h)
        /\ FreshInv(h)
        /\ HeldInv(h)
        /\ DestroyingInv(h)

IndInv ==
    /\ TypeOK
    /\ RcCountsHolders
    /\ GenCountsLives
    /\ IssuedKnown
    /\ HandleInv
    /\ NoSlotLeaks

-----------------------------------------------------------------------------
(* Counting holders.                                                       *)

\* The pointers held to a slot are finitely many, so rc can count them.
LEMMA HoldersFinite == \A s \in Slots : IsFiniteSet(Holders(s))
BY HandlesFinite, FS_Subset DEF Holders

\* A held pointer is counted, and one that is alone is the only one.
LEMMA HeldIsCounted ==
    ASSUME TypeOK, RcCountsHolders, NEW h \in Handles, pc[h] = "held"
    PROVE  /\ genRc[ptr[h]].rc \in Nat
           /\ genRc[ptr[h]].rc > 0
           /\ genRc[ptr[h]].rc = 1 =>
                \A k \in Handles : pc[k] = "held" /\ ptr[k] = ptr[h] => k = h
<1> DEFINE s == ptr[h]
<1>1. s \in Slots /\ h \in Holders(s) /\ IsFiniteSet(Holders(s))
  BY HoldersFinite DEF TypeOK, Holders
<1>2. Cardinality(Holders(s)) \in Nat /\ genRc[s].rc = Cardinality(Holders(s))
  BY <1>1, FS_CardinalityType DEF RcCountsHolders
<1>3. Cardinality(Holders(s)) # 0
  BY <1>1, FS_EmptySet
<1>4. Cardinality(Holders(s) \ {h}) = Cardinality(Holders(s)) - 1
  BY <1>1, FS_RemoveElement
<1>5. IsFiniteSet(Holders(s) \ {h})
  BY <1>1, FS_Subset
<1>6. Cardinality(Holders(s)) = 1 => Holders(s) \ {h} = {}
  BY <1>4, <1>5, FS_EmptySet
<1> QED
  BY <1>2, <1>3, <1>6 DEF Holders

-----------------------------------------------------------------------------
(* The inductive invariant holds initially and every action keeps it.      *)

LEMMA InitInd == Init => IndInv
<1> SUFFICES ASSUME Init PROVE IndInv
  OBVIOUS
<1>1. TypeOK
  BY SlotsNonEmpty, GenMaxAssumption, MaxLivesAssumption
     DEF Init, TypeOK, GenRcs, FreeGenRc, Gens, Places, Refs
<1>2. RcCountsHolders
  BY FS_EmptySet DEF Init, RcCountsHolders, Holders, FreeGenRc
<1>3. GenCountsLives
  BY DEF Init, GenCountsLives, FreeGenRc, LooksFree
<1>4. IssuedKnown /\ HandleInv /\ NoSlotLeaks
  BY DEF Init, IssuedKnown, HandleInv, ScannedInv, CheckedInv, ClaimedInv,
         FreshInv, HeldInv, DestroyingInv, NoSlotLeaks
<1> QED
  BY <1>1, <1>2, <1>3, <1>4 DEF IndInv

\* Steps of a handle that leave every word, body and reference alone.
LEMMA ScanSlotInd ==
    ASSUME IndInv, NEW h \in Handles, NEW s \in Slots, ScanSlot(h, s)
    PROVE  IndInv'
<1> USE DEF IndInv, ScanSlot
<1>1. TypeOK'
  BY DEF TypeOK, GenRcs, Places
<1>2. RcCountsHolders'
  <2>1. \A t \in Slots : Holders(t)' = Holders(t)
    BY DEF Holders, TypeOK
  <2> QED BY <2>1 DEF RcCountsHolders
<1>3. GenCountsLives' /\ IssuedKnown'
  BY DEF GenCountsLives, IssuedKnown, KnownRef, LooksFree
<1>4. HandleInv'
  BY DEF HandleInv, ScannedInv, CheckedInv, ClaimedInv, FreshInv, HeldInv,
         DestroyingInv, KnownRef, ScanStillValid, Ref, TypeOK, GenRcs, Gens, LooksFree
<1>5. NoSlotLeaks'
  BY DEF NoSlotLeaks, TypeOK
<1> QED
  BY <1>1, <1>2, <1>3, <1>4, <1>5

LEMMA CheckBodyInd ==
    ASSUME IndInv, NEW h \in Handles, CheckBody(h)
    PROVE  IndInv'
<1> USE DEF IndInv, CheckBody
<1>0. \A k \in Handles : pc[k] = "held" => genRc[ptr[k]].rc > 0
  BY HeldIsCounted
<1>1. TypeOK'
  BY DEF TypeOK, GenRcs, Places
<1>2. RcCountsHolders'
  <2>1. \A t \in Slots : Holders(t)' = Holders(t)
    BY DEF Holders, TypeOK
  <2> QED BY <2>1 DEF RcCountsHolders
<1>3. GenCountsLives'
  BY <1>0 DEF GenCountsLives, LooksFree, TypeOK
<1>4. IssuedKnown'
  BY <1>0 DEF IssuedKnown, KnownRef, HandleInv, LooksFree, TypeOK, Refs
<1>5. HandleInv'
  <2> SUFFICES ASSUME NEW k \in Handles
               PROVE  (/\ ScannedInv(k) /\ CheckedInv(k) /\ ClaimedInv(k)
                       /\ FreshInv(k) /\ HeldInv(k) /\ DestroyingInv(k))'
    BY DEF HandleInv
  <2>1. (ScannedInv(k) /\ CheckedInv(k))'
    BY <1>0 DEF HandleInv, ScannedInv, CheckedInv, TypeOK, ScanStillValid, LooksFree
  <2>2. ClaimedInv(k)'
    BY <1>0 DEF HandleInv, ClaimedInv, TypeOK
  <2>3. FreshInv(k)'
    BY <1>0 DEF HandleInv, FreshInv, KnownRef, Ref, TypeOK
  <2>4. (HeldInv(k) /\ DestroyingInv(k))'
    BY <1>0 DEF HandleInv, HeldInv, DestroyingInv, LooksFree, TypeOK
  <2> QED BY <2>1, <2>2, <2>3, <2>4
<1>6. NoSlotLeaks'
  BY <1>0 DEF NoSlotLeaks, LooksFree, HandleInv, TypeOK
<1> QED
  BY <1>1, <1>2, <1>3, <1>4, <1>5, <1>6

LEMMA ClaimFailsInd ==
    ASSUME IndInv, NEW h \in Handles, ClaimFails(h)
    PROVE  IndInv'
<1> USE DEF IndInv, ClaimFails
<1>0. \A k \in Handles : pc[k] = "held" => genRc[ptr[k]].rc > 0
  BY HeldIsCounted
<1>1. TypeOK'
  BY DEF TypeOK, GenRcs, Places
<1>2. RcCountsHolders'
  <2>1. \A t \in Slots : Holders(t)' = Holders(t)
    BY DEF Holders, TypeOK
  <2> QED BY <2>1 DEF RcCountsHolders
<1>3. GenCountsLives'
  BY <1>0 DEF GenCountsLives, LooksFree, TypeOK
<1>4. IssuedKnown'
  BY <1>0 DEF IssuedKnown, KnownRef, HandleInv, LooksFree, TypeOK, Refs
<1>5. HandleInv'
  <2> SUFFICES ASSUME NEW k \in Handles
               PROVE  (/\ ScannedInv(k) /\ CheckedInv(k) /\ ClaimedInv(k)
                       /\ FreshInv(k) /\ HeldInv(k) /\ DestroyingInv(k))'
    BY DEF HandleInv
  <2>1. (ScannedInv(k) /\ CheckedInv(k))'
    BY <1>0 DEF HandleInv, ScannedInv, CheckedInv, TypeOK, ScanStillValid, LooksFree
  <2>2. ClaimedInv(k)'
    BY <1>0 DEF HandleInv, ClaimedInv, TypeOK
  <2>3. FreshInv(k)'
    BY <1>0 DEF HandleInv, FreshInv, KnownRef, Ref, TypeOK
  <2>4. (HeldInv(k) /\ DestroyingInv(k))'
    BY <1>0 DEF HandleInv, HeldInv, DestroyingInv, LooksFree, TypeOK
  <2> QED BY <2>1, <2>2, <2>3, <2>4
<1>6. NoSlotLeaks'
  BY <1>0 DEF NoSlotLeaks, LooksFree, HandleInv, TypeOK
<1> QED
  BY <1>1, <1>2, <1>3, <1>4, <1>5, <1>6

\* A checked slot whose word is unchanged has an empty body and is known to
\* nobody in its present generation.
LEMMA ClaimSlotInd ==
    ASSUME IndInv, NEW h \in Handles, ClaimSlot(h)
    PROVE  IndInv'
<1> USE DEF IndInv, ClaimSlot
<1>0. \A k \in Handles : pc[k] = "held" => genRc[ptr[k]].rc > 0
  BY HeldIsCounted
<1>1. TypeOK'
  <2>1. genRc' \in [Slots -> GenRcs]
    BY DEF TypeOK, GenRcs, Claimed
  <2>2. lives' \in [Slots -> 0 .. MaxLives]
    BY MaxLivesAssumption DEF TypeOK
  <2> QED BY <2>1, <2>2 DEF TypeOK, Places
<1>2. RcCountsHolders'
  <2>1. \A t \in Slots : Holders(t)' = Holders(t)
    BY DEF Holders, TypeOK
  <2> QED BY <2>1 DEF RcCountsHolders, TypeOK, GenRcs, Claimed
<1>3. GenCountsLives'
  <2>1. ptr[h] \in Slots /\ LooksFree(genRc[ptr[h]])
    BY DEF TypeOK, ScanStillValid
  <2>2. \A t \in Slots : /\ genRc'[t].gen = genRc[t].gen
                         /\ t # ptr[h] => genRc'[t] = genRc[t]
    BY DEF TypeOK, GenRcs, Claimed
  <2>3. \A t \in Slots : /\ lives'[t] = IF t = ptr[h] THEN lives[t] + 1 ELSE lives[t]
                         /\ lives[t] \in Int /\ genRc[t].gen \in Int
    BY DEF TypeOK, GenRcs, Gens
  <2> QED BY <2>1, <2>2, <2>3 DEF GenCountsLives
<1>4. IssuedKnown'
  BY <1>0 DEF IssuedKnown, KnownRef, TypeOK, GenRcs, Refs, HandleInv, CheckedInv, ScanStillValid, LooksFree, Claimed
<1>5. HandleInv'
  <2> SUFFICES ASSUME NEW k \in Handles
               PROVE  (/\ ScannedInv(k) /\ CheckedInv(k) /\ ClaimedInv(k)
                       /\ FreshInv(k) /\ HeldInv(k) /\ DestroyingInv(k))'
    BY DEF HandleInv
  <2>1. (ScannedInv(k) /\ CheckedInv(k))'
    BY <1>0 DEF HandleInv, ScannedInv, CheckedInv, ScanStillValid, LooksFree, TypeOK, GenRcs, Claimed
  <2>2. ClaimedInv(k)'
    <3>1. /\ ptr[h] \in Slots /\ body[ptr[h]] = "null"
          /\ genRc[ptr[h]].rc = 0 /\ ~genRc[ptr[h]].alive
          /\ genRc[ptr[h]].gen = gen[h]
      BY DEF HandleInv, CheckedInv, ScanStillValid, LooksFree, TypeOK
    <3>2. /\ genRc'[ptr[h]].rc = 0 /\ genRc'[ptr[h]].alive
          /\ genRc'[ptr[h]].gen = gen[h]
      BY <3>1 DEF TypeOK, GenRcs, Claimed
    <3>3. \A r \in issued : r.slot = ptr[h] => r.gen < gen[h]
      BY <3>1 DEF IssuedKnown, KnownRef, TypeOK, Refs, Gens
    <3>4. \A j \in Handles : pc[j] = "fresh" /\ ptr[j] = ptr[h] => gen[j] < gen[h]
      BY <3>1 DEF HandleInv, FreshInv, KnownRef, TypeOK, Gens
    <3>5. \A j \in Handles : pc[j] = "claimed" => ptr[j] # ptr[h]
      BY <3>1 DEF HandleInv, ClaimedInv
    <3>6. CASE k = h
      BY <3>1, <3>2, <3>3, <3>4, <3>5, <3>6 DEF ClaimedInv, TypeOK
    <3>7. CASE k # h
      BY <3>5, <3>7 DEF HandleInv, ClaimedInv, TypeOK
    <3> QED BY <3>6, <3>7
  <2>3. FreshInv(k)'
    BY <1>0 DEF HandleInv, FreshInv, KnownRef, Ref, TypeOK, GenRcs, CheckedInv, ScanStillValid, LooksFree, Claimed
  <2>4. (HeldInv(k) /\ DestroyingInv(k))'
    BY <1>0 DEF HandleInv, HeldInv, DestroyingInv, LooksFree, TypeOK, GenRcs, CheckedInv, ScanStillValid, Claimed
  <2> QED BY <2>1, <2>2, <2>3, <2>4
<1>6. NoSlotLeaks'
  BY <1>0 DEF NoSlotLeaks, LooksFree, HandleInv, TypeOK, GenRcs, CheckedInv, ScanStillValid, Claimed
<1> QED
  BY <1>1, <1>2, <1>3, <1>4, <1>5, <1>6

LEMMA PopulateInd ==
    ASSUME IndInv, NEW h \in Handles, Populate(h)
    PROVE  IndInv'
<1> USE DEF IndInv, Populate
<1>0. \A k \in Handles : pc[k] = "held" => genRc[ptr[k]].rc > 0
  BY HeldIsCounted
<1>1. TypeOK'
  BY DEF TypeOK, GenRcs, Places
<1>2. RcCountsHolders'
  <2>1. \A t \in Slots : Holders(t)' = Holders(t)
    BY DEF Holders, TypeOK
  <2> QED BY <2>1 DEF RcCountsHolders
<1>3. GenCountsLives'
  BY <1>0 DEF GenCountsLives, LooksFree, TypeOK
<1>4. IssuedKnown'
  BY <1>0 DEF IssuedKnown, KnownRef, HandleInv, LooksFree, TypeOK, Refs
<1>5. HandleInv'
  <2> SUFFICES ASSUME NEW k \in Handles
               PROVE  (/\ ScannedInv(k) /\ CheckedInv(k) /\ ClaimedInv(k)
                       /\ FreshInv(k) /\ HeldInv(k) /\ DestroyingInv(k))'
    BY DEF HandleInv
  <2>1. (ScannedInv(k) /\ CheckedInv(k))'
    BY <1>0 DEF HandleInv, ScannedInv, CheckedInv, ClaimedInv, ScanStillValid, LooksFree, TypeOK
  <2>2. ClaimedInv(k)'
    BY <1>0 DEF HandleInv, ClaimedInv, FreshInv, KnownRef, TypeOK
  <2>3. FreshInv(k)'
    BY <1>0 DEF HandleInv, FreshInv, ClaimedInv, KnownRef, Ref, TypeOK, Gens
  <2>4. (HeldInv(k) /\ DestroyingInv(k))'
    BY <1>0 DEF HandleInv, HeldInv, DestroyingInv, ClaimedInv, LooksFree, TypeOK
  <2> QED BY <2>1, <2>2, <2>3, <2>4
<1>6. NoSlotLeaks'
  BY <1>0 DEF NoSlotLeaks, LooksFree, HandleInv, ClaimedInv, TypeOK
<1> QED
  BY <1>1, <1>2, <1>3, <1>4, <1>5, <1>6

LEMMA PublishInd ==
    ASSUME IndInv, NEW h \in Handles, Publish(h)
    PROVE  IndInv'
<1> USE DEF IndInv, Publish
<1>0. \A k \in Handles : pc[k] = "held" => genRc[ptr[k]].rc > 0
  BY HeldIsCounted
<1>1. TypeOK'
  BY DEF TypeOK, Refs, Ref
<1>2. RcCountsHolders'
  <2>1. \A t \in Slots : Holders(t)' = Holders(t)
    BY DEF Holders, TypeOK
  <2> QED BY <2>1 DEF RcCountsHolders
<1>3. GenCountsLives'
  BY <1>0 DEF GenCountsLives, LooksFree, TypeOK
<1>4. IssuedKnown'
  <2>1. KnownRef(ptr[h], gen[h])
    BY <1>0 DEF HandleInv, HeldInv, FreshInv, KnownRef, TypeOK, Gens
  <2>2. KnownRef(ptr[h], gen[h])'
    BY <2>1 DEF KnownRef
  <2> QED BY <2>2 DEF IssuedKnown, KnownRef, Ref
<1>5. HandleInv'
  <2> SUFFICES ASSUME NEW k \in Handles
               PROVE  (/\ ScannedInv(k) /\ CheckedInv(k) /\ ClaimedInv(k)
                       /\ FreshInv(k) /\ HeldInv(k) /\ DestroyingInv(k))'
    BY DEF HandleInv
  <2>1. (ScannedInv(k) /\ CheckedInv(k))'
    BY <1>0 DEF HandleInv, ScannedInv, CheckedInv, TypeOK, ScanStillValid, LooksFree
  <2>2. ClaimedInv(k)'
    <3>1. pc[k] = "claimed" /\ ptr[k] = ptr[h] => gen[h] < gen[k]
      BY <1>0 DEF HandleInv, ClaimedInv
    <3> QED BY <3>1 DEF HandleInv, ClaimedInv, Ref
  <2>3. FreshInv(k)'
    BY <1>0 DEF HandleInv, FreshInv, KnownRef, Ref, TypeOK
  <2>4. (HeldInv(k) /\ DestroyingInv(k))'
    BY <1>0 DEF HandleInv, HeldInv, DestroyingInv, LooksFree, TypeOK
  <2> QED BY <2>1, <2>2, <2>3, <2>4
<1>6. NoSlotLeaks'
  BY <1>0 DEF NoSlotLeaks, LooksFree, HandleInv, TypeOK
<1> QED
  BY <1>1, <1>2, <1>3, <1>4, <1>5, <1>6

LEMMA DestroyInd ==
    ASSUME IndInv, NEW h \in Handles, Destroy(h)
    PROVE  IndInv'
<1> USE DEF IndInv, Destroy
<1>0. \A k \in Handles : pc[k] = "held" => genRc[ptr[k]].rc > 0
  BY HeldIsCounted
<1>1. TypeOK'
  BY DEF TypeOK, GenRcs, Places
<1>2. RcCountsHolders'
  <2>1. \A t \in Slots : Holders(t)' = Holders(t)
    BY DEF Holders, TypeOK
  <2> QED BY <2>1 DEF RcCountsHolders
<1>3. GenCountsLives'
  BY <1>0 DEF GenCountsLives, LooksFree, TypeOK
<1>4. IssuedKnown'
  BY <1>0 DEF IssuedKnown, KnownRef, HandleInv, DestroyingInv, LooksFree, TypeOK, Refs
<1>5. HandleInv'
  <2> SUFFICES ASSUME NEW k \in Handles
               PROVE  (/\ ScannedInv(k) /\ CheckedInv(k) /\ ClaimedInv(k)
                       /\ FreshInv(k) /\ HeldInv(k) /\ DestroyingInv(k))'
    BY DEF HandleInv
  <2>1. (ScannedInv(k) /\ CheckedInv(k))'
    BY <1>0 DEF HandleInv, ScannedInv, CheckedInv, DestroyingInv, ScanStillValid, LooksFree, TypeOK
  <2>2. ClaimedInv(k)'
    BY <1>0 DEF HandleInv, ClaimedInv, DestroyingInv, LooksFree, TypeOK
  <2>3. FreshInv(k)'
    <3>1. pc[k] = "fresh" /\ ptr[k] = ptr[h] => gen[k] # genRc[ptr[h]].gen
      BY DEF HandleInv, FreshInv, DestroyingInv, LooksFree, KnownRef
    <3>2. pc'[k] = "fresh" => KnownRef(ptr[k], gen[k])'
      BY <3>1 DEF HandleInv, FreshInv, KnownRef, TypeOK
    <3> QED BY <3>2 DEF HandleInv, FreshInv, TypeOK, Ref
  <2>4. (HeldInv(k) /\ DestroyingInv(k))'
    BY <1>0 DEF HandleInv, HeldInv, DestroyingInv, LooksFree, TypeOK
  <2> QED BY <2>1, <2>2, <2>3, <2>4
<1>6. NoSlotLeaks'
  BY <1>0 DEF NoSlotLeaks, LooksFree, HandleInv, DestroyingInv, TypeOK
<1> QED
  BY <1>1, <1>2, <1>3, <1>4, <1>5, <1>6

LEMMA RemoveSelfInd ==
    ASSUME IndInv, NEW h \in Handles, RemoveSelf(h)
    PROVE  IndInv'
<1> USE DEF IndInv, RemoveSelf
<1>0. \A k \in Handles : pc[k] = "held" => genRc[ptr[k]].rc > 0
  BY HeldIsCounted
<1>1. TypeOK'
  BY DEF TypeOK, GenRcs, MarkedDead
<1>2. RcCountsHolders'
  <2>1. \A t \in Slots : Holders(t)' = Holders(t)
    BY DEF Holders, TypeOK
  <2> QED BY <2>1 DEF RcCountsHolders, TypeOK, GenRcs, MarkedDead
<1>3. GenCountsLives'
  BY <1>0 DEF GenCountsLives, LooksFree, TypeOK, GenRcs, MarkedDead
<1>4. IssuedKnown'
  BY <1>0 DEF IssuedKnown, KnownRef, HandleInv, HeldInv, TypeOK, GenRcs, Refs, MarkedDead
<1>5. HandleInv'
  <2> SUFFICES ASSUME NEW k \in Handles
               PROVE  (/\ ScannedInv(k) /\ CheckedInv(k) /\ ClaimedInv(k)
                       /\ FreshInv(k) /\ HeldInv(k) /\ DestroyingInv(k))'
    BY DEF HandleInv
  <2>1. (ScannedInv(k) /\ CheckedInv(k))'
    BY <1>0 DEF HandleInv, ScannedInv, CheckedInv, ScanStillValid, LooksFree, TypeOK, GenRcs, MarkedDead
  <2>2. ClaimedInv(k)'
    BY <1>0 DEF HandleInv, ClaimedInv, TypeOK, GenRcs, MarkedDead
  <2>3. FreshInv(k)'
    <3>1. \A t \in Slots : /\ genRc'[t].gen = genRc[t].gen
                           /\ genRc'[t].rc = genRc[t].rc
                           /\ t # ptr[h] => genRc'[t] = genRc[t]
      BY DEF TypeOK, GenRcs, MarkedDead
    <3>2. pc[k] = "fresh" => KnownRef(ptr[k], gen[k])'
      BY <1>0, <3>1 DEF HandleInv, FreshInv, KnownRef, TypeOK
    <3>3. pc[k] = "fresh" /\ Ref(k) \notin issued => ptr[k] # ptr[h]
      BY <1>0 DEF HandleInv, FreshInv
    <3> QED BY <3>1, <3>2, <3>3 DEF HandleInv, FreshInv, TypeOK, Ref
  <2>4. (HeldInv(k) /\ DestroyingInv(k))'
    BY <1>0 DEF HandleInv, HeldInv, DestroyingInv, LooksFree, TypeOK, GenRcs, MarkedDead
  <2> QED BY <2>1, <2>2, <2>3, <2>4
<1>6. NoSlotLeaks'
  BY <1>0 DEF NoSlotLeaks, LooksFree, HandleInv, TypeOK, GenRcs, MarkedDead
<1> QED
  BY <1>1, <1>2, <1>3, <1>4, <1>5, <1>6

LEMMA UnchangedInd ==
    ASSUME IndInv, UNCHANGED vars
    PROVE  IndInv'
BY DEF IndInv, vars, TypeOK, RcCountsHolders, Holders, GenCountsLives,
       IssuedKnown, KnownRef, HandleInv, ScannedInv, CheckedInv, ClaimedInv,
       FreshInv, HeldInv, DestroyingInv, ScanStillValid, Ref, NoSlotLeaks

\* What counting a pointer to slot s in does to the words: one more holder
\* of s, the generation and everything about other slots as before.
LEMMA CountIn ==
    ASSUME TypeOK, RcCountsHolders, NEW h \in Handles, NEW s \in Slots,
           pc[h] # "held",
           genRc' = [genRc EXCEPT ![s] = Acquired(@)],
           pc' = [pc EXCEPT ![h] = "held"],
           ptr' = [ptr EXCEPT ![h] = s]
    PROVE  /\ RcCountsHolders'
           /\ genRc' \in [Slots -> GenRcs]
           /\ \A t \in Slots : /\ t # s => genRc'[t] = genRc[t]
                             /\ genRc'[t].gen = genRc[t].gen
                             /\ genRc'[t].alive = genRc[t].alive
           /\ genRc'[s].rc > 0
<1>1. /\ genRc' \in [Slots -> GenRcs]
      /\ genRc'[s].rc = genRc[s].rc + 1
      /\ genRc[s].rc \in Nat
      /\ \A t \in Slots : /\ t # s => genRc'[t] = genRc[t]
                        /\ genRc'[t].gen = genRc[t].gen
                        /\ genRc'[t].alive = genRc[t].alive
  BY DEF TypeOK, GenRcs, Acquired
<1>2. Holders(s)' = Holders(s) \cup {h} /\ h \notin Holders(s)
  BY DEF Holders, TypeOK
<1>3. \A t \in Slots : t # s => Holders(t)' = Holders(t)
  BY DEF Holders, TypeOK
<1>4. Cardinality(Holders(s)') = Cardinality(Holders(s)) + 1
  BY <1>2, HoldersFinite, FS_AddElement
<1> QED
  BY <1>1, <1>3, <1>4 DEF RcCountsHolders

\* Acquiring through a reference that is known keeps the invariant, for the
\* creator of a slot and for any other thread.
LEMMA CountInInd ==
    ASSUME IndInv, NEW h \in Handles, NEW s \in Slots, NEW g \in Gens,
           pc[h] \in {"idle", "fresh"},
           pc[h] = "fresh" => ptr[h] = s /\ gen[h] = g,
           pc[h] = "idle" => [slot |-> s, gen |-> g] \in issued,
           CanAcquire(genRc[s], g),
           genRc' = [genRc EXCEPT ![s] = Acquired(@)],
           pc' = [pc EXCEPT ![h] = "held"],
           ptr' = [ptr EXCEPT ![h] = s],
           gen' = [gen EXCEPT ![h] = g],
           UNCHANGED <<body, issued, lives>>
    PROVE  IndInv'
<1> USE DEF IndInv
<1>1. /\ RcCountsHolders'
      /\ genRc' \in [Slots -> GenRcs]
      /\ genRc'[s].rc > 0
  BY CountIn
<1>2. \A t \in Slots : /\ t # s => genRc'[t] = genRc[t]
                    /\ genRc'[t].gen = genRc[t].gen
                    /\ genRc'[t].alive = genRc[t].alive
  BY CountIn
<1>3. /\ genRc[s].gen = g
      /\ body[s] # "null"
      /\ genRc[s].alive \/ genRc[s].rc > 0
  BY DEF CanAcquire, HandleInv, FreshInv, IssuedKnown, KnownRef
<1>4. TypeOK'
  BY <1>1 DEF TypeOK, Places
<1>5. GenCountsLives'
  <2>1. ~LooksFree(genRc[s])
    BY <1>3 DEF LooksFree
  <2>2. ~LooksFree(genRc'[s])
    BY <1>1 DEF LooksFree
  <2> QED BY <1>2, <2>1, <2>2 DEF GenCountsLives
<1>6. IssuedKnown'
  BY <1>1, <1>2 DEF IssuedKnown, KnownRef, TypeOK, Refs
<1>7. HandleInv'
  <2> SUFFICES ASSUME NEW k \in Handles
               PROVE  (/\ ScannedInv(k) /\ CheckedInv(k) /\ ClaimedInv(k)
                       /\ FreshInv(k) /\ HeldInv(k) /\ DestroyingInv(k))'
    BY DEF HandleInv
  <2>1. (ScannedInv(k) /\ CheckedInv(k))'
    BY <1>1, <1>2
       DEF HandleInv, ScannedInv, CheckedInv, ScanStillValid, LooksFree, TypeOK
  <2>2. ClaimedInv(k)'
    <3>1. pc[k] = "claimed" => ptr[k] # s
      BY <1>3 DEF HandleInv, ClaimedInv
    <3> QED BY <1>2, <3>1 DEF HandleInv, ClaimedInv, TypeOK
  <2>3. FreshInv(k)'
    <3>1. pc'[k] = "fresh" /\ Ref(k) \notin issued => ptr[k] # s
      BY <1>3 DEF HandleInv, FreshInv, Ref, TypeOK
    <3>2. pc'[k] = "fresh" => KnownRef(ptr[k], gen[k])'
      BY <1>1, <1>2 DEF HandleInv, FreshInv, KnownRef, TypeOK
    <3> QED BY <1>2, <3>1, <3>2 DEF HandleInv, FreshInv, Ref, TypeOK
  <2>4. HeldInv(k)'
    BY <1>2, <1>3 DEF HandleInv, HeldInv, TypeOK
  <2>5. DestroyingInv(k)'
    <3>1. pc[k] = "destroying" => ptr[k] # s
      BY <1>3 DEF HandleInv, DestroyingInv, LooksFree
    <3> QED BY <1>2, <3>1 DEF HandleInv, DestroyingInv, TypeOK
  <2> QED BY <2>1, <2>2, <2>3, <2>4, <2>5
<1>8. NoSlotLeaks'
  <2>1. ~LooksFree(genRc'[s])
    BY <1>1 DEF LooksFree
  <2> QED BY <1>2, <2>1 DEF NoSlotLeaks, TypeOK
<1> QED
  BY <1>1, <1>4, <1>5, <1>6, <1>7, <1>8

LEMMA AcquireInd ==
    ASSUME IndInv, NEW h \in Handles, NEW ref \in issued, Acquire(h, ref)
    PROVE  IndInv'
<1>1. /\ ref.slot \in Slots /\ ref.gen \in Gens
      /\ ref = [slot |-> ref.slot, gen |-> ref.gen]
  BY DEF IndInv, TypeOK, Refs
<1>2. CASE CanAcquire(genRc[ref.slot], ref.gen)
  BY <1>1, <1>2, CountInInd DEF Acquire
<1>3. CASE ~CanAcquire(genRc[ref.slot], ref.gen)
  <2>1. UNCHANGED vars
    BY <1>3 DEF Acquire, vars
  <2> QED BY <2>1, UnchangedInd
<1> QED BY <1>2, <1>3

\* The slot of a fresh handle is acquired by the rule for known references;
\* when the assert fails instead only the handle's place changes.
LEMMA AcquireFreshInd ==
    ASSUME IndInv, NEW h \in Handles, AcquireFresh(h)
    PROVE  IndInv'
<1>1. ptr[h] \in Slots /\ gen[h] \in Gens
  BY DEF IndInv, TypeOK
<1>2. CASE CanAcquire(genRc[ptr[h]], gen[h])
  <2>1. ptr' = [ptr EXCEPT ![h] = ptr[h]] /\ gen' = [gen EXCEPT ![h] = gen[h]]
    BY DEF AcquireFresh, IndInv, TypeOK
  <2> QED BY <1>1, <1>2, <2>1, CountInInd DEF AcquireFresh
<1>3. CASE ~CanAcquire(genRc[ptr[h]], gen[h])
  <2> USE <1>3 DEF IndInv, AcquireFresh
  <2>1. TypeOK'
    BY DEF TypeOK, Places
  <2>2. RcCountsHolders'
    <3>1. \A t \in Slots : Holders(t)' = Holders(t)
      BY DEF Holders, TypeOK
    <3> QED BY <3>1 DEF RcCountsHolders
  <2>3. GenCountsLives' /\ IssuedKnown'
    BY DEF GenCountsLives, IssuedKnown, KnownRef
  <2>4. HandleInv'
    BY DEF HandleInv, ScannedInv, CheckedInv, ClaimedInv, FreshInv, HeldInv,
           DestroyingInv, KnownRef, ScanStillValid, Ref, TypeOK
  <2>5. NoSlotLeaks'
    BY DEF NoSlotLeaks, TypeOK
  <2> QED BY <2>1, <2>2, <2>3, <2>4, <2>5
<1> QED BY <1>2, <1>3

\* The one step that ends a generation.  A last releaser was the only holder,
\* and the generation has room because it counts completed lives.
LEMMA ReleaseInd ==
    ASSUME IndInv, MaxLives <= GenMax, NEW h \in Handles, Release(h)
    PROVE  IndInv'
<1> USE DEF IndInv
<1> PICK s \in Slots : s = ptr[h]
  BY DEF TypeOK
<1> DEFINE last == IsLastRelease(genRc[s])
<1>1. s \in Slots /\ pc[h] = "held" /\ body[s] # "null" /\ gen[h] = genRc[s].gen
  BY DEF Release, TypeOK, HandleInv, HeldInv
<1>2. /\ genRc[s].rc \in Nat /\ genRc[s].rc > 0
      /\ last => \A k \in Handles : pc[k] = "held" /\ ptr[k] = s => k = h
  BY <1>1, HeldIsCounted DEF IsLastRelease
<1>3. /\ genRc[s].gen \in Gens
      /\ genRc[s].gen >= 0 /\ genRc[s].gen < GenMax
  <2>1. ~LooksFree(genRc[s])
    BY <1>2 DEF LooksFree
  <2>2. genRc[s].gen + 1 <= lives[s] /\ genRc[s].gen >= 0
    BY <1>1, <2>1 DEF GenCountsLives
  <2>3. lives[s] \in 0 .. MaxLives /\ genRc[s].gen \in Gens
    BY <1>1 DEF TypeOK, GenRcs
  <2> QED BY <2>2, <2>3, GenMaxAssumption, MaxLivesAssumption DEF Gens
<1>4. /\ genRc'[s].rc = genRc[s].rc - 1
      /\ genRc'[s].gen = IF last THEN genRc[s].gen + 1 ELSE genRc[s].gen
      /\ genRc'[s].alive = genRc[s].alive
      /\ \A t \in Slots : t # s => genRc'[t] = genRc[t]
  BY <1>1, <1>3, GenMaxAssumption DEF Release, Released, NextGen, TypeOK, Gens
<1>5. genRc' \in [Slots -> GenRcs]
  <2>1. genRc[s].gen + 1 \in Gens
    BY <1>3, GenMaxAssumption DEF Gens
  <2>2. genRc[s].alive \in BOOLEAN
    BY <1>1 DEF TypeOK, GenRcs
  <2>3. NextGen(genRc[s].gen) = genRc[s].gen + 1
    BY <1>3, GenMaxAssumption DEF NextGen, Gens
  <2>4. Released(genRc[s]) \in GenRcs
    BY <1>2, <1>3, <2>1, <2>2, <2>3 DEF Released, GenRcs
  <2> QED BY <1>1, <2>4 DEF Release, TypeOK
<1>6. TypeOK'
  BY <1>5 DEF TypeOK, Places, Release
<1>7. RcCountsHolders'
  <2>1. Holders(s)' = Holders(s) \ {h} /\ h \in Holders(s)
    BY <1>1 DEF Holders, TypeOK, Release
  <2>2. \A t \in Slots : t # s => Holders(t)' = Holders(t)
    BY DEF Holders, TypeOK, Release
  <2>3. Cardinality(Holders(s)') = Cardinality(Holders(s)) - 1
    BY <1>1, <2>1, HoldersFinite, FS_RemoveElement
  <2>4. genRc'[s].rc = Cardinality(Holders(s)')
    BY <1>1, <1>4, <2>3 DEF RcCountsHolders
  <2>5. \A t \in Slots : t # s => genRc'[t].rc = Cardinality(Holders(t)')
    BY <1>4, <2>2 DEF RcCountsHolders
  <2>6. \A t \in Slots : genRc'[t].rc = Cardinality(Holders(t)')
    BY <2>4, <2>5
  <2> QED BY <2>6 DEF RcCountsHolders
<1>8. /\ last => LooksFree(genRc'[s])
      /\ ~last => ~LooksFree(genRc'[s])
  BY <1>2, <1>4 DEF LooksFree, IsLastRelease
<1>9. GenCountsLives'
  <2>1. ~LooksFree(genRc[s])
    BY <1>2 DEF LooksFree
  <2>2. \A t \in Slots : lives[t] \in Int /\ genRc[t].gen \in Int
    BY DEF TypeOK, GenRcs, Gens
  <2> QED BY <1>1, <1>4, <1>8, <2>1, <2>2 DEF GenCountsLives, Release
<1>10. \A t \in Slots, g \in Gens : KnownRef(t, g) => KnownRef(t, g)'
  <2> SUFFICES ASSUME NEW g \in Gens, KnownRef(s, g) PROVE KnownRef(s, g)'
    BY <1>4 DEF KnownRef, Release
  <2>1. CASE last
    BY <1>1, <1>3, <1>4, <2>1, GenMaxAssumption DEF KnownRef, Gens, Release
  <2>2. CASE ~last
    <3>1. genRc'[s].alive \/ genRc'[s].rc > 0
      BY <1>2, <1>4, <2>2 DEF IsLastRelease
    <3> QED BY <1>1, <1>4, <2>2, <3>1 DEF KnownRef, Release
  <2> QED BY <2>1, <2>2
<1>11. IssuedKnown'
  BY <1>10 DEF IssuedKnown, TypeOK, Refs, Release
<1>12. HandleInv'
  <2> SUFFICES ASSUME NEW k \in Handles
               PROVE  (/\ ScannedInv(k) /\ CheckedInv(k) /\ ClaimedInv(k)
                       /\ FreshInv(k) /\ HeldInv(k) /\ DestroyingInv(k))'
    BY DEF HandleInv
  <2>0. /\ UNCHANGED <<body, ptr, gen, issued>>
        /\ pc'[h] = IF last THEN "destroying" ELSE "idle"
        /\ \A j \in Handles : j # h => pc'[j] = pc[j]
    BY DEF Release, TypeOK
  <2>1. ScannedInv(k)'
    BY <1>1, <1>3, <1>4, <2>0 DEF HandleInv, ScannedInv, TypeOK, Gens
  <2>2. CheckedInv(k)'
    <3>1. pc[k] = "checked" /\ ptr[k] = s => gen[k] <= genRc[s].gen
      BY DEF HandleInv, ScannedInv
    <3>2. pc'[k] = "checked" /\ ptr[k] = s => ~ScanStillValid(k)'
      BY <1>3, <1>4, <1>8, <2>0, <3>1 DEF ScanStillValid, TypeOK, Gens
    <3> QED BY <1>4, <2>0, <3>2 DEF HandleInv, CheckedInv, ScanStillValid, TypeOK
  <2>3. ClaimedInv(k)'
    <3>1. pc[k] = "claimed" => ptr[k] # s
      BY <1>2 DEF HandleInv, ClaimedInv
    <3> QED BY <1>4, <2>0, <3>1 DEF HandleInv, ClaimedInv, TypeOK
  <2>4. FreshInv(k)'
    <3>1. pc[k] = "fresh" /\ Ref(k) \notin issued => ptr[k] # s
      BY <1>2 DEF HandleInv, FreshInv
    <3>2. pc[k] = "fresh" => KnownRef(ptr[k], gen[k])'
      BY <1>10, <2>0 DEF HandleInv, FreshInv, TypeOK
    <3> QED BY <1>4, <2>0, <3>1, <3>2 DEF HandleInv, FreshInv, Ref, TypeOK
  <2>5. HeldInv(k)'
    <3>1. pc'[k] = "held" /\ ptr[k] = s => ~last
      BY <1>2, <2>0
    <3> QED BY <1>4, <2>0, <3>1 DEF HandleInv, HeldInv, TypeOK
  <2>6. DestroyingInv(k)'
    <3>1. pc[k] = "destroying" => ptr[k] # s
      BY <1>2 DEF HandleInv, DestroyingInv, LooksFree
    <3>2. \A j \in Handles : pc[j] = "destroying" => ptr[j] # s
      BY <1>2 DEF HandleInv, DestroyingInv, LooksFree
    <3> QED
      BY <1>1, <1>4, <1>8, <2>0, <3>1, <3>2 DEF HandleInv, DestroyingInv, TypeOK
  <2> QED BY <2>1, <2>2, <2>3, <2>4, <2>5, <2>6
<1>13. NoSlotLeaks'
  BY <1>1, <1>4, <1>8 DEF NoSlotLeaks, TypeOK, Release
<1> QED
  BY <1>6, <1>7, <1>9, <1>11, <1>12, <1>13

-----------------------------------------------------------------------------
(* The theorems.                                                           *)

\* Every step of every handle keeps the inductive invariant.
LEMMA NextInd ==
    ASSUME IndInv, MaxLives <= GenMax, [Next]_vars
    PROVE  IndInv'
<1>1. CASE UNCHANGED vars
  BY <1>1, UnchangedInd
<1>2. CASE Next
  <2> PICK h \in Handles : HandleNext(h)
    BY <1>2 DEF Next
  <2>1. CASE \E s \in Slots : ScanSlot(h, s)
    BY <2>1, ScanSlotInd
  <2>2. CASE CheckBody(h)
    BY <2>2, CheckBodyInd
  <2>3. CASE ClaimSlot(h)
    BY <2>3, ClaimSlotInd
  <2>4. CASE ClaimFails(h)
    BY <2>4, ClaimFailsInd
  <2>5. CASE Populate(h)
    BY <2>5, PopulateInd
  <2>6. CASE Publish(h)
    BY <2>6, PublishInd
  <2>7. CASE AcquireFresh(h)
    BY <2>7, AcquireFreshInd
  <2>8. CASE \E ref \in issued : Acquire(h, ref)
    BY <2>8, AcquireInd
  <2>9. CASE RemoveSelf(h)
    BY <2>9, RemoveSelfInd
  <2>10. CASE Release(h)
    BY <2>10, ReleaseInd
  <2>11. CASE Destroy(h)
    BY <2>11, DestroyInd
  <2> QED
    BY <2>1, <2>2, <2>3, <2>4, <2>5, <2>6, <2>7, <2>8, <2>9, <2>10, <2>11
       DEF HandleNext
<1> QED BY <1>1, <1>2

LEMMA IndInvariant ==
    ASSUME MaxLives <= GenMax PROVE Spec => []IndInv
<1>1. Init => IndInv
  BY InitInd
<1>2. IndInv /\ [Next]_vars => IndInv'
  BY NextInd
<1> QED BY <1>1, <1>2, PTL DEF Spec

\* The pool's variables keep their types; in particular no release takes rc
\* below zero.
THEOREM TypeCorrect ==
    ASSUME MaxLives <= GenMax PROVE Spec => []TypeOK
<1>1. IndInv => TypeOK
  BY DEF IndInv
<1> QED BY <1>1, IndInvariant, PTL

\* A pointer obtained from statementAcquire or matchAcquire stays good until
\* it is released, for any number of slots and of concurrent pointers.
THEOREM HeldStaysIntact ==
    ASSUME MaxLives <= GenMax PROVE Spec => []HeldIntact
<1>1. IndInv => HeldIntact
  BY DEF IndInv, HandleInv, HeldInv, HeldIntact
<1> QED BY <1>1, IndInvariant, PTL

\* Whoever populates or destroys a slot is alone with it.
THEOREM OwnersAreExclusive ==
    ASSUME MaxLives <= GenMax PROVE Spec => []ExclusiveOwner
<1>1. IndInv => ExclusiveOwner
  <2> SUFFICES ASSUME IndInv, NEW h \in Handles, NEW k \in Handles,
                      pc[h] \in {"claimed", "destroying"},
                      pc[k] \in {"claimed", "held", "destroying"},
                      ptr[h] = ptr[k]
               PROVE  h = k
    BY DEF ExclusiveOwner
  <2>1. pc[k] # "held"
    BY HeldIsCounted DEF IndInv, HandleInv, ClaimedInv, DestroyingInv, LooksFree
  <2> QED
    BY <2>1 DEF IndInv, HandleInv, ClaimedInv, DestroyingInv, LooksFree
<1> QED BY <1>1, IndInvariant, PTL

\* A reference that can be acquired names a populated slot in use.
THEOREM AcquirableReferencesArePopulated ==
    ASSUME MaxLives <= GenMax PROVE Spec => []AcquirableIsPopulated
<1>1. IndInv => AcquirableIsPopulated
  BY DEF IndInv, IssuedKnown, KnownRef, CanAcquire, AcquirableIsPopulated
<1> QED BY <1>1, IndInvariant, PTL

\* A dead slot nobody points to has a destroyer: slots do not leak.
THEOREM SlotsDoNotLeak ==
    ASSUME MaxLives <= GenMax PROVE Spec => []NoSlotLeaks
<1>1. IndInv => NoSlotLeaks
  BY DEF IndInv
<1> QED BY <1>1, IndInvariant, PTL

\* The assert after statementNew or matchNew cannot fail while nobody else
\* has been told of the slot and its generation has not wrapped.
THEOREM FreshSlotsAreAcquirable ==
    ASSUME MaxLives <= GenMax PROVE Spec => []FreshAcquirable
<1>1. IndInv => FreshAcquirable
  BY DEF IndInv, HandleInv, FreshInv, GenCountsLives, CanAcquire,
         FreshAcquirable, TypeOK
<1> QED BY <1>1, IndInvariant, PTL
=============================================================================
