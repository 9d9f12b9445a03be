------------------------- MODULE DestructorsProofs -------------------------
(***************************************************************************)
(* Proof that a destructor runs exactly once, when the last statement or   *)
(* match that carries it is destroyed, and that the pools with destructors *)
(* are still the pools of SlotPool.                                        *)
(***************************************************************************)
EXTENDS Destructors, SlotPoolProofs, SequenceTheorems

\* A slot has a set exactly while it is populated.
SetWhilePopulated ==
    \A s \in Slots : destructorSet[s] = NoSet <=> body[s] = "null"

\* What a set has are destructors that were created, no more than fit.
SetsKnown ==
    \A s \in Slots : destructorSet[s] # NoSet =>
        /\ destructorSet[s] \in Seq(1 .. Len(rc))
        /\ Len(destructorSet[s]) <= MaxCarried

\* rc counts the places that have the destructor, and a destructor has run
\* when there is none.
RcCountsCarriers == \A d \in DOMAIN rc : rc[d] = Cardinality(Carriers(d))

RanWhenUncounted == \A d \in DOMAIN rc : ran[d] = IF rc[d] = 0 THEN 1 ELSE 0

DestructorsInd ==
    /\ IndInv
    /\ DestructorsTypeOK
    /\ SetWhilePopulated
    /\ SetsKnown
    /\ RcCountsCarriers
    /\ RanWhenUncounted

-----------------------------------------------------------------------------
(* The steps of the pools.                                                 *)

\* Every step does to the slots what some step of SlotPool does, or nothing.
LEMMA StepsAreSlotPoolSteps ==
    ASSUME [DestructorsNext]_dvars PROVE [Next]_vars
BY DEF DestructorsNext, dvars, OtherStep, PopulateSet, AddDestructor, ReleaseNext,
       DestroyWithSet, Inherit, RunUnused, Next, HandleNext

\* The pools with destructors are the pools of SlotPool: what is proved of
\* those holds of these.
THEOREM ImplementsSlotPool == DestructorsSpec => Spec
<1>1. DestructorsInit => Init
  BY DEF DestructorsInit
<1>2. [DestructorsNext]_dvars => [Next]_vars
  BY StepsAreSlotPoolSteps
<1> QED BY <1>1, <1>2, PTL DEF DestructorsSpec, Spec

-----------------------------------------------------------------------------
(* Where an element stands in a set that grew or shrank.                   *)

\* A place of Append(old, n) is a place of old, or the last one.
LEMMA AppendPlaces ==
    ASSUME NEW S, NEW old \in Seq(S), NEW n, n \notin S, NEW i \in Nat \ {0}
    PROVE  /\ \A d \in S : i <= Len(Append(old, n)) /\ Append(old, n)[i] = d
                             <=> i <= Len(old) /\ old[i] = d
           /\ i <= Len(Append(old, n)) /\ Append(old, n)[i] = n <=> i = Len(old) + 1
<1>1. /\ Len(old) \in Nat /\ Len(Append(old, n)) = Len(old) + 1
      /\ \A k \in 1 .. Len(old) : Append(old, n)[k] = old[k]
      /\ Append(old, n)[Len(old) + 1] = n
  OBVIOUS
<1>2. CASE i \in 1 .. Len(old)
  <2>1. old[i] \in S /\ Append(old, n)[i] = old[i]
    BY <1>1, <1>2
  <2> QED BY <1>1, <1>2, <2>1
<1>3. CASE i = Len(old) + 1
  BY <1>1, <1>3
<1>4. CASE i > Len(old) + 1
  BY <1>1, <1>4
<1> QED BY <1>1, <1>2, <1>3, <1>4

\* A place of old \o more is one of old, or one of more moved up by Len(old).
LEMMA ConcatPlaces ==
    ASSUME NEW S, NEW old \in Seq(S), NEW more \in Seq(S), NEW i \in Nat \ {0}, NEW d
    PROVE   (i <= Len(old \o more) /\ (old \o more)[i] = d)
              <=> \/ i <= Len(old) /\ old[i] = d
                  \/ /\ i - Len(old) \in 1 .. Len(more)
                     /\ more[i - Len(old)] = d
<1>1. /\ Len(old) \in Nat /\ Len(more) \in Nat
      /\ Len(old \o more) = Len(old) + Len(more)
      /\ \A k \in 1 .. Len(old) : (old \o more)[k] = old[k]
      /\ \A k \in Len(old) + 1 .. Len(old) + Len(more) : (old \o more)[k] = more[k - Len(old)]
  OBVIOUS
<1>2. CASE i \in 1 .. Len(old)
  BY <1>1, <1>2
<1>3. CASE i \in Len(old) + 1 .. Len(old) + Len(more)
  BY <1>1, <1>3
<1>4. CASE i > Len(old) + Len(more)
  BY <1>1, <1>4
<1> QED BY <1>1, <1>2, <1>3, <1>4

\* A place of Tail(old) is the place after it in old.
LEMMA TailPlaces ==
    ASSUME NEW S, NEW old \in Seq(S), old # <<>>, NEW i \in Nat \ {0}, NEW d
    PROVE  (i <= Len(Tail(old)) /\ Tail(old)[i] = d)
              <=> i + 1 <= Len(old) /\ old[i + 1] = d
<1>1. /\ Len(old) \in Nat \ {0} /\ Len(Tail(old)) = Len(old) - 1
      /\ \A k \in 1 .. Len(old) - 1 : Tail(old)[k] = old[k + 1]
  OBVIOUS
<1> QED BY <1>1

-----------------------------------------------------------------------------
(* Carriers.                                                               *)

\* A carrier is a slot and a position, now and after a step.
LEMMA CarriersArePlaces ==
    ASSUME NEW d
    PROVE  /\ Carriers(d) \subseteq Slots \X (1 .. MaxCarried)
           /\ Carriers(d)' \subseteq Slots \X (1 .. MaxCarried)
           /\ \A s \in Slots, i \in 1 .. MaxCarried :
                /\ <<s, i>> \in Carriers(d) <=>
                     i <= Len(destructorSet[s]) /\ destructorSet[s][i] = d
                /\ <<s, i>> \in Carriers(d)' <=>
                     i <= Len(destructorSet'[s]) /\ destructorSet'[s][i] = d
BY DEF Carriers

\* Sets of places are equal when they have the same places.
LEMMA SamePlaces ==
    ASSUME NEW C \in SUBSET (Slots \X (1 .. MaxCarried)),
           NEW D \in SUBSET (Slots \X (1 .. MaxCarried)),
           \A s \in Slots, i \in 1 .. MaxCarried : <<s, i>> \in C <=> <<s, i>> \in D
    PROVE  C = D
<1> SUFFICES ASSUME NEW p \in Slots \X (1 .. MaxCarried) PROVE p \in C <=> p \in D
  OBVIOUS
<1>1. p = <<p[1], p[2]>> /\ p[1] \in Slots /\ p[2] \in 1 .. MaxCarried
  OBVIOUS
<1> QED BY <1>1

\* A one-to-one correspondence keeps the size.
LEMMA SameSize ==
    ASSUME NEW S, NEW T, IsFiniteSet(S), NEW f \in [S -> T],
           \A a, b \in S : f[a] = f[b] => a = b,
           \A y \in T : \E x \in S : f[x] = y
    PROVE  IsFiniteSet(T) /\ Cardinality(T) = Cardinality(S)
<1>1. f \in Bijection(S, T)
  BY DEF Bijection, Injection, Surjection, IsInjective
<1> QED BY <1>1, FS_Bijection DEF ExistsBijection

\* The places that have d are finitely many, so rc can count them.
LEMMA CarriersFinite == \A d : IsFiniteSet(Carriers(d))
<1>1. IsFiniteSet(1 .. MaxCarried)
  BY FS_Interval, DestructorsAssumption
<1>2. IsFiniteSet(Slots \X (1 .. MaxCarried))
  BY <1>1, SlotsFinite, FS_Product
<1> QED BY <1>2, FS_Subset DEF Carriers

\* A set that holds d is a carrier of it, so the count is positive.
LEMMA CarriedIsCounted ==
    ASSUME DestructorsTypeOK, SetsKnown, RcCountsCarriers,
           NEW s \in Slots, destructorSet[s] # NoSet,
           NEW i \in 1 .. Len(destructorSet[s])
    PROVE  /\ destructorSet[s][i] \in DOMAIN rc
           /\ rc[destructorSet[s][i]] > 0
<1> DEFINE d == destructorSet[s][i]
<1>1. destructorSet[s] \in Seq(1 .. Len(rc)) /\ Len(destructorSet[s]) <= MaxCarried
  BY DEF SetsKnown
<1>2. d \in 1 .. Len(rc) /\ DOMAIN rc = 1 .. Len(rc)
  BY <1>1 DEF DestructorsTypeOK
<1>3. <<s, i>> \in Carriers(d)
  BY <1>1, DestructorsAssumption DEF Carriers
<1>4. Cardinality(Carriers(d)) # 0
  BY <1>3, CarriersFinite, FS_EmptySet
<1>5. Cardinality(Carriers(d)) \in Nat
  BY CarriersFinite, FS_CardinalityType
<1> QED BY <1>2, <1>4, <1>5 DEF RcCountsCarriers

-----------------------------------------------------------------------------
(* The inductive invariant holds initially and every action keeps it.      *)

\* Nothing is populated, and no destructor exists.
LEMMA DestructorsInitInd == DestructorsInit => DestructorsInd
<1> SUFFICES ASSUME DestructorsInit PROVE DestructorsInd
  OBVIOUS
<1>1. IndInv
  BY InitInd DEF DestructorsInit
<1>2. DestructorsTypeOK
  BY DestructorsAssumption DEF DestructorsInit, DestructorsTypeOK
<1>3. SetWhilePopulated /\ SetsKnown /\ RcCountsCarriers /\ RanWhenUncounted
  BY DEF DestructorsInit, Init, SetWhilePopulated, SetsKnown, RcCountsCarriers,
         RanWhenUncounted
<1> QED BY <1>1, <1>2, <1>3 DEF DestructorsInd

\* A step that leaves the sets alone, and makes no slot null or populated.
LEMMA SetsUnchangedInd ==
    ASSUME DestructorsInd, IndInv', UNCHANGED <<destructorSet, rc, ran>>,
           \A s \in Slots : body[s] = "null" <=> body'[s] = "null"
    PROVE  DestructorsInd'
<1>1. \A d : Carriers(d)' = Carriers(d)
  BY DEF Carriers
<1> QED
  BY <1>1 DEF DestructorsInd, DestructorsTypeOK, SetWhilePopulated, SetsKnown,
              RcCountsCarriers, RanWhenUncounted

\* The steps of SlotPool that leave the sets alone.
LEMMA OtherStepInd ==
    ASSUME DestructorsInd, IndInv', NEW h \in Handles, OtherStep(h)
    PROVE  DestructorsInd'
<1>1. UNCHANGED <<destructorSet, rc, ran>>
  BY DEF OtherStep
<1>2. \A s \in Slots : body[s] = "null" <=> body'[s] = "null"
  BY DEF OtherStep, ScanSlot, CheckBody, ClaimSlot, ClaimFails, Publish,
         AcquireFresh, Acquire, RemoveSelf, Release, DestructorsInd, IndInv, TypeOK
<1> QED BY <1>1, <1>2, SetsUnchangedInd

\* A set that has no destructor becomes another one that has none: a slot is
\* populated, or given back.
LEMMA EmptySetInd ==
    ASSUME DestructorsInd, IndInv', NEW s \in Slots,
           NEW old \in {NoSet, <<>>}, NEW new \in {NoSet, <<>>},
           destructorSet[s] = old,
           destructorSet' = [destructorSet EXCEPT ![s] = new],
           UNCHANGED <<rc, ran>>,
           new = NoSet <=> body'[s] = "null",
           \A t \in Slots \ {s} : body'[t] = body[t]
    PROVE  DestructorsInd'
<1> USE DEF DestructorsInd
<1>0. <<>> \in Seq(DestructorIds) /\ <<>> \in Seq(1 .. Len(rc)) /\ Len(<<>>) = 0
  OBVIOUS
<1>1. DestructorsTypeOK'
  <2>1. new \in Seq(DestructorIds) \cup {NoSet}
    BY <1>0
  <2> QED BY <2>1 DEF DestructorsTypeOK
<1>2. \A t \in Slots \ {s} : destructorSet'[t] = destructorSet[t]
  BY DEF DestructorsTypeOK
<1>3. destructorSet'[s] = new
  BY DEF DestructorsTypeOK
<1>4. SetWhilePopulated'
  BY <1>2, <1>3 DEF SetWhilePopulated
<1>8. SetsKnown'
  <2> SUFFICES ASSUME NEW t \in Slots, destructorSet'[t] # NoSet
               PROVE  /\ destructorSet'[t] \in Seq(1 .. Len(rc))
                      /\ Len(destructorSet'[t]) <= MaxCarried
    BY DEF SetsKnown
  <2>1. CASE t = s
    <3>1. destructorSet'[t] = <<>>
      BY <1>3, <2>1
    <3>2. Len(destructorSet'[t]) = 0
      BY <3>1
    <3>3. destructorSet'[t] \in Seq(1 .. Len(rc))
      BY <1>0, <3>1
    <3> QED BY <3>2, <3>3, DestructorsAssumption
  <2>2. CASE t # s
    BY <1>2, <2>2 DEF SetsKnown
  <2> QED BY <2>1, <2>2
<1>5. \A d \in DOMAIN rc : Carriers(d)' = Carriers(d)
  <2> SUFFICES ASSUME NEW d \in DOMAIN rc, NEW p \in Slots \X (1 .. MaxCarried)
               PROVE  (p \in Carriers(d))' <=> p \in Carriers(d)
    BY DEF Carriers
  <2>1. d # 0
    BY DEF DestructorsTypeOK
  <2>2. p[1] \in Slots /\ p[2] \in 1 .. MaxCarried
    OBVIOUS
  <2> QED BY <1>2, <1>3, <2>1, <2>2 DEF Carriers, NoSet
<1>6. RcCountsCarriers'
  BY <1>5 DEF RcCountsCarriers
<1>7. RanWhenUncounted'
  BY DEF RanWhenUncounted
<1> QED BY <1>1, <1>4, <1>6, <1>7, <1>8

\* destructorSetInit.
LEMMA PopulateSetInd ==
    ASSUME DestructorsInd, IndInv', NEW h \in Handles, PopulateSet(h)
    PROVE  DestructorsInd'
<1>1. ptr[h] \in Slots /\ body[ptr[h]] = "null"
  BY DEF DestructorsInd, IndInv, TypeOK, HandleInv, ClaimedInv, PopulateSet, Populate
<1>2. destructorSet[ptr[h]] = NoSet
  BY <1>1 DEF DestructorsInd, SetWhilePopulated
<1>3. body'[ptr[h]] = "open" /\ \A t \in Slots \ {ptr[h]} : body'[t] = body[t]
  BY <1>1 DEF PopulateSet, Populate, DestructorsInd, IndInv, TypeOK
<1>4. <<>> # NoSet
  BY DEF NoSet
<1> QED BY <1>1, <1>2, <1>3, <1>4, EmptySetInd DEF PopulateSet

\* The emptied set is freed with its slot.
LEMMA DestroyWithSetInd ==
    ASSUME DestructorsInd, IndInv', NEW h \in Handles, DestroyWithSet(h)
    PROVE  DestructorsInd'
<1>1. ptr[h] \in Slots
  BY DEF DestructorsInd, IndInv, TypeOK
<1>2. destructorSet[ptr[h]] = <<>>
  BY DEF DestroyWithSet, Carried
<1>3. body'[ptr[h]] = "null" /\ \A t \in Slots \ {ptr[h]} : body'[t] = body[t]
  BY <1>1 DEF DestroyWithSet, Destroy, DestructorsInd, IndInv, TypeOK
<1> QED BY <1>1, <1>2, <1>3, EmptySetInd DEF DestroyWithSet

\* A raw pointer that is held, or that destroys, points to a slot with a set.
LEMMA PointedHasSet ==
    ASSUME DestructorsInd, NEW h \in Handles, pc[h] \in {"held", "destroying"}
    PROVE  /\ ptr[h] \in Slots
           /\ Carried(h) # NoSet
           /\ Carried(h) \in Seq(1 .. Len(rc))
           /\ Len(Carried(h)) <= MaxCarried
<1>1. ptr[h] \in Slots /\ body[ptr[h]] # "null"
  BY DEF DestructorsInd, IndInv, TypeOK, HandleInv, HeldInv, DestroyingInv
<1> QED BY <1>1 DEF DestructorsInd, SetWhilePopulated, SetsKnown, Carried

\* No set has a destructor that is yet to be created.
LEMMA NewIsNotCarried ==
    ASSUME DestructorsTypeOK, SetsKnown
    PROVE  \A s \in Slots : \A i \in 1 .. Len(destructorSet[s]) :
               destructorSet[s][i] # Len(rc) + 1
<1> SUFFICES ASSUME NEW s \in Slots, NEW i \in 1 .. Len(destructorSet[s])
             PROVE  destructorSet[s][i] # Len(rc) + 1
  OBVIOUS
<1>1. Len(rc) \in Nat
  BY DEF DestructorsTypeOK
<1>2. CASE destructorSet[s] = NoSet
  <2>1. i = 1 /\ destructorSet[s][1] = 0
    BY <1>2 DEF NoSet
  <2> QED BY <1>1, <2>1
<1>3. CASE destructorSet[s] # NoSet
  BY <1>1, <1>3 DEF SetsKnown
<1> QED BY <1>2, <1>3

\* A destructor is created: everything about the earlier ones stays.
LEMMA CreatedInd ==
    ASSUME DestructorsInd, NEW n \in Nat, n = Len(rc) + 1, n <= MaxDestructors,
           NEW r \in {0, 1}, NEW q \in {0, 1}, r + q = 1,
           rc' = Append(rc, r), ran' = Append(ran, q),
           destructorSet' \in [Slots -> Seq(DestructorIds) \cup {NoSet}],
           \A d \in DOMAIN rc : Carriers(d)' = Carriers(d),
           Cardinality(Carriers(n)') = r
    PROVE  DestructorsTypeOK' /\ RcCountsCarriers' /\ RanWhenUncounted'
<1> USE DEF DestructorsInd
<1>1. /\ rc \in Seq(Nat) /\ ran \in Seq(Nat) /\ Len(ran) = Len(rc)
      /\ DOMAIN rc = 1 .. Len(rc) /\ Len(rc) \in Nat
  BY DEF DestructorsTypeOK
<1>2. /\ rc' \in Seq(Nat) /\ ran' \in Seq(Nat)
      /\ Len(rc') = Len(rc) + 1 /\ Len(ran') = Len(rc) + 1
      /\ DOMAIN rc' = 1 .. Len(rc) + 1
      /\ \A d \in 1 .. Len(rc) : rc'[d] = rc[d] /\ ran'[d] = ran[d]
      /\ rc'[Len(rc) + 1] = r /\ ran'[Len(rc) + 1] = q
  BY <1>1
<1>3. DestructorsTypeOK'
  BY <1>1, <1>2, DestructorsAssumption DEF DestructorsTypeOK
<1>4. RcCountsCarriers'
  <2> SUFFICES ASSUME NEW d \in 1 .. Len(rc) + 1
               PROVE  rc'[d] = Cardinality(Carriers(d)')
    BY <1>2 DEF RcCountsCarriers
  <2>1. CASE d = n
    BY <1>2, <2>1
  <2>2. CASE d # n
    <3>1. d \in DOMAIN rc
      BY <1>1, <2>2
    <3> QED BY <1>1, <1>2, <3>1 DEF RcCountsCarriers
  <2> QED BY <2>1, <2>2
<1>5. RanWhenUncounted'
  BY <1>1, <1>2 DEF RanWhenUncounted
<1> QED BY <1>3, <1>4, <1>5

\* A new destructor, with the one place that has it.
LEMMA AddDestructorInd ==
    ASSUME DestructorsInd, IndInv', NEW h \in Handles, AddDestructor(h)
    PROVE  DestructorsInd'
<1> USE DestructorsAssumption DEF DestructorsInd
<1> DEFINE t == ptr[h]  old == destructorSet[t]
<1>0. Len(rc) \in Nat /\ DOMAIN rc = 1 .. Len(rc)
  BY DEF DestructorsTypeOK
<1>a. PICK n \in Nat : n = Len(rc) + 1
  BY <1>0
<1>b. PICK new : new = Append(old, n)
  OBVIOUS
<1>1. /\ t \in Slots /\ old # NoSet
      /\ old \in Seq(1 .. Len(rc)) /\ Len(old) \in Nat /\ Len(old) < MaxCarried
  BY PointedHasSet DEF AddDestructor, Carried
<1>3. /\ destructorSet'[t] = new
      /\ \A s \in Slots \ {t} : destructorSet'[s] = destructorSet[s]
  BY <1>1, <1>a, <1>b DEF AddDestructor, DestructorsTypeOK
<1>4. /\ new \in Seq(1 .. n)
      /\ Len(new) = Len(old) + 1
      /\ \A i \in 1 .. Len(old) : new[i] = old[i]
      /\ new[Len(old) + 1] = n
  BY <1>0, <1>1, <1>a, <1>b
<1>5. new # NoSet
  <2>1. new[1] # 0
    BY <1>0, <1>1, <1>4, <1>a
  <2>2. NoSet[1] = 0
    BY DEF NoSet
  <2> QED BY <2>1, <2>2
<1>6. n \in DestructorIds /\ 1 .. n \subseteq DestructorIds
  BY <1>0, <1>a DEF AddDestructor, DestructorIds
<1>7. destructorSet' \in [Slots -> Seq(DestructorIds) \cup {NoSet}]
  <2>1. new \in Seq(DestructorIds)
    BY <1>4, <1>6
  <2> QED BY <2>1, <1>a, <1>b DEF AddDestructor, DestructorsTypeOK
<1>8. \A d \in DOMAIN rc : Carriers(d)' = Carriers(d)
  <2> SUFFICES ASSUME NEW d \in DOMAIN rc, NEW s \in Slots, NEW i \in 1 .. MaxCarried
               PROVE  <<s, i>> \in Carriers(d)' <=> <<s, i>> \in Carriers(d)
    BY CarriersArePlaces, SamePlaces
  <2>1. CASE s # t
    BY <1>3, <2>1, CarriersArePlaces
  <2>2. CASE s = t
    <3>1. d \in 1 .. Len(rc) /\ n \notin 1 .. Len(rc)
      BY <1>0, <1>a
    <3>2. i <= Len(new) /\ new[i] = d <=> i <= Len(old) /\ old[i] = d
      BY <1>1, <1>b, <3>1, AppendPlaces
    <3> QED BY <1>3, <2>2, <3>2, CarriersArePlaces
  <2> QED BY <2>1, <2>2
<1>9. Carriers(n)' = {<<t, Len(old) + 1>>}
  <2>0. Len(old) + 1 \in 1 .. MaxCarried
    BY <1>1
  <2>1. <<t, Len(old) + 1>> \in Carriers(n)'
    BY <1>1, <1>3, <1>4, <2>0, CarriersArePlaces
  <2> SUFFICES ASSUME NEW s \in Slots, NEW i \in 1 .. MaxCarried,
                      <<s, i>> \in Carriers(n)'
               PROVE  s = t /\ i = Len(old) + 1
    <3>1. Carriers(n)' \subseteq Slots \X (1 .. MaxCarried)
      BY CarriersArePlaces
    <3>2. {<<t, Len(old) + 1>>} \subseteq Slots \X (1 .. MaxCarried)
      BY <1>1, <2>0
    <3> QED BY <2>1, <3>1, <3>2, SamePlaces
  <2>2. i <= Len(destructorSet'[s]) /\ destructorSet'[s][i] = n
    BY CarriersArePlaces
  <2>3. \A u \in Slots : \A k \in 1 .. Len(destructorSet[u]) : destructorSet[u][k] # n
    BY <1>a, NewIsNotCarried
  <2>4. s = t
    <3>1. s # t => destructorSet'[s] = destructorSet[s]
      BY <1>3
    <3>2. Len(destructorSet[s]) \in Nat
      <4>1. NoSet \in Seq(Nat)
        BY DEF NoSet
      <4>2. destructorSet[s] \in Seq(DestructorIds) \/ destructorSet[s] = NoSet
        BY DEF DestructorsTypeOK
      <4> QED BY <4>1, <4>2
    <3>3. s # t => i \in 1 .. Len(destructorSet[s])
      BY <2>2, <3>1, <3>2
    <3> QED BY <2>2, <2>3, <3>1, <3>3
  <2>5. i <= Len(new) /\ new[i] = n
    BY <1>3, <2>2, <2>4
  <2>6. n \notin 1 .. Len(rc)
    BY <1>0, <1>a
  <2> QED BY <1>1, <1>b, <2>4, <2>5, <2>6, AppendPlaces
<1>10. Cardinality(Carriers(n)') = 1
  BY <1>9, FS_Singleton
<1>11. DestructorsTypeOK' /\ RcCountsCarriers' /\ RanWhenUncounted'
  <2>1. rc' = Append(rc, 1) /\ ran' = Append(ran, 0)
    BY DEF AddDestructor
  <2>2. n <= MaxDestructors
    BY <1>6 DEF DestructorIds
  <2> QED BY <1>a, <1>7, <1>8, <1>10, <2>1, <2>2, CreatedInd
<1>12. SetWhilePopulated'
  BY <1>1, <1>3, <1>5 DEF SetWhilePopulated, AddDestructor, vars
<1>13. SetsKnown'
  <2>1. Len(rc') = n
    BY <1>0, <1>a DEF AddDestructor, DestructorsTypeOK
  <2> SUFFICES ASSUME NEW s \in Slots, destructorSet'[s] # NoSet
               PROVE  /\ destructorSet'[s] \in Seq(1 .. n)
                      /\ Len(destructorSet'[s]) <= MaxCarried
    BY <2>1 DEF SetsKnown
  <2>2. CASE s = t
    BY <1>1, <1>3, <1>4, <2>2
  <2>3. CASE s # t
    <3>1. /\ destructorSet'[s] \in Seq(1 .. Len(rc))
          /\ Len(destructorSet'[s]) <= MaxCarried
      BY <1>3, <2>3 DEF SetsKnown
    <3>2. 1 .. Len(rc) \subseteq 1 .. n
      BY <1>0, <1>a
    <3>3. Seq(1 .. Len(rc)) \subseteq Seq(1 .. n)
      BY <3>2, SeqMonotonic
    <3> QED BY <3>1, <3>3
  <2> QED BY <2>2, <2>3
<1> QED BY <1>11, <1>12, <1>13

\* A new destructor that has run and that nothing carries.
LEMMA RunUnusedInd ==
    ASSUME DestructorsInd, IndInv', RunUnused
    PROVE  DestructorsInd'
<1> USE DEF DestructorsInd
<1> PICK n \in Nat : n = Len(rc) + 1
  BY DEF DestructorsTypeOK
<1>1. Len(rc) \in Nat /\ Len(rc') = n /\ n <= MaxDestructors
  BY DestructorsAssumption DEF DestructorsTypeOK, RunUnused
<1>2. \A d : Carriers(d)' = Carriers(d)
  BY DEF Carriers, RunUnused
<1>3. Carriers(n) = {}
  BY NewIsNotCarried DEF Carriers
<1>4. Cardinality(Carriers(n)') = 0
  BY <1>2, <1>3, FS_EmptySet
<1>5. DestructorsTypeOK' /\ RcCountsCarriers' /\ RanWhenUncounted'
  <2>1. rc' = Append(rc, 0) /\ ran' = Append(ran, 1)
    BY DEF RunUnused
  <2>2. destructorSet' \in [Slots -> Seq(DestructorIds) \cup {NoSet}]
    BY DEF RunUnused, DestructorsTypeOK
  <2> QED BY <1>1, <1>2, <1>4, <2>1, <2>2, CreatedInd
<1>6. SetWhilePopulated'
  BY DEF SetWhilePopulated, RunUnused, vars
<1>7. SetsKnown'
  <2>1. 1 .. Len(rc) \subseteq 1 .. n
    BY <1>1
  <2> QED BY <1>1, <2>1 DEF SetsKnown, RunUnused
<1> QED BY <1>5, <1>6, <1>7

\* destructorSetInherit: the places of the parent's set appear once more, at
\* the end of the child's, and each is counted.
LEMMA InheritInd ==
    ASSUME DestructorsInd, IndInv', NEW to \in Handles, NEW from \in Handles,
           Inherit(to, from)
    PROVE  DestructorsInd'
<1> USE DestructorsAssumption DEF DestructorsInd
<1>c. PICK t, old, more : /\ t = ptr[to] /\ old = Carried(to)
                          /\ more = Carried(from)
  OBVIOUS
<1> DEFINE Match(d) == {k \in 1 .. Len(more) : more[k] = d}
<1>0. rc \in Seq(Nat) /\ Len(rc) \in Nat /\ DOMAIN rc = 1 .. Len(rc)
  BY DEF DestructorsTypeOK
<1>1. /\ t \in Slots /\ old # NoSet /\ old \in Seq(1 .. Len(rc))
      /\ ptr[from] \in Slots /\ more # NoSet /\ more \in Seq(1 .. Len(rc))
      /\ Len(more) \in Nat
  BY <1>c, PointedHasSet DEF Inherit
<1>a. PICK n \in Nat : n = Len(old)
  BY <1>1
<1>b. PICK new : new = old \o more
  OBVIOUS
<1>2. /\ destructorSet'[t] = new
      /\ \A s \in Slots \ {t} : destructorSet'[s] = destructorSet[s]
      /\ destructorSet[t] = old
      /\ destructorSet' = [destructorSet EXCEPT ![t] = new]
  BY <1>1, <1>b, <1>c DEF Inherit, Carried, DestructorsTypeOK
<1>3. new \in Seq(1 .. Len(rc)) /\ Len(new) <= MaxCarried /\ Len(new) = n + Len(more)
  <2>1. Len(old) + Len(more) <= MaxCarried
    BY <1>c DEF Inherit
  <2> QED BY <1>1, <1>a, <1>b, <2>1, ConcatProperties
<1>4. new # NoSet
  <2>1. NoSet \notin Seq(1 .. Len(rc))
    <3>1. NoSet[1] = 0 /\ Len(NoSet) = 1
      BY DEF NoSet
    <3>2. NoSet \in Seq(1 .. Len(rc)) => NoSet[1] \in 1 .. Len(rc)
      BY <3>1, ElementOfSeq
    <3> QED BY <1>0, <3>1, <3>2
  <2> QED BY <1>3, <2>1
<1>5. \A d \in DOMAIN rc : /\ IsFiniteSet(Match(d))
                           /\ Cardinality(Carriers(d)') =
                                Cardinality(Carriers(d)) + Cardinality(Match(d))
  <2> TAKE d \in DOMAIN rc
  <2> DEFINE Added == {<<t, n + k>> : k \in Match(d)}
  <2>1. IsFiniteSet(Match(d))
    <3>1. IsFiniteSet(1 .. Len(more))
      <4>1. Len(more) \in Int
        BY <1>1
      <4> QED BY <4>1, FS_Interval
    <3> QED BY <3>1, FS_Subset
  <2>2. Cardinality(Added) = Cardinality(Match(d)) /\ IsFiniteSet(Added)
    <3> DEFINE f == [k \in Match(d) |-> <<t, n + k>>]
    <3>1. f \in [Match(d) -> Added]
      OBVIOUS
    <3>2. \A a, b \in Match(d) : f[a] = f[b] => a = b
      OBVIOUS
    <3>3. \A y \in Added : \E x \in Match(d) : f[x] = y
      OBVIOUS
    <3> QED BY <2>1, <3>1, <3>2, <3>3, SameSize
  <2>3. Added \subseteq Slots \X (1 .. MaxCarried)
    <3>1. \A k \in Match(d) : n + k \in 1 .. MaxCarried
      BY <1>1, <1>3
    <3> QED BY <1>1, <3>1
  <2>4. Carriers(d) \cap Added = {}
    <3> SUFFICES ASSUME NEW k \in Match(d), <<t, n + k>> \in Carriers(d) PROVE FALSE
      OBVIOUS
    <3>1. n + k \in 1 .. MaxCarried
      BY <1>1, <1>3
    <3>2. n + k <= Len(old)
      BY <1>1, <1>2, <3>1, CarriersArePlaces
    <3> QED BY <1>1, <1>a, <3>2
  <2>5. Carriers(d)' = Carriers(d) \cup Added
    <3>1. Carriers(d)' \subseteq Slots \X (1 .. MaxCarried)
      BY CarriersArePlaces
    <3>2. Carriers(d) \cup Added \subseteq Slots \X (1 .. MaxCarried)
      BY <2>3, CarriersArePlaces
    <3>3. ASSUME NEW s \in Slots, NEW i \in 1 .. MaxCarried
          PROVE  <<s, i>> \in Carriers(d)' <=> <<s, i>> \in Carriers(d) \cup Added
      <4>1. CASE s # t
        BY <1>2, <4>1, CarriersArePlaces
      <4>2. CASE s = t
        <5>1. (i <= Len(new) /\ new[i] = d)
                <=> \/ i <= Len(old) /\ old[i] = d
                    \/ i - Len(old) \in 1 .. Len(more) /\ more[i - Len(old)] = d
          <6>1. i \in Nat \ {0}
            OBVIOUS
          <6> QED BY <1>1, <1>b, <6>1, ConcatPlaces
        <5>2. <<t, i>> \in Added <=> i - n \in Match(d)
          <6>1. \A k \in Match(d) : <<t, i>> = <<t, n + k>> <=> i = n + k
            OBVIOUS
          <6>2. i - n \in Match(d) => i = n + (i - n)
            OBVIOUS
          <6>3. \A k \in Match(d) : i = n + k => k = i - n
            OBVIOUS
          <6> QED BY <6>1, <6>2, <6>3
        <5>3. <<t, i>> \in Added <=> 
                 i - Len(old) \in 1 .. Len(more) /\ more[i - Len(old)] = d
          BY <1>a, <5>2
        <5> QED BY <1>1, <1>2, <4>2, <5>1, <5>3, CarriersArePlaces
      <4> QED BY <4>1, <4>2
    <3> QED BY <3>1, <3>2, <3>3, SamePlaces
  <2>6. Cardinality(Carriers(d) \cap Added) = 0
    BY <2>4, FS_EmptySet
  <2>7. Cardinality(Carriers(d)) \in Nat /\ Cardinality(Added) \in Nat
    BY <2>2, CarriersFinite, FS_CardinalityType
  <2>8. Cardinality(Carriers(d) \cup Added) =
          Cardinality(Carriers(d)) + Cardinality(Added) - Cardinality(Carriers(d) \cap Added)
    BY <2>2, CarriersFinite, FS_Union
  <2> HIDE DEF Added, Match
  <2> QED BY <2>1, <2>2, <2>5, <2>6, <2>7, <2>8
<1>6. /\ rc' = [d \in DOMAIN rc |-> rc[d] + Cardinality(Match(d))]
      /\ \A d \in DOMAIN rc : Cardinality(Match(d)) \in Nat
      /\ rc' \in Seq(Nat) /\ Len(rc') = Len(rc) /\ DOMAIN rc' = DOMAIN rc
  <2>1. rc' = [d \in DOMAIN rc |-> rc[d] + Cardinality(Match(d))]
    BY <1>c DEF Inherit, Retained
  <2>2. \A d \in DOMAIN rc : Cardinality(Match(d)) \in Nat
    BY <1>5, FS_CardinalityType
  <2>3. rc' \in [1 .. Len(rc) -> Nat]
    BY <1>0, <2>1, <2>2
  <2>4. rc' \in Seq(Nat)
    BY <1>0, <2>3
  <2>5. DOMAIN rc' = 1 .. Len(rc)
    BY <2>3
  <2>6. Len(rc') = Len(rc)
    BY <1>0, <2>4, <2>5
  <2> QED BY <1>0, <2>1, <2>2, <2>4, <2>5, <2>6
<1>7. DestructorsTypeOK'
  <2>1. 1 .. Len(rc) \subseteq DestructorIds
    BY <1>0 DEF DestructorIds, DestructorsTypeOK
  <2>2. new \in Seq(DestructorIds)
    BY <1>3, <2>1, SeqMonotonic
  <2>3. destructorSet' \in [Slots -> Seq(DestructorIds) \cup {NoSet}]
    BY <1>2, <2>2 DEF DestructorsTypeOK
  <2> QED BY <1>6, <2>3 DEF DestructorsTypeOK, Inherit
<1>8. SetWhilePopulated'
  BY <1>1, <1>2, <1>4 DEF SetWhilePopulated, Inherit, vars
<1>9. SetsKnown'
  <2> SUFFICES ASSUME NEW s \in Slots, destructorSet'[s] # NoSet
               PROVE  /\ destructorSet'[s] \in Seq(1 .. Len(rc))
                      /\ Len(destructorSet'[s]) <= MaxCarried
    BY <1>6 DEF SetsKnown
  <2>1. CASE s = t
    BY <1>2, <1>3, <2>1
  <2>2. CASE s # t
    BY <1>2, <2>2 DEF SetsKnown
  <2> QED BY <2>1, <2>2
<1>10. RcCountsCarriers'
  BY <1>5, <1>6 DEF RcCountsCarriers
<1>11. RanWhenUncounted'
  <2> SUFFICES ASSUME NEW d \in DOMAIN rc
               PROVE  ran[d] = IF rc'[d] = 0 THEN 1 ELSE 0
    BY <1>6 DEF RanWhenUncounted, Inherit
  <2>1. CASE Match(d) = {}
    <3>1. rc'[d] = rc[d]
      BY <1>0, <1>6, <2>1, FS_EmptySet
    <3> QED BY <3>1 DEF RanWhenUncounted
  <2>2. CASE Match(d) # {}
    <3>1. rc[d] > 0
      BY <1>1, <1>c, <2>2, CarriedIsCounted DEF Carried
    <3> QED BY <1>0, <1>6, <3>1 DEF RanWhenUncounted
  <2> QED BY <2>1, <2>2
<1> QED BY <1>7, <1>8, <1>9, <1>10, <1>11

\* destructorRelease: the first place of the set that is being emptied is
\* gone, the others have moved up by one.
LEMMA ReleaseNextInd ==
    ASSUME DestructorsInd, IndInv', NEW h \in Handles, ReleaseNext(h)
    PROVE  DestructorsInd'
<1> USE DestructorsAssumption DEF DestructorsInd
<1>c. PICK t, old, new, d : /\ t = ptr[h] /\ old = Carried(h)
                            /\ new = Tail(old) /\ d = Head(old)
  OBVIOUS
<1>0. /\ rc \in Seq(Nat) /\ Len(rc) \in Nat /\ DOMAIN rc = 1 .. Len(rc)
      /\ ran \in Seq(Nat) /\ Len(ran) = Len(rc) /\ DOMAIN ran = 1 .. Len(rc)
  BY DEF DestructorsTypeOK
<1>1. /\ t \in Slots /\ old # NoSet /\ old \in Seq(1 .. Len(rc)) /\ old # <<>>
      /\ Len(old) \in Nat /\ Len(old) <= MaxCarried
  BY <1>c, PointedHasSet DEF ReleaseNext
<1>2. /\ Len(old) >= 1 /\ d = old[1] /\ d \in DOMAIN rc
      /\ new \in Seq(1 .. Len(rc)) /\ Len(new) = Len(old) - 1
  BY <1>0, <1>1, <1>c
<1>3. /\ destructorSet'[t] = new
      /\ \A s \in Slots \ {t} : destructorSet'[s] = destructorSet[s]
      /\ destructorSet[t] = old
      /\ destructorSet' = [destructorSet EXCEPT ![t] = new]
  BY <1>1, <1>c DEF ReleaseNext, Carried, DestructorsTypeOK
<1>4. new # NoSet
  <2>1. NoSet[1] = 0 /\ Len(NoSet) = 1
    BY DEF NoSet
  <2>2. NoSet \in Seq(1 .. Len(rc)) => NoSet[1] \in 1 .. Len(rc)
    BY <2>1, ElementOfSeq
  <2> QED BY <1>0, <1>2, <2>1, <2>2
<1>5. <<t, 1>> \in Carriers(d) /\ \A e : e # d => <<t, 1>> \notin Carriers(e)
  <2>1. 1 \in 1 .. MaxCarried
    BY <1>1, <1>2
  <2> QED BY <1>1, <1>2, <1>3, <2>1, CarriersArePlaces
<1>6. \A e : Cardinality(Carriers(e) \ {<<t, 1>>}) = Cardinality(Carriers(e)')
  <2> TAKE e
  <2> DEFINE From == Carriers(e) \ {<<t, 1>>}
             f == [p \in From |-> IF p[1] = t THEN <<t, p[2] - 1>> ELSE p]
  <2>1. \A s \in Slots, i \in 1 .. MaxCarried :
           <<s, i>> \in Carriers(e)' <=>
               IF s = t THEN <<t, i + 1>> \in From ELSE <<s, i>> \in From
    <3> SUFFICES ASSUME NEW s \in Slots, NEW i \in 1 .. MaxCarried
                 PROVE  <<s, i>> \in Carriers(e)' <=>
                          IF s = t THEN <<t, i + 1>> \in From ELSE <<s, i>> \in From
      OBVIOUS
    <3>1. CASE s # t
      BY <1>3, <3>1, CarriersArePlaces
    <3>2. CASE s = t
      <4>1. i \in Nat \ {0} /\ i + 1 # 1
        OBVIOUS
      <4>2. i <= Len(new) /\ new[i] = e <=> i + 1 <= Len(old) /\ old[i + 1] = e
        BY <1>1, <1>c, <4>1, TailPlaces
      <4>3. <<t, i + 1>> \in Carriers(e) <=> i + 1 <= Len(old) /\ old[i + 1] = e
        <5>1. CASE i + 1 \in 1 .. MaxCarried
          BY <1>1, <1>3, <5>1, CarriersArePlaces
        <5>2. CASE i + 1 \notin 1 .. MaxCarried
          <6>1. ~(i + 1 <= Len(old))
            BY <1>1, <5>2
          <6>2. <<t, i + 1>> \notin Carriers(e)
            BY <5>2, CarriersArePlaces
          <6> QED BY <6>1, <6>2
        <5> QED BY <5>1, <5>2
      <4>4. <<t, i + 1>> # <<t, 1>>
        BY <4>1
      <4> QED BY <1>1, <1>3, <3>2, <4>2, <4>3, <4>4, CarriersArePlaces
    <3> QED BY <3>1, <3>2
  <2>2. ASSUME NEW p \in From
        PROVE  \E s \in Slots, i \in 1 .. MaxCarried :
                 /\ p = <<s, i>>
                 /\ s = t => i > 1
    <3>1. p \in Slots \X (1 .. MaxCarried) /\ p # <<t, 1>>
      BY CarriersArePlaces
    <3>2. PICK s \in Slots, i \in 1 .. MaxCarried : p = <<s, i>>
      BY <3>1
    <3>3. s = t => i > 1
      BY <3>1, <3>2
    <3> QED BY <3>2, <3>3
  <2>3. f \in [From -> Carriers(e)']
    <3> SUFFICES ASSUME NEW p \in From PROVE f[p] \in Carriers(e)'
      OBVIOUS
    <3>1. PICK s \in Slots, i \in 1 .. MaxCarried : p = <<s, i>> /\ (s = t => i > 1)
      BY <2>2
    <3>2. CASE s = t
      <4>1. i - 1 \in 1 .. MaxCarried /\ (i - 1) + 1 = i /\ f[p] = <<t, i - 1>>
        BY <3>1, <3>2
      <4> QED BY <1>1, <2>1, <3>1, <3>2, <4>1
    <3>3. CASE s # t
      <4>1. f[p] = <<s, i>>
        BY <3>1, <3>3
      <4> QED BY <2>1, <3>1, <3>3, <4>1
    <3> QED BY <3>2, <3>3
  <2>4. \A a, b \in From : f[a] = f[b] => a = b
    <3> SUFFICES ASSUME NEW a \in From, NEW b \in From, f[a] = f[b] PROVE a = b
      OBVIOUS
    <3>1. PICK s \in Slots, i \in 1 .. MaxCarried : a = <<s, i>> /\ (s = t => i > 1)
      BY <2>2
    <3>2. PICK u \in Slots, j \in 1 .. MaxCarried : b = <<u, j>> /\ (u = t => j > 1)
      BY <2>2
    <3>3. f[a] = IF s = t THEN <<t, i - 1>> ELSE <<s, i>>
      BY <3>1
    <3>4. f[b] = IF u = t THEN <<t, j - 1>> ELSE <<u, j>>
      BY <3>2
    <3>5. s = u /\ i = j
      BY <3>3, <3>4
    <3> QED BY <3>1, <3>2, <3>5
  <2>5. \A y \in Carriers(e)' : \E x \in From : f[x] = y
    <3> SUFFICES ASSUME NEW y \in Carriers(e)' PROVE \E x \in From : f[x] = y
      OBVIOUS
    <3>1. y \in Slots \X (1 .. MaxCarried)
      BY CarriersArePlaces
    <3>2. PICK s \in Slots, i \in 1 .. MaxCarried : y = <<s, i>>
      BY <3>1
    <3>3. CASE s = t
      <4>1. <<t, i + 1>> \in From
        BY <2>1, <3>2, <3>3
      <4>2. f[<<t, i + 1>>] = <<t, i>>
        BY <4>1
      <4> QED BY <3>2, <3>3, <4>1, <4>2
    <3>4. CASE s # t
      <4>1. <<s, i>> \in From
        BY <2>1, <3>2, <3>4
      <4>2. f[<<s, i>>] = <<s, i>>
        BY <3>4, <4>1
      <4> QED BY <3>2, <4>1, <4>2
    <3> QED BY <3>3, <3>4
  <2>6. IsFiniteSet(From)
    BY CarriersFinite, FS_Subset
  <2> HIDE DEF From, f
  <2>7. Cardinality(Carriers(e)') = Cardinality(From)
    BY <2>3, <2>4, <2>5, <2>6, SameSize
  <2> QED BY <2>7 DEF From
<1>7. /\ rc' = [rc EXCEPT ![d] = @ - 1] /\ rc[d] \in Nat \ {0}
      /\ rc' \in Seq(Nat) /\ Len(rc') = Len(rc) /\ DOMAIN rc' = DOMAIN rc
      /\ \A e \in DOMAIN rc : rc'[e] = IF e = d THEN rc[d] - 1 ELSE rc[e]
  <2>1. rc' = [rc EXCEPT ![d] = @ - 1]
    BY <1>c DEF ReleaseNext
  <2>2. rc[d] > 0
    BY <1>1, <1>2, <1>3, CarriedIsCounted
  <2>3. rc[d] \in Nat \ {0}
    BY <1>0, <1>2, <2>2
  <2> QED BY <1>0, <1>2, <2>1, <2>3
<1>8. /\ ran' \in Seq(Nat) /\ Len(ran') = Len(rc)
      /\ \A e \in DOMAIN rc : ran'[e] = IF e = d /\ rc[d] = 1 THEN ran[e] + 1 ELSE ran[e]
  <2>1. ran' = IF rc[d] = 1 THEN [ran EXCEPT ![d] = @ + 1] ELSE ran
    BY <1>c DEF ReleaseNext
  <2> QED BY <1>0, <1>2, <2>1
<1>9. DestructorsTypeOK'
  <2>1. 1 .. Len(rc) \subseteq DestructorIds
    BY <1>0 DEF DestructorIds, DestructorsTypeOK
  <2>2. new \in Seq(DestructorIds)
    BY <1>2, <2>1, SeqMonotonic
  <2>3. destructorSet' \in [Slots -> Seq(DestructorIds) \cup {NoSet}]
    BY <1>3, <2>2 DEF DestructorsTypeOK
  <2> QED BY <1>7, <1>8, <2>3 DEF DestructorsTypeOK
<1>10. SetWhilePopulated'
  BY <1>1, <1>3, <1>4 DEF SetWhilePopulated, ReleaseNext, vars
<1>11. SetsKnown'
  <2> SUFFICES ASSUME NEW s \in Slots, destructorSet'[s] # NoSet
               PROVE  /\ destructorSet'[s] \in Seq(1 .. Len(rc))
                      /\ Len(destructorSet'[s]) <= MaxCarried
    BY <1>7 DEF SetsKnown
  <2>1. CASE s = t
    BY <1>1, <1>2, <1>3, <2>1
  <2>2. CASE s # t
    BY <1>3, <2>2 DEF SetsKnown
  <2> QED BY <2>1, <2>2
<1>12. RcCountsCarriers'
  <2> SUFFICES ASSUME NEW e \in DOMAIN rc
               PROVE  rc'[e] = Cardinality(Carriers(e)')
    BY <1>7 DEF RcCountsCarriers
  <2>1. rc[e] = Cardinality(Carriers(e))
    BY DEF RcCountsCarriers
  <2>2. CASE e = d
    <3>1. Cardinality(Carriers(d) \ {<<t, 1>>}) = Cardinality(Carriers(d)) - 1
      BY <1>5, CarriersFinite, FS_RemoveElement
    <3> QED BY <1>6, <1>7, <2>1, <2>2, <3>1
  <2>3. CASE e # d
    <3>1. Carriers(e) \ {<<t, 1>>} = Carriers(e)
      BY <1>5, <2>3
    <3> QED BY <1>6, <1>7, <2>1, <2>3, <3>1
  <2> QED BY <2>2, <2>3
<1>13. RanWhenUncounted'
  <2> SUFFICES ASSUME NEW e \in DOMAIN rc
               PROVE  ran'[e] = IF rc'[e] = 0 THEN 1 ELSE 0
    BY <1>7 DEF RanWhenUncounted
  <2>1. ran[e] = IF rc[e] = 0 THEN 1 ELSE 0
    BY DEF RanWhenUncounted
  <2> QED BY <1>7, <1>8, <2>1
<1> QED BY <1>9, <1>10, <1>11, <1>12, <1>13

-----------------------------------------------------------------------------
(* The theorems.                                                           *)

\* Every step keeps the inductive invariant.
LEMMA DestructorsNextInd ==
    ASSUME DestructorsInd, MaxLives <= GenMax, [DestructorsNext]_dvars
    PROVE  DestructorsInd'
<1>1. IndInv'
  BY StepsAreSlotPoolSteps, NextInd DEF DestructorsInd
<1>2. CASE UNCHANGED dvars
  BY <1>1, <1>2, SetsUnchangedInd DEF dvars, vars
<1>3. CASE RunUnused
  BY <1>1, <1>3, RunUnusedInd
<1>4. CASE \E to, from \in Handles : Inherit(to, from)
  BY <1>1, <1>4, InheritInd
<1>5. CASE \E h \in Handles : \/ OtherStep(h) \/ PopulateSet(h) \/ AddDestructor(h)
                              \/ ReleaseNext(h) \/ DestroyWithSet(h)
  BY <1>1, <1>5, OtherStepInd, PopulateSetInd, AddDestructorInd, ReleaseNextInd,
     DestroyWithSetInd
<1> QED BY <1>2, <1>3, <1>4, <1>5 DEF DestructorsNext

\* The inductive invariant holds in every behaviour.
LEMMA DestructorsInvariant ==
    ASSUME MaxLives <= GenMax PROVE DestructorsSpec => []DestructorsInd
<1>1. DestructorsInit => DestructorsInd
  BY DestructorsInitInd
<1>2. DestructorsInd /\ [DestructorsNext]_dvars => DestructorsInd'
  BY DestructorsNextInd
<1> QED BY <1>1, <1>2, PTL DEF DestructorsSpec

\* The sets hold destructors and the counts are natural numbers: no
\* destructorRelease takes a count below zero.
THEOREM DestructorsTypeCorrect ==
    ASSUME MaxLives <= GenMax PROVE DestructorsSpec => []DestructorsTypeOK
<1>1. DestructorsInd => DestructorsTypeOK
  BY DEF DestructorsInd
<1> QED BY <1>1, DestructorsInvariant, PTL

\* A destructor runs once, when its last carrier is destroyed, for any number
\* of slots, of threads and of destructors and however they are inherited.
THEOREM DestructorsRunOnce ==
    ASSUME MaxLives <= GenMax PROVE DestructorsSpec => []RunsOnceAtTheEnd
<1>1. DestructorsInd => RunsOnceAtTheEnd
  <2> SUFFICES ASSUME DestructorsInd, NEW d \in DOMAIN rc
               PROVE  ran[d] = IF Carriers(d) = {} THEN 1 ELSE 0
    BY DEF RunsOnceAtTheEnd
  <2>1. rc[d] = 0 <=> Carriers(d) = {}
    BY CarriersFinite, FS_EmptySet DEF DestructorsInd, RcCountsCarriers
  <2> QED BY <2>1 DEF DestructorsInd, RanWhenUncounted
<1> QED BY <1>1, DestructorsInvariant, PTL

\* The assert in destructorSetAddImpl cannot fail: whoever holds a statement
\* or match, or destroys it, finds its set allocated.
THEOREM HeldSlotsHaveSets ==
    ASSUME MaxLives <= GenMax PROVE DestructorsSpec => []HeldHasSet
<1>1. DestructorsInd => HeldHasSet
  BY PointedHasSet DEF HeldHasSet
<1> QED BY <1>1, DestructorsInvariant, PTL
=============================================================================
