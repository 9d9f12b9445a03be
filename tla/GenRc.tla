------------------------------- MODULE GenRc -------------------------------
(***************************************************************************)
(* The word every statement and match slot of the database starts with     *)
(* (struct GenRc in db.c): a count of raw pointers, a generation and an    *)
(* alive bit, packed in 32 bits and replaced by compare-and-swap.          *)
(* Each operator is the new value one successful CAS installs.             *)
(***************************************************************************)
EXTENDS Integers

CONSTANT GenMax    \* largest value of the signed bit field gen (2^14 - 1)

ASSUME GenMaxAssumption == GenMax \in Nat

Gens == (-GenMax - 1) .. GenMax

GenRcs == [rc : Nat, gen : Gens, alive : BOOLEAN]

\* calloc'd pool: every slot starts free, with generation 0.
FreeGenRc == [rc |-> 0, gen |-> 0, alive |-> FALSE]

\* gen++ on a signed bit field that is already at its maximum wraps.
NextGen_Wraps(gen) == -GenMax - 1

NextGen(gen) == IF gen = GenMax THEN -GenMax - 1 ELSE gen + 1

CanAcquire_AnyGeneration(g, gen) == g.gen >= 0

\* What genRcAcquire compares before it counts the caller in.
CanAcquire(g, gen) == g.gen >= 0 /\ g.gen = gen

Acquired_Uncounted(g) == g

Acquired(g) == [g EXCEPT !.rc = @ + 1]

IsLastRelease_TwoLeft(g) == ~g.alive /\ g.rc = 2

\* The caller of genRcRelease that must destroy the object.
IsLastRelease(g) == ~g.alive /\ g.rc = 1

Released_SameGeneration(g) == [g EXCEPT !.rc = @ - 1]

Released(g) ==
    [rc    |-> g.rc - 1,
     gen   |-> IF IsLastRelease(g) THEN NextGen(g.gen) ELSE g.gen,
     alive |-> g.alive]

MarkedDead(g) == [g EXCEPT !.alive = FALSE]

\* A slot statementNew or matchNew may claim, and the claim.
LooksFree(g) == g.rc = 0 /\ ~g.alive

Claimed(g) == [g EXCEPT !.alive = TRUE]
=============================================================================
