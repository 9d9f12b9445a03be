---------------------------- MODULE MCSlotPool ----------------------------
(* Small instances of SlotPool; the handles are interchangeable.           *)
EXTENDS SlotPool, TLC

HandleSymmetry == Permutations(Handles)
=============================================================================
