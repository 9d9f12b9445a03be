--------------------------- MODULE MCDestructors ---------------------------
(* Small instances of SlotPool and Destructors; handles are interchangeable. *)
EXTENDS Destructors, TLC

HandleSymmetry == Permutations(Handles)
=============================================================================
