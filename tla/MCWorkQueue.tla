---------------------------- MODULE MCWorkQueue ----------------------------
(* Two thieves, and enough items for the array to be replaced twice. *)
EXTENDS WorkQueue, TLC

Symmetry == Permutations(Thieves)
=============================================================================
