------------------------------ MODULE MCEpoch ------------------------------
(* Two threads, the collector and three nodes. *)
EXTENDS Epoch, TLC

Symmetry == Permutations(Threads) \cup Permutations(Nodes)
=============================================================================
