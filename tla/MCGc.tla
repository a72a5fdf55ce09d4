-------------------------------- MODULE MCGc --------------------------------
(* The heap on a small instance: addresses are interchangeable.            *)
EXTENDS Gc, TLC

Symmetry == Permutations(Addr) \cup Permutations(Slots)
=============================================================================
