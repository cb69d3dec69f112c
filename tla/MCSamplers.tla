----------------------------- MODULE MCSamplers -----------------------------
(* Samplers on small instances. *)
EXTENDS Samplers, TLC

CONSTANTS g1, g2, g3

MCSalts == {0, 5, -3}
Symmetry == Permutations(Goroutines)
=============================================================================
