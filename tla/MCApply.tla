------------------------------- MODULE MCApply -------------------------------
(* Apply for TLC: appliers are interchangeable. *)
EXTENDS Apply, TLC

Symmetry == Permutations(Appliers)
=============================================================================
