----------------------------- MODULE MCDownloads -----------------------------
(* Downloads for TLC: downloaders are interchangeable. *)
EXTENDS Downloads, TLC

Symmetry == Permutations(Downloaders)
=============================================================================
