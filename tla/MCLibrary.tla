----------------------------- MODULE MCLibrary -----------------------------
(***************************************************************************)
(* Library for TLC.  Scanners are told apart by nothing but their names.   *)
(***************************************************************************)
EXTENDS Library, TLC

Symmetry == Permutations(Scanners)
=============================================================================
