------------------------------ MODULE MCGallery ------------------------------
(* Gallery for TLC: the entries of the server are interchangeable. *)
EXTENDS Gallery

Symmetry == Permutations(Entries)
=============================================================================
