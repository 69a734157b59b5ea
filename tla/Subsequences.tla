---------------------------- MODULE Subsequences ----------------------------
(***************************************************************************)
(* What is left of a list when only some places are kept: the loops of     *)
(* database.cpp that keep the rows a filter passes, and std::list::remove. *)
(***************************************************************************)
EXTENDS Naturals, Sequences, FiniteSets

\* The rank of place i among the places P.
Rank(P, i) == Cardinality({j \in P : j <= i})

\* What s has at the places P, in the order of s.
Selected(s, P) == [k \in 1..Cardinality(P) |-> s[CHOOSE i \in P : Rank(P, i) = k]]
=============================================================================
