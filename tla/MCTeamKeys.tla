----------------------------- MODULE MCTeamKeys -----------------------------
(***************************************************************************)
(* Instances of TeamKeys for TLC: two managers are enough for every race   *)
(* of two browsers, and each of them may be removed by the other.          *)
(***************************************************************************)
EXTENDS TeamKeys, TLC

CONSTANTS a, b, drop, form, label

KindOf == [i \in Items |-> CASE i = drop -> "drop" [] i = form -> "form" [] OTHER -> "label"]

Symmetry == Permutations(People)

=============================================================================
