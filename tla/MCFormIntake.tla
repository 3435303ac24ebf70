---------------------------- MODULE MCFormIntake ----------------------------
(***************************************************************************)
(* Instances of FormIntake for TLC.                                        *)
(***************************************************************************)
EXTENDS FormIntake, TLC

CONSTANTS f1, f2, f3, d1, d2, s1, s2, s3, c1, c2

Symmetry == Permutations(Submitters) \cup Permutations(Drops) \cup Permutations(Creators)

=============================================================================
