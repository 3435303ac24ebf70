--------------------------- MODULE MCDropDownload ---------------------------
(***************************************************************************)
(* Instances of DropDownload for TLC.  The races need no clock and the     *)
(* lifetimes no more than two requests, so each instance has what its      *)
(* question needs.                                                         *)
(***************************************************************************)
EXTENDS DropDownload, TLC

CONSTANTS c1, c2, bob, s1

Symmetry == Permutations(Clients) \cup Permutations(Recipients) \cup Permutations(Sessions)

=============================================================================
