--------------------------- MODULE MCCardBilling ---------------------------
(***************************************************************************)
(* Instances of CardBilling for TLC: one subscription, one item too many.  *)
(***************************************************************************)
EXTENDS CardBilling

CONSTANTS sub, i1, i2, r1, r2

=============================================================================
