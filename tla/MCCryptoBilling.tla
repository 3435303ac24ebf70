-------------------------- MODULE MCCryptoBilling --------------------------
(***************************************************************************)
(* Instances of CryptoBilling for TLC: a user whose plan runs, or lapses,  *)
(* and who renews it.                                                      *)
(***************************************************************************)
EXTENDS CryptoBilling

CONSTANTS a, b, r1, r2

\* The plan that runs is only superseded or lapses.
RenewalIsSent == [o \in Orders |-> IF o = a THEN {} ELSE {"confirmed", "finished", "refunded"}]

=============================================================================
