--------------------------- MODULE MCDropStorage ---------------------------
(***************************************************************************)
(* Instances of DropStorage for TLC: one drop of one account.              *)
(***************************************************************************)
EXTENDS DropStorage, FiniteSetsExt, TLC

CONSTANTS f1, f2, f3, d1, g, alice, r1, r2

SumOf(Size(_)) == [S \in SUBSET Files |-> MapThenSumSet(Size, S)]

\* Races: three files of one byte, room for two of them, whether one looks at
\* the account's storage or at the number of files.
RaceDropOf == [f \in Files |-> d1]
AliceOwns  == [d \in Drops |-> alice]
Unit(f)    == 1
UnitBytes  == SumOf(Unit)
LimitTwo   == [o \in Owners |-> 2]
NoCap      == [d \in Drops |-> 3]
TwoFiles   == [d \in Drops |-> 2]

Symmetry == Permutations(Requests) \cup Permutations(Files)

=============================================================================
