----------------------------- MODULE FileLedger -----------------------------
(***************************************************************************)
(* What the storage layer of Drop promises, without locks, transactions or *)
(* object storage: a ledger of file ids.  An id is fresh until its bytes   *)
(* are reserved against the account (or organization) charged for it, then *)
(* reserved, then perhaps stored, and finally released.  A released id is  *)
(* never charged again, and its bytes are given back exactly once.         *)
(* DropStorage is shown to implement this module.                          *)
(***************************************************************************)
EXTENDS Integers

CONSTANTS
    Files,      \* file ids; an id is also the R2 storage key (storage.ts:427)
    Owners,     \* accounts and organizations with a storageUsed counter
    Charged,    \* Charged[f]: who pays for f (not in Owners: a guest file)
    Bytes,      \* Bytes[S]: declared bytes of a set S of files
    Limit       \* Limit[o]: encrypted storage limit of o

VARIABLES status, used

ledger == <<status, used>>

Live(o) == {f \in Files : Charged[f] = o /\ status[f] \in {"reserved", "stored"}}

LedgerTypeOK ==
    /\ status \in [Files -> {"fresh", "reserved", "stored", "released"}]
    /\ used \in [Owners -> Nat]

Init ==
    /\ status = [f \in Files |-> "fresh"]
    /\ used = [o \in Owners |-> 0]

\* The bytes of f are charged, if its owner has a counter and stays within it.
Reserve(f) ==
    /\ status[f] = "fresh"
    /\ \A o \in Owners : Charged[f] = o => used[o] + Bytes[{f}] <= Limit[o]
    /\ status' = [status EXCEPT ![f] = "reserved"]
    /\ used' = [o \in Owners |->
                  IF Charged[f] = o THEN used[o] + Bytes[{f}] ELSE used[o]]

\* The finalizer accepted the upload.
Store(f) ==
    /\ status[f] = "reserved"
    /\ status' = [status EXCEPT ![f] = "stored"]
    /\ UNCHANGED used

\* The rows of S are claimed by one deleter, which gives their bytes back.
Release(S) ==
    /\ S # {}
    /\ \A f \in S : status[f] \in {"reserved", "stored"}
    /\ status' = [f \in Files |-> IF f \in S THEN "released" ELSE status[f]]
    /\ used' = [o \in Owners |-> used[o] - Bytes[{f \in S : Charged[f] = o}]]

\* An id whose reservation was refused is thrown away.
Discard(f) ==
    /\ status[f] = "fresh"
    /\ status' = [status EXCEPT ![f] = "released"]
    /\ UNCHANGED used

Next ==
    \/ \E f \in Files : Reserve(f) \/ Store(f) \/ Discard(f)
    \/ \E S \in SUBSET Files : Release(S)

Spec == Init /\ [][Next]_ledger

=============================================================================
