------------------------------ MODULE Allowance ------------------------------
(***************************************************************************)
(* What the download path of Drop promises: an allowance that is spent     *)
(* before anything is handed out.  Every holder (a named recipient, or the *)
(* bare link) spends from the allowance of the drop and from its own at    *)
(* once, and is handed at most one answer with working URLs per unit it    *)
(* has spent.  DropDownload is shown to implement this module.             *)
(***************************************************************************)
EXTENDS Integers

CONSTANTS
    Holders,    \* who may spend
    None,       \* no limit
    Ceiling,        \* allowance of the drop (or None)
    CeilingOf       \* CeilingOf[h]: allowance of the holder (or None)

VARIABLES
    total,      \* units spent from the drop's allowance
    spent,      \* spent[h]: units spent by h
    given       \* given[h]: answers handed to h against the allowance

allowance == <<total, spent, given>>

Left(n, limit) == limit # None => n < limit

Init ==
    /\ total = 0
    /\ spent = [h \in Holders |-> 0]
    /\ given = [h \in Holders |-> 0]

\* Both allowances, or neither.
Spend(h) ==
    /\ Left(total, Ceiling) /\ Left(spent[h], CeilingOf[h])
    /\ total' = total + 1
    /\ spent' = [spent EXCEPT ![h] = @ + 1]
    /\ UNCHANGED given

HandOut(h) ==
    /\ given[h] < spent[h]
    /\ given' = [given EXCEPT ![h] = @ + 1]
    /\ UNCHANGED <<total, spent>>

Next == \E h \in Holders : Spend(h) \/ HandOut(h)

Spec == Init /\ [][Next]_allowance

=============================================================================
