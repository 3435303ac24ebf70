-------------------------- MODULE StagedAttachment --------------------------
(***************************************************************************)
(* What a form promises about a file a visitor uploads: the upload is a    *)
(* capability that is used at most once, by one submission, or abandoned   *)
(* for good; and what was used is discarded only once its owner wanted the *)
(* submission gone.  FormIntake is shown to implement this module.         *)
(***************************************************************************)
CONSTANTS
    Attachments,
    Submissions,
    None

VARIABLES
    phase,      \* phase[a]: where the attachment is in its life
    user,       \* user[a]: the submission that used it
    unwanted    \* submissions whose owner wants them gone

attachment == <<phase, user, unwanted>>

Init ==
    /\ phase = [a \in Attachments |-> "absent"]
    /\ user = [a \in Attachments |-> None]
    /\ unwanted = {}

Stage(a) ==
    /\ phase[a] = "absent"
    /\ phase' = [phase EXCEPT ![a] = "open"]
    /\ UNCHANGED <<user, unwanted>>

Use(a, s) ==
    /\ phase[a] = "open"
    /\ \A b \in Attachments : user[b] # s
    /\ phase' = [phase EXCEPT ![a] = "used"]
    /\ user' = [user EXCEPT ![a] = s]
    /\ unwanted' \in {unwanted, unwanted \cup {s}}

\* The same event may take several: those of a form that is deleted.
Abandon ==
    \E A \in SUBSET Attachments :
        /\ \A a \in A : phase[a] \in {"absent", "open"}
        /\ phase' = [a \in Attachments |-> IF a \in A THEN "abandoned" ELSE phase[a]]
        /\ UNCHANGED <<user, unwanted>>

Discard(a) ==
    /\ phase[a] = "used" /\ user[a] \in unwanted
    /\ phase' = [phase EXCEPT ![a] = "discarded"]
    /\ UNCHANGED <<user, unwanted>>

Unwant ==
    \E S \in SUBSET Submissions :
        /\ unwanted' = unwanted \cup S
        /\ UNCHANGED <<phase, user>>

Next ==
    \/ Abandon \/ Unwant
    \/ \E a \in Attachments : Stage(a) \/ Discard(a) \/ \E s \in Submissions : Use(a, s)

Spec == Init /\ [][Next]_attachment

=============================================================================
