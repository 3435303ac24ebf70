----------------------------- MODULE FormIntake -----------------------------
(***************************************************************************)
(* What the visitors of one owner's forms hand in, and what becomes of it: *)
(* upload tokens and their staging drops, submissions, revocation, the     *)
(* reaping of what was abandoned, edits of the form, and the deletions of  *)
(* submissions and forms.  Sources: lib/services/form.ts, form-upload.ts,  *)
(* drop-upload-token.ts, form-attachment-drop.ts, form-cleanup.ts,         *)
(* drop-cleanup.ts (staging), admin.ts (forms), the upload-token route.    *)
(*                                                                         *)
(* A statement or a transaction is one action, except the transaction of   *)
(* recordSubmission: it holds the owner's advisory lock and the form row   *)
(* while it reads, so that its steps are separate and other writers of     *)
(* these rows wait.  The bytes of a drop are DropStorage's subject.        *)
(***************************************************************************)
EXTENDS Integers, FiniteSets

CONSTANTS
    Forms,          \* forms the owner has or may create
    Existing,       \* those that exist at the start
    Drops,          \* attachments: one request for an upload token makes each
    Submitters,     \* submission requests, and the submissions they may record
    Creators,       \* createForm requests
    None,           \* null
    FormLimit,      \* limits.forms, or None
    MonthlyLimit,   \* limits.submissionsPerMonth, or None
    StagingLimit,   \* MAX_LIVE_FORM_STAGING_DROPS
    Caps,           \* values of "maxSubmissions" that edits set (None: no cap)
    OwnerActs,      \* which of the owner's and administrators' acts happen
    LastMonth       \* bound: the last month

OrNone(S) == S \cup {None}
Acts      == {"edit", "takedown", "submission", "form", "hard"}

ASSUME ConstantsAssumption ==
    /\ Existing \subseteq Forms
    /\ None \notin Forms \cup Drops \cup Submitters \cup Creators \cup Nat
    /\ Submitters \cap Creators = {}
    /\ IsFiniteSet(Forms) /\ IsFiniteSet(Drops)
    /\ FormLimit \in OrNone(Nat) /\ MonthlyLimit \in OrNone(Nat \ {0})
    /\ StagingLimit \in Nat
    /\ Caps \subseteq OrNone(Nat \ {0}) /\ Caps # {}
    /\ OwnerActs \subseteq Acts
    /\ LastMonth \in Nat
    /\ Cardinality(Existing) <= Cardinality(Forms)
    /\ FormLimit # None => Cardinality(Existing) <= FormLimit

VARIABLES
    form,           \* forms rows
    drop,           \* drops rows of attachments
    token,          \* upload_tokens rows, by their drop
    upload,         \* requests for upload tokens
    held,           \* drops whose token reached a visitor
    revocation,     \* requests that revoke an upload token
    attempt,        \* requests that submit
    submission,     \* form_submissions rows
    creation,       \* createForm requests
    formLock,       \* who holds the form row
    ownerLock,      \* who holds the owner's advisory lock
    deletion,       \* the deletion of a form or a submission that runs
    month,
    usage,          \* form_usage_events of each month
    taken,          \* history: the submission that took the drop
    condemned       \* history: submissions whose deletion, or their form's, was asked for

staging == <<drop, token, upload, held, revocation>>
intake  == <<attempt, submission, formLock, ownerLock, usage, taken>>
vars    == <<form, staging, intake, creation, deletion, month, condemned>>

FormRow ==
    [state : {"new", "live", "gone"}, active : BOOLEAN, takenDown : BOOLEAN, files : BOOLEAN,
     key : {0, 1}, cap : OrNone(Nat), count : Nat]
DropRow       == [state : {"none", "live", "claimed", "gone"}, form : OrNone(Forms),
                  complete : BOOLEAN, old : BOOLEAN]
TokenRow      == [state : {"none", "live", "gone"}, form : OrNone(Forms), lapsed : BOOLEAN]
SubmissionRow == [state : {"none", "live", "gone"}, form : OrNone(Forms), drop : OrNone(Drops)]
Upload   == [stage : {"idle", "checked", "created", "issued", "bound", "failing", "done"},
             form : OrNone(Forms)]
Attempt  == [stage : {"idle", "begun", "owner", "form", "done"}, form : OrNone(Forms),
             drop : OrNone(Drops), key : {0, 1}]
Deletion == [stage : {"idle", "listed", "staging", "attached"}, act : Acts, form : OrNone(Forms),
             subs : SUBSET Submitters, attached : SUBSET Drops, drops : SUBSET Drops]

TypeOK ==
    /\ form \in [Forms -> FormRow]
    /\ drop \in [Drops -> DropRow]
    /\ token \in [Drops -> TokenRow]
    /\ upload \in [Drops -> Upload]
    /\ held \subseteq Drops
    /\ revocation \in [Drops -> {"idle", "revoked", "deleting", "done"}]
    /\ attempt \in [Submitters -> Attempt]
    /\ submission \in [Submitters -> SubmissionRow]
    /\ creation \in [Creators -> {"idle", "counted", "done"}]
    /\ formLock \in [Forms -> OrNone(Submitters)]
    /\ ownerLock \in OrNone(Submitters \cup Creators)
    /\ deletion \in Deletion
    /\ month \in 0..LastMonth
    /\ usage \in [0..LastMonth -> Nat]
    /\ taken \in [Drops -> OrNone(Submitters)]
    /\ condemned \subseteq Submitters
    \* Whoever holds a form row is in its transaction and holds the owner's lock.
    /\ \A f \in Forms, s \in Submitters :
          formLock[f] = s => /\ attempt[s].stage = "form" /\ attempt[s].form = f
                             /\ ownerLock = s

NoDeletion == [stage |-> "idle", act |-> "form", form |-> None, subs |-> {}, attached |-> {},
               drops |-> {}]

Init ==
    /\ \E cap \in Caps :
          form = [f \in Forms |-> [state |-> IF f \in Existing THEN "live" ELSE "new",
                                   active |-> TRUE, takenDown |-> FALSE, files |-> TRUE,
                                   key |-> 0, cap |-> cap, count |-> 0]]
    /\ drop = [d \in Drops |-> [state |-> "none", form |-> None, complete |-> FALSE, old |-> FALSE]]
    /\ token = [d \in Drops |-> [state |-> "none", form |-> None, lapsed |-> FALSE]]
    /\ upload = [d \in Drops |-> [stage |-> "idle", form |-> None]]
    /\ held = {}
    /\ revocation = [d \in Drops |-> "idle"]
    /\ attempt = [s \in Submitters |-> [stage |-> "idle", form |-> None, drop |-> None, key |-> 0]]
    /\ submission = [s \in Submitters |-> [state |-> "none", form |-> None, drop |-> None]]
    /\ creation = [c \in Creators |-> "idle"]
    /\ formLock = [f \in Forms |-> None]
    /\ ownerLock = None
    /\ deletion = NoDeletion
    /\ month = 0
    /\ usage = [m \in 0..LastMonth |-> 0]
    /\ taken = [d \in Drops |-> None]
    /\ condemned = {}

-----------------------------------------------------------------------------
Under(n, limit) == limit # None => n < limit

\* assertFormOpen
IsOpen(f) == /\ form[f].state = "live" /\ form[f].active /\ ~form[f].takenDown
             /\ Under(form[f].count, form[f].cap)

Attached(d)  == {s \in Submitters : submission[s].state = "live" /\ submission[s].drop = d}
Usable(d)    == token[d].state = "live" /\ token[d].form # None /\ ~token[d].lapsed
LiveTokens(f) == {d \in Drops : Usable(d) /\ token[d].form = f}

\* What DropService.deleteDrop, or markAttachmentDropForReaping in its place,
\* does to the drops in D.
ClaimAll(D) == [d \in Drops |-> IF d \in D /\ drop[d].state = "live"
                                THEN [drop[d] EXCEPT !.state = "claimed"] ELSE drop[d]]

-----------------------------------------------------------------------------
(* POST /form/[id]/upload-token.                                           *)

UploadGoes(d, stage) == upload' = [upload EXCEPT ![d].stage = stage]

\* The unlocked checks, the staging limit among them.
CheckForm(d, f) ==
    /\ upload[d].stage = "idle"
    /\ IsOpen(f) /\ form[f].files
    /\ Cardinality(LiveTokens(f)) < StagingLimit
    /\ upload' = [upload EXCEPT ![d] = [stage |-> "checked", form |-> f]]
    /\ UNCHANGED <<form, drop, token, held, revocation, intake, creation, deletion, month, condemned>>

CreateDrop(d) ==
    /\ upload[d].stage = "checked"
    /\ drop' = [drop EXCEPT ![d].state = "live"]
    /\ UploadGoes(d, "created")
    /\ UNCHANGED <<form, token, held, revocation, intake, creation, deletion, month, condemned>>

IssueToken(d) ==
    /\ upload[d].stage = "created" /\ drop[d].state \in {"live", "claimed"}
    /\ token' = [token EXCEPT ![d].state = "live"]
    /\ UploadGoes(d, "issued")
    /\ UNCHANGED <<form, drop, held, revocation, intake, creation, deletion, month, condemned>>

\* One transaction; the foreign key of the token needs the form row.
BindToken(d) ==
    LET f == upload[d].form IN
    /\ upload[d].stage = "issued"
    /\ drop[d].state = "live" /\ token[d].state = "live"
    /\ form[f].state = "live" /\ formLock[f] = None
    /\ drop' = [drop EXCEPT ![d].form = f]
    /\ token' = [token EXCEPT ![d].form = f]
    /\ UploadGoes(d, "bound")
    /\ UNCHANGED <<form, held, revocation, intake, creation, deletion, month, condemned>>

\* A statement fails, or its reply is lost.
UploadFails(d) ==
    /\ upload[d].stage \in {"created", "issued", "bound"}
    /\ UploadGoes(d, "failing")
    /\ UNCHANGED <<form, drop, token, held, revocation, intake, creation, deletion, month, condemned>>

CompensateUpload(d) ==
    /\ upload[d].stage = "failing"
    /\ drop' = ClaimAll({d})
    /\ UploadGoes(d, "done")
    /\ UNCHANGED <<form, token, held, revocation, intake, creation, deletion, month, condemned>>

AnswerUpload(d) ==
    /\ upload[d].stage = "bound"
    /\ held' = held \cup {d}
    /\ UploadGoes(d, "done")
    /\ UNCHANGED <<form, drop, token, revocation, intake, creation, deletion, month, condemned>>

\* Killed, refused, or the compensation failed too.
UploadDies(d) ==
    /\ upload[d].stage \notin {"idle", "done"}
    /\ UploadGoes(d, "done")
    /\ UNCHANGED <<form, drop, token, held, revocation, intake, creation, deletion, month, condemned>>

\* The visitor uploads the files and finishes the drop (resolveTokenUploadAccess).
FinishUpload(d) ==
    LET f == token[d].form IN
    /\ d \in held /\ Usable(d)
    /\ form[f].state = "live" /\ form[f].active /\ ~form[f].takenDown /\ form[f].files
    /\ drop[d].state = "live" /\ drop[d].form = f /\ ~drop[d].complete
    /\ drop' = [drop EXCEPT ![d].complete = TRUE]
    /\ UNCHANGED <<form, token, upload, held, revocation, intake, creation, deletion, month, condemned>>

-----------------------------------------------------------------------------
(* DELETE /form/[id]/upload-token (revokeFormStagingUpload).               *)

RevokeToken(d) ==
    /\ d \in held /\ revocation[d] = "idle"
    /\ token[d].state = "live"
    /\ token' = [token EXCEPT ![d].state = "gone"]
    /\ revocation' = [revocation EXCEPT ![d] = "revoked"]
    /\ UNCHANGED <<form, drop, upload, held, intake, creation, deletion, month, condemned>>

ReadRevoked(d) ==
    /\ revocation[d] = "revoked"
    /\ revocation' = [revocation EXCEPT ![d] =
          IF drop[d].state = "live" /\ Attached(d) = {} /\ drop[d].form = token[d].form
          THEN "deleting" ELSE "done"]
    /\ UNCHANGED <<form, drop, token, upload, held, intake, creation, deletion, month, condemned>>

DeleteRevoked(d) ==
    /\ revocation[d] = "deleting"
    /\ drop' = ClaimAll({d})
    /\ revocation' = [revocation EXCEPT ![d] = "done"]
    /\ UNCHANGED <<form, token, upload, held, intake, creation, deletion, month, condemned>>

RevocationDies(d) ==
    /\ revocation[d] \in {"revoked", "deleting"}
    /\ revocation' = [revocation EXCEPT ![d] = "done"]
    /\ UNCHANGED <<form, drop, token, upload, held, intake, creation, deletion, month, condemned>>

-----------------------------------------------------------------------------
(* POST /form/[id]/submit (recordSubmission).                              *)

\* Mutated: the form's row is read without FOR UPDATE.
M_HoldForm(s, f) == formLock' = formLock

HoldForm(s, f) == formLock' = [formLock EXCEPT ![f] = s]

\* Mutated: the owner's lock is left out.
M_HoldOwner(r) == UNCHANGED ownerLock

HoldOwner(r) == ownerLock = None /\ ownerLock' = r

Release(s) ==
    /\ formLock' = [f \in Forms |-> IF formLock[f] = s THEN None ELSE formLock[f]]
    /\ ownerLock' = IF ownerLock = s THEN None ELSE ownerLock

\* The visitor proves the password there is at that moment.
BeginSubmission(s, f, d) ==
    /\ attempt[s].stage = "idle"
    /\ IsOpen(f)
    /\ d # None => d \in held /\ form[f].files
    /\ attempt' = [attempt EXCEPT ![s] = [stage |-> "begun", form |-> f, drop |-> d,
                                          key |-> form[f].key]]
    /\ UNCHANGED <<form, staging, submission, formLock, ownerLock, usage, taken, creation, deletion,
                   month, condemned>>

LockOwner(s) ==
    /\ attempt[s].stage = "begun"
    /\ HoldOwner(s)
    /\ attempt' = [attempt EXCEPT ![s].stage = "owner"]
    /\ UNCHANGED <<form, staging, submission, formLock, usage, taken, creation, deletion, month,
                   condemned>>

\* The form row, the checks repeated on it, and the count of the month.
LockForm(s) ==
    LET f == attempt[s].form IN
    /\ attempt[s].stage = "owner"
    /\ formLock[f] = None
    /\ IsOpen(f)
    /\ form[f].key = attempt[s].key
    /\ attempt[s].drop # None => form[f].files
    /\ Under(usage[month], MonthlyLimit)
    /\ HoldForm(s, f)
    /\ attempt' = [attempt EXCEPT ![s].stage = "form"]
    /\ UNCHANGED <<form, staging, submission, ownerLock, usage, taken, creation, deletion, month,
                   condemned>>

Consume(d) == /\ drop' = [drop EXCEPT ![d].form = None]
              /\ token' = [token EXCEPT ![d].state = "gone"]

\* Mutated: any finished staging drop of the form will do.
M_Attachable(d, f) ==
    drop[d].state = "live" /\ drop[d].form = f /\ drop[d].complete /\ Attached(d) = {}

Attachable(d, f) ==
    /\ Usable(d) /\ token[d].form = f
    /\ drop[d].state = "live" /\ drop[d].form = f /\ drop[d].complete
    /\ Attached(d) = {}

\* The token, the drop, the counter, the submission, the ledger; then commit.
Accept(s) ==
    LET a == attempt[s]
        f == attempt[s].form
    IN
    /\ a.stage = "form" /\ IsOpen(f)
    /\ IF a.drop = None THEN UNCHANGED <<drop, token, taken>>
       ELSE /\ Attachable(a.drop, f)
            /\ Consume(a.drop)
            /\ taken' = [taken EXCEPT ![a.drop] = s]
    /\ form' = [form EXCEPT ![f].count = @ + 1]
    /\ submission' = [submission EXCEPT ![s] = [state |-> "live", form |-> f, drop |-> a.drop]]
    /\ usage' = [usage EXCEPT ![month] = @ + 1]
    /\ attempt' = [attempt EXCEPT ![s].stage = "done"]
    /\ Release(s)
    /\ condemned' = IF deletion.act # "submission" /\ deletion.form = f THEN condemned \cup {s}
                    ELSE condemned
    /\ UNCHANGED <<upload, held, revocation, creation, deletion, month>>

\* A check fails, the database fails, the process dies: the transaction rolls back.
Refuse(s) ==
    /\ attempt[s].stage \in {"begun", "owner", "form"}
    /\ attempt' = [attempt EXCEPT ![s].stage = "done"]
    /\ Release(s)
    /\ UNCHANGED <<form, staging, submission, usage, taken, creation, deletion, month, condemned>>

-----------------------------------------------------------------------------
(* The cron job, and time.                                                 *)

GrowOld(d) ==
    /\ drop[d].state = "live" /\ ~drop[d].old
    /\ drop' = [drop EXCEPT ![d].old = TRUE]
    /\ UNCHANGED <<form, token, upload, held, revocation, intake, creation, deletion, month, condemned>>

\* A form token lives six hours, and is younger than its drop.
TokenLapses(d) ==
    /\ drop[d].old /\ token[d].state = "live" /\ ~token[d].lapsed
    /\ token' = [token EXCEPT ![d].lapsed = TRUE]
    /\ UNCHANGED <<form, drop, upload, held, revocation, intake, creation, deletion, month, condemned>>

MonthPasses ==
    /\ month < LastMonth
    /\ month' = month + 1
    /\ UNCHANGED <<form, staging, intake, creation, deletion, condemned>>

\* Mutated: whatever is old goes.
M_Reapable(d) == drop[d].state = "live" /\ drop[d].old

\* Mutated: only unfinished uploads go.
M_Unfinished(d) == drop[d].state = "live" /\ ~drop[d].complete /\ drop[d].old

\* deleteStaleUploadFilesAndReleaseQuota, under the lock of the drop.
Reapable(d) ==
    /\ drop[d].state = "live"
    /\ \/ ~drop[d].complete /\ drop[d].old
       \/ drop[d].form # None /\ Attached(d) = {} /\ (drop[d].old \/ ~Usable(d))

Reap(d) ==
    /\ Reapable(d)
    /\ drop' = ClaimAll({d})
    /\ UNCHANGED <<form, token, upload, held, revocation, intake, creation, deletion, month, condemned>>

\* Whoever claimed the drop, or the next cleanup: its token goes with it, and a
\* submission loses its attachment (SetNull).
RemoveDrop(d) ==
    /\ drop[d].state = "claimed"
    /\ drop' = [drop EXCEPT ![d].state = "gone"]
    /\ token' = [token EXCEPT ![d].state = IF @ = "live" THEN "gone" ELSE @]
    /\ submission' = [s \in Submitters |-> IF submission[s].drop = d
                                           THEN [submission[s] EXCEPT !.drop = None]
                                           ELSE submission[s]]
    /\ UNCHANGED <<form, upload, held, revocation, attempt, formLock, ownerLock, usage, taken,
                   creation, deletion, month, condemned>>

-----------------------------------------------------------------------------
(* The owner and the administrators.                                       *)

\* createForm: the count of the owner's forms and the new row, in one transaction
\* under the owner's lock.
CountForms(c) ==
    /\ creation[c] = "idle"
    /\ Under(Cardinality({f \in Forms : form[f].state = "live"}), FormLimit)
    /\ HoldOwner(c)
    /\ creation' = [creation EXCEPT ![c] = "counted"]
    /\ UNCHANGED <<form, staging, attempt, submission, formLock, usage, taken, deletion, month,
                   condemned>>

InsertForm(c, f) ==
    /\ creation[c] = "counted"
    /\ form[f].state = "new"
    /\ form' = [form EXCEPT ![f].state = "live"]
    /\ creation' = [creation EXCEPT ![c] = "done"]
    /\ ownerLock' = None
    /\ UNCHANGED <<staging, attempt, submission, formLock, usage, taken, deletion, month, condemned>>

CreationFails(c) ==
    /\ creation[c] = "counted"
    /\ creation' = [creation EXCEPT ![c] = "done"]
    /\ ownerLock' = None
    /\ UNCHANGED <<form, staging, attempt, submission, formLock, usage, taken, deletion, month,
                   condemned>>

Write(f, row) ==
    /\ form[f].state = "live" /\ formLock[f] = None
    /\ form' = [form EXCEPT ![f] = row]
    /\ UNCHANGED <<staging, intake, creation, deletion, month, condemned>>

\* updateForm, toggleForm, setFormDisabled, toggleFormActive.
EditForm(f) ==
    /\ "edit" \in OwnerActs
    /\ \/ Write(f, [form[f] EXCEPT !.active = ~@])
       \/ Write(f, [form[f] EXCEPT !.files = ~@])
       \/ Write(f, [form[f] EXCEPT !.key = 1 - @])
       \/ \E cap \in Caps : Write(f, [form[f] EXCEPT !.cap = cap])

\* takedownForm and restoreForm.
Moderate(f) ==
    /\ "takedown" \in OwnerActs
    /\ Write(f, [form[f] EXCEPT !.takenDown = ~@])

\* deleteForm, hardDeleteForm, deleteSubmission, cleanupExpiredSubmissions: the
\* first read, which lists the submissions.
StartDeletion(act, f, S) ==
    LET attached == {d \in Drops : \E s \in S : submission[s].drop = d} IN
    /\ act \in OwnerActs /\ deletion.stage = "idle"
    /\ form[f].state = "live"
    /\ deletion' = [stage |-> IF act = "form" THEN "listed" ELSE "attached", act |-> act,
                    form |-> f, subs |-> S, attached |-> attached,
                    drops |-> IF act = "form" THEN {} ELSE attached]
    /\ condemned' = condemned \cup S
    /\ UNCHANGED <<form, staging, intake, creation, month>>

DeleteForm(f) ==
    LET live == {s \in Submitters : submission[s].state = "live" /\ submission[s].form = f} IN
    \E act \in {"form", "hard"} : StartDeletion(act, f, live)

DeleteSubmission(s) ==
    /\ submission[s].state = "live"
    /\ StartDeletion("submission", submission[s].form, {s})

ListStagingDrops ==
    /\ deletion.stage = "listed"
    /\ deletion' = [deletion EXCEPT !.stage = "staging",
                                    !.drops = {d \in Drops : drop[d].form = deletion.form
                                                             /\ drop[d].state \in {"live", "claimed"}}]
    /\ UNCHANGED <<form, staging, intake, creation, month, condemned>>

MayBeLeft == deletion.stage = "staging"

\* A staging drop whose deletion fails is left where it is; an attachment's is
\* marked instead, which claims it as well.
DeleteOne(d) ==
    /\ d \in deletion.drops
    /\ deletion' = [deletion EXCEPT !.drops = @ \ {d}]
    /\ \/ drop' = ClaimAll({d})
       \/ MayBeLeft /\ UNCHANGED drop
    /\ UNCHANGED <<form, token, upload, held, revocation, intake, creation, month, condemned>>

ListAttachments ==
    /\ deletion.stage = "staging" /\ deletion.drops = {}
    /\ deletion' = [deletion EXCEPT !.stage = "attached", !.drops = deletion.attached]
    /\ UNCHANGED <<form, staging, intake, creation, month, condemned>>

\* The last statement: the form row, from which its submissions and tokens
\* cascade, or the submission row.
FinishDeletion ==
    LET f    == deletion.form
        subs == IF deletion.act = "submission" THEN deletion.subs
                ELSE {s \in Submitters : submission[s].form = f}
    IN
    /\ deletion.stage = "attached" /\ deletion.drops = {}
    /\ submission' = [s \in Submitters |-> IF s \in subs /\ submission[s].state = "live"
                                           THEN [submission[s] EXCEPT !.state = "gone"]
                                           ELSE submission[s]]
    /\ IF deletion.act = "submission" THEN UNCHANGED <<form, token>>
       ELSE /\ formLock[f] = None
            /\ form' = [form EXCEPT ![f].state = "gone"]
            /\ token' = [d \in Drops |-> IF token[d].form = f /\ token[d].state = "live"
                                         THEN [token[d] EXCEPT !.state = "gone"] ELSE token[d]]
    /\ deletion' = NoDeletion
    /\ UNCHANGED <<drop, upload, held, revocation, attempt, formLock, ownerLock, usage, taken,
                   creation, month, condemned>>

\* Killed, or a mark could not be written.
DeletionDies ==
    /\ deletion.stage # "idle"
    /\ deletion' = NoDeletion
    /\ UNCHANGED <<form, staging, intake, creation, month, condemned>>

-----------------------------------------------------------------------------
ForDrop(d) ==
    \/ \E f \in Forms : CheckForm(d, f)
    \/ CreateDrop(d) \/ IssueToken(d) \/ BindToken(d) \/ UploadFails(d) \/ CompensateUpload(d)
    \/ AnswerUpload(d) \/ UploadDies(d) \/ FinishUpload(d)
    \/ RevokeToken(d) \/ ReadRevoked(d) \/ DeleteRevoked(d) \/ RevocationDies(d)
    \/ GrowOld(d) \/ TokenLapses(d) \/ Reap(d) \/ RemoveDrop(d) \/ DeleteOne(d)

ForSubmitter(s) ==
    \/ \E f \in Forms, d \in OrNone(Drops) : BeginSubmission(s, f, d)
    \/ LockOwner(s) \/ LockForm(s) \/ Accept(s) \/ Refuse(s) \/ DeleteSubmission(s)

ForForm(f) == EditForm(f) \/ Moderate(f) \/ DeleteForm(f)

ForCreator(c) == CountForms(c) \/ CreationFails(c) \/ \E f \in Forms : InsertForm(c, f)

Next ==
    \/ \E d \in Drops : ForDrop(d)
    \/ \E s \in Submitters : ForSubmitter(s)
    \/ \E f \in Forms : ForForm(f)
    \/ \E c \in Creators : ForCreator(c)
    \/ MonthPasses \/ ListStagingDrops \/ ListAttachments \/ FinishDeletion \/ DeletionDies

Spec == Init /\ [][Next]_vars

\* Hours pass, the cron job runs every day, and so does the removal of what it
\* claimed; a token request is answered, fails or is killed.
Fairness ==
    \A d \in Drops :
        /\ WF_vars(GrowOld(d)) /\ WF_vars(TokenLapses(d))
        /\ SF_vars(Reap(d)) /\ WF_vars(RemoveDrop(d))
        /\ WF_vars(UploadDies(d))

LiveSpec == Spec /\ Fairness

-----------------------------------------------------------------------------
(* Properties.                                                             *)

\* The cap on the submissions of an owner's forms in a calendar month holds over
\* all of them, and no deletion gives any of it back.
MonthlyCapHolds == \A m \in 0..LastMonth : MonthlyLimit # None => usage[m] <= MonthlyLimit

\* An owner never has more forms than the plan allows, whatever requests create
\* them at once.
FormLimitHolds ==
    FormLimit # None => Cardinality({f \in Forms : form[f].state = "live"}) <= FormLimit

\* Requests that hold different forms of one owner, or none yet, keep within
\* what the owner's plan allows (form.ts:391-400, 893-904).
CapsHold == MonthlyCapHolds /\ FormLimitHolds

\* A submission is recorded against the form as it is at that moment: open,
\* under its cap, with the password the visitor proved, and taking files if it
\* brings some, however the owner edits it meanwhile (form.ts:842-844).
AcceptedAsPosted ==
    [][\A s \in Submitters :
          submission[s].state = "none" /\ submission'[s].state = "live"
          => LET f == attempt[s].form IN
             /\ IsOpen(f) /\ form[f].key = attempt[s].key
             /\ attempt[s].drop # None => form[f].files]_vars

\* Neither the reaping of staging drops, nor a revocation, nor a failed upload
\* request claims a drop that a submission took, unless its owner deletes it
\* (drop-storage.ts:206-208).
AcceptedNeverReaped ==
    [][\A d \in Drops : drop[d].state = "live" /\ drop'[d].state = "claimed"
          => Attached(d) \subseteq condemned]_vars

\* What a visitor uploads is taken by a submission or removed in the end.
StagingEnds ==
    \A d \in Drops : drop[d].state # "none" ~> (drop[d].state = "gone" \/ taken[d] # None)

\* form-attachment-drop.ts:6-18: no attachment becomes a never-expiring orphan
\* that still holds the owner's storage.
NoOrphanedAttachment ==
    \A d \in Drops :
        drop[d].state = "live" /\ drop[d].complete => drop[d].form # None \/ Attached(d) # {}

\* An upload is used once, by one submission, or never.
Phase(d) ==
    CASE taken[d] # None /\ drop[d].state = "live"               -> "used"
      [] taken[d] # None /\ drop[d].state # "live"               -> "discarded"
      [] taken[d] = None /\ d \notin held /\ upload[d].stage # "done" -> "absent"
      [] taken[d] = None /\ d \in held /\ Usable(d) /\ drop[d].state = "live" -> "open"
      [] OTHER                                                   -> "abandoned"

Promise == INSTANCE StagedAttachment WITH
    Attachments <- Drops, Submissions <- Submitters,
    phase <- [d \in Drops |-> Phase(d)], user <- taken, unwanted <- condemned

ImplementsPromise == Promise!Spec

=============================================================================
