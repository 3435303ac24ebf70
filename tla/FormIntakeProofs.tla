-------------------------- MODULE FormIntakeProofs --------------------------
(***************************************************************************)
(* Theorems about FormIntake for any number of forms, attachments,         *)
(* submissions and creations, any limits and any number of months.         *)
(***************************************************************************)
EXTENDS FormIntake, FiniteSetTheorems, TLAPS

USE DEF OrNone, Acts

-----------------------------------------------------------------------------
(* Type correctness of the rows, the requests and the deletion.            *)

StagingTyped ==
    /\ drop \in [Drops -> DropRow]
    /\ token \in [Drops -> TokenRow]
    /\ upload \in [Drops -> Upload]
    /\ held \subseteq Drops
    /\ revocation \in [Drops -> {"idle", "revoked", "deleting", "done"}]

RecordsTyped ==
    /\ submission \in [Submitters -> SubmissionRow]
    /\ deletion \in Deletion
    /\ taken \in [Drops -> OrNone(Submitters)]
    /\ condemned \subseteq Submitters

\* The variables of the locks and the counters.
CoreTyped ==
    /\ form \in [Forms -> FormRow]
    /\ attempt \in [Submitters -> Attempt]
    /\ creation \in [Creators -> {"idle", "counted", "done"}]
    /\ formLock \in [Forms -> OrNone(Submitters)]
    /\ ownerLock \in OrNone(Submitters \cup Creators)
    /\ month \in 0..LastMonth
    /\ usage \in [0..LastMonth -> Nat]

core == <<form, attempt, creation, formLock, ownerLock, month, usage>>

\* What a step may do to a drop, and to a token.
DropChanges(d) ==
    \/ UNCHANGED drop
    \/ \E D : drop' = ClaimAll(D)
    \/ \E x \in {"live", "gone"} : drop' = [drop EXCEPT ![d].state = x]
    \/ \E f \in OrNone(Forms) : drop' = [drop EXCEPT ![d].form = f]
    \/ drop' = [drop EXCEPT ![d].complete = TRUE]
    \/ drop' = [drop EXCEPT ![d].old = TRUE]

TokenChanges(d) ==
    \/ UNCHANGED token
    \/ \E x \in {"live", "gone"} : token' = [token EXCEPT ![d].state = x]
    \/ \E f \in OrNone(Forms) : token' = [token EXCEPT ![d].form = f]
    \/ token' = [token EXCEPT ![d].lapsed = TRUE]

\* It keeps them well typed.
LEMMA DropTyped ==
    ASSUME drop \in [Drops -> DropRow], NEW d, DropChanges(d)
    PROVE  drop' \in [Drops -> DropRow]
<1> USE DEF DropRow
<1>1. ASSUME NEW D, drop' = ClaimAll(D) PROVE drop' \in [Drops -> DropRow]
  BY <1>1 DEF ClaimAll
<1>2. ASSUME NEW x \in {"live", "gone"}, drop' = [drop EXCEPT ![d].state = x]
      PROVE  drop' \in [Drops -> DropRow]
  BY <1>2
<1>3. ASSUME NEW f \in OrNone(Forms), drop' = [drop EXCEPT ![d].form = f]
      PROVE  drop' \in [Drops -> DropRow]
  BY <1>3
<1>4. CASE drop' = [drop EXCEPT ![d].complete = TRUE]
  BY <1>4
<1>5. CASE drop' = [drop EXCEPT ![d].old = TRUE]
  BY <1>5
<1> QED BY <1>1, <1>2, <1>3, <1>4, <1>5 DEF DropChanges

LEMMA TokenTyped ==
    ASSUME token \in [Drops -> TokenRow], NEW d, TokenChanges(d)
    PROVE  token' \in [Drops -> TokenRow]
<1> USE DEF TokenRow
<1>1. ASSUME NEW x \in {"live", "gone"}, token' = [token EXCEPT ![d].state = x]
      PROVE  token' \in [Drops -> TokenRow]
  BY <1>1
<1>2. ASSUME NEW f \in OrNone(Forms), token' = [token EXCEPT ![d].form = f]
      PROVE  token' \in [Drops -> TokenRow]
  BY <1>2
<1>3. CASE token' = [token EXCEPT ![d].lapsed = TRUE]
  BY <1>3
<1> QED BY <1>1, <1>2, <1>3 DEF TokenChanges

\* The steps about one attachment.
LEMMA DropStagingTyped ==
    ASSUME StagingTyped, NEW d \in Drops, ForDrop(d)
    PROVE  StagingTyped'
<1> USE DEF StagingTyped
<1>1. DropChanges(d) /\ TokenChanges(d)
  <2> USE DEF DropChanges, TokenChanges
  <2>1. upload[d].form \in OrNone(Forms)
    BY DEF Upload
  <2>2. CASE \/ \E f \in Forms : CheckForm(d, f)
             \/ CreateDrop(d) \/ IssueToken(d) \/ UploadFails(d) \/ AnswerUpload(d) \/ UploadDies(d)
    BY <2>2 DEF CheckForm, CreateDrop, IssueToken, UploadFails, AnswerUpload, UploadDies
  <2>3. CASE BindToken(d)
    BY <2>1, <2>3 DEF BindToken
  <2>4. CASE CompensateUpload(d) \/ DeleteRevoked(d) \/ Reap(d) \/ DeleteOne(d)
    BY <2>4 DEF CompensateUpload, DeleteRevoked, Reap, DeleteOne
  <2>5. CASE FinishUpload(d) \/ RevokeToken(d) \/ ReadRevoked(d) \/ RevocationDies(d) \/ GrowOld(d)
             \/ TokenLapses(d)
    BY <2>5 DEF FinishUpload, RevokeToken, ReadRevoked, RevocationDies, GrowOld, TokenLapses
  <2>6. CASE RemoveDrop(d)
    <3>1. drop' = [drop EXCEPT ![d].state = "gone"]
      BY <2>6 DEF RemoveDrop
    <3>2. UNCHANGED token \/ token' = [token EXCEPT ![d].state = "gone"]
      BY <2>6 DEF RemoveDrop, TokenRow
    <3> QED BY <3>1, <3>2
  <2> QED BY <2>2, <2>3, <2>4, <2>5, <2>6 DEF ForDrop
<1>2. upload' \in [Drops -> Upload]
  <2>1. CASE \E f \in Forms : CheckForm(d, f)
    BY <2>1 DEF CheckForm, Upload
  <2>2. ASSUME NEW stage \in {"created", "issued", "bound", "failing", "done"}, UploadGoes(d, stage)
        PROVE  upload' \in [Drops -> Upload]
    BY <2>2 DEF UploadGoes, Upload
  <2>3. \/ UNCHANGED upload
        \/ \E f \in Forms : CheckForm(d, f)
        \/ \E stage \in {"created", "issued", "bound", "failing", "done"} : UploadGoes(d, stage)
    BY DEF ForDrop, CreateDrop, IssueToken, BindToken, UploadFails, CompensateUpload, AnswerUpload,
           UploadDies, FinishUpload, RevokeToken, ReadRevoked, DeleteRevoked, RevocationDies, GrowOld,
           TokenLapses, Reap, RemoveDrop, DeleteOne
  <2> QED BY <2>1, <2>2, <2>3
<1>3. held' \subseteq Drops
  BY DEF ForDrop, CheckForm, CreateDrop, IssueToken, BindToken, UploadFails, CompensateUpload,
         AnswerUpload, UploadDies, FinishUpload, RevokeToken, ReadRevoked, DeleteRevoked,
         RevocationDies, GrowOld, TokenLapses, Reap, RemoveDrop, DeleteOne
<1>4. revocation' \in [Drops -> {"idle", "revoked", "deleting", "done"}]
  BY DEF ForDrop, CheckForm, CreateDrop, IssueToken, BindToken, UploadFails, CompensateUpload,
         AnswerUpload, UploadDies, FinishUpload, RevokeToken, ReadRevoked, DeleteRevoked,
         RevocationDies, GrowOld, TokenLapses, Reap, RemoveDrop, DeleteOne
<1> QED BY <1>1, <1>2, <1>3, <1>4, DropTyped, TokenTyped

\* Every step keeps the attachments well typed.
LEMMA StagingStep ==
    ASSUME StagingTyped, CoreTyped, [Next]_vars
    PROVE  StagingTyped'
<1> USE DEF StagingTyped
<1>1. ASSUME UNCHANGED staging PROVE StagingTyped'
  BY <1>1 DEF staging
<1>2. ASSUME NEW s \in Submitters, Accept(s) PROVE StagingTyped'
  <2>1. UNCHANGED <<upload, held, revocation>>
    BY <1>2 DEF Accept
  <2>2. drop' \in [Drops -> DropRow] /\ token' \in [Drops -> TokenRow]
    <3>1. DropChanges(attempt[s].drop) /\ TokenChanges(attempt[s].drop)
      BY <1>2 DEF Accept, Consume, DropChanges, TokenChanges
    <3> QED BY <3>1, DropTyped, TokenTyped
  <2> QED BY <2>1, <2>2
<1>3. CASE FinishDeletion
  <2>1. UNCHANGED <<drop, upload, held, revocation>>
    BY <1>3 DEF FinishDeletion
  <2>2. token' \in [Drops -> TokenRow]
    BY <1>3 DEF FinishDeletion, TokenRow
  <2> QED BY <2>1, <2>2
<1>4. CASE UNCHANGED vars
  BY <1>1, <1>4 DEF vars
<1>5. ASSUME NEW s \in Submitters, ForSubmitter(s) PROVE StagingTyped'
  <2>1. UNCHANGED staging \/ Accept(s)
    BY <1>5 DEF ForSubmitter, BeginSubmission, LockOwner, LockForm, Refuse, DeleteSubmission,
                StartDeletion
  <2> QED BY <1>1, <1>2, <2>1
<1>6. ASSUME \/ \E f \in Forms : ForForm(f)
             \/ \E c \in Creators : ForCreator(c)
             \/ MonthPasses \/ ListStagingDrops \/ ListAttachments \/ DeletionDies
      PROVE  UNCHANGED staging
  BY <1>6 DEF ForForm, EditForm, Moderate, Write, DeleteForm, StartDeletion, ForCreator, CountForms,
              CreationFails, InsertForm, MonthPasses, ListStagingDrops, ListAttachments, DeletionDies
<1> QED BY <1>1, <1>3, <1>4, <1>5, <1>6, DropStagingTyped DEF Next

-----------------------------------------------------------------------------
(* The locks and the counters.                                             *)

\* What a step may do to the variables of the locks and the counters.
Submitting(s) ==
    \/ \E f \in Forms, d \in OrNone(Drops) : BeginSubmission(s, f, d)
    \/ LockOwner(s) \/ LockForm(s) \/ Accept(s) \/ Refuse(s)

Rewrites(f, row) ==
    /\ form[f].state = "live" /\ formLock[f] = None
    /\ form' = [form EXCEPT ![f] = row]
    /\ UNCHANGED <<attempt, creation, formLock, ownerLock, month, usage, submission>>

LEMMA CoreSteps ==
    ASSUME CoreTyped, [Next]_vars
    PROVE  \/ UNCHANGED core
           \/ \E s \in Submitters : Submitting(s)
           \/ \E c \in Creators : ForCreator(c)
           \/ \E f \in Forms, row \in FormRow :
                 row.state = form[f].state /\ row.count = form[f].count /\ Rewrites(f, row)
           \/ FinishDeletion
           \/ MonthPasses
<1> USE DEF core
<1>1. CASE UNCHANGED vars
  BY <1>1 DEF vars, intake
<1>2. ASSUME NEW d \in Drops, ForDrop(d) PROVE UNCHANGED core
  BY <1>2 DEF intake, ForDrop, CheckForm, CreateDrop, IssueToken, BindToken, UploadFails, CompensateUpload,
     AnswerUpload, UploadDies, FinishUpload, RevokeToken, ReadRevoked, DeleteRevoked,
     RevocationDies, GrowOld, TokenLapses, Reap, RemoveDrop, DeleteOne
<1>3. ASSUME NEW s \in Submitters, ForSubmitter(s) PROVE Submitting(s) \/ UNCHANGED core
  BY <1>3 DEF ForSubmitter, Submitting, DeleteSubmission, StartDeletion, intake
<1>4. ASSUME NEW f \in Forms, ForForm(f)
      PROVE  \/ UNCHANGED core
             \/ \E row \in FormRow :
                   row.state = form[f].state /\ row.count = form[f].count /\ Rewrites(f, row)
  <2>1. ASSUME DeleteForm(f) PROVE UNCHANGED core
    BY <2>1 DEF DeleteForm, StartDeletion, intake
  <2>2. ASSUME NEW row, Write(f, row) PROVE Rewrites(f, row)
    BY <2>2 DEF Write, Rewrites, intake
  <2>3. form[f] \in FormRow
    BY DEF CoreTyped
  <2>4. \A x \in BOOLEAN :
           /\ [form[f] EXCEPT !.active = x] \in FormRow
           /\ [form[f] EXCEPT !.files = x] \in FormRow
           /\ [form[f] EXCEPT !.takenDown = x] \in FormRow
    BY <2>3 DEF FormRow
  <2>5. \A x \in {0, 1} : [form[f] EXCEPT !.key = x] \in FormRow
    BY <2>3 DEF FormRow
  <2>6. \A x \in OrNone(Nat) : [form[f] EXCEPT !.cap = x] \in FormRow
    BY <2>3 DEF FormRow
  <2>7. form[f].key \in {0, 1} /\ form[f].active \in BOOLEAN /\ form[f].files \in BOOLEAN
        /\ form[f].takenDown \in BOOLEAN
    BY <2>3 DEF FormRow
  <2>8. CASE EditForm(f)
    <3>1. Caps \subseteq OrNone(Nat)
      BY ConstantsAssumption
    <3>2. PICK row : /\ Write(f, row)
                     /\ \/ row = [form[f] EXCEPT !.active = ~@]
                        \/ row = [form[f] EXCEPT !.files = ~@]
                        \/ row = [form[f] EXCEPT !.key = 1 - @]
                        \/ \E cap \in Caps : row = [form[f] EXCEPT !.cap = cap]
      BY <2>8 DEF EditForm
    <3>3. row \in FormRow /\ row.state = form[f].state /\ row.count = form[f].count
      <4>1. CASE row = [form[f] EXCEPT !.active = ~@]
        BY <4>1, <2>3, <2>7 DEF FormRow
      <4>2. CASE row = [form[f] EXCEPT !.files = ~@]
        BY <4>2, <2>3, <2>7 DEF FormRow
      <4>3. CASE row = [form[f] EXCEPT !.key = 1 - @]
        BY <4>3, <2>3, <2>7 DEF FormRow
      <4>4. ASSUME NEW cap \in Caps, row = [form[f] EXCEPT !.cap = cap]
            PROVE  row \in FormRow /\ row.state = form[f].state /\ row.count = form[f].count
        BY <4>4, <2>3, <3>1 DEF FormRow
      <4> QED BY <3>2, <4>1, <4>2, <4>3, <4>4
    <3> QED BY <2>2, <3>2, <3>3
  <2>9. CASE Moderate(f)
    <3> DEFINE row == [form[f] EXCEPT !.takenDown = ~@]
    <3>1. row \in FormRow /\ row.state = form[f].state /\ row.count = form[f].count
      BY <2>3, <2>7 DEF FormRow
    <3> QED BY <2>2, <2>9, <3>1 DEF Moderate
  <2> QED BY <1>4, <2>1, <2>8, <2>9 DEF ForForm
<1>5. ASSUME ListStagingDrops \/ ListAttachments \/ DeletionDies PROVE UNCHANGED core
  BY <1>5 DEF ListStagingDrops, ListAttachments, DeletionDies, intake
<1> QED BY <1>1, <1>2, <1>3, <1>4, <1>5 DEF Next

Live == {f \in Forms : form[f].state = "live"}

\* Who is in a transaction holds its locks, and what it has checked of the rows
\* it holds stays so.
Locked ==
    /\ \A s \in Submitters :
          /\ attempt[s].stage \in {"begun", "owner", "form"} => attempt[s].form \in Forms
          /\ attempt[s].stage \in {"owner", "form"} => ownerLock = s
          /\ attempt[s].stage = "form" =>
                LET f == attempt[s].form IN
                /\ formLock[f] = s
                /\ form[f].key = attempt[s].key
                /\ attempt[s].drop # None => form[f].files
                /\ Under(usage[month], MonthlyLimit)
    /\ \A c \in Creators : creation[c] = "counted" =>
          /\ ownerLock = c
          /\ Under(Cardinality(Live), FormLimit)
    /\ \A f \in Forms, s \in Submitters :
          formLock[f] = s => attempt[s].stage = "form" /\ attempt[s].form = f

\* The counters stay within the limits, and months to come count nothing yet.
Counted ==
    /\ MonthlyCapHolds
    /\ FormLimitHolds
    /\ \A m \in 0..LastMonth : m > month => usage[m] = 0

CoreInv == CoreTyped /\ Locked /\ Counted

\* A submission's steps keep these.
LEMMA SubmittingCore ==
    ASSUME CoreInv, NEW s \in Submitters, Submitting(s)
    PROVE  CoreInv'
<1> USE DEF CoreInv
<1>0. s # None /\ s \notin Creators /\ None \notin Nat /\ None \notin Forms
  BY ConstantsAssumption
<1>1. CASE \E f \in Forms, d \in OrNone(Drops) : BeginSubmission(s, f, d)
  <2>1. PICK f \in Forms, d \in OrNone(Drops) : BeginSubmission(s, f, d)
    BY <1>1
  <2>2. attempt' = [attempt EXCEPT ![s] = [stage |-> "begun", form |-> f, drop |-> d,
                                           key |-> form[f].key]]
        /\ attempt[s].stage = "idle"
        /\ UNCHANGED <<form, creation, formLock, ownerLock, month, usage>>
    BY <2>1 DEF BeginSubmission
  <2>3. form[f].key \in {0, 1}
    BY DEF CoreTyped, FormRow
  <2>4. CoreTyped'
    BY <2>2, <2>3 DEF CoreTyped, Attempt
  <2>5. Locked'
    BY <2>2 DEF Locked, CoreTyped, Attempt, Live
  <2> QED BY <2>2, <2>4, <2>5 DEF Counted, MonthlyCapHolds, FormLimitHolds
<1>2. CASE LockOwner(s)
  <2>1. /\ attempt' = [attempt EXCEPT ![s].stage = "owner"]
        /\ attempt[s].stage = "begun" /\ ownerLock = None /\ ownerLock' = s
        /\ UNCHANGED <<form, creation, formLock, month, usage>>
    BY <1>2 DEF LockOwner, HoldOwner
  <2>2. CoreTyped'
    BY <2>1 DEF CoreTyped, Attempt
  <2>3. \A x \in Submitters : attempt[x].stage \notin {"owner", "form"}
    BY <2>1, ConstantsAssumption DEF Locked
  <2>4. \A c \in Creators : creation[c] # "counted"
    BY <2>1, ConstantsAssumption DEF Locked
  <2>5. Locked'
    BY <2>1, <2>3, <2>4 DEF Locked, CoreTyped, Attempt
  <2> QED BY <2>1, <2>2, <2>5 DEF Counted, MonthlyCapHolds, FormLimitHolds
<1>3. CASE LockForm(s)
  <2> DEFINE f == attempt[s].form
  <2>1. /\ attempt' = [attempt EXCEPT ![s].stage = "form"]
        /\ attempt[s].stage = "owner" /\ formLock[f] = None /\ formLock' = [formLock EXCEPT ![f] = s]
        /\ form[f].key = attempt[s].key
        /\ attempt[s].drop # None => form[f].files
        /\ Under(usage[month], MonthlyLimit)
        /\ UNCHANGED <<form, creation, ownerLock, month, usage>>
    BY <1>3 DEF LockForm, HoldForm
  <2>2. CoreTyped'
    <3>1. attempt' \in [Submitters -> Attempt]
      BY <2>1 DEF CoreTyped, Attempt
    <3>2. formLock' \in [Forms -> OrNone(Submitters)]
      BY <2>1 DEF CoreTyped
    <3> QED BY <2>1, <3>1, <3>2 DEF CoreTyped
  <2>3. f \in Forms /\ ownerLock = s
    BY <2>1 DEF Locked
  <2>4. \A x \in Submitters \ {s} : attempt[x].stage \notin {"owner", "form"}
    BY <2>3 DEF Locked
  <2>5. \A x \in Submitters : /\ attempt'[x].form = attempt[x].form
                              /\ attempt'[x].key = attempt[x].key
                              /\ attempt'[x].drop = attempt[x].drop
                              /\ attempt'[x].stage = IF x = s THEN "form" ELSE attempt[x].stage
    BY <2>1 DEF CoreTyped, Attempt
  <2>6. Locked'
    <3>1. Live' = Live
      BY <2>1 DEF Live
    <3> QED BY <2>1, <2>3, <2>4, <2>5, <3>1 DEF Locked, CoreTyped, Under
  <2> QED BY <2>1, <2>2, <2>6 DEF Counted, MonthlyCapHolds, FormLimitHolds
<1>4. ASSUME Release(s), attempt' = [attempt EXCEPT ![s].stage = "done"],
             attempt[s].stage \in {"begun", "owner", "form"}, UNCHANGED <<creation, month>>,
             \/ UNCHANGED <<form, usage>>
             \/ /\ form' = [form EXCEPT ![attempt[s].form].count = @ + 1]
                /\ usage' = [usage EXCEPT ![month] = @ + 1]
                /\ attempt[s].stage = "form"
      PROVE  CoreTyped' /\ Locked'
  <2>1. formLock' \in [Forms -> OrNone(Submitters)] /\ ownerLock' \in OrNone(Submitters \cup Creators)
    BY <1>4 DEF Release, CoreTyped
  <2>2. attempt' \in [Submitters -> Attempt]
    BY <1>4 DEF CoreTyped, Attempt
  <2>3. form' \in [Forms -> FormRow]
    <3>1. \A f \in Forms : [form[f] EXCEPT !.count = @ + 1] \in FormRow
      <4> TAKE f \in Forms
      <4>1. form[f] \in FormRow /\ form[f].count + 1 \in Nat
        BY DEF CoreTyped, FormRow
      <4>2. \A n \in Nat : [form[f] EXCEPT !.count = n] \in FormRow
        BY <4>1 DEF FormRow
      <4> QED BY <4>1, <4>2
    <3>2. \A g : form' = [form EXCEPT ![g].count = @ + 1] => form' \in [Forms -> FormRow]
      BY <3>1 DEF CoreTyped
    <3> QED BY <1>4, <3>2 DEF CoreTyped
  <2>4. usage' \in [0..LastMonth -> Nat]
    BY <1>4 DEF CoreTyped
  <2>5. CoreTyped'
    BY <1>4, <2>1, <2>2, <2>3, <2>4 DEF CoreTyped
  <2>6. \A x \in Submitters : /\ attempt'[x].form = attempt[x].form
                              /\ attempt'[x].key = attempt[x].key
                              /\ attempt'[x].drop = attempt[x].drop
                              /\ attempt'[x].stage = IF x = s THEN "done" ELSE attempt[x].stage
    BY <1>4 DEF CoreTyped, Attempt
  <2>7. CASE ownerLock = s
    <3>1. \A x \in Submitters : attempt'[x].stage \notin {"owner", "form"}
      BY <2>6, <2>7 DEF Locked
    <3>2. \A c \in Creators : creation[c] # "counted"
      BY <2>7, <1>0 DEF Locked
    <3>3. \A f \in Forms, x \in Submitters : formLock'[f] # x
      <4> SUFFICES ASSUME NEW f \in Forms, NEW x \in Submitters, formLock'[f] = x PROVE FALSE
        OBVIOUS
      <4>1. formLock[f] = x /\ x # s
        BY <1>4, ConstantsAssumption DEF Release
      <4>2. attempt[x].stage = "form"
        BY <4>1 DEF Locked
      <4> QED BY <4>1, <4>2, <2>7 DEF Locked
    <3> QED BY <1>4, <2>5, <2>6, <3>1, <3>2, <3>3 DEF Locked
  <2>8. CASE ownerLock # s
    <3>1. attempt[s].stage = "begun" /\ UNCHANGED <<form, usage, ownerLock>>
      BY <1>4, <2>8 DEF Locked, Release
    <3>2. \A f \in Forms : formLock[f] # s
      BY <3>1 DEF Locked
    <3>3. formLock' = formLock
      BY <1>4, <3>2 DEF Release, CoreTyped
    <3>4. Live' = Live
      BY <3>1 DEF Live
    <3>5. \A c \in Creators : creation'[c] = "counted" =>
             ownerLock' = c /\ Under(Cardinality(Live'), FormLimit)
      BY <1>4, <3>1, <3>4 DEF Locked
    <3>6. \A f \in Forms, x \in Submitters :
             formLock'[f] = x => attempt'[x].stage = "form" /\ attempt'[x].form = f
      BY <2>6, <3>2, <3>3 DEF Locked
    <3>7. ASSUME NEW x \in Submitters
          PROVE  /\ attempt'[x].stage \in {"begun", "owner", "form"} => attempt'[x].form \in Forms
                 /\ attempt'[x].stage \in {"owner", "form"} => ownerLock' = x
                 /\ attempt'[x].stage = "form" =>
                       LET f == attempt'[x].form IN
                       /\ formLock'[f] = x
                       /\ form'[f].key = attempt'[x].key
                       /\ attempt'[x].drop # None => form'[f].files
                       /\ Under(usage'[month'], MonthlyLimit)
      <4>1. CASE x = s
        BY <2>6, <4>1
      <4>2. CASE x # s
        <5>1. UNCHANGED <<form, usage, ownerLock, month, formLock>>
          BY <1>4, <3>1, <3>3
        <5>2. /\ attempt'[x].form = attempt[x].form /\ attempt'[x].key = attempt[x].key
              /\ attempt'[x].drop = attempt[x].drop /\ attempt'[x].stage = attempt[x].stage
          BY <2>6, <4>2
        <5> QED BY <5>1, <5>2 DEF Locked
      <4> QED BY <4>1, <4>2
    <3> QED BY <2>5, <3>5, <3>6, <3>7 DEF Locked
  <2> QED BY <2>5, <2>7, <2>8
<1>5. CASE Refuse(s)
  <2>1. CoreTyped' /\ Locked'
    BY <1>4, <1>5 DEF Refuse
  <2>2. UNCHANGED <<form, usage, month>>
    BY <1>5 DEF Refuse
  <2> QED BY <2>1, <2>2 DEF Counted, MonthlyCapHolds, FormLimitHolds
<1>6. CASE Accept(s)
  <2>1. /\ attempt[s].stage = "form"
        /\ form' = [form EXCEPT ![attempt[s].form].count = @ + 1]
        /\ usage' = [usage EXCEPT ![month] = @ + 1]
        /\ attempt' = [attempt EXCEPT ![s].stage = "done"]
        /\ Release(s) /\ UNCHANGED <<creation, month>>
    BY <1>6 DEF Accept
  <2>2. CoreTyped' /\ Locked'
    BY <1>4, <2>1
  <2>3. Under(usage[month], MonthlyLimit)
    BY <2>1 DEF Locked
  <2>4. \A m \in 0..LastMonth : usage'[m] = IF m = month THEN usage[m] + 1 ELSE usage[m]
    BY <2>1 DEF CoreTyped
  <2>5. MonthlyCapHolds'
    <3> SUFFICES ASSUME MonthlyLimit # None, NEW m \in 0..LastMonth PROVE usage'[m] <= MonthlyLimit
      BY DEF MonthlyCapHolds
    <3>1. MonthlyLimit \in Nat /\ usage[m] \in Nat
      BY ConstantsAssumption DEF CoreTyped
    <3> QED BY <2>3, <2>4, <3>1 DEF Counted, MonthlyCapHolds, Under
  <2>6. FormLimitHolds'
    <3>1. \A f \in Forms : form'[f].state = form[f].state
      BY <2>1 DEF CoreTyped, FormRow
    <3> QED BY <3>1 DEF Counted, FormLimitHolds
  <2>7. \A m \in 0..LastMonth : m > month' => usage'[m] = 0
    BY <2>1, <2>4 DEF Counted, CoreTyped
  <2> QED BY <2>2, <2>5, <2>6, <2>7 DEF Counted
<1> QED BY <1>1, <1>2, <1>3, <1>5, <1>6 DEF Submitting
\* The forms of the owner are finitely many, and as many as they are live.
LEMMA LiveForms ==
    /\ IsFiniteSet(Live) /\ Cardinality(Live) \in Nat
    /\ FormLimitHolds <=> (FormLimit # None => Cardinality(Live) <= FormLimit)
<1>1. IsFiniteSet(Live)
  BY ConstantsAssumption, FS_Subset DEF Live
<1>2. Cardinality(Live) \in Nat
  BY <1>1, FS_CardinalityType
<1> QED BY <1>1, <1>2 DEF FormLimitHolds, Live

\* If fewer forms are live, there are not more of them.
LEMMA FewerForms ==
    ASSUME Live' \subseteq Live
    PROVE  Cardinality(Live') \in Nat /\ Cardinality(Live') <= Cardinality(Live)
<1>1. IsFiniteSet(Live) /\ Cardinality(Live) \in Nat
  BY LiveForms
<1>2. IsFiniteSet(Live') /\ Cardinality(Live') <= Cardinality(Live)
  BY <1>1, FS_Subset
<1> QED BY <1>2, FS_CardinalityType

\* If no form changes its state, the same forms are live.
LEMMA SameForms ==
    ASSUME \A f \in Forms : form'[f].state = form[f].state
    PROVE  Live' = Live /\ FormLimitHolds' = FormLimitHolds
BY DEF Live, FormLimitHolds

\* The steps of the creation of a form keep the locks and the counters.
LEMMA CreatorCore ==
    ASSUME CoreInv, NEW c \in Creators, ForCreator(c)
    PROVE  CoreInv'
<1> USE DEF CoreInv
<1>0. c # None /\ c \notin Submitters /\ \A s \in Submitters : s # None
  BY ConstantsAssumption
<1>1. CASE CountForms(c)
  <2>1. /\ creation' = [creation EXCEPT ![c] = "counted"] /\ ownerLock = None /\ ownerLock' = c
        /\ Under(Cardinality(Live), FormLimit)
        /\ UNCHANGED <<form, attempt, formLock, month, usage>>
    BY <1>1 DEF CountForms, HoldOwner, intake, Live
  <2>2. CoreTyped'
    BY <2>1 DEF CoreTyped
  <2>3. Live' = Live
    BY <2>1 DEF Live
  <2>4. \A s \in Submitters : attempt[s].stage \notin {"owner", "form"}
    BY <2>1, <1>0 DEF Locked
  <2>5. \A x \in Creators : creation'[x] = "counted" => x = c
    BY <2>1, ConstantsAssumption DEF Locked, CoreTyped
  <2>6. Locked'
    BY <2>1, <2>3, <2>4, <2>5 DEF Locked, Under
  <2> QED BY <2>1, <2>2, <2>6 DEF Counted, MonthlyCapHolds, FormLimitHolds
<1>2. ASSUME creation[c] = "counted", creation' = [creation EXCEPT ![c] = "done"], ownerLock' = None,
             UNCHANGED <<attempt, formLock, month, usage>>,
             \A f \in Forms : form'[f].key = form[f].key /\ form'[f].files = form[f].files
      PROVE  Locked'
  <2>1. ownerLock = c
    BY <1>2 DEF Locked
  <2>2. \A s \in Submitters : attempt[s].stage \notin {"owner", "form"}
    BY <2>1, <1>0 DEF Locked
  <2>3. \A x \in Creators : creation'[x] # "counted"
    <3>1. \A x \in Creators : creation[x] = "counted" => x = c
      BY <2>1 DEF Locked
    <3> QED BY <3>1, <1>2 DEF CoreTyped
  <2> QED BY <1>2, <2>2, <2>3 DEF Locked
<1>3. CASE CreationFails(c)
  <2>1. /\ creation[c] = "counted" /\ creation' = [creation EXCEPT ![c] = "done"] /\ ownerLock' = None
        /\ UNCHANGED <<form, attempt, formLock, month, usage>>
    BY <1>3 DEF CreationFails
  <2>2. CoreTyped'
    BY <2>1 DEF CoreTyped
  <2>3. Locked'
    BY <1>2, <2>1
  <2> QED BY <2>1, <2>2, <2>3 DEF Counted, MonthlyCapHolds, FormLimitHolds
<1>4. ASSUME NEW f \in Forms, InsertForm(c, f) PROVE CoreInv'
  <2>1. /\ creation[c] = "counted" /\ creation' = [creation EXCEPT ![c] = "done"] /\ ownerLock' = None
        /\ form[f].state = "new" /\ form' = [form EXCEPT ![f].state = "live"]
        /\ UNCHANGED <<attempt, formLock, month, usage>>
    BY <1>4 DEF InsertForm
  <2>2. \A g \in Forms : form'[g] = IF g = f THEN [form[f] EXCEPT !.state = "live"] ELSE form[g]
    BY <2>1 DEF CoreTyped
  <2>3. form' \in [Forms -> FormRow]
    <3>1. form[f] \in FormRow
      BY DEF CoreTyped
    <3>2. [form[f] EXCEPT !.state = "live"] \in FormRow
      BY <3>1 DEF FormRow
    <3> QED BY <2>1, <3>2 DEF CoreTyped
  <2>4. CoreTyped'
    BY <2>1, <2>3 DEF CoreTyped
  <2>5. \A g \in Forms : form'[g].key = form[g].key /\ form'[g].files = form[g].files
    BY <2>2 DEF CoreTyped, FormRow
  <2>6. Locked'
    BY <1>2, <2>1, <2>5
  <2>7. Live' = Live \cup {f} /\ f \notin Live
    BY <2>1, <2>2 DEF Live, CoreTyped, FormRow
  <2>8. FormLimitHolds'
    <3>1. Cardinality(Live \cup {f}) = Cardinality(Live) + 1
      BY <2>7, LiveForms, FS_AddElement
    <3>2. Under(Cardinality(Live), FormLimit)
      BY <2>1 DEF Locked
    <3>3. FormLimit # None => Cardinality(Live') <= FormLimit
      BY <2>7, <3>1, <3>2, LiveForms, ConstantsAssumption DEF Under
    <3> QED BY <3>3 DEF FormLimitHolds, Live
  <2> QED BY <2>1, <2>4, <2>6, <2>8 DEF Counted, MonthlyCapHolds
<1> QED BY <1>1, <1>3, <1>4 DEF ForCreator

\* An edit of a form, which waits until nobody holds its row, keeps them.
LEMMA RewriteCore ==
    ASSUME CoreInv, NEW f \in Forms, NEW row \in FormRow,
           row.state = form[f].state, row.count = form[f].count, Rewrites(f, row)
    PROVE  CoreInv'
<1> USE DEF CoreInv
<1>1. /\ formLock[f] = None /\ form' = [form EXCEPT ![f] = row]
      /\ UNCHANGED <<attempt, creation, formLock, ownerLock, month, usage>>
  BY DEF Rewrites
<1>2. CoreTyped'
  BY <1>1 DEF CoreTyped
<1>3. \A g \in Forms : form'[g] = IF g = f THEN row ELSE form[g]
  BY <1>1 DEF CoreTyped
<1>4. Live' = Live /\ FormLimitHolds'
  BY <1>3, SameForms DEF Counted
<1>5. \A s \in Submitters : attempt[s].stage = "form" => form'[attempt[s].form] = form[attempt[s].form]
  BY <1>1, <1>3, ConstantsAssumption DEF Locked
<1>6. Locked'
  BY <1>1, <1>4, <1>5 DEF Locked, Under
<1> QED BY <1>1, <1>2, <1>4, <1>6 DEF Counted, MonthlyCapHolds

\* The end of a deletion keeps them.
LEMMA DeletionCore ==
    ASSUME CoreInv, FinishDeletion
    PROVE  CoreInv'
<1> USE DEF CoreInv
<1>1. /\ UNCHANGED <<attempt, creation, formLock, ownerLock, month, usage>>
      /\ form' = form \/ \E f : form' = [form EXCEPT ![f].state = "gone"]
  BY DEF FinishDeletion
<1>2. \A g \in Forms : /\ form'[g].key = form[g].key /\ form'[g].files = form[g].files
                       /\ form'[g].state \in {form[g].state, "gone"} /\ form'[g] \in FormRow
  <2> TAKE g \in Forms
  <2>1. form[g] \in FormRow
    BY DEF CoreTyped
  <2>2. form'[g] = form[g] \/ form'[g] = [form[g] EXCEPT !.state = "gone"]
    BY <1>1 DEF CoreTyped
  <2>3. CASE form'[g] = [form[g] EXCEPT !.state = "gone"]
    BY <2>1, <2>3 DEF FormRow
  <2> QED BY <2>1, <2>2, <2>3
<1>3. form' \in [Forms -> FormRow]
  BY <1>1, <1>2 DEF CoreTyped
<1>4. CoreTyped'
  BY <1>1, <1>3 DEF CoreTyped
<1>5. Live' \subseteq Live
  BY <1>2 DEF Live
<1>6. Cardinality(Live') \in Nat /\ Cardinality(Live') <= Cardinality(Live) /\ Cardinality(Live) \in Nat
  BY <1>5, FewerForms, LiveForms
<1>7. FormLimitHolds'
  <2>1. FormLimit # None => Cardinality(Live') <= FormLimit
    BY <1>6, LiveForms, ConstantsAssumption DEF Counted
  <2> QED BY <2>1 DEF FormLimitHolds, Live
<1>8. Under(Cardinality(Live), FormLimit) => Under(Cardinality(Live'), FormLimit)
  BY <1>6, ConstantsAssumption DEF Under
<1>9. Locked'
  BY <1>1, <1>2, <1>8 DEF Locked, Under
<1> QED BY <1>1, <1>4, <1>7, <1>9 DEF Counted, MonthlyCapHolds

\* So does a new month, for which nothing is counted yet.
LEMMA MonthCore ==
    ASSUME CoreInv, MonthPasses
    PROVE  CoreInv'
<1> USE DEF CoreInv
<1>1. month' = month + 1 /\ month < LastMonth
      /\ UNCHANGED <<form, attempt, creation, formLock, ownerLock, usage>>
  BY DEF MonthPasses, intake
<1>2. month' \in 0..LastMonth /\ month' > month
  BY <1>1, ConstantsAssumption DEF CoreTyped
<1>3. CoreTyped'
  BY <1>1, <1>2 DEF CoreTyped
<1>4. usage[month'] = 0
  BY <1>2 DEF Counted
<1>5. Under(usage'[month'], MonthlyLimit)
  BY <1>1, <1>4, ConstantsAssumption DEF Under
<1>6. Live' = Live
  BY <1>1 DEF Live
<1>7. Locked'
  BY <1>1, <1>5, <1>6 DEF Locked
<1>8. \A m \in 0..LastMonth : m > month' => usage'[m] = 0
  BY <1>1, ConstantsAssumption DEF Counted, CoreTyped
<1> QED BY <1>1, <1>3, <1>7, <1>8 DEF Counted, MonthlyCapHolds, FormLimitHolds

\* The locks and the counters are as they should be at the start, and every
\* step keeps them so.
LEMMA CoreInit == Init => CoreInv
<1> SUFFICES ASSUME Init PROVE CoreInv
  OBVIOUS
<1>1. PICK cap \in Caps :
          form = [f \in Forms |-> [state |-> IF f \in Existing THEN "live" ELSE "new",
                                   active |-> TRUE, takenDown |-> FALSE, files |-> TRUE,
                                   key |-> 0, cap |-> cap, count |-> 0]]
  BY DEF Init
<1>2. CoreTyped
  BY <1>1, ConstantsAssumption DEF Init, CoreTyped, FormRow, Attempt
<1>3. Live = Existing
  BY <1>1, ConstantsAssumption DEF Live
<1>4. Counted
  <2>1. FormLimitHolds
    BY <1>3, LiveForms, ConstantsAssumption
  <2>2. \A m \in 0..LastMonth : usage[m] = 0
    BY DEF Init
  <2> QED BY <2>1, <2>2, ConstantsAssumption DEF Counted, MonthlyCapHolds
<1>5. Locked
  BY ConstantsAssumption DEF Init, Locked
<1> QED BY <1>2, <1>4, <1>5 DEF CoreInv

LEMMA CoreStep ==
    ASSUME CoreInv, [Next]_vars
    PROVE  CoreInv'
<1>1. CASE UNCHANGED core
  BY <1>1 DEF core, CoreInv, CoreTyped, Locked, Counted, Live, MonthlyCapHolds, FormLimitHolds, Under
<1>2. CoreTyped
  BY DEF CoreInv
<1> QED BY <1>1, <1>2, CoreSteps, SubmittingCore, CreatorCore, RewriteCore, DeletionCore, MonthCore
-----------------------------------------------------------------------------
(* The records of submissions and deletions.                               *)

\* Every step keeps them well typed.
LEMMA DeletionTyped ==
    ASSUME StagingTyped, RecordsTyped, CoreTyped, [Next]_vars
    PROVE  deletion' \in Deletion /\ condemned' \subseteq Submitters
<1> USE DEF RecordsTyped
<1>0. deletion \in Deletion /\ NoDeletion \in Deletion
  BY DEF NoDeletion, Deletion
<1>1. ASSUME NEW act \in Acts, NEW f \in OrNone(Forms), NEW S \in SUBSET Submitters, StartDeletion(act, f, S)
      PROVE  deletion' \in Deletion /\ condemned' \subseteq Submitters
  <2> DEFINE at == {d \in Drops : \E s \in S : submission[s].drop = d}
  <2>1. deletion' = [stage |-> IF act = "form" THEN "listed" ELSE "attached", act |-> act,
                     form |-> f, subs |-> S, attached |-> at,
                     drops |-> IF act = "form" THEN {} ELSE at]
        /\ condemned' = condemned \cup S
    BY <1>1 DEF StartDeletion
  <2>2. at \in SUBSET Drops
    OBVIOUS
  <2> HIDE DEF at
  <2> QED BY <2>1, <2>2 DEF Deletion
<1>2. ASSUME NEW D \in SUBSET Drops, NEW stage \in {"staging", "attached"},
             \/ deletion' = [deletion EXCEPT !.stage = stage, !.drops = D]
             \/ deletion' = [deletion EXCEPT !.drops = D]
      PROVE  deletion' \in Deletion
  BY <1>0, <1>2 DEF Deletion
<1>3. CASE UNCHANGED vars
  BY <1>3 DEF vars
<1>4. ASSUME NEW d \in Drops, ForDrop(d) PROVE deletion' \in Deletion /\ condemned' \subseteq Submitters
  <2>1. CASE DeleteOne(d)
    <3>1. deletion' = [deletion EXCEPT !.drops = @ \ {d}] /\ UNCHANGED condemned
      BY <2>1 DEF DeleteOne
    <3>2. deletion.drops \ {d} \in SUBSET Drops
      BY <1>0 DEF Deletion
    <3>3. deletion' = [deletion EXCEPT !.drops = deletion.drops \ {d}]
      BY <3>1
    <3> HIDE DEF RecordsTyped
    <3>4. deletion' \in Deletion
      BY <1>0, <3>2, <3>3 DEF Deletion
    <3> QED BY <3>1, <3>4 DEF RecordsTyped
  <2>2. DeleteOne(d) \/ UNCHANGED <<deletion, condemned>>
    BY <1>4 DEF ForDrop, CheckForm, CreateDrop, IssueToken, BindToken, UploadFails, CompensateUpload,
       AnswerUpload, UploadDies, FinishUpload, RevokeToken, ReadRevoked, DeleteRevoked,
       RevocationDies, GrowOld, TokenLapses, Reap, RemoveDrop
  <2> QED BY <2>1, <2>2
<1>5. ASSUME NEW s \in Submitters, ForSubmitter(s)
      PROVE  deletion' \in Deletion /\ condemned' \subseteq Submitters
  <2>1. CASE DeleteSubmission(s)
    <3>1. StartDeletion("submission", submission[s].form, {s})
      BY <2>1 DEF DeleteSubmission
    <3>2. submission[s].form \in OrNone(Forms)
      BY DEF SubmissionRow
    <3> QED BY <1>1, <3>1, <3>2
  <2>2. DeleteSubmission(s) \/ (UNCHANGED deletion /\ condemned' \subseteq condemned \cup {s})
    BY <1>5 DEF ForSubmitter, BeginSubmission, LockOwner, LockForm, Accept, Refuse
  <2> QED BY <2>1, <2>2
<1>6. ASSUME NEW f \in Forms, ForForm(f) PROVE deletion' \in Deletion /\ condemned' \subseteq Submitters
  <2>1. CASE DeleteForm(f)
    <3>1. PICK act \in {"form", "hard"} :
             StartDeletion(act, f, {s \in Submitters : submission[s].state = "live"
                                                       /\ submission[s].form = f})
      BY <2>1 DEF DeleteForm
    <3> QED BY <1>1, <3>1
  <2>2. DeleteForm(f) \/ UNCHANGED <<deletion, condemned>>
    BY <1>6 DEF ForForm, EditForm, Moderate, Write
  <2> QED BY <2>1, <2>2
<1>7. CASE ListStagingDrops
  <2> DEFINE D == {d \in Drops : drop[d].form = deletion.form /\ drop[d].state \in {"live", "claimed"}}
  <2>1. deletion' = [deletion EXCEPT !.stage = "staging", !.drops = D] /\ UNCHANGED condemned
    BY <1>7 DEF ListStagingDrops
  <2>2. D \in SUBSET Drops
    OBVIOUS
  <2> HIDE DEF D
  <2> QED BY <1>2, <2>1, <2>2
<1>8. CASE ListAttachments
  <2>1. deletion' = [deletion EXCEPT !.stage = "attached", !.drops = deletion.attached]
        /\ UNCHANGED condemned
    BY <1>8 DEF ListAttachments
  <2>2. deletion.attached \in SUBSET Drops
    BY <1>0 DEF Deletion
  <2> QED BY <1>2, <2>1, <2>2
<1>9. CASE FinishDeletion \/ DeletionDies
  BY <1>0, <1>9 DEF FinishDeletion, DeletionDies
<1>10. ASSUME \/ \E c \in Creators : ForCreator(c)
              \/ MonthPasses
       PROVE  UNCHANGED <<deletion, condemned>>
  BY <1>10 DEF ForCreator, CountForms, CreationFails, InsertForm, MonthPasses
<1> QED BY <1>3, <1>4, <1>5, <1>6, <1>7, <1>8, <1>9, <1>10 DEF Next

\* Every step keeps the submissions and their drops well typed.
LEMMA RecordsStep ==
    ASSUME StagingTyped, RecordsTyped, CoreTyped, [Next]_vars
    PROVE  RecordsTyped'
<1>1. submission' \in [Submitters -> SubmissionRow] /\ taken' \in [Drops -> OrNone(Submitters)]
  <2> USE DEF RecordsTyped
  <2>1. ASSUME NEW s \in Submitters, Accept(s)
        PROVE  submission' \in [Submitters -> SubmissionRow] /\ taken' \in [Drops -> OrNone(Submitters)]
    <3> DEFINE row == [state |-> "live", form |-> attempt[s].form, drop |-> attempt[s].drop]
    <3>1. row \in SubmissionRow
      BY DEF CoreTyped, Attempt, SubmissionRow
    <3>2. submission' = [submission EXCEPT ![s] = row]
      BY <2>1 DEF Accept
    <3>3. UNCHANGED taken \/ taken' = [taken EXCEPT ![attempt[s].drop] = s]
      BY <2>1 DEF Accept
    <3> HIDE DEF row
    <3> QED BY <3>1, <3>2, <3>3
  <2>2. ASSUME NEW d \in Drops, RemoveDrop(d)
        PROVE  submission' \in [Submitters -> SubmissionRow] /\ UNCHANGED taken
    BY <2>2 DEF RemoveDrop, SubmissionRow
  <2>3. CASE FinishDeletion
    <3>1. PICK S : submission' = [s \in Submitters |-> IF s \in S /\ submission[s].state = "live"
                                                       THEN [submission[s] EXCEPT !.state = "gone"]
                                                       ELSE submission[s]]
      BY <2>3 DEF FinishDeletion
    <3>2. submission' \in [Submitters -> SubmissionRow]
      BY <3>1 DEF SubmissionRow
    <3>3. UNCHANGED taken
      BY <2>3 DEF FinishDeletion
    <3> QED BY <3>2, <3>3
  <2>4. CASE UNCHANGED <<submission, taken>>
    BY <2>4
  <2>5. ASSUME NEW d \in Drops, ForDrop(d) PROVE RemoveDrop(d) \/ UNCHANGED <<submission, taken>>
    BY <2>5 DEF intake, ForDrop, CheckForm, CreateDrop, IssueToken, BindToken, UploadFails,
       CompensateUpload, AnswerUpload, UploadDies, FinishUpload, RevokeToken, ReadRevoked,
       DeleteRevoked, RevocationDies, GrowOld, TokenLapses, Reap, DeleteOne
  <2>6. ASSUME NEW s \in Submitters, ForSubmitter(s) PROVE Accept(s) \/ UNCHANGED <<submission, taken>>
    BY <2>6 DEF intake, ForSubmitter, BeginSubmission, LockOwner, LockForm, Refuse, DeleteSubmission,
       StartDeletion
  <2>7. ASSUME \/ \E f \in Forms : ForForm(f)
               \/ \E c \in Creators : ForCreator(c)
               \/ MonthPasses \/ ListStagingDrops \/ ListAttachments \/ DeletionDies
               \/ UNCHANGED vars
        PROVE  UNCHANGED <<submission, taken>>
    BY <2>7 DEF intake, vars, ForForm, EditForm, Moderate, Write, DeleteForm, StartDeletion, ForCreator,
       CountForms, CreationFails, InsertForm, MonthPasses, ListStagingDrops, ListAttachments,
       DeletionDies
  <2> QED BY <2>1, <2>2, <2>3, <2>4, <2>5, <2>6, <2>7 DEF Next
<1> QED BY <1>1, DeletionTyped DEF RecordsTyped

-----------------------------------------------------------------------------
(* The theorems.                                                           *)

IntakeInv == StagingTyped /\ RecordsTyped /\ CoreInv

LEMMA IntakeInvariant == Spec => []IntakeInv
<1>1. Init => IntakeInv
  <2> SUFFICES ASSUME Init PROVE IntakeInv
    OBVIOUS
  <2>1. StagingTyped
    BY DEF Init, StagingTyped, DropRow, TokenRow, Upload
  <2>2. RecordsTyped
    BY DEF Init, RecordsTyped, SubmissionRow, NoDeletion, Deletion
  <2> QED BY <2>1, <2>2, CoreInit DEF IntakeInv
<1>2. IntakeInv /\ [Next]_vars => IntakeInv'
  BY StagingStep, RecordsStep, CoreStep DEF IntakeInv, CoreInv
<1> QED BY <1>1, <1>2, PTL DEF Spec

\* Every variable keeps its type, and whoever holds a form's row is in the
\* transaction that recordSubmission runs for this form, with the owner's lock.
THEOREM TypeCorrect == Spec => []TypeOK
<1>1. IntakeInv => TypeOK
  BY DEF IntakeInv, StagingTyped, RecordsTyped, CoreInv, CoreTyped, Locked, TypeOK
<1> QED BY <1>1, IntakeInvariant, PTL

\* However many submissions to an owner's forms race each other, edits and
\* deletions, the forms accept no more in a month than the plan allows.
THEOREM MonthlyCapCorrect == Spec => []MonthlyCapHolds
<1>1. IntakeInv => MonthlyCapHolds
  BY DEF IntakeInv, CoreInv, Counted
<1> QED BY <1>1, IntakeInvariant, PTL

\* However many requests create forms at once, the owner has no more of them
\* than the plan allows.
THEOREM FormLimitCorrect == Spec => []FormLimitHolds
<1>1. IntakeInv => FormLimitHolds
  BY DEF IntakeInv, CoreInv, Counted
<1> QED BY <1>1, IntakeInvariant, PTL

\* The monthly cap and the limit on forms hold together, whatever requests race
\* over the forms of one owner.
THEOREM CapsCorrect == Spec => []CapsHold
<1>1. MonthlyCapHolds /\ FormLimitHolds => CapsHold
  BY DEF CapsHold
<1> QED BY <1>1, MonthlyCapCorrect, FormLimitCorrect, PTL

\* A submission is recorded only against a form that is open at that moment, with
\* the password the visitor proved, and with files only if the form takes them:
\* no edit slips in between the checks of the locked row and the commit.
THEOREM AcceptedAsPostedCorrect == Spec => AcceptedAsPosted
<1> DEFINE Posted ==
      \A s \in Submitters :
         submission[s].state = "none" /\ submission'[s].state = "live"
         => LET f == attempt[s].form IN
            /\ IsOpen(f) /\ form[f].key = attempt[s].key
            /\ attempt[s].drop # None => form[f].files
<1>1. IntakeInv /\ [Next]_vars => Posted
  <2> SUFFICES ASSUME IntakeInv, [Next]_vars, NEW s \in Submitters,
                      submission[s].state = "none", submission'[s].state = "live"
               PROVE  /\ IsOpen(attempt[s].form) /\ form[attempt[s].form].key = attempt[s].key
                      /\ attempt[s].drop # None => form[attempt[s].form].files
    OBVIOUS
  <2> USE DEF IntakeInv
  <2>1. Accept(s)
    <3>1. ASSUME NEW x \in Submitters, Accept(x) PROVE x = s
      BY <3>1 DEF Accept, RecordsTyped
    <3>2. ASSUME NEW d \in Drops, RemoveDrop(d) PROVE FALSE
      BY <3>2 DEF RemoveDrop, RecordsTyped, SubmissionRow
    <3>3. ~FinishDeletion
      BY DEF FinishDeletion
    <3>4. submission' # submission
      OBVIOUS
    <3>5. ASSUME NEW d \in Drops, ForDrop(d) PROVE RemoveDrop(d)
      BY <3>4, <3>5 DEF intake, ForDrop, CheckForm, CreateDrop, IssueToken, BindToken, UploadFails,
         CompensateUpload, AnswerUpload, UploadDies, FinishUpload, RevokeToken, ReadRevoked,
         DeleteRevoked, RevocationDies, GrowOld, TokenLapses, Reap, DeleteOne
    <3>6. ASSUME NEW x \in Submitters, ForSubmitter(x) PROVE Accept(x)
      BY <3>4, <3>6 DEF intake, ForSubmitter, BeginSubmission, LockOwner, LockForm, Refuse,
         DeleteSubmission, StartDeletion
    <3>7. ~ \/ \E f \in Forms : ForForm(f)
            \/ \E c \in Creators : ForCreator(c)
            \/ MonthPasses \/ ListStagingDrops \/ ListAttachments \/ DeletionDies
            \/ UNCHANGED vars
      BY <3>4 DEF intake, vars, ForForm, EditForm, Moderate, Write, DeleteForm, StartDeletion,
         ForCreator, CountForms, CreationFails, InsertForm, MonthPasses, ListStagingDrops,
         ListAttachments, DeletionDies
    <3> QED BY <3>1, <3>2, <3>3, <3>5, <3>6, <3>7 DEF Next
  <2>2. attempt[s].stage = "form" /\ IsOpen(attempt[s].form)
    BY <2>1 DEF Accept
  <2> QED BY <2>2 DEF CoreInv, Locked
<1> QED BY <1>1, IntakeInvariant, PTL DEF Spec, AcceptedAsPosted

-----------------------------------------------------------------------------
(* Attachments: used once, and discarded only with their submission.       *)

\* An upload that reached a visitor is answered for good; one a submission took
\* has neither a token nor the mark of the staging drops any more; a revocation
\* that goes on to delete has seen that nobody took it.
UploadFits(d) ==
    /\ d \in held \/ revocation[d] # "idle" => upload[d].stage = "done" /\ d \in held
    /\ drop[d].form # None => upload[d].stage \in {"bound", "failing", "done"}
    /\ taken[d] # None =>
          /\ d \in held /\ token[d].state = "gone" /\ token[d].form # None
          /\ drop[d].form = None /\ drop[d].complete
          /\ attempt[taken[d]].stage = "done"
    /\ revocation[d] \in {"revoked", "deleting"} => token[d].state = "gone"
    /\ revocation[d] = "deleting" => taken[d] = None

SubmissionFits(s) ==
    /\ submission[s].drop # None => taken[submission[s].drop] = s
    /\ attempt[s].drop # None => attempt[s].drop \in held

\* What a deletion will claim was taken by a submission that goes, or will go
\* with the form if a submission still takes it.
DeletionFits ==
    /\ deletion.stage = "listed" => deletion.act # "submission" /\ deletion.form # None
    /\ \A d \in deletion.attached : taken[d] # None /\ taken[d] \in condemned
    /\ \A d \in deletion.drops :
          IF taken[d] # None THEN taken[d] \in condemned
          ELSE deletion.act # "submission" /\ drop[d].form # None /\ drop[d].form = deletion.form

AttachmentsFit ==
    /\ \A d \in Drops : UploadFits(d)
    /\ \A s \in Submitters : SubmissionFits(s)
    /\ DeletionFits

IntakeTyped == StagingTyped /\ RecordsTyped /\ CoreTyped

\* If nothing that the submissions and the deletion look at changes, they still
\* fit.
LEMMA OthersFit ==
    ASSUME IntakeTyped, AttachmentsFit, NEW d \in Drops,
           UNCHANGED <<taken, attempt, submission, deletion, condemned>>, held \subseteq held',
           \A x \in Drops \ {d} :
              /\ UNCHANGED <<upload[x], token[x], revocation[x]>> /\ (x \in held') = (x \in held)
              /\ drop'[x].form = drop[x].form /\ drop'[x].complete = drop[x].complete,
           drop'[d].form = drop[d].form \/ drop[d].form = None,
           UploadFits(d)'
    PROVE  AttachmentsFit'
<1>1. \A x \in Drops : UploadFits(x)'
  <2> TAKE x \in Drops
  <2>1. CASE x = d
    BY <2>1
  <2>2. CASE x # d
    BY <2>2 DEF UploadFits, AttachmentsFit
  <2> QED BY <2>1, <2>2
<1>2. \A s \in Submitters : SubmissionFits(s)'
  BY DEF AttachmentsFit, SubmissionFits
<1>3. DeletionFits'
  <2>1. deletion.drops \subseteq Drops
    BY DEF IntakeTyped, RecordsTyped, Deletion
  <2> QED BY <2>1 DEF AttachmentsFit, DeletionFits
<1> QED BY <1>1, <1>2, <1>3 DEF AttachmentsFit

\* The steps about one attachment leave all of them fit.
LEMMA DropStepsFit ==
    ASSUME IntakeTyped, AttachmentsFit, NEW d \in Drops, ForDrop(d)
    PROVE  AttachmentsFit'
<1>0. /\ drop \in [Drops -> DropRow] /\ token \in [Drops -> TokenRow] /\ upload \in [Drops -> Upload]
      /\ revocation \in [Drops -> {"idle", "revoked", "deleting", "done"}] /\ held \subseteq Drops
      /\ \A x \in Drops : UploadFits(x)
      /\ \A s \in Submitters : SubmissionFits(s)
      /\ taken \in [Drops -> OrNone(Submitters)] /\ deletion \in Deletion
  BY DEF IntakeTyped, StagingTyped, RecordsTyped, AttachmentsFit
<1>1. CASE \/ \E f \in Forms : CheckForm(d, f)
           \/ CreateDrop(d) \/ IssueToken(d) \/ BindToken(d) \/ UploadFails(d)
           \/ AnswerUpload(d) \/ UploadDies(d)
  <2>1. /\ UNCHANGED <<taken, attempt, submission, deletion, condemned>> /\ held \subseteq held'
        /\ \A x \in Drops \ {d} :
              /\ UNCHANGED <<upload[x], token[x], revocation[x]>> /\ (x \in held') = (x \in held)
              /\ drop'[x].form = drop[x].form /\ drop'[x].complete = drop[x].complete
    BY <1>0, <1>1 DEF CheckForm, CreateDrop, IssueToken, BindToken, UploadFails, AnswerUpload, UploadDies,
       UploadGoes, intake
  <2>2. (drop'[d].form = drop[d].form \/ drop[d].form = None) /\ UploadFits(d)'
    <3>1. UploadFits(d)
      BY <1>0
    <3>2. CASE \E f \in Forms : CheckForm(d, f)
      BY <1>0, <3>1, <3>2 DEF CheckForm, UploadFits, intake
    <3>3. CASE CreateDrop(d)
      BY <1>0, <3>1, <3>3 DEF CreateDrop, UploadGoes, UploadFits, intake, DropRow, Upload
    <3>4. CASE IssueToken(d)
      BY <1>0, <3>1, <3>4 DEF IssueToken, UploadGoes, UploadFits, intake, TokenRow, Upload
    <3>5. CASE BindToken(d)
      BY <1>0, <3>1, <3>5 DEF BindToken, UploadGoes, UploadFits, intake, DropRow, TokenRow, Upload
    <3>6. CASE UploadFails(d) \/ UploadDies(d)
      BY <1>0, <3>1, <3>6 DEF UploadFails, UploadDies, UploadGoes, UploadFits, intake, Upload
    <3>7. CASE AnswerUpload(d)
      BY <1>0, <3>1, <3>7 DEF AnswerUpload, UploadGoes, UploadFits, intake, Upload
    <3> QED BY <1>1, <3>2, <3>3, <3>4, <3>5, <3>6, <3>7
  <2> QED BY <2>1, <2>2, OthersFit
<1>2. CASE \/ CompensateUpload(d) \/ FinishUpload(d) \/ RevokeToken(d) \/ ReadRevoked(d)
           \/ DeleteRevoked(d) \/ RevocationDies(d) \/ GrowOld(d) \/ TokenLapses(d) \/ Reap(d)
  <2>1. /\ UNCHANGED <<taken, attempt, submission, deletion, condemned, held>>
        /\ \A x \in Drops \ {d} : UNCHANGED <<upload[x], token[x], revocation[x]>>
    BY <1>0, <1>2 DEF CompensateUpload, FinishUpload, RevokeToken, ReadRevoked, DeleteRevoked,
       RevocationDies, GrowOld, TokenLapses, Reap, UploadGoes, intake
  <2>0. \A x \in Drops : /\ drop'[x].form = drop[x].form
                         /\ x # d => drop'[x].complete = drop[x].complete
                         /\ drop[x].complete => drop'[x].complete
    <3>1. CASE drop' = ClaimAll({d})
      BY <1>0, <3>1 DEF ClaimAll, DropRow
    <3>2. CASE FinishUpload(d)
      BY <1>0, <3>2 DEF FinishUpload, DropRow
    <3>3. CASE GrowOld(d)
      BY <1>0, <3>3 DEF GrowOld, DropRow
    <3>4. CASE UNCHANGED drop
      BY <3>4
    <3> QED BY <1>2, <3>1, <3>2, <3>3, <3>4 DEF CompensateUpload, RevokeToken, ReadRevoked,
            DeleteRevoked, RevocationDies, TokenLapses, Reap
  <2>2. UploadFits(d)'
    <3>1. UploadFits(d)
      BY <1>0
    <3>2. CASE CompensateUpload(d)
      BY <1>0, <2>0, <2>1, <3>1, <3>2 DEF CompensateUpload, UploadGoes, UploadFits, Upload
    <3>3. CASE FinishUpload(d) \/ GrowOld(d) \/ Reap(d)
      BY <1>0, <2>0, <2>1, <3>1, <3>3 DEF FinishUpload, GrowOld, Reap, UploadFits
    <3>4. CASE RevokeToken(d)
      BY <1>0, <2>0, <2>1, <3>1, <3>4 DEF RevokeToken, UploadFits, TokenRow
    <3>5. CASE ReadRevoked(d)
      BY <1>0, <2>0, <2>1, <3>1, <3>5 DEF ReadRevoked, UploadFits
    <3>6. CASE DeleteRevoked(d) \/ RevocationDies(d)
      BY <1>0, <2>0, <2>1, <3>1, <3>6 DEF DeleteRevoked, RevocationDies, UploadFits
    <3>7. CASE TokenLapses(d)
      BY <1>0, <2>0, <2>1, <3>1, <3>7 DEF TokenLapses, UploadFits, TokenRow
    <3> QED BY <1>2, <3>2, <3>3, <3>4, <3>5, <3>6, <3>7
  <2> QED BY <2>0, <2>1, <2>2, OthersFit
<1>3. CASE RemoveDrop(d)
  <2>1. /\ UNCHANGED <<upload, held, revocation, attempt, taken, deletion, condemned>>
        /\ \A x \in Drops : drop'[x].form = drop[x].form /\ drop'[x].complete = drop[x].complete
                            /\ token'[x].form = token[x].form
                            /\ (token[x].state = "gone" => token'[x].state = "gone")
    BY <1>0, <1>3 DEF RemoveDrop, DropRow, TokenRow
  <2>2. \A x \in Drops : UploadFits(x)'
    BY <1>0, <2>1 DEF UploadFits
  <2>3. \A s \in Submitters : submission'[s].drop # None => submission'[s].drop = submission[s].drop
    BY <1>3 DEF RemoveDrop, IntakeTyped, RecordsTyped, SubmissionRow
  <2>4. \A s \in Submitters : SubmissionFits(s)'
    BY <1>0, <2>1, <2>3 DEF SubmissionFits
  <2>5. DeletionFits'
    BY <1>0, <2>1 DEF AttachmentsFit, DeletionFits, Deletion
  <2> QED BY <2>2, <2>4, <2>5 DEF AttachmentsFit
<1>4. CASE DeleteOne(d)
  <2>1. /\ UNCHANGED <<upload, held, revocation, attempt, taken, submission, token, condemned>>
        /\ \A x \in Drops : drop'[x].form = drop[x].form /\ drop'[x].complete = drop[x].complete
    BY <1>0, <1>4 DEF DeleteOne, ClaimAll, DropRow, intake
  <2>2. /\ deletion'.stage = deletion.stage /\ deletion'.act = deletion.act
        /\ deletion'.form = deletion.form /\ deletion'.attached = deletion.attached
        /\ deletion'.drops \subseteq deletion.drops
    BY <1>0, <1>4 DEF DeleteOne, Deletion
  <2>3. DeletionFits'
    BY <1>0, <2>1, <2>2 DEF AttachmentsFit, DeletionFits, Deletion
  <2> QED BY <1>0, <2>1, <2>3 DEF AttachmentsFit, UploadFits, SubmissionFits
<1> QED BY <1>1, <1>2, <1>3, <1>4 DEF ForDrop

\* The steps of a submission leave them fit: it takes a drop whose token is still
\* there, so that nobody took it before.
LEMMA SubmissionStepsFit ==
    ASSUME IntakeTyped, AttachmentsFit, NEW s \in Submitters,
           \/ \E f \in Forms, d \in OrNone(Drops) : BeginSubmission(s, f, d)
           \/ LockOwner(s) \/ LockForm(s) \/ Accept(s) \/ Refuse(s)
    PROVE  AttachmentsFit'
<1>0. /\ drop \in [Drops -> DropRow] /\ token \in [Drops -> TokenRow]
      /\ attempt \in [Submitters -> Attempt] /\ submission \in [Submitters -> SubmissionRow]
      /\ taken \in [Drops -> OrNone(Submitters)] /\ deletion \in Deletion
      /\ \A x \in Drops : UploadFits(x)
      /\ \A t \in Submitters : SubmissionFits(t)
      /\ None \notin Submitters \cup Drops \cup Forms
  BY ConstantsAssumption DEF IntakeTyped, StagingTyped, RecordsTyped, CoreTyped, AttachmentsFit
<1>1. ASSUME UNCHANGED <<staging, submission, taken, deletion, condemned>>,
             NEW row, attempt' = [attempt EXCEPT ![s] = row],
             row.drop # None => row.drop \in held,
             attempt[s].stage = "done" => row.stage = "done"
      PROVE  AttachmentsFit'
  <2>1. \A x \in Drops : UploadFits(x)'
    BY <1>0, <1>1 DEF staging, UploadFits
  <2>2. \A t \in Submitters : SubmissionFits(t)'
    BY <1>0, <1>1 DEF staging, SubmissionFits
  <2>3. DeletionFits'
    BY <1>1 DEF staging, AttachmentsFit, DeletionFits
  <2> QED BY <2>1, <2>2, <2>3 DEF AttachmentsFit
<1>2. ASSUME NEW f \in Forms, NEW d \in OrNone(Drops), BeginSubmission(s, f, d) PROVE AttachmentsFit'
  <2>1. attempt' = [attempt EXCEPT ![s] = [stage |-> "begun", form |-> f, drop |-> d,
                                           key |-> form[f].key]]
        /\ attempt[s].stage = "idle" /\ (d # None => d \in held)
        /\ UNCHANGED <<staging, submission, taken, deletion, condemned>>
    BY <1>2 DEF BeginSubmission
  <2> QED BY <1>1, <2>1
<1>3. ASSUME NEW stage \in {"owner", "form", "done"}, attempt' = [attempt EXCEPT ![s].stage = stage],
             UNCHANGED <<staging, submission, taken, deletion, condemned>>,
             attempt[s].stage = "done" => stage = "done"
      PROVE  AttachmentsFit'
  <2> DEFINE row == [attempt[s] EXCEPT !.stage = stage]
  <2>1. attempt' = [attempt EXCEPT ![s] = row]
    BY <1>0, <1>3
  <2>2. row.drop = attempt[s].drop /\ row.stage = stage
    BY <1>0 DEF Attempt
  <2> HIDE DEF row
  <2> QED BY <1>0, <1>1, <1>3, <2>1, <2>2 DEF SubmissionFits
<1>4. CASE LockOwner(s) \/ LockForm(s) \/ Refuse(s)
  <2>1. CASE LockOwner(s)
    BY <1>3, <2>1 DEF LockOwner
  <2>2. CASE LockForm(s)
    BY <1>3, <2>2 DEF LockForm
  <2>3. CASE Refuse(s)
    BY <1>3, <2>3 DEF Refuse
  <2> QED BY <1>4, <2>1, <2>2, <2>3
<1>5. CASE Accept(s)
  <2> DEFINE a == attempt[s].drop
             f == attempt[s].form
  <2>1. /\ UNCHANGED <<upload, held, revocation, deletion>>
        /\ attempt' = [attempt EXCEPT ![s].stage = "done"] /\ attempt[s].stage = "form"
        /\ submission' = [submission EXCEPT ![s] = [state |-> "live", form |-> f, drop |-> a]]
        /\ condemned' = IF deletion.act # "submission" /\ deletion.form = f THEN condemned \cup {s}
                        ELSE condemned
    BY <1>5 DEF Accept
  <2>2. \A t \in Submitters : /\ attempt'[t].drop = attempt[t].drop
                              /\ attempt[t].stage = "done" => attempt'[t].stage = "done"
    BY <1>0, <2>1 DEF Attempt
  <2>3. attempt'[s].stage = "done"
    BY <1>0, <2>1 DEF Attempt
  <2>4. CASE a = None
    <3>1. UNCHANGED <<drop, token, taken>>
      BY <1>5, <2>4 DEF Accept
    <3>2. \A x \in Drops : UploadFits(x)'
      <4> SUFFICES ASSUME NEW x \in Drops PROVE UploadFits(x)'
        OBVIOUS
      <4>1. UploadFits(x)
        BY <1>0
      <4>2. taken[x] # None => taken[x] \in Submitters
        BY <1>0
      <4> QED BY <2>1, <2>2, <3>1, <4>1, <4>2 DEF UploadFits
    <3>3. \A t \in Submitters : SubmissionFits(t)'
      BY <1>0, <2>1, <2>2, <2>4, <3>1 DEF SubmissionFits
    <3>4. DeletionFits'
      BY <2>1, <3>1 DEF AttachmentsFit, DeletionFits
    <3> QED BY <3>2, <3>3, <3>4 DEF AttachmentsFit
  <2>5. CASE a # None
    <3>1. /\ a \in Drops
          /\ token[a].state = "live" /\ token[a].form = f /\ f # None
          /\ drop[a].form = f /\ drop[a].complete
          /\ drop' = [drop EXCEPT ![a].form = None]
          /\ token' = [token EXCEPT ![a].state = "gone"]
          /\ taken' = [taken EXCEPT ![a] = s]
      BY <1>0, <1>5, <2>5 DEF Accept, Attachable, Usable, Consume, Attempt
    <3>2. taken[a] = None /\ a \in held /\ UploadFits(a) /\ revocation[a] # "deleting"
      BY <1>0, <2>5, <3>1 DEF UploadFits, SubmissionFits
    <3>3. /\ drop'[a].form = None /\ drop'[a].complete /\ token'[a].state = "gone"
          /\ token'[a].form # None /\ taken'[a] = s
      BY <1>0, <3>1 DEF DropRow, TokenRow
    <3>4. \A x \in Drops \ {a} : UNCHANGED <<drop[x], token[x], taken[x]>>
      BY <1>0, <3>1
    <3> HIDE DEF a, f
    <3>5. \A x \in Drops : UploadFits(x)'
      <4> SUFFICES ASSUME NEW x \in Drops PROVE UploadFits(x)'
        OBVIOUS
      <4>1. CASE x = a
        <5>1. /\ upload'[a] = upload[a] /\ revocation'[a] = revocation[a] /\ held' = held
          BY <2>1
        <5> QED BY <2>3, <3>2, <3>3, <4>1, <5>1 DEF UploadFits
      <4>2. CASE x # a
        <5>1. UploadFits(x) /\ (taken[x] # None => taken[x] \in Submitters)
          BY <1>0
        <5> QED BY <2>1, <2>2, <3>4, <4>2, <5>1 DEF UploadFits
      <4> QED BY <4>1, <4>2
    <3>6. \A t \in Submitters : SubmissionFits(t)'
      <4> SUFFICES ASSUME NEW t \in Submitters PROVE SubmissionFits(t)'
        OBVIOUS
      <4>1. SubmissionFits(t) /\ submission[t].drop \in OrNone(Drops)
        BY <1>0 DEF SubmissionRow
      <4>2. CASE t = s
        BY <1>0, <2>1, <2>2, <3>2, <3>3, <4>1, <4>2 DEF SubmissionFits
      <4>3. CASE t # s
        BY <1>0, <2>1, <2>2, <3>2, <3>4, <4>1, <4>3 DEF SubmissionFits
      <4> QED BY <4>2, <4>3
    <3>7. DeletionFits'
      <4>1. deletion.drops \subseteq Drops /\ deletion.attached \subseteq Drops
        BY <1>0 DEF Deletion
      <4>2. condemned \subseteq condemned' /\ deletion' = deletion
        BY <2>1
      <4>3. ASSUME NEW x \in deletion.drops
            PROVE  IF taken'[x] # None THEN taken'[x] \in condemned'
                   ELSE deletion.act # "submission" /\ drop'[x].form # None /\ drop'[x].form = deletion.form
        <5>1. CASE x = a
          BY <1>0, <2>1, <3>1, <3>2, <3>3, <5>1 DEF AttachmentsFit, DeletionFits
        <5>2. CASE x # a
          BY <3>4, <4>1, <4>2, <5>2 DEF AttachmentsFit, DeletionFits
        <5> QED BY <5>1, <5>2
      <4>4. \A x \in deletion.attached : taken'[x] # None /\ taken'[x] \in condemned'
        BY <3>2, <3>4, <4>1, <4>2 DEF AttachmentsFit, DeletionFits
      <4> QED BY <4>2, <4>3, <4>4 DEF AttachmentsFit, DeletionFits
    <3> QED BY <3>5, <3>6, <3>7 DEF AttachmentsFit
  <2> QED BY <2>4, <2>5
<1> QED BY <1>2, <1>4, <1>5

\* So do the owner's: what a deletion lists was taken by a submission it condemns,
\* or is a staging drop of the form it deletes.
LEMMA DeletionStepsFit ==
    ASSUME IntakeTyped, AttachmentsFit,
           \/ \E s \in Submitters : DeleteSubmission(s)
           \/ \E f \in Forms : DeleteForm(f)
           \/ ListStagingDrops \/ ListAttachments \/ FinishDeletion \/ DeletionDies
    PROVE  AttachmentsFit'
<1>0. /\ drop \in [Drops -> DropRow] /\ token \in [Drops -> TokenRow]
      /\ submission \in [Submitters -> SubmissionRow]
      /\ taken \in [Drops -> OrNone(Submitters)] /\ deletion \in Deletion
      /\ \A x \in Drops : UploadFits(x)
      /\ \A t \in Submitters : SubmissionFits(t)
      /\ None \notin Submitters \cup Drops \cup Forms
  BY ConstantsAssumption DEF IntakeTyped, StagingTyped, RecordsTyped, AttachmentsFit
<1>1. ASSUME UNCHANGED <<staging, intake>>, DeletionFits' PROVE AttachmentsFit'
  <2>1. \A x \in Drops : UploadFits(x)'
    BY <1>0, <1>1 DEF staging, intake, UploadFits
  <2>2. \A t \in Submitters : SubmissionFits(t)'
    BY <1>0, <1>1 DEF staging, intake, SubmissionFits
  <2> QED BY <1>1, <2>1, <2>2 DEF AttachmentsFit
<1>2. ASSUME NEW act \in {"form", "hard", "submission"}, NEW f, NEW S \in SUBSET Submitters,
             StartDeletion(act, f, S), act = "form" => f \in Forms
      PROVE  AttachmentsFit'
  <2> DEFINE at == {d \in Drops : \E s \in S : submission[s].drop = d}
  <2>1. /\ deletion'.stage = (IF act = "form" THEN "listed" ELSE "attached")
        /\ deletion'.act = act /\ deletion'.form = f /\ deletion'.attached = at
        /\ deletion'.drops = (IF act = "form" THEN {} ELSE at)
        /\ condemned' = condemned \cup S
        /\ form[f].state = "live"
        /\ UNCHANGED <<staging, intake>>
    BY <1>2 DEF StartDeletion
  <2>2. ASSUME NEW d \in at PROVE taken'[d] # None /\ taken'[d] \in condemned'
    <3>1. PICK s \in S : submission[s].drop = d
      OBVIOUS
    <3>2. taken[d] = s
      BY <1>0, <3>1 DEF SubmissionFits
    <3> QED BY <1>0, <2>1, <3>2 DEF intake
  <2>3. act = "form" => f # None
    BY <1>0, <1>2
  <2> HIDE DEF at
  <2>4. DeletionFits'
    BY <2>1, <2>2, <2>3 DEF DeletionFits
  <2> QED BY <1>1, <2>1, <2>4
<1>3. CASE \E s \in Submitters : DeleteSubmission(s)
  BY <1>2, <1>3 DEF DeleteSubmission
<1>4. CASE \E f \in Forms : DeleteForm(f)
  <2>1. PICK f \in Forms, act \in {"form", "hard"} :
           StartDeletion(act, f, {s \in Submitters : submission[s].state = "live" /\ submission[s].form = f})
    BY <1>4 DEF DeleteForm
  <2> QED BY <1>2, <2>1
<1>5. CASE ListStagingDrops
  <2>1. /\ deletion'.stage = "staging" /\ deletion'.act = deletion.act
        /\ deletion'.form = deletion.form /\ deletion'.attached = deletion.attached
        /\ \A d \in deletion'.drops : d \in Drops /\ drop[d].form = deletion.form
        /\ deletion.stage = "listed"
        /\ UNCHANGED <<staging, intake, condemned>>
    BY <1>0, <1>5 DEF ListStagingDrops, Deletion
  <2>2. \A d \in deletion'.drops : taken[d] = None
    BY <1>0, <2>1 DEF AttachmentsFit, DeletionFits, UploadFits
  <2>3. DeletionFits'
    BY <2>1, <2>2 DEF AttachmentsFit, DeletionFits, staging, intake
  <2> QED BY <1>1, <2>1, <2>3
<1>6. CASE ListAttachments
  <2>1. /\ deletion'.stage = "attached" /\ deletion'.attached = deletion.attached
        /\ deletion'.drops = deletion.attached
        /\ UNCHANGED <<staging, intake, condemned>>
    BY <1>0, <1>6 DEF ListAttachments, Deletion
  <2>2. DeletionFits'
    BY <2>1 DEF AttachmentsFit, DeletionFits, staging, intake
  <2> QED BY <1>1, <2>1, <2>2
<1>7. CASE FinishDeletion
  <2>1. /\ UNCHANGED <<drop, upload, held, revocation, attempt, taken, condemned>>
        /\ deletion' = NoDeletion
        /\ \A x \in Drops : token'[x].form = token[x].form
                            /\ (token[x].state = "gone" => token'[x].state = "gone")
    BY <1>0, <1>7 DEF FinishDeletion, TokenRow
  <2>2. \A s \in Submitters : submission'[s].drop = submission[s].drop
    BY <1>0, <1>7 DEF FinishDeletion, SubmissionRow
  <2>3. \A x \in Drops : UploadFits(x)'
    BY <1>0, <2>1 DEF UploadFits
  <2>4. \A t \in Submitters : SubmissionFits(t)'
    BY <1>0, <2>1, <2>2 DEF SubmissionFits
  <2>5. DeletionFits'
    BY <2>1 DEF DeletionFits, NoDeletion
  <2> QED BY <2>3, <2>4, <2>5 DEF AttachmentsFit
<1>8. CASE DeletionDies
  <2>1. deletion' = NoDeletion /\ UNCHANGED <<staging, intake>>
    BY <1>8 DEF DeletionDies
  <2> QED BY <1>1, <2>1 DEF DeletionFits, NoDeletion
<1> QED BY <1>3, <1>4, <1>5, <1>6, <1>7, <1>8

\* Every step is one of these, or leaves all of this alone.
LEMMA AttachmentsStep ==
    ASSUME IntakeTyped, AttachmentsFit, [Next]_vars
    PROVE  AttachmentsFit'
<1>1. ASSUME UNCHANGED <<staging, intake, deletion, condemned>> PROVE AttachmentsFit'
  BY <1>1 DEF staging, intake, AttachmentsFit, UploadFits, SubmissionFits, DeletionFits
<1>2. ASSUME NEW c \in Creators, ForCreator(c) PROVE AttachmentsFit'
  <2>1. UNCHANGED <<staging, attempt, submission, taken, deletion, condemned>>
    BY <1>2 DEF ForCreator, CountForms, CreationFails, InsertForm
  <2> QED BY <2>1 DEF staging, AttachmentsFit, UploadFits, SubmissionFits, DeletionFits
<1>3. ASSUME NEW f \in Forms, ForForm(f) PROVE AttachmentsFit'
  <2>1. DeleteForm(f) \/ UNCHANGED <<staging, intake, deletion, condemned>>
    BY <1>3 DEF ForForm, EditForm, Moderate, Write
  <2> QED BY <1>1, <2>1, DeletionStepsFit
<1>4. CASE MonthPasses \/ UNCHANGED vars
  BY <1>1, <1>4 DEF MonthPasses, vars
<1>5. ASSUME NEW s \in Submitters, ForSubmitter(s) PROVE AttachmentsFit'
  BY <1>5, SubmissionStepsFit, DeletionStepsFit DEF ForSubmitter
<1> QED BY <1>2, <1>3, <1>4, <1>5, DropStepsFit, DeletionStepsFit DEF Next

LEMMA AttachmentInvariant == Spec => [](IntakeInv /\ AttachmentsFit)
<1>1. Init => AttachmentsFit
  BY ConstantsAssumption DEF Init, AttachmentsFit, UploadFits, SubmissionFits, DeletionFits, NoDeletion
<1>2. IntakeInv /\ AttachmentsFit /\ [Next]_vars => AttachmentsFit'
  BY AttachmentsStep DEF IntakeInv, CoreInv, IntakeTyped
<1> QED BY <1>1, <1>2, IntakeInvariant, PTL DEF Spec

-----------------------------------------------------------------------------
(* What becomes of an attachment, step by step.                            *)

\* A request for a token that is over stays over, and nothing brings its drop or
\* its token back.
LEMMA NothingReturns ==
    ASSUME IntakeTyped, [Next]_vars, NEW d \in Drops, upload[d].stage = "done"
    PROVE  /\ upload'[d].stage = "done"
           /\ drop'[d].state = "live" => drop[d].state = "live"
           /\ Usable(d)' => Usable(d)
<1>0. /\ drop \in [Drops -> DropRow] /\ token \in [Drops -> TokenRow] /\ upload \in [Drops -> Upload]
  BY DEF IntakeTyped, StagingTyped
<1> DEFINE Kept == /\ upload'[d].stage = "done"
                   /\ drop'[d].state = "live" => drop[d].state = "live"
                   /\ Usable(d)' => Usable(d)
<1>1. CASE UNCHANGED <<upload, drop, token>>
  BY <1>1 DEF Usable
<1>2. ASSUME NEW x \in Drops, ForDrop(x) PROVE Kept
  <2>1. CASE x # d
    <3>1. UNCHANGED <<upload[d], token[d]>> /\ drop'[d] = drop[d]
      BY <1>0, <1>2, <2>1 DEF ForDrop, CheckForm, CreateDrop, IssueToken, BindToken, UploadFails,
         CompensateUpload, AnswerUpload, UploadDies, FinishUpload, RevokeToken, ReadRevoked,
         DeleteRevoked, RevocationDies, GrowOld, TokenLapses, Reap, RemoveDrop, DeleteOne, ClaimAll,
         UploadGoes
    <3> QED BY <3>1 DEF Usable
  <2>2. CASE x = d
    <3>1. CASE UploadDies(d) \/ FinishUpload(d) \/ RevokeToken(d) \/ ReadRevoked(d) \/ RevocationDies(d)
      BY <1>0, <3>1 DEF UploadDies, FinishUpload, RevokeToken, ReadRevoked, RevocationDies, UploadGoes,
         Usable, DropRow, TokenRow
    <3>2. CASE GrowOld(d)
      BY <1>0, <3>2 DEF GrowOld, Usable, DropRow
    <3>3. CASE TokenLapses(d)
      BY <1>0, <3>3 DEF TokenLapses, Usable, TokenRow
    <3>4. CASE RemoveDrop(d)
      BY <1>0, <3>4 DEF RemoveDrop, Usable, DropRow, TokenRow
    <3>5. CASE DeleteRevoked(d) \/ Reap(d) \/ DeleteOne(d)
      <4>1. UNCHANGED <<upload, token>> /\ (drop' = ClaimAll({d}) \/ UNCHANGED drop)
        BY <3>5 DEF DeleteRevoked, Reap, DeleteOne
      <4> QED BY <1>0, <4>1 DEF ClaimAll, Usable, DropRow
    <3> QED BY <1>2, <2>2, <3>1, <3>2, <3>3, <3>4, <3>5 DEF ForDrop, CheckForm, CreateDrop,
            IssueToken, BindToken, UploadFails, CompensateUpload, AnswerUpload
  <2> QED BY <2>1, <2>2
<1>3. ASSUME NEW s \in Submitters, Accept(s) PROVE Kept
  <2>1. UNCHANGED upload /\ (UNCHANGED <<drop, token>> \/ Consume(attempt[s].drop))
    BY <1>3 DEF Accept
  <2>2. CASE Consume(attempt[s].drop)
    BY <1>0, <2>1, <2>2 DEF Consume, Usable, DropRow, TokenRow
  <2> QED BY <1>1, <2>1, <2>2
<1>4. CASE FinishDeletion
  BY <1>0, <1>4 DEF FinishDeletion, Usable, TokenRow
<1>5. ASSUME NEW s \in Submitters, ForSubmitter(s) PROVE Accept(s) \/ UNCHANGED <<upload, drop, token>>
  BY <1>5 DEF staging, ForSubmitter, BeginSubmission, LockOwner, LockForm, Refuse, DeleteSubmission,
     StartDeletion
<1>6. ASSUME \/ \E f \in Forms : ForForm(f)
             \/ \E c \in Creators : ForCreator(c)
             \/ MonthPasses \/ ListStagingDrops \/ ListAttachments \/ DeletionDies
             \/ UNCHANGED vars
      PROVE  UNCHANGED <<upload, drop, token>>
  BY <1>6 DEF staging, vars, ForForm, EditForm, Moderate, Write, DeleteForm, StartDeletion, ForCreator,
     CountForms, CreationFails, InsertForm, MonthPasses, ListStagingDrops, ListAttachments, DeletionDies
<1> QED BY <1>1, <1>2, <1>3, <1>4, <1>5, <1>6 DEF Next

\* Only a deletion claims a drop that a submission took, and only one that
\* condemned the submission.
LEMMA TakenIsClaimedWithCause ==
    ASSUME IntakeTyped, AttachmentsFit, [Next]_vars, NEW d \in Drops,
           taken[d] # None, drop[d].state = "live", drop'[d].state # "live"
    PROVE  DeleteOne(d) /\ taken[d] \in condemned
<1>0. /\ drop \in [Drops -> DropRow]
      /\ UploadFits(d) /\ deletion.drops \subseteq Drops
  BY DEF IntakeTyped, StagingTyped, RecordsTyped, Deletion, AttachmentsFit
<1>1. ASSUME NEW x \in Drops, ForDrop(x) PROVE DeleteOne(d)
  <2>1. CASE x # d
    <3>1. drop'[d] = drop[d]
      BY <1>0, <1>1, <2>1 DEF ForDrop, CheckForm, CreateDrop, IssueToken, BindToken, UploadFails,
         CompensateUpload, AnswerUpload, UploadDies, FinishUpload, RevokeToken, ReadRevoked,
         DeleteRevoked, RevocationDies, GrowOld, TokenLapses, Reap, RemoveDrop, DeleteOne, ClaimAll
    <3> QED BY <3>1
  <2>2. CASE x = d
    <3>1. ~CompensateUpload(d) /\ ~DeleteRevoked(d) /\ ~Reap(d) /\ ~RemoveDrop(d)
      BY <1>0 DEF UploadFits, CompensateUpload, DeleteRevoked, Reap, Reapable, RemoveDrop
    <3>2. ~ \/ CreateDrop(d) \/ BindToken(d) \/ FinishUpload(d) \/ GrowOld(d)
      BY <1>0 DEF CreateDrop, BindToken, FinishUpload, GrowOld, DropRow
    <3>3. drop' # drop
      OBVIOUS
    <3> QED BY <1>1, <2>2, <3>1, <3>2, <3>3 DEF ForDrop, CheckForm, IssueToken, UploadFails,
            AnswerUpload, UploadDies, RevokeToken, ReadRevoked, RevocationDies, TokenLapses
  <2> QED BY <2>1, <2>2
<1>2. ASSUME NEW s \in Submitters, ForSubmitter(s) PROVE FALSE
  <2>1. UNCHANGED drop \/ drop' = [drop EXCEPT ![attempt[s].drop].form = None]
    BY <1>2 DEF staging, ForSubmitter, BeginSubmission, LockOwner, LockForm, Accept, Consume, Refuse,
       DeleteSubmission, StartDeletion
  <2> QED BY <1>0, <2>1 DEF DropRow
<1>3. ~ \/ \E f \in Forms : ForForm(f)
        \/ \E c \in Creators : ForCreator(c)
        \/ MonthPasses \/ ListStagingDrops \/ ListAttachments \/ FinishDeletion \/ DeletionDies
        \/ UNCHANGED vars
  BY DEF staging, vars, ForForm, EditForm, Moderate, Write, DeleteForm, StartDeletion, ForCreator,
     CountForms, CreationFails, InsertForm, MonthPasses, ListStagingDrops, ListAttachments,
     FinishDeletion, DeletionDies
<1>4. DeleteOne(d)
  BY <1>1, <1>2, <1>3 DEF Next
<1>5. taken[d] \in condemned
  BY <1>4 DEF DeleteOne, AttachmentsFit, DeletionFits
<1> QED BY <1>4, <1>5

\* However the upload, its revocation, the cleanup and the submissions of a form
\* interleave, nothing but the deletion of a submission or its form claims the
\* drop that a submission took.
THEOREM NeverReapedCorrect == Spec => AcceptedNeverReaped
<1> DEFINE Kept == \A d \in Drops : drop[d].state = "live" /\ drop'[d].state = "claimed"
                                    => Attached(d) \subseteq condemned
<1>1. IntakeInv /\ AttachmentsFit /\ [Next]_vars => Kept
  <2> SUFFICES ASSUME IntakeInv, AttachmentsFit, [Next]_vars, NEW d \in Drops,
                      drop[d].state = "live", drop'[d].state = "claimed", NEW s \in Attached(d)
               PROVE  s \in condemned
    OBVIOUS
  <2>1. IntakeTyped
    BY DEF IntakeTyped, IntakeInv, CoreInv
  <2>2. s \in Submitters /\ submission[s].drop = d
    BY DEF Attached
  <2>3. taken[d] = s /\ s # None
    BY <2>2, ConstantsAssumption DEF AttachmentsFit, SubmissionFits
  <2> QED BY <2>1, <2>3, TakenIsClaimedWithCause
<1> QED BY <1>1, AttachmentInvariant, PTL DEF Spec, AcceptedNeverReaped

-----------------------------------------------------------------------------
(* Every step is one that StagedAttachment allows, or none.                *)

\* The phases, one by one.
LEMMA Phases ==
    ASSUME NEW d \in Drops
    PROVE  /\ Phase(d) = "used" <=> taken[d] # None /\ drop[d].state = "live"
           /\ Phase(d) = "discarded" <=> taken[d] # None /\ drop[d].state # "live"
           /\ Phase(d) = "absent" <=> taken[d] = None /\ d \notin held /\ upload[d].stage # "done"
           /\ Phase(d) = "open" <=> taken[d] = None /\ d \in held /\ Usable(d) /\ drop[d].state = "live"
           /\ Phase(d) \in {"used", "discarded", "absent", "open", "abandoned"}
<1>1. CASE taken[d] # None /\ drop[d].state = "live"
  BY <1>1 DEF Phase
<1>2. CASE taken[d] # None /\ drop[d].state # "live"
  BY <1>2 DEF Phase
<1>3. CASE taken[d] = None /\ d \notin held /\ upload[d].stage # "done"
  BY <1>3 DEF Phase
<1>4. CASE taken[d] = None /\ d \in held /\ Usable(d) /\ drop[d].state = "live"
  BY <1>4 DEF Phase
<1>5. CASE /\ taken[d] = None /\ ~(d \notin held /\ upload[d].stage # "done")
           /\ ~(d \in held /\ Usable(d) /\ drop[d].state = "live")
  <2>1. Phase(d) = "abandoned"
    BY <1>5 DEF Phase
  <2> QED BY <1>5, <2>1
<1> QED BY <1>1, <1>2, <1>3, <1>4, <1>5

LEMMA PhasesNext ==
    ASSUME NEW d \in Drops
    PROVE  /\ Phase(d)' = "used" <=> taken'[d] # None /\ drop'[d].state = "live"
           /\ Phase(d)' = "discarded" <=> taken'[d] # None /\ drop'[d].state # "live"
           /\ Phase(d)' = "absent" <=> taken'[d] = None /\ d \notin held' /\ upload'[d].stage # "done"
           /\ Phase(d)' = "open" <=> taken'[d] = None /\ d \in held' /\ Usable(d)' /\ drop'[d].state = "live"
           /\ Phase(d)' \in {"used", "discarded", "absent", "open", "abandoned"}
<1>1. CASE taken'[d] # None /\ drop'[d].state = "live"
  BY <1>1 DEF Phase
<1>2. CASE taken'[d] # None /\ drop'[d].state # "live"
  BY <1>2 DEF Phase
<1>3. CASE taken'[d] = None /\ d \notin held' /\ upload'[d].stage # "done"
  BY <1>3 DEF Phase
<1>4. CASE taken'[d] = None /\ d \in held' /\ Usable(d)' /\ drop'[d].state = "live"
  BY <1>4 DEF Phase
<1>5. CASE /\ taken'[d] = None /\ ~(d \notin held' /\ upload'[d].stage # "done")
           /\ ~(d \in held' /\ Usable(d)' /\ drop'[d].state = "live")
  <2>1. Phase(d)' = "abandoned"
    BY <1>5 DEF Phase
  <2> QED BY <1>5, <2>1
<1> QED BY <1>1, <1>2, <1>3, <1>4, <1>5

\* A drop that no submission takes now, and whose token no answer carries now,
\* stays in its phase, is abandoned, or is discarded by a deletion.
LEMMA QuietPhase ==
    ASSUME IntakeTyped, AttachmentsFit, [Next]_vars, NEW d \in Drops,
           taken'[d] = taken[d], (d \in held') = (d \in held)
    PROVE  \/ Phase(d)' = Phase(d)
           \/ Phase(d) \in {"absent", "open"} /\ Phase(d)' = "abandoned"
           \/ /\ Phase(d) = "used" /\ Phase(d)' = "discarded"
              /\ DeleteOne(d) /\ taken[d] \in condemned
<1>1. d \in held => upload[d].stage = "done"
  BY DEF AttachmentsFit, UploadFits
<1>2. upload[d].stage = "done" => /\ upload'[d].stage = "done"
                                  /\ drop'[d].state = "live" => drop[d].state = "live"
                                  /\ Usable(d)' => Usable(d)
  BY NothingReturns
<1>3. taken[d] # None => d \in held
  BY DEF AttachmentsFit, UploadFits
<1>4. CASE taken[d] # None
  <2>1. CASE drop[d].state = "live" /\ drop'[d].state # "live"
    BY <1>4, <2>1, TakenIsClaimedWithCause, Phases, PhasesNext
  <2>2. CASE drop[d].state # "live" \/ drop'[d].state = "live"
    BY <1>1, <1>2, <1>3, <1>4, <2>2, Phases, PhasesNext
  <2> QED BY <2>1, <2>2
<1>5. CASE taken[d] = None
  BY <1>1, <1>2, <1>5, Phases, PhasesNext
<1> QED BY <1>4, <1>5

LEMMA PromiseStep ==
    ASSUME IntakeTyped, AttachmentsFit, [Next]_vars
    PROVE  [Promise!Next]_(Promise!attachment)
<1> DEFINE phase == [d \in Drops |-> Phase(d)]
<1>0. /\ taken \in [Drops -> OrNone(Submitters)] /\ None \notin Submitters
      /\ phase' = [d \in Drops |-> Phase(d)']
  BY ConstantsAssumption DEF IntakeTyped, RecordsTyped
<1>1. ASSUME NEW s \in Submitters, Accept(s), attempt[s].drop # None
      PROVE  Promise!Next
  <2>0. PICK a \in Drops : a = attempt[s].drop
    BY <1>1 DEF IntakeTyped, CoreTyped, Attempt
  <2>1. /\ Usable(a) /\ drop[a].state = "live"
        /\ taken' = [taken EXCEPT ![a] = s]
        /\ drop' = [drop EXCEPT ![a].form = None]
        /\ UNCHANGED held
        /\ condemned' \in {condemned, condemned \cup {s}}
        /\ attempt[s].stage = "form"
    BY <1>1, <2>0 DEF Accept, Attachable, Consume
  <2>2. a \in held /\ taken[a] = None
    BY <1>1, <2>0, <2>1 DEF AttachmentsFit, SubmissionFits, UploadFits, Usable
  <2>3. \A b \in Drops : taken[b] # s
    BY <1>0, <2>1 DEF AttachmentsFit, UploadFits
  <2>4. taken'[a] = s /\ drop'[a].state = "live"
    BY <1>0, <2>1 DEF IntakeTyped, StagingTyped, DropRow
  <2>5. Phase(a) = "open" /\ Phase(a)' = "used"
    <3>1. Phase(a) = "open"
      BY <2>1, <2>2, Phases
    <3>2. taken'[a] # None
      BY <1>0, <2>4
    <3>3. Phase(a)' = "used"
      BY <2>1, <2>4, <3>2, PhasesNext
    <3> QED BY <3>1, <3>3
  <2>6. ASSUME NEW d \in Drops, d # a PROVE Phase(d)' = Phase(d)
    <3>1. taken'[d] = taken[d] /\ (d \in held') = (d \in held)
      BY <1>0, <2>1, <2>6
    <3>2. /\ UNCHANGED <<upload[d], token[d]>> /\ drop'[d].state = drop[d].state
      BY <1>1, <2>0, <2>1, <2>6 DEF Accept, Consume, IntakeTyped, StagingTyped, DropRow
    <3> QED BY <3>1, <3>2 DEF Phase, Usable
  <2>7. phase' = [phase EXCEPT ![a] = "used"]
    <3>1. phase' = [d \in Drops |-> IF d = a THEN "used" ELSE phase[d]]
      BY <1>0, <2>5, <2>6
    <3> QED BY <3>1
  <2>8. Promise!Use(a, s)
    BY <1>0, <2>1, <2>3, <2>5, <2>7 DEF Promise!Use
  <2> QED BY <2>1, <2>8 DEF Promise!Next
<1>2. ASSUME NEW d \in Drops, AnswerUpload(d) PROVE [Promise!Next]_(Promise!attachment)
  <2>1. /\ upload[d].stage = "bound" /\ held' = held \cup {d}
        /\ UNCHANGED <<drop, token, taken, condemned>>
        /\ \A x \in Drops \ {d} : UNCHANGED upload[x]
    BY <1>2 DEF AnswerUpload, UploadGoes, intake, IntakeTyped, StagingTyped
  <2>2. upload'[d].stage = "done"
    BY <1>2 DEF AnswerUpload, UploadGoes, IntakeTyped, StagingTyped, Upload
  <2>3. d \notin held /\ taken[d] = None
    BY <2>1 DEF AttachmentsFit, UploadFits
  <2>4. Phase(d) = "absent" /\ Phase(d)' \in {"open", "abandoned"}
    BY <2>1, <2>2, <2>3, Phases, PhasesNext
  <2>5. ASSUME NEW x \in Drops, x # d PROVE Phase(x)' = Phase(x)
    BY <2>1, <2>5 DEF Phase, Usable
  <2>6. CASE Phase(d)' = "open"
    <3>1. phase' = [phase EXCEPT ![d] = "open"]
      BY <1>0, <2>5, <2>6
    <3>2. Promise!Stage(d)
      BY <2>1, <2>4, <3>1 DEF Promise!Stage
    <3> QED BY <3>2 DEF Promise!Next
  <2>7. CASE Phase(d)' = "abandoned"
    <3>1. phase' = [x \in Drops |-> IF x \in {d} THEN "abandoned" ELSE phase[x]]
      BY <1>0, <2>5, <2>7
    <3>2. Promise!Abandon
      BY <2>1, <2>4, <3>1 DEF Promise!Abandon
    <3> QED BY <3>2 DEF Promise!Next
  <2> QED BY <2>4, <2>6, <2>7
<1>3. ASSUME UNCHANGED <<taken, held>>, NEW S \in SUBSET Submitters, condemned' = condemned \cup S,
             UNCHANGED <<upload, token>>, \A d \in Drops : drop'[d].state = drop[d].state
      PROVE  Promise!Next
  <2>1. \A d \in Drops : Phase(d)' = Phase(d)
    BY <1>3 DEF Phase, Usable
  <2>2. phase' = phase
    BY <1>0, <2>1
  <2>3. Promise!Unwant
    BY <1>3, <2>2 DEF Promise!Unwant
  <2> QED BY <2>3 DEF Promise!Next
<1>4. ASSUME NEW s \in Submitters, Accept(s), attempt[s].drop = None PROVE Promise!Next
  <2>1. UNCHANGED <<taken, held, upload, token, drop>>
        /\ (condemned' = condemned \cup {} \/ condemned' = condemned \cup {s})
    BY <1>4 DEF Accept
  <2>2. \E S \in SUBSET Submitters : condemned' = condemned \cup S
    BY <2>1
  <2> QED BY <1>3, <2>1, <2>2
<1>5. ASSUME NEW act, NEW f, NEW S \in SUBSET Submitters, StartDeletion(act, f, S) PROVE Promise!Next
  BY <1>3, <1>5 DEF StartDeletion, staging, intake
<1>6. ASSUME UNCHANGED <<taken, held, condemned>> PROVE [Promise!Next]_(Promise!attachment)
  <2>1. CASE \E d \in Drops : Phase(d) = "used" /\ Phase(d)' = "discarded"
    <3>1. PICK d \in Drops : Phase(d) = "used" /\ Phase(d)' = "discarded"
      BY <2>1
    <3>2. DeleteOne(d) /\ taken[d] \in condemned
      BY <1>6, <3>1, QuietPhase
    <3>3. ASSUME NEW x \in Drops, x # d PROVE Phase(x)' = Phase(x)
      <4>1. drop'[x] = drop[x] /\ UNCHANGED <<upload, token>>
        BY <3>2, <3>3 DEF DeleteOne, ClaimAll, IntakeTyped, StagingTyped
      <4> QED BY <1>6, <4>1 DEF Phase, Usable
    <3>4. phase' = [phase EXCEPT ![d] = "discarded"]
      BY <1>0, <3>1, <3>3
    <3>5. Promise!Discard(d)
      BY <1>6, <3>1, <3>2, <3>4 DEF Promise!Discard
    <3> QED BY <3>5 DEF Promise!Next
  <2>2. CASE \A d \in Drops : ~(Phase(d) = "used" /\ Phase(d)' = "discarded")
    <3> DEFINE A == {d \in Drops : Phase(d)' # Phase(d)}
    <3>1. \A d \in A : Phase(d) \in {"absent", "open"} /\ Phase(d)' = "abandoned"
      BY <1>6, <2>2, QuietPhase
    <3>2. phase' = [d \in Drops |-> IF d \in A THEN "abandoned" ELSE phase[d]]
      BY <1>0, <3>1
    <3>3. A \in SUBSET Drops /\ \A d \in A : phase[d] \in {"absent", "open"}
      BY <3>1
    <3> HIDE DEF A
    <3>4. Promise!Abandon
      BY <1>6, <3>2, <3>3 DEF Promise!Abandon
    <3> QED BY <3>4 DEF Promise!Next
  <2> QED BY <2>1, <2>2
<1>7. ASSUME NEW d \in Drops, ForDrop(d) PROVE AnswerUpload(d) \/ UNCHANGED <<taken, held, condemned>>
  BY <1>7 DEF intake, ForDrop, CheckForm, CreateDrop, IssueToken, BindToken, UploadFails,
     CompensateUpload, UploadDies, FinishUpload, RevokeToken, ReadRevoked, DeleteRevoked,
     RevocationDies, GrowOld, TokenLapses, Reap, RemoveDrop, DeleteOne
<1>8. ASSUME NEW s \in Submitters, ForSubmitter(s)
      PROVE  \/ Accept(s) \/ UNCHANGED <<taken, held, condemned>>
             \/ StartDeletion("submission", submission[s].form, {s})
  BY <1>8 DEF staging, ForSubmitter, BeginSubmission, LockOwner, LockForm, Refuse, DeleteSubmission
<1>9. ASSUME NEW f \in Forms, ForForm(f)
      PROVE  DeleteForm(f) \/ UNCHANGED <<taken, held, condemned>>
  BY <1>9 DEF staging, intake, ForForm, EditForm, Moderate, Write
<1>10. ASSUME NEW f \in Forms, DeleteForm(f) PROVE Promise!Next
  BY <1>5, <1>10 DEF DeleteForm
<1>11. ASSUME \/ \E c \in Creators : ForCreator(c)
              \/ MonthPasses \/ ListStagingDrops \/ ListAttachments \/ FinishDeletion \/ DeletionDies
              \/ UNCHANGED vars
       PROVE  UNCHANGED <<taken, held, condemned>>
  BY <1>11 DEF staging, intake, vars, ForCreator, CountForms, CreationFails, InsertForm, MonthPasses,
     ListStagingDrops, ListAttachments, FinishDeletion, DeletionDies
<1>12. ASSUME NEW s \in Submitters, Accept(s) PROVE Promise!Next
  BY <1>1, <1>4, <1>12
<1>13. ASSUME NEW s \in Submitters, StartDeletion("submission", submission[s].form, {s})
       PROVE  Promise!Next
  BY <1>5, <1>13
<1>14. \/ \E d \in Drops : AnswerUpload(d)
       \/ Promise!Next
       \/ UNCHANGED <<taken, held, condemned>>
  BY <1>7, <1>8, <1>9, <1>10, <1>11, <1>12, <1>13 DEF Next
<1> QED BY <1>2, <1>6, <1>14

\* What a visitor uploads is used at most once and by one submission, or abandoned
\* for good, and what was used is discarded only once its owner wanted the
\* submission gone: FormIntake implements StagedAttachment.
THEOREM PromiseCorrect == Spec => ImplementsPromise
<1>1. Init => Promise!Init
  BY DEF Init, Promise!Init, Phase
<1>2. IntakeInv /\ AttachmentsFit /\ [Next]_vars => [Promise!Next]_(Promise!attachment)
  BY PromiseStep DEF IntakeInv, CoreInv, IntakeTyped
<1> QED BY <1>1, <1>2, AttachmentInvariant, PTL DEF Spec, ImplementsPromise, Promise!Spec

=============================================================================
