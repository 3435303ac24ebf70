---------------------------- MODULE DropDownload ----------------------------
(***************************************************************************)
(* Downloading from one finished drop: the public routes that look the     *)
(* drop up, authorize a recipient, sign URLs and spend a download before   *)
(* they answer; the work after a committed download (access mail, soft     *)
(* delete at the limit); the owner's switches (disable, restrict to        *)
(* recipients, revoke), takedowns, the billing grace expiry; and the       *)
(* cleanups that remove the drop after their grace periods.  Sources:      *)
(* lib/services/drop.ts, drop-recipient.ts, drop-cleanup.ts, drop-grace.ts,*)
(* the download routes.                                                    *)
(*                                                                         *)
(* A database statement or transaction is one action; a handler may be     *)
(* killed between any two.  Time is a counter: only the order of the       *)
(* lifetimes and grace periods matters, which TimeAssumption states.       *)
(***************************************************************************)
EXTENDS Integers, FiniteSets

CONSTANTS
    Clients,        \* download requests that may be running at once
    Recipients,     \* named recipients the drop may get
    Invited,        \* those it already has
    Sessions,       \* owner requests that may be running at once
    None,           \* null
    MaxDownloads,   \* drops."maxDownloads", or None
    RecipientMax,   \* drop_recipients."maxDownloads", or None
    RecipientExpiry,\* drop_recipients."expiresAt", or None
    Expiries,       \* drops."expiresAt" the drop may be created with
    Events,         \* which of "loss", "recovery", "removal" and "takedown" happen
    PlanDays,       \* longest expiry of the recovered plan, or None
    LimitedTtl,     \* LIMITED_DROP_PRESIGNED_URL_EXPIRES
    UrlTtl,         \* DOWNLOAD_PRESIGNED_URL_EXPIRES
    RequestTime,    \* the platform's limit on the duration of a request
    LimitGrace,     \* grace of a drop deleted at its download limit (2 h)
    DeleteGrace,    \* grace of other soft-deleted drops (24 h)
    ExpiryGrace,    \* grace of expired drops (12 h)
    BillingGrace,   \* SUBSCRIPTION_GRACE_PERIOD_DAYS
    MaxTime,        \* bound: the clock stops there
    MaxCount        \* bound: downloads counted on an unlimited drop

OrNone(S) == S \cup {None}

ASSUME ConstantsAssumption ==
    /\ None \notin Recipients /\ None \notin Nat
    /\ Invited \subseteq Recipients
    /\ IsFiniteSet(Clients)
    /\ MaxDownloads \in OrNone(Nat \ {0})
    /\ RecipientMax \in OrNone(Nat \ {0})
    /\ RecipientExpiry \in OrNone(Nat)
    /\ Expiries \subseteq OrNone(Nat)
    /\ Events \subseteq {"loss", "recovery", "removal", "takedown"}
    /\ PlanDays \in OrNone(Nat)
    /\ MaxTime \in Nat /\ MaxCount \in Nat

\* 120 s < 1 h; 120 s < 2 h; 1 h plus one request < 12 h.
ASSUME TimeAssumption ==
    /\ {LimitedTtl, UrlTtl, RequestTime, LimitGrace, DeleteGrace, ExpiryGrace, BillingGrace} \subseteq Nat
    /\ LimitedTtl <= UrlTtl
    /\ LimitedTtl <= LimitGrace /\ LimitGrace <= DeleteGrace
    /\ UrlTtl + RequestTime <= ExpiryGrace

VARIABLES
    drop,       \* the drops row
    recipient,  \* drop_recipients rows
    stored,     \* the objects of the drop are in R2
    request,    \* what each download request has read and done
    session,    \* what each owner request has read
    cleaner,    \* the deletion in progress: the daily cleanup's, the downgrade's, the owner's
    now,
    anonymous,  \* history: downloads counted that no recipient stands for
    given,      \* history: answers with URLs handed out against an allowance
    liveUntil,  \* history: when the last URL handed out expires
    mails,      \* history: access mails delivered, limit mails sent
    erased      \* history: deleted without a grace, by the owner, an administrator or the downgrade

record  == <<drop, recipient>>
history == <<anonymous, given, liveUntil, mails, erased>>
vars    == <<record, stored, request, session, cleaner, now, history>>

Stages   == {"idle", "looked", "authorized", "signed", "counted", "mail", "mailed",
             "limit", "done"}
Kinds    == {"file", "range", "batch"}
Holders  == OrNone(Recipients)
Cleaners == {"cron", "downgrade", "owner"}

DropRow ==
    [exists : BOOLEAN, files : BOOLEAN, deletedAt : OrNone(Nat), disabled : BOOLEAN,
     takenDown : BOOLEAN, restrict : BOOLEAN, expiresAt : OrNone(Nat), grace : BOOLEAN,
     downloads : Nat, sent : Nat]
RecipientRow == [state : {"none", "live", "revoked"}, downloads : Nat]
Request ==
    [stage : Stages, kind : Kinds, holder : Holders, restrict : BOOLEAN,
     since : Nat, until : Nat, seen : Nat]
Session == [op : {"idle", "disable", "share", "create"}, value : BOOLEAN, seen : BOOLEAN]

TypeOK ==
    /\ drop \in DropRow
    /\ recipient \in [Recipients -> RecipientRow]
    /\ stored \in BOOLEAN
    /\ request \in [Clients -> Request]
    /\ session \in [Sessions -> Session]
    /\ cleaner \in [Cleaners -> {"idle", "selected", "claimed", "empty"}]
    /\ now \in 0..MaxTime
    /\ anonymous \in Nat
    /\ given \in [Holders -> Nat]
    /\ liveUntil \in Nat
    /\ mails \in [access : Nat, limit : Nat]
    /\ erased \in BOOLEAN

Idle   == [stage |-> "idle", kind |-> "file", holder |-> None, restrict |-> FALSE,
           since |-> 0, until |-> 0, seen |-> 0]
Vacant == [op |-> "idle", value |-> FALSE, seen |-> FALSE]

\* A finished standalone drop: uploadComplete, no form_staging_id, no form token.
Init ==
    /\ \E e \in Expiries, restrict \in BOOLEAN :
          drop = [exists |-> TRUE, files |-> TRUE, deletedAt |-> None,
                  disabled |-> FALSE, takenDown |-> FALSE, restrict |-> restrict,
                  expiresAt |-> e, grace |-> FALSE, downloads |-> 0, sent |-> 0]
    /\ recipient = [r \in Recipients |->
                     [state |-> IF r \in Invited THEN "live" ELSE "none", downloads |-> 0]]
    /\ stored = TRUE
    /\ request = [c \in Clients |-> Idle]
    /\ session = [s \in Sessions |-> Vacant]
    /\ cleaner = [k \in Cleaners |-> "idle"]
    /\ now = 0
    /\ anonymous = 0
    /\ given = [h \in Holders |-> 0]
    /\ liveUntil = 0
    /\ mails = [access |-> 0, limit |-> 0]
    /\ erased = FALSE

-----------------------------------------------------------------------------
(* Availability.                                                           *)

Under(n, limit) == limit # None => n < limit
Reached         == MaxDownloads # None /\ drop.downloads >= MaxDownloads
Limited(h)      == MaxDownloads # None \/ h # None

Hidden == ~drop.exists \/ drop.deletedAt # None \/ drop.disabled \/ drop.takenDown

\* validateRecipientAccess
ValidRecipient(h) ==
    /\ h # None
    /\ recipient[h].state = "live"
    /\ RecipientExpiry # None => RecipientExpiry > now
    /\ Under(recipient[h].downloads, RecipientMax)

\* Mutated: the counter is guarded by the limit only, the rest was checked by
\* the route.
M_Spendable(h) == drop.exists /\ Under(drop.downloads, MaxDownloads)

\* The WHERE clause of the guarded UPDATE of drops.
Spendable(h) ==
    /\ ~Hidden
    /\ drop.restrict => h # None
    /\ drop.expiresAt # None => drop.expiresAt > now
    /\ Under(drop.downloads, MaxDownloads)

\* Mutated: a Range request is never counted.
M_ShouldCount(q) == q.kind # "range"

\* Whether the answer spends a download: a resumed transfer may skip it only
\* where the count is a mere statistic.
ShouldCount(q) == Limited(q.holder) \/ q.kind # "range"

-----------------------------------------------------------------------------
(* A download request.                                                     *)

Goes(c, stage) == request' = [request EXCEPT ![c].stage = stage]
Ends(c)        == request' = [request EXCEPT ![c] = Idle]

\* The route reads the drop and checks it.  Only the per-file route looks at
\* the counter here.
Lookup(c, token, kind) ==
    /\ request[c].stage = "idle"
    /\ ~Hidden
    /\ drop.expiresAt # None => now <= drop.expiresAt
    /\ kind # "batch" => drop.files /\ Under(drop.downloads, MaxDownloads)
    /\ request' = [request EXCEPT ![c] =
          [Idle EXCEPT !.stage = "looked", !.kind = kind, !.holder = token,
                       !.restrict = drop.restrict, !.since = now]]
    /\ UNCHANGED <<record, stored, session, cleaner, now, history>>

\* resolveDownloadAccess: a valid token names the recipient; without one the
\* bare link works unless the drop was restricted when it was read.
Authorize(c) ==
    /\ request[c].stage = "looked"
    /\ \/ /\ ValidRecipient(request[c].holder)
          /\ Goes(c, "authorized")
       \/ /\ ~ValidRecipient(request[c].holder) /\ ~request[c].restrict
          /\ request' = [request EXCEPT ![c].stage = "authorized", ![c].holder = None]
       \/ /\ ~ValidRecipient(request[c].holder) /\ request[c].restrict
          /\ Ends(c)
    /\ UNCHANGED <<record, stored, session, cleaner, now, history>>

\* Every URL is signed before anything is spent.
Sign(c) ==
    /\ request[c].stage = "authorized"
    /\ request' = [request EXCEPT
          ![c].stage = "signed",
          ![c].until = now + IF Limited(request[c].holder) THEN LimitedTtl ELSE UrlTtl]
    /\ UNCHANGED <<record, stored, session, cleaner, now, history>>

\* consumeDownload: one transaction, both counters or none.
Consume(c) ==
    LET h == request[c].holder IN
    /\ request[c].stage = "signed" /\ ShouldCount(request[c])
    /\ Spendable(h)
    /\ h # None => ValidRecipient(h)
    /\ MaxDownloads = None => drop.downloads < MaxCount
    /\ drop' = [drop EXCEPT !.downloads = @ + 1]
    /\ recipient' = IF h = None THEN recipient
                    ELSE [recipient EXCEPT ![h].downloads = @ + 1]
    /\ anonymous' = IF h = None THEN anonymous + 1 ELSE anonymous
    /\ Goes(c, "counted")
    /\ UNCHANGED <<stored, session, cleaner, now, given, liveUntil, mails, erased>>

\* Mutated: the recipient's refusal returns false and the drop's count commits.
M_ConsumeHalf(c) ==
    LET h == request[c].holder IN
    /\ request[c].stage = "signed" /\ ShouldCount(request[c])
    /\ ~(Spendable(h) /\ (h # None => ValidRecipient(h)))
    /\ drop' = IF Spendable(h) THEN [drop EXCEPT !.downloads = @ + 1] ELSE drop
    /\ Ends(c)
    /\ UNCHANGED <<recipient, stored, session, cleaner, now, history>>

\* Mutated: a refusal gives back a count it never took.
M_ConsumeUndone(c) ==
    LET h == request[c].holder IN
    /\ request[c].stage = "signed" /\ ShouldCount(request[c])
    /\ ~(Spendable(h) /\ (h # None => ValidRecipient(h)))
    /\ drop' = [drop EXCEPT !.downloads = @ - 1]
    /\ Ends(c)
    /\ UNCHANGED <<recipient, stored, session, cleaner, now, history>>

\* The guarded UPDATE matches no row, or the recipient's throws and rolls the
\* transaction back.
ConsumeRefused(c) ==
    LET h == request[c].holder IN
    /\ request[c].stage = "signed" /\ ShouldCount(request[c])
    /\ ~(Spendable(h) /\ (h # None => ValidRecipient(h)))
    /\ Ends(c)
    /\ UNCHANGED <<record, stored, session, cleaner, now, history>>

\* handleCommittedDownload reads the drop again.
ReadCommitted(c) ==
    /\ request[c].stage = "counted"
    /\ request' = [request EXCEPT
          ![c].seen = drop.downloads,
          ![c].stage = CASE ~drop.exists -> "done"
                         [] drop.exists /\ drop.sent < drop.downloads -> "mail"
                         [] OTHER -> "limit"]
    /\ UNCHANGED <<record, stored, session, cleaner, now, history>>

\* The access mail is delivered, or not (errors are caught).
SendMail(c) ==
    /\ request[c].stage = "mail"
    /\ \/ mails' = [mails EXCEPT !.access = @ + 1] /\ Goes(c, "mailed")
       \/ UNCHANGED mails /\ Goes(c, "limit")
    /\ UNCHANGED <<record, stored, session, cleaner, now, anonymous, given, liveUntil, erased>>

CountMail(c) ==
    /\ request[c].stage = "mailed"
    /\ drop' = IF drop.exists THEN [drop EXCEPT !.sent = @ + 1] ELSE drop
    /\ Goes(c, "limit")
    /\ UNCHANGED <<recipient, stored, session, cleaner, now, history>>

\* Mutated: whoever saw the limit mails the owner.
M_MarkAndMail(c) ==
    /\ request[c].stage = "limit"
    /\ MaxDownloads # None /\ request[c].seen >= MaxDownloads
    /\ drop' = IF drop.deletedAt = None THEN [drop EXCEPT !.deletedAt = now] ELSE drop
    /\ mails' = [mails EXCEPT !.limit = @ + 1]
    /\ Goes(c, "done")
    /\ UNCHANGED <<recipient, stored, session, cleaner, now, anonymous, given, liveUntil, erased>>

\* markDropLimitReached: whoever wins the guarded UPDATE mails the owner.
MarkLimitReached(c) ==
    LET wins == drop.exists /\ drop.deletedAt = None IN
    /\ request[c].stage = "limit"
    /\ MaxDownloads # None /\ request[c].seen >= MaxDownloads
    /\ drop' = IF wins THEN [drop EXCEPT !.deletedAt = now] ELSE drop
    /\ mails' = IF wins THEN [mails EXCEPT !.limit = @ + 1] ELSE mails
    /\ Goes(c, "done")
    /\ UNCHANGED <<recipient, stored, session, cleaner, now, anonymous, given, liveUntil, erased>>

\* The limit is not reached, or the UPDATE fails and the error is swallowed.
SkipLimit(c) ==
    /\ request[c].stage = "limit"
    /\ Goes(c, "done")
    /\ UNCHANGED <<record, stored, session, cleaner, now, history>>

\* The URLs leave the server.
Respond(c) ==
    LET q == request[c] IN
    /\ q.stage = "done" \/ (q.stage = "signed" /\ ~ShouldCount(q))
    /\ liveUntil' = IF q.until > liveUntil THEN q.until ELSE liveUntil
    /\ given' = IF Limited(q.holder) THEN [given EXCEPT ![q.holder] = @ + 1] ELSE given
    /\ Ends(c)
    /\ UNCHANGED <<record, stored, session, cleaner, now, anonymous, mails, erased>>

\* Signing fails, the database fails, or the process is killed.
Abandon(c) ==
    /\ request[c].stage # "idle"
    /\ Ends(c)
    /\ UNCHANGED <<record, stored, session, cleaner, now, history>>

-----------------------------------------------------------------------------
(* The owner, administrators and billing.                                  *)

\* toggleDrop, or setDropDisabled to the other value: the flag is read here and
\* its negation written by WriteDisabled.
ReadDisabled(s) ==
    /\ session[s].op = "idle"
    /\ drop.exists /\ drop.deletedAt = None
    /\ session' = [session EXCEPT ![s] = [Vacant EXCEPT !.op = "disable", !.value = ~drop.disabled]]
    /\ UNCHANGED <<record, stored, request, cleaner, now, history>>

WriteDisabled(s) ==
    /\ session[s].op = "disable"
    /\ drop' = IF drop.exists THEN [drop EXCEPT !.disabled = session[s].value] ELSE drop
    /\ session' = [session EXCEPT ![s] = Vacant]
    /\ UNCHANGED <<recipient, stored, request, cleaner, now, history>>

\* addRecipients: reads the drop, writes the restriction only where it differs
\* from what it read, then creates the recipients.
ReadShared(s, restrict) ==
    /\ session[s].op = "idle"
    /\ drop.exists
    /\ session' = [session EXCEPT ![s] =
          [op |-> "share", value |-> restrict, seen |-> drop.restrict]]
    /\ UNCHANGED <<record, stored, request, cleaner, now, history>>

WriteRestrict(s) ==
    /\ session[s].op = "share"
    /\ IF session[s].value = session[s].seen
       THEN session' = [session EXCEPT ![s].op = "create"] /\ UNCHANGED drop
       ELSE IF drop.exists
       THEN /\ session' = [session EXCEPT ![s].op = "create"]
            /\ drop' = [drop EXCEPT !.restrict = session[s].value]
       ELSE session' = [session EXCEPT ![s] = Vacant] /\ UNCHANGED drop
    /\ UNCHANGED <<recipient, stored, request, cleaner, now, history>>

CreateRecipients(s, S) ==
    /\ session[s].op = "create"
    /\ \A r \in S : recipient[r].state = "none"
    /\ recipient' = IF drop.exists
                    THEN [r \in Recipients |-> IF r \in S THEN [recipient[r] EXCEPT !.state = "live"]
                                               ELSE recipient[r]]
                    ELSE recipient
    /\ session' = [session EXCEPT ![s] = Vacant]
    /\ UNCHANGED <<drop, stored, request, cleaner, now, history>>

SessionDies(s) ==
    /\ session[s].op # "idle"
    /\ session' = [session EXCEPT ![s] = Vacant]
    /\ UNCHANGED <<record, stored, request, cleaner, now, history>>

RevokeRecipient(r) ==
    /\ drop.exists /\ recipient[r].state = "live"
    /\ recipient' = [recipient EXCEPT ![r].state = "revoked"]
    /\ UNCHANGED <<drop, stored, request, session, cleaner, now, history>>

\* takedownDrop and restoreDrop, each conditional on the other's value.
SetTakenDown(value) ==
    /\ "takedown" \in Events
    /\ drop.exists /\ drop.takenDown = ~value
    /\ drop' = [drop EXCEPT !.takenDown = value]
    /\ UNCHANGED <<recipient, stored, request, session, cleaner, now, history>>

\* The owner loses the subscription: an unlimited drop expires after a grace.
StampGrace ==
    /\ "loss" \in Events
    /\ drop.exists /\ drop.deletedAt = None /\ drop.expiresAt = None
    /\ drop' = [drop EXCEPT !.expiresAt = now + BillingGrace, !.grace = TRUE]
    /\ UNCHANGED <<recipient, stored, request, session, cleaner, now, history>>

\* The subscription recovers (cancelDowngrade, restoreGraceStampedDrops).
RestoreGrace ==
    /\ "recovery" \in Events
    /\ drop.exists /\ drop.deletedAt = None /\ drop.grace
    /\ drop' = [drop EXCEPT
          !.grace = FALSE,
          !.expiresAt = CASE PlanDays = None -> None
                          [] PlanDays # None /\ now + PlanDays > drop.expiresAt -> now + PlanDays
                          [] OTHER -> drop.expiresAt]
    /\ UNCHANGED <<recipient, stored, request, session, cleaner, now, history>>

-----------------------------------------------------------------------------
(* Deleting the drop.                                                      *)

Expired ==
    /\ drop.deletedAt = None
    /\ drop.expiresAt # None /\ drop.expiresAt < now - ExpiryGrace

\* Mutated: no grace after the last download.
M_SoftDeleted ==
    /\ drop.deletedAt # None
    /\ drop.deletedAt < now - DeleteGrace \/ Reached

SoftDeleted ==
    /\ drop.deletedAt # None
    /\ \/ drop.deletedAt < now - DeleteGrace
       \/ drop.deletedAt < now - LimitGrace /\ Reached

\* cleanupExpiredDrops and cleanupSoftDeletedDrops: the scan.
SelectDrop ==
    /\ cleaner["cron"] = "idle"
    /\ drop.exists /\ (Expired \/ SoftDeleted)
    /\ cleaner' = [cleaner EXCEPT !["cron"] = "selected"]
    /\ UNCHANGED <<record, stored, request, session, now, history>>

\* deleteScheduledForUser: the oldest live drops of a user whose downgrade is
\* carried out go until the rest fits the free plan, and none is looked at again.
\* When that is due (CardBilling has the dates) and whether this drop is among
\* them are left open.
SelectDowngraded ==
    /\ "removal" \in Events
    /\ cleaner["downgrade"] = "idle"
    /\ drop.exists /\ drop.deletedAt = None
    /\ cleaner' = [cleaner EXCEPT !["downgrade"] = "selected"]
    /\ UNCHANGED <<record, stored, request, session, now, history>>

\* Mutated: the fallback misses a counter that stands exactly at the limit.
M_FallbackSoftDelete ==
    /\ drop.exists /\ drop.deletedAt = None
    /\ MaxDownloads # None /\ drop.downloads > MaxDownloads
    /\ drop' = [drop EXCEPT !.deletedAt = now]
    /\ UNCHANGED <<recipient, stored, request, session, cleaner, now, history>>

\* cleanupDownloadLimitExceededDrops.
FallbackSoftDelete ==
    /\ drop.exists /\ drop.deletedAt = None /\ Reached
    /\ drop' = [drop EXCEPT !.deletedAt = now]
    /\ UNCHANGED <<recipient, stored, request, session, cleaner, now, history>>

\* Mutated: the claim restarts the grace clock of a drop that is deleted already.
M_ClaimResets(k) ==
    /\ cleaner[k] = IF k = "owner" THEN "idle" ELSE "selected"
    /\ k = "owner" => drop.exists
    /\ drop' = IF drop.exists THEN [drop EXCEPT !.deletedAt = now, !.files = FALSE] ELSE drop
    /\ cleaner' = [cleaner EXCEPT ![k] = IF drop.exists /\ drop.files THEN "claimed" ELSE "empty"]
    /\ erased' = (erased \/ (k # "cron" /\ drop.exists /\ drop.files))
    /\ UNCHANGED <<recipient, stored, request, session, now, anonymous, given, liveUntil, mails>>

\* Mutated: a drop that is deleted already is taken for somebody else's.
M_ClaimSkipsDeleted(k) ==
    /\ cleaner[k] = IF k = "owner" THEN "idle" ELSE "selected"
    /\ k = "owner" => drop.exists
    /\ IF drop.exists /\ drop.deletedAt = None
       THEN /\ drop' = [drop EXCEPT !.deletedAt = now, !.files = FALSE]
            /\ cleaner' = [cleaner EXCEPT ![k] = IF drop.files THEN "claimed" ELSE "empty"]
       ELSE cleaner' = [cleaner EXCEPT ![k] = "idle"] /\ UNCHANGED drop
    /\ erased' = (erased \/ (k # "cron" /\ drop.exists /\ drop.files))
    /\ UNCHANGED <<recipient, stored, request, session, now, anonymous, given, liveUntil, mails>>

\* The claim that starts every whole-drop deletion; neither the daily cleanup's
\* nor the downgrade's is conditional on what its scan saw.
ClaimDrop(k) ==
    /\ cleaner[k] = IF k = "owner" THEN "idle" ELSE "selected"
    /\ k = "owner" => drop.exists
    /\ drop' = IF drop.exists
               THEN [drop EXCEPT !.deletedAt = IF @ = None THEN now ELSE @, !.files = FALSE]
               ELSE drop
    /\ cleaner' = [cleaner EXCEPT ![k] = IF drop.exists /\ drop.files THEN "claimed" ELSE "empty"]
    /\ erased' = (erased \/ (k # "cron" /\ drop.exists /\ drop.files))
    /\ UNCHANGED <<recipient, stored, request, session, now, anonymous, given, liveUntil, mails>>

\* R2 deletes the objects (or refuses, and they become orphans), then the row
\* goes, unless the downgrade claimed it: that one the daily cleanup takes up.
\* A removed row's last values stay in the model; nothing reads them.
RemoveDrop(k) ==
    /\ cleaner[k] \in {"claimed", "empty"}
    /\ stored' \in IF cleaner[k] = "claimed" THEN {FALSE, stored} ELSE {stored}
    /\ drop' = IF k = "downgrade" THEN drop ELSE [drop EXCEPT !.exists = FALSE]
    /\ cleaner' = [cleaner EXCEPT ![k] = "idle"]
    /\ UNCHANGED <<recipient, request, session, now, history>>

CleanerDies(k) ==
    /\ cleaner[k] # "idle"
    /\ cleaner' = [cleaner EXCEPT ![k] = "idle"]
    /\ UNCHANGED <<record, stored, request, session, now, history>>

\* Time passes; the platform kills requests at their time limit.
Tick ==
    /\ now < MaxTime
    /\ now' = now + 1
    /\ request' = [c \in Clients |->
                      IF request[c].stage # "idle" /\ request[c].since + RequestTime < now'
                      THEN Idle ELSE request[c]]
    /\ UNCHANGED <<record, stored, session, cleaner, history>>

-----------------------------------------------------------------------------
DownloadStep(c) ==
    \/ Authorize(c) \/ Sign(c) \/ Consume(c) \/ ConsumeRefused(c) \/ ReadCommitted(c)
    \/ SendMail(c) \/ CountMail(c) \/ MarkLimitReached(c) \/ SkipLimit(c) \/ Respond(c)

OwnerStep(s) ==
    \/ ReadDisabled(s) \/ WriteDisabled(s) \/ WriteRestrict(s) \/ SessionDies(s)
    \/ \E restrict \in BOOLEAN : ReadShared(s, restrict)
    \/ \E S \in SUBSET Recipients : CreateRecipients(s, S)

Next ==
    \/ \E c \in Clients :
          \/ DownloadStep(c) \/ Abandon(c)
          \/ \E token \in Holders, kind \in Kinds : Lookup(c, token, kind)
    \/ \E s \in Sessions : OwnerStep(s)
    \/ \E r \in Recipients : RevokeRecipient(r)
    \/ \E value \in BOOLEAN : SetTakenDown(value)
    \/ StampGrace \/ RestoreGrace
    \/ SelectDrop \/ SelectDowngraded \/ FallbackSoftDelete
    \/ \E k \in Cleaners : ClaimDrop(k) \/ RemoveDrop(k) \/ CleanerDies(k)
    \/ Tick

Spec == Init /\ [][Next]_vars

-----------------------------------------------------------------------------
(* Safety.                                                                 *)

\* The downloads of the recipients, each with its number.
Attributed == UNION {{r} \X (1..recipient[r].downloads) : r \in Recipients}

\* The drop's counter is the sum of the downloads attributed to the bare link
\* and to each recipient: no transaction, refused or interleaved with a
\* revocation, spends one allowance alone (drop.ts:1457-1460).
DownloadsAttributed == drop.downloads = anonymous + Cardinality(Attributed)

\* Between the lookup and the counter the drop may be disabled, taken down,
\* restricted, deleted or used up, and the recipient revoked: the counter then
\* does not move (drop.ts:1462-1464).
SpentOnlyWhileAvailable ==
    [][/\ drop'.downloads # drop.downloads => ~Hidden /\ ~Reached
       /\ anonymous' # anonymous => ~drop.restrict
       /\ \A r \in Recipients : recipient'[r].downloads # recipient[r].downloads =>
             recipient[r].state = "live"]_vars

\* Concurrent downloads that both reach the limit mail the owner once
\* (drop.ts:1630-1632), and access mails are counted only once delivered.
MailedOnce ==
    /\ mails.limit <= 1
    /\ drop.sent <= mails.access /\ mails.access <= drop.downloads

\* Once it runs, the grace clock of a soft-deleted drop is never reset or
\* stopped (drop.ts:1619-1621, drop-storage.ts:146).
GraceClockKept == [][drop.deletedAt # None => drop'.deletedAt = drop.deletedAt]_vars

\* A URL that left the server works for its lifetime: neither the expiry of the
\* drop, the loss of the plan nor the download limit, nor the cleanups after them,
\* remove the objects first (drop.ts:1596-1600).  Two deletions grant no grace and
\* are excepted: that of the owner or an administrator, and that of what exceeds
\* the free plan when a downgrade is carried out (billing-downgrade.ts:759-807).
UrlsStayUsable == now < liveUntil /\ ~erased => stored

-----------------------------------------------------------------------------
(* Why: what has been paid for and not yet answered.                       *)

\* What the counters say a holder has spent.
Tracked(h) == IF h = None THEN anonymous ELSE recipient[h].downloads

\* Requests of h that have spent a download and not answered yet.
Owed(h) == {c \in Clients :
              /\ request[c].stage \in {"counted", "mail", "mailed", "limit", "done"}
              /\ request[c].holder = h}

\* Nothing is handed out, or about to be, that was not spent before.
PaidFirst == \A h \in Holders : given[h] + Cardinality(Owed(h)) <= Tracked(h)

Inv == TypeOK /\ PaidFirst

-----------------------------------------------------------------------------
(* The allowance it implements.                                            *)

LimitOf(h) == IF h = None THEN None ELSE RecipientMax
Budget == INSTANCE Allowance WITH
    Ceiling <- MaxDownloads, CeilingOf <- [h \in Holders |-> LimitOf(h)],
    total <- drop.downloads, spent <- [h \in Holders |-> Tracked(h)]

\* Every answer with URLs of a limited drop, or to a named recipient, was paid
\* for from both allowances before it left the server, whatever Range header it
\* carried (file/[fileId]/route.ts:122-133).
ImplementsAllowance == Budget!Spec

-----------------------------------------------------------------------------
(* Liveness.                                                               *)

\* Time passes, the daily job comes back, and a step of it that is tried every
\* day does not die every day.
Fairness ==
    /\ WF_vars(Tick)
    /\ WF_vars(FallbackSoftDelete)
    /\ WF_vars(SelectDrop)
    /\ SF_vars(ClaimDrop("cron"))
    /\ SF_vars(RemoveDrop("cron"))

LiveSpec == Spec /\ Fairness

\* A drop that reached its limit is soft-deleted in the end, even if the request
\* that should have done it was killed, and a soft-deleted drop is removed once
\* its grace is over, even if a deleter died after its claim
\* (drop-cleanup.ts:250-261, 367-375).
SpentDropsGo ==
    drop.exists /\ (Reached \/ drop.deletedAt # None) ~>
        /\ drop.deletedAt # None
        /\ drop.deletedAt + DeleteGrace < MaxTime => ~drop.exists

=============================================================================

