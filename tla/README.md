# anon.li in TLA+

anon.li is a Next.js application over PostgreSQL (Prisma), Cloudflare R2,
Upstash Redis, Stripe and NOWPayments: end-to-end encrypted file drops,
encrypted forms with attachments, and e-mail aliases. Every request and every
cron job is a serverless function invocation, so all concurrency is between
processes that share nothing but these services, and any of them may be killed
at its time limit (300 s) between two awaits.

This directory holds the specifications of the parts whose correctness depends
on that: TLA+ modules, the configurations TLC checks them with, and theorems
checked by TLAPS. Paths below are relative to the repository.

## Inventory

| Component | State | Operations | What makes it hard | What makes it correct | Modelled in |
| --- | --- | --- | --- | --- | --- |
| **Drop storage** `lib/services/drop.ts`, `drop-storage.ts`, `lib/storage.ts`, `app/api/v1/drop/**`, `actions/drop.ts` | `drops`, `drop_files`, `users/organizations.storageUsed`, R2 multipart uploads and objects | createDrop, addFile, sign and return URLs, roll back, finishDrop, completeFileUpload, completeDrop, abort, deleteDrop | row locks of two tables held across R2 calls, reservations checked without a lock, ambiguous R2 replies, transactions that time out, crashes | the counter equals the rows; a completed drop is sealed and keeps its files; a complete file has its object; limits hold | `DropStorage` |
| **Drop cleanup and erasure** `drop-cleanup.ts`, `erasure.ts`, `admin.ts:390-418`, `billing-downgrade.ts:759-807` | the same, and `orphaned_files` | expired, incomplete, soft-deleted, over-limit and orphaned cleanup; hard delete; erasure of a user's or an organization's drops | daily, overlapping with requests and each other; partial failures of R2; killed half-way | one cleaner per file; no cascade takes a file row; everything marked is removed in the end; no object is lost | `DropStorage`, `DropDownload` |
| **Downloads, recipients** `drop.ts:1374-1690, 1808-1954` | download counters, `deletedAt`, presigned URLs | consumeDownload, markDropLimitReached, recipients, toggle | two counters in one step; the object must outlive URLs handed out | limits exact; both allowances or none; grace longer than a URL, but for deletions that grant none | `DropDownload` |
| **Forms and attachments** `form.ts`, `form-upload.ts`, `form-cleanup.ts`, `drop-upload-token.ts` | `forms`, `form_submissions`, `upload_tokens`, staging drops | issue token, submit, revoke, staging and retention cleanup | the token is the linearization point of three operations | an attachment belongs to one submission and is not reaped; caps hold | `FormIntake` |
| **Organization keys** `app/api/vault/org-keys/**`, `lib/vault/org-*` | generation, grants, wrapped item keys, keys in browsers | seed, grant, release, rotate, remove a member, wrap | the server never sees a key; browsers race rotations and membership | one key a generation; everything readable with it; who was removed gets nothing new | `TeamKeys` |
| **Crypto payments** NOWPayments webhook, `crypto-activation.ts`, `crypto-subscription.ts`, `cron-crypto-recovery.ts` | `crypto_payments`, `subscriptions`, Redis claims | webhook, activate, refund, hold back, expire, undo | duplicates, reordering, late success, failing statements | a payment is activated once; a refund is final; no paid day is lost | `CryptoBilling` |
| **Stripe subscriptions** webhook, `subscription-sync.ts`, `subscription-loss.ts` | subscription mirror, Redis claims | notifications, synchronization, loss, daily reconciliation | duplicates, reordering, losses, expired claims; a renewal is shown before it is charged | the mirror converges; no access beyond what was paid, or than one period shown before it was charged | `CardBilling` |
| **Downgrade lifecycle** `billing-downgrade.ts`, `cron-billing.ts` | warning and deletion dates | warn, schedule, remove, recover | re-subscription between phases | nothing goes before the day the user was told | `CardBilling` |
| **Cron lock and dispatch** `lib/cron-lock.ts`, `app/api/cron/daily` | a Redis key with a time to live | acquire, run, release if owner | a run may outlive its lock | no two runs of a job within the lock's life; nobody releases another's lock | no |
| **Account and organization deletion** `deletion.ts`, `erasure.ts`, `admin.ts:1063-1097` | a resumable request with a flag per step | process, complete | uploads of the same owner while it runs; restarts | nothing personal remains; no object is lost | no |
| **Personal vaults, administration, aliases, recipients, domains, accounts, two-factor, API keys, rate limits, MCP, interface** | rows and Redis counters | request-scoped checks | little shared state | limits per owner | no |

`PROJECT.json` lists the hazards of this code at their lines, those no property
covers included, and for each module the source lines of its definitions.

## Modules

| Module | Contents |
| --- | --- |
| `FileLedger` | abstract: what the storage layer promises about a file id and its bytes |
| `DropStorage` | drop storage with its cleanup: every handler and job over the shared state; implements `FileLedger` |
| `Allowance` | abstract: an allowance that is spent before anything is handed out |
| `DropDownload` | downloads from one finished drop, its recipients, switches, expiry and grace periods; implements `Allowance` |
| `StagedAttachment` | abstract: an upload that is used once or abandoned for good |
| `FormIntake` | the forms of one owner: upload tokens, submissions, cleanup, deletions; implements `StagedAttachment` |
| `TeamKeys` | the end-to-end encrypted key of an organization and what is encrypted under it |
| `CryptoBilling` | prepaid plans of one user, their invoices and notifications |
| `CardBilling` | card subscriptions of one user, their mirror and the downgrade of the account |
| `DropStorageProofs`, `DropDownloadProofs`, `FormIntakeProofs`, `TeamKeysProofs`, `CryptoBillingProofs`, `CardBillingProofs` | theorems about these, for all values of their constants |
| `MCDropStorage`, `MCDropDownload`, `MCFormIntake`, `MCTeamKeys`, `MCCryptoBilling`, `MCCardBilling` | instances for TLC |

The modules meet in rows that several of them keep. `DropStorage` is about a
drop's bytes and objects, `DropDownload` about who may still fetch them; both
contain the claim and the removal of a whole drop. `FormIntake` reduces the drop
of an attachment to its life cycle (live, claimed, gone), which `DropStorage`
has in full. `CardBilling` and `CryptoBilling` each keep the downgrade clock and
the grace of drops, and see of the other no more than whether a plan of the
other kind runs (`card` in `CryptoBilling`; in `CardBilling` nothing); the grace itself, and its
recovery, is in `DropDownload`. The downgrade's removal of live drops is a plan of
`DropStorage`, for the bytes and keys, and a cleaner of `DropDownload`, for the
URLs handed out; `CardBilling` has the days on which it may come.

Definitions called `M_...` are mutated forms of the definition they precede.
Nothing uses them: each is a bug that the properties `PROJECT.json` names
("mutants") are there to catch.

### How DropStorage corresponds to the code

The state is the tables and R2, and for each running handler or cron run `r`
its position `pc[r]`, the drop it works `on`, what it has yet to do (`todo`),
and the keys it owns because it deleted their rows (`claimed`, and `failed` when
R2 refused the deletion). `plan[r]` tells the callers of the whole-drop claim
apart: `delete` (deleteDrop, cleanupExpiredDrops, cleanupSoftDeletedDrops,
eraseDropFiles), `stale` (cleanupIncompleteUploads), `enqueue`
(AdminService.hardDeleteDrop) and `downgrade` (deleteScheduledForUser).

* A **transaction is one action**, because PostgreSQL's row locks make it so,
  with two exceptions that hold a lock while they wait. The finalizer holds the
  file row over its calls to R2 (`fileLock`: LockFile, CompleteMultipart, then
  StoreFile, RejectFile, FinalizationFails or FinalizationTimesOut). The claim
  holds the drop row while its second statement waits for finalizers
  (`dropLock`: ClaimDrop, then ClaimFiles or ClaimFails). Actions that need
  either row wait for it.
* **Every R2 call is a step of its own**, and its error may hide a success:
  completion returns with or without an object, whose size may be wrong; a
  completion whose transaction timed out or whose handler died stays in `late`
  and may still arrive (LateCompletion); a deletion that fails may have happened.
* `drop`, `deleted`: the drop row and its `deletedAt`. The mark is set by a claim
  or by the download limit (SoftDelete), and is never cleared.
* `issued`: file ids and URLs that reached a client. Abort needs the upload id,
  and a finish request that leads to an object needs ETags of uploaded parts.
* addFile is AddFile (checks without a lock, multipart upload), Reserve or
  ReservationFails, CompensateAddFile; then ReturnUploadUrls, or SigningFails
  and RollbackProvisionedFile. finishDrop is FinishDrop, the finalizers of its
  pending files in any order and overlapping (pMapLimit), and FinishCompletes;
  after an error SkipRest and FinishFails.
* **Crash** kills a handler anywhere: its transaction rolls back, its locks are
  freed, its claimed keys are forgotten. A commit whose reply is lost leaves the
  state of a crash right after it; only for the reservation, whose handler goes
  on to compensate, is it a case of its own.

Faults are switched by the constant `Faults`: `abort` (multipart aborts fail),
`delete` (object deletions fail), `orphan` (orphan records are lost), `db`
(statements fail or lose their reply), `timeout` (finalizer transactions).

Abstractions: ids are never reused; a drop's owner does not change; sizes are the
declared encrypted sizes (the plaintext cap of a form upload is a cap on a drop's
bytes); the ETags of parts are left out, so the parts of an issued file may or
may not assemble; ages are left out, so a cleanup may run at any time, which is
more than the code allows; a batch is treated drop by drop, each claimed by its
own transaction in the code too; R2 expires abandoned parts by itself. The cap
on a user's incomplete drops (`drop.ts:754`) is left out: it is checked without a
lock and is advisory. cleanupIncompleteFiles looks for pending files of
completed drops, which `CompletedIsSealed` shows do not exist.

### How DropDownload corresponds to the code

One drop, finished and standalone: `drop` is its row (`files`: it has file rows,
`grace`: `graceStamped`, `sent`: `notificationsSent`), `recipient` the rows of
its recipients, `stored` whether its objects are in R2.

* A **request** of the per-file GET (`file`, `range` with a resuming Range
  header) or of the batch POST (`batch`) goes through the awaits of the route:
  `Lookup` (what the route reads and checks; the batch route does not look at
  the counter), `Authorize` (resolveDownloadAccess), `Sign`, then `Consume` or
  `ConsumeRefused` (the transaction of consumeDownload), and the work the routes
  await before they answer: `ReadCommitted`, `SendMail`, `CountMail`,
  `MarkLimitReached` or `SkipLimit`. `Respond` hands the URLs out. An unlimited
  drop's resumed transfer goes from `Sign` to `Respond`. `Abandon` is every
  error and kill. `since` and `until` are when it started and when its URLs
  expire; `seen` is the counter it read after its own count.
* An **owner's request** keeps what it read in `session`: toggleDrop and
  addRecipients read, then write without a condition. Revocation, takedown and
  restore are single conditional updates.
* `cleaner` holds the deletions of the whole drop, three kinds that may overlap:
  `cron`, the daily cleanup's scan for expired and soft-deleted drops
  (`SelectDrop`), its claim by id (`ClaimDrop`), objects and row (`RemoveDrop`);
  `downgrade`, the scan of deleteScheduledForUser for live drops
  (`SelectDowngraded`), the same claim, and the objects at once, while the row is
  left to the daily cleanup; and `owner`, the owner's or an administrator's
  deletion, which starts at the claim.
* `Events` names which of a loss, a recovery, the downgrade's removal and
  takedowns happen in an instance. When the removal is due, and whether this drop is
  among the oldest ones that have to go, is left open.
* `now` counts time. Lifetimes and grace periods (URLs 120 s and 1 h, requests
  300 s, grace 2 h, 12 h and 24 h) are constants of which only the order
  matters; `TimeAssumption` states it, and the instances take the smallest
  numbers in that order. `Tick` kills the requests that reached their time limit.
* `anonymous`, `given`, `liveUntil`, `mails`, `erased` are history variables; `erased`
  says that a deletion that grants no grace took the files.

Abstractions: mails that preferences switch off count as not delivered; a
recipient's token either names the recipient or does not; access events, mails to
recipients, metadata views and an owner's strikes are left out; restoreDrop
lifts a takedown only; the row's last values stay in the model when it is
removed, where nothing reads them.

### How FormIntake corresponds to the code

* An **upload request** (`upload[d]`) goes through the route: `CheckForm` (form
  open, limits), `CreateDrop`, `IssueToken`, `BindToken`, `AnswerUpload`; after an
  error it compensates, or dies first (`UploadDies`). The visitor may then finish
  the drop (`FinishUpload`) or revoke the token (`RevokeToken`, `ReadRevoked`,
  `DeleteRevoked`, which may die in between).
* A **submission** (`attempt[s]`) proves the password of the moment
  (`BeginSubmission`), waits for the owner's advisory lock (`LockOwner`) and for
  the form row, on which the checks are repeated (`LockForm`), and takes token,
  drop, counters and rows in one commit (`Accept`), or rolls back (`Refuse`). It
  is the one transaction modelled in steps, because it holds two locks while it
  reads; every other writer of a form row or of the owner's ledger waits.
* A **deletion** of a form (by its owner or an administrator) or a submission (by
  the owner or the retention cleanup) lists first (`StartDeletion`,
  `ListStagingDrops`), claims the drops one by one (`DeleteOne`), and deletes the
  row last (`FinishDeletion`, whose cascade takes what was added meanwhile).
* `GrowOld` and `TokenLapses` are the two ages the code compares; `Reap` is the
  claim of the staging cleanup, `RemoveDrop` what follows a claim.
* `taken` and `condemned` are history variables.

Abstractions: a password is one of two values; `closesAt` is part of `active`;
owner bans, subscription checks, contents, encryption keys, listings and read
marks are left out. cleanupDeletedForms has nothing to do, because nothing
sets `forms.deletedAt`.

### How TeamKeys corresponds to the code

The server keeps `gen`, `grant` (the key sealed to a member's identity) and `item` (for each drop, form and label the
key it is wrapped to, the generation recorded, the text). `work[p]` is what the
browser of `p` is doing, with what it has read so far; `held[p]` is the key in
its memory. A key is a pair of the generation it was made for and its maker.

* Seeding, granting and releasing read first and write later (`CheckSeed` and
  `Seed`, `SealFor`, `CheckGrant` and `WriteGrant`, `CheckRelease` and
  `Release`), so that requests of two managers overlap.
* A **rotation** is `ListMembers`, `ListItems` (in the browser), `BeginRotation`
  (the serializable transaction takes its snapshot) and `CommitRotation`. The
  commit applies to the snapshot what the code does to it and aborts where
  PostgreSQL would find a conflict.
* An item is wrapped with the key the browser holds (`Wrap`); forms and labels
  are stored under the organization's row lock with the generation compared
  (`StoreLocked`), drops without (`StampDrop`, `StoreDrop`).
* A removed member's access is revoked by a later request, which may fail
  (`RemoveMember`, `RevokeAccess`, `RevocationFails`).
* `root`, `churn`, `outsiders` and `missed` are history variables.

Abstractions: personal vaults, legacy envelopes under a personal key, deletions
of items, overwriting the stored key of a drop, the two-factor and suspension gates, and the seed's repair
branch are left out. Text matters for labels only.

### How CryptoBilling corresponds to the code

* The **provider** is modelled by what the webhook relies on: a payment's status
  only goes forward (`After`), a notification is repeated until it is answered
  with 200 (`unanswered`), in any order and to overlapping requests.
* A **request** takes the Redis claim and reads the payment (`Deliver`), and does
  what that status says (`Decision`): write it if not settled meanwhile
  (`Write`), activate, hold back, refund, then answer. The claim may lapse after
  its holder died (`ClaimLapses`). `Entitle` is the serializable transaction of
  an activation, followed by the recovery of the account.
* The **daily run** lists lapsed rows, expires one after the other, applies the
  loss or undoes the expiry when that fails, then takes up held payments
  (`BeginRun`, `ListHeld`, `TakeUp`). The **support** may activate a held payment.
* `CardMoves` is the card subscription as far as it matters here.

Abstractions: "sending" is handled as "confirmed", "waiting" and
"partially_paid" as "confirming", "expired" as "failed"; amounts are "enough" or
"short"; time counts days, and requests end within one; requests that are free
are alike; runs that find nothing are left out; mails, reminders and analytics
are left out.

### How CardBilling corresponds to the code

* The **provider** keeps a subscription's status, the end of its period and until
  when it is paid, which are two things: a renewal (`Renew`) moves the period on
  while the status stays active, announces that, and only then charges the draft
  of its invoice (`Draft`, `Charge`); if that fails the subscription is in
  dunning, in a period nobody paid. The row stores what the provider shows. A
  notification tells only which subscription to look up, except `resumed`, whose
  payload is stored (`snapshot`).
* Assumed of the provider: a draft is charged within the day of the renewal,
  save in haste, and before the next renewal; a subscription in dunning
  moves on to no further period before it is paid; a late payment begins a new one.
* A **request** claims the notification (`Deliver`), retrieves the subscription
  (`Retrieve`), writes the row (`Write`), then does what its kind says: retention
  of forms (`SyncForms`), recovery (`Recover`, cancelDowngrade) or loss
  (`CheckOther`, `ClaimLoss`, `StampDrops`, `StartClock`), each an await apart.
* The **user's synchronization** (`Visit`) and the **daily run** (`Cron`) list
  rows as they are (`ListRows`) and take them through the same steps, with what
  the list said of the row (`prior`). Before that the daily run schedules
  (`PlanRemoval`, `ScheduleRemoval`) and removes (`PlanTrim`, `Remove`) what
  exceeds the free plan; what it chose may be out of date when it writes.
* `told`, the day of the last mail, is a history variable.

Abstractions: `changed` is `customer.subscription.updated` and
`invoice.payment_failed`; `past_due` includes incomplete, `unpaid` includes
paused; aliases, domains and recipients are alike and neither made nor deleted by
the user meanwhile; a second notification of a kind is merged with the first; `updatedAt` is kept for rows in
dunning, the only ones asked for; claims that are done are not kept, since a kind
that was answered is sent again only as a new notification; team subscriptions,
seats, prices, referral and crypto plans, mails and analytics are left out. The
guard against two checkouts is evaluated when the checkout completes. Trialing
is part of `active`; the checkout grants no trial.

## Properties and runs

| Property | Says |
| --- | --- |
| QuotaExact | storageUsed is the sum of the declared sizes of the owner's file rows, always |
| LimitsHold | no interleaving oversteps storage, byte, file or pending limits |
| CompletedIsSealed | a completed drop has no pending file |
| StoredIsIntact | a complete file row has its object, of the declared size |
| OneCleaner | keys in a cleaner's hands or among the orphans have no row and one owner |
| NoLeak | every object is pointed to by a row, a handler or an orphan record |
| CompletedKeepsFiles | a completed drop loses files only when deleted as a whole |
| ImplementsLedger | bytes are charged once and given back once per id (refinement of `FileLedger`) |
| UnfinishedDropsGo, OrphansDrain | what is deleted, abandoned or recorded goes in the end |
| DownloadsAttributed | the drop's counter is the sum of what the bare link and the recipients spent |
| SpentOnlyWhileAvailable | no count after a disable, takedown, deletion, restriction or revocation, or at the limit |
| MailedOnce | one limit mail however many requests see the limit; access mails are counted once delivered |
| ImplementsAllowance | every answer was paid for from both allowances, neither exceeded (refinement of `Allowance`) |
| GraceClockKept | a running grace clock is never reset or stopped |
| UrlsStayUsable | neither expiry, loss of the plan nor download limit, nor the cleanups after them, remove the objects while a URL handed out is alive; deletions that grant no grace (the owner's, an administrator's, the downgrade's) are excepted |
| SpentDropsGo | a drop at its limit is marked, a marked one removed, whoever is killed |
| ImplementsPromise | an upload is used by one submission or abandoned for good, and what was used goes only when its owner wants it gone (refinement of `StagedAttachment`) |
| StagingEnds | what a visitor uploads is taken or removed in the end |
| AcceptedAsPosted | a submission is recorded against the form as it is then: open, under its cap, same password |
| CapsHold | the monthly cap over all forms of an owner, and the plan's limit of forms |
| OneKeyPerGeneration | no race of managers splits a generation into two keys |
| ItemsReadable | every form and label is under the current key, but those first stored within a rotation's snapshot |
| RotationRevokes | who was removed before a rotation has nothing of the new key |
| RotationKeepsText | a rotation takes back no edit |
| OneEntitling | two crypto plans never entitle the user at once |
| RefundIsFinal | a refunded payment stays refunded and gives no plan |
| RemainderKeptInOrder | with a provider that waits, no paid day is lost but by a refund, and every payment adds its whole period |
| PaidIsServed | a paid order does not stay without a plan |
| LossReachesUser | a lapsed or refunded plan reaches the account |
| AccessIsPaid | with a provider that waits, no row gives access beyond what was paid for and the grace, however the charge of a renewal ends; otherwise at most the one period that was shown before it was charged beyond that |
| MirrorSettles | no row stays wrong for ever |
| AccountFollows | the account is downgraded after a loss and whole while the user pays |
| WarningKept | nothing is removed before the day the last mail named |

| Run | Instance | States | Shows |
| --- | --- | --- | --- |
| races | 2 handlers, 3 files of a byte, 1 drop of an account with room for 2; delete, db, timeout faults | 780,333 | all safety properties of drop storage, the refinement |
| reclaim | 2 handlers, 1 file, 1 crash, delete faults, fair | 9,079 | the daily jobs finish what handlers left |
| download_races | 2 requests, 1 recipient with 1 of the drop's 2 downloads, takedowns | 498,524 | both allowances, attribution, mails |
| download_switches | 1 request, 1 recipient to be invited, 1 owner request, loss, recovery and takedowns | 501,984 | counts only while available |
| download_clock | 1 request, 2 downloads, no expiry of its own, loss of the plan, the downgrade's removal, 7 ticks, fair | 1,237,210 | grace periods, and that spent drops go |
| form_attachment | 1 form, 1 upload, 2 submissions, every act of the owner but edits, fair | 157,450 | the life of an attachment |
| form_caps | 3 forms, 2 submissions, 2 creations, limits of 2 and 1, 2 months, edits | 728,432 | caps, and edits against submissions |
| form_orphan | 1 form, 1 upload, 1 submission, deletion of the form | violation | NoOrphanedAttachment |
| keys_rotation | 2 managers; a drop, a form, a label; 2 generations, 2 identities, 1 edit, 1 removal or replacement | 2,693,291 | the team's key and what is under it |
| keys_drops | 2 managers, 1 drop, 2 generations | violation | DropStampsTrue |
| crypto_orders | a running plan and a renewal, 2 requests, 1 fault, 4 days, fair | 298,920 | plans, refunds, losses |
| card_mirror | 1 subscription, 2 items of which 1 is kept, 2 requests, 1 visit, 1 fault, 4 days, fair | 800,876 | mirror and downgrade |

Bounds, and why they are enough:

* **Two handlers, requests or browsers.** Each conflict here is between two
  holders or would-be holders of one row, claim or lock. `download_switches` and
  `download_clock` have one request, whose opponent is the owner, the clock or
  the cleanup.
* **Drop storage**: three files where two fit make the reservations of two
  handlers conflict after one has committed; whether one looks at bytes, files
  or pending uploads, one of them must be refused. That the quota of an account
  also holds over several drops, which share no lock, is shown by the theorem
  only. `reclaim` needs one file, since the jobs treat files independently.
* **Downloads**: with a limit of 2 and a recipient's of 1, each allowance is the
  one that refuses in some behaviour. Where only the order of steps matters the
  clock stands still (`MaxTime` 0); in `download_clock` it runs long enough for
  a request, its URLs, the longest grace period and the removal after it. There
  the expiry is the one that the loss of the plan puts on the drop, at any time;
  takedowns, which delete nothing, happen in the other two runs. Lifetimes are
  the smallest numbers in the code's order.
* **Forms**: `form_caps` has one form more than the plan allows and two months
  with a cap of one; `form_attachment` two submissions for one upload.
* **Keys**: one rotation from a generation to the next (`MaxGen` 2), one removal
  or replaced identity (`MaxChurn` 1) and one edit (`MaxText` 1) reach every
  race of a rotation; the theorems lift them.
* **Billing**: periods and delays of one day keep their order, and four
  days let a plan run, lapse and be removed or renewed. In `card_mirror` the grace
  of a lapsed period is 0 days, so that access that lasts too long is beyond both
  bounds of `AccessIsPaid` before the clock stops; the theorem has any grace. A behaviour has one kind
  of trouble (`Troubles`: failing statements, lost notifications, a provider
  that does not wait, killed instances) and one fault of it (`MaxFaults`),
  because the code promises less for several. `Patience` lies beyond the clock:
  the provider's retries end before the code's own bound on dunning. The daily
  run treats rows alike, so `card_mirror` has one subscription.

Deadlock is not checked: each system may come to rest (every drop gone, the
clock at its bound, nobody paying). In the code, the claim and the finalizer take
locks in the order drop, file, owner, and the finalizer never waits for a drop;
a submission takes the owner's lock before the form row.

### Fairness

`LiveSpec` of `DropStorage` assumes that a handler that runs goes on
(`Continues`: a function either takes its next step or is killed, and kills are
bounded); that the daily job comes back (strong fairness of each cleanup, since
the drop may be locked again and again in between); that a claim tried every day
is granted some day, and a deletion R2 is asked for every day succeeds some day.
It also assumes that no client repeats a failing finish request for ever
(`ClientsGiveUp`): such requests could hold file rows whenever the daily claim
asks for them. Requests from clients are under no fairness.

`LiveSpec` of `DropDownload` assumes that time passes, that the daily job comes
back (weak fairness of the fallback and the scan), and that a claim or removal
the job gets to again and again does not die each time (strong fairness:
`CleanerDies` may undo a scan or claim any number of times, but not for ever).
Nothing is assumed of requests: the request that should mark a drop at its limit
may always be killed.

`LiveSpec` of `FormIntake` assumes that ages pass (`GrowOld`, `TokenLapses`),
that a token request ends in some way, and that the daily cleanup comes back
(strong fairness of `Reap`, which the form's other users may disable again and
again) and removes what it claimed. Nothing is assumed of visitors or owners.

`Spec` of `CryptoBilling` and of `CardBilling` assume that the provider repeats
what was not answered (`Deliveries`), that Redis claims expire (`Expiries`), that
a request goes on once begun (it may still be killed, within `MaxFaults`), and
that the daily run is started and goes on (`CronStep`). Each request is finite,
so that `CryptoBilling` states one condition for all of them. Nobody has to pay,
to cancel, to visit or to support.

### Findings

`form_orphan`: deleteForm lists the submissions with the form and deletes their
attachments without a lock, and deletes the form last (`form.ts:717-781`). A
submission accepted in between has cleared the staging marker and the expiry of
its drop and goes with the cascade; the drop stays, complete, without an expiry,
and belongs to no submission. `form.ts:731-733` says that the marker keeps such
a straggler private "so the hourly cleanup can safely reap it later", and
`form-attachment-drop.ts:6-18` calls the outcome to be avoided "a never-expiring
orphan that still holds the owner's storage". Locking the form row first, or
taking it out of service before listing, would close the gap.

`keys_drops`: persistOrgDropOwnerKey records the organization's current
generation whatever key the browser wrapped with (`actions/drop.ts:165`); the
generation the browser sends is not compared, as it is for forms and labels.
`org-access.ts:115-119` says that the two must match, and relies on the browser, which
may hold the key of before a rotation. The drop cannot be opened with the
current key, and the next rotation fails on it.

### Known limits of the code

What the properties above leave out by their conditions, because the code does
not promise it or does not keep it:

* Drops. A claim commits the deletion of the file rows, and their keys with
  them, before the objects are deleted: an instance killed in between loses the
  keys (`drop-cleanup.ts:111`). So does a lost abort followed by a completion
  that arrives after its transaction timed out, and an orphan record that cannot
  be inserted. `NoLeak` is therefore claimed without these. cleanupExpiredDrops
  claims by id what its scan saw expired, so that a subscription recovered in
  between does not save the drop (`drop-cleanup.ts:110`); `UrlsStayUsable` is
  claimed without recoveries. A downgrade that is carried out deletes live drops
  over the free storage, oldest first, and their objects at once: URLs handed out
  a moment before fail, and a drop that reached its limit after the scan loses
  its grace; the plan is read once, before the first drop
  (`billing-downgrade.ts:733-807`). `UrlsStayUsable` excepts this deletion.
* Keys. A form or label first stored while a rotation holds its snapshot stays
  under the old key (`missed`). Granting upserts without comparing
  (`org-keys/route.ts:139`), which two concurrent releases share (`own/route.ts:90`).
* Forms. Retention is computed from the plan read at the start of a run
  (`form-cleanup.ts:237`).
* Crypto plans, when the provider does not wait for answers or instances are
  killed: a delayed non-terminal status overwrites "confirmed" of an activated
  renewal, or "needs_review" (`nowpayments/route.ts:343`), after which "finished"
  activates again and forfeits the remainder of the plan it supersedes
  (`crypto-activation.ts:106-121`); a retry is answered with 200 while the claim
  is held by an instance that then dies (`route.ts:107-110`); a run killed
  between expiring a row and applying the loss forgets it
  (`crypto-subscription.ts:69-92`). Also: an undone expiry can reactivate a row
  that was superseded meanwhile, for which reason `OneEntitlingCorrect` assumes
  that no statement fails; the refund of a renewal does not restore the plan it superseded;
  a loss decided before a concurrent activation may be applied after it; a
  payment that arrives after the run set "expired" is not taken up.
* Card subscriptions: a renewal is mirrored as active before it is charged. If
  the charge fails and the notification of that is lost, the row gives access for
  the whole unpaid period and a day: the daily reconciliation looks only at rows in
  dunning and at active ones whose period is over (`subscription-sync.ts:462-470`),
  so that only a later notification or the user's synchronization
  would notice. `subscription-entitlement.ts:19-23`
  promises no more than that access is not indefinite. A payment, checkout or resumption handled after the end of
  the subscription cancels the downgrade whatever the state by then
  (`stripe/route.ts:516`); a `resumed` payload is trusted though stale; a loss
  decided before a concurrent recovery may be applied after it; a lost
  `payment_succeeded` leaves the grace on the drops of a user who pays again; a
  run killed between the row and the loss forgets the loss if the notification
  of the end is lost as well; a stale "active" makes a loss be announced twice.
  The scheduling run may fall between the write of "canceled" and the restart of
  the clock, which shortens the warning (`billing-downgrade.ts:335-342`).
  The loss of a second subscription is announced anew while items of the first
  loss are already scheduled: `WarningKept` is about one subscription.

## Proofs

The proof modules state, for every value of the constants their modules' assumptions allow:

| Module | Theorem | Of the specification |
| --- | --- | --- |
| `DropStorageProofs` | Invariance | []Inv, the inductive invariant |
| | TypeCorrect, QuotaCorrect, SealCorrect, StoredCorrect, CleanersCorrect, LimitsCorrect | []TypeOK, []QuotaExact, []CompletedIsSealed, []StoredIsIntact, []OneCleaner, []LimitsHold |
| | HardDeleteCorrect, CompletedCorrect | HardDeleteFindsNoFile, CompletedKeepsFiles |
| | LedgerCorrect | ImplementsLedger |
| | NoLeakCorrect | []NoLeak, without crashes, lost orphan records, or lost aborts together with late completions |
| `DropDownloadProofs` | TypeCorrect, PaidFirstCorrect | []TypeOK, []Inv |
| | AllowanceCorrect | ImplementsAllowance |
| | SpentCorrect, GraceClockCorrect | SpentOnlyWhileAvailable, GraceClockKept |
| | MailedOnceCorrect, AttributionCorrect | []MailedOnce, []DownloadsAttributed |
| | UrlsCorrect | []UrlsStayUsable, without recoveries and with the downgrade's removal among the steps |
| `FormIntakeProofs` | TypeCorrect, MonthlyCapCorrect, FormLimitCorrect, CapsCorrect | []TypeOK, []MonthlyCapHolds, []FormLimitHolds, []CapsHold |
| | AcceptedAsPostedCorrect, NeverReapedCorrect | AcceptedAsPosted, AcceptedNeverReaped |
| | PromiseCorrect | ImplementsPromise |
| `TeamKeysProofs` | TypeCorrect, OneKeyCorrect, ReadableCorrect, RevocationCorrect | []TypeOK, []OneKeyPerGeneration, []ItemsReadable, []RotationRevokes |
| | TextCorrect | RotationKeepsText |
| `CryptoBillingProofs` | TypeCorrect, RefundCorrect | []TypeOK, RefundIsFinal |
| | OneEntitlingCorrect | []OneEntitling, without failing statements |
| | RemainderCorrect | RemainderKeptInOrder |
| `CardBillingProofs` | TypeCorrect, AccessCorrect | []TypeOK, []AccessIsPaid |

### Drop storage

Assumptions: those of the constants in `DropStorage` (finitely many files, which
cardinalities need; `Bytes` is additive over disjoint sets; limits are naturals).

The safety properties are not inductive by themselves. `Inv` adds what the code's
comments argue with: a file being added is known to its handler only, and not yet
to a client (PreparedInPrivate, ReservedFromNothing), which is why its rollback
cannot hit a finalized file; only issued files are finalized, under a lock that
holds the row pending (FinalizedIsIssued), which is why a claim that waited for
the locks finds every object settled; a claim that has run left no row and a mark
that keeps reservations away (ClaimIsFinal), which is why the cascade finds
nothing; an assembled upload is closed for good (AssembledOnce), which is why no
late completion replaces a stored object; a swept key has no row (SweptHasNoRow).

The proof first states what a step can do to each part of the state (RowStep,
UploadStep, ObjectStep, DropStep, WorkStep, IssuedStep, HandStep, OrphanStep,
LockStep, ClaimStep, DeletedStep), one case per action, and then derives each
conjunct of `Inv` from those, without looking at the actions again. QuotaStep
rests on two lemmas about sums, ReserveIsExact and ReleaseIsExact; the latter
also shows that the counter's floor at zero is never reached. LedgerStep maps
Reserve, StoreFile and the row deletions to the ledger's actions, the refusal,
crash or failure of a reservation to Discard, and everything else to a stutter.

`NoLeakCorrect` needs more, which holds only without the three faults above (`LeakInv`): every
object is issued (ObjectIssued); a late completion belongs to a row or to a
handler that still holds its key (LateHeld); the keys in a handler's hands say
where it is in its program (HandsWhere), and a swept key is in no hand
(SweptInNoHand); a forgotten upload is gone for good (ForgottenGone). Each
hypothesis excludes a leak TLC exhibits: a crash after the refusal of a file, an
orphan that is not recorded, a completion that arrives after a lost abort.

### Downloads

Assumptions: any finite number of requests, any recipients and owner requests,
any limits, lifetimes and grace periods in the order `TimeAssumption` states.

The refinement needs that an answer finds its unit unspent. The invariant
`PaidFirst` says so with a count: what a holder was given, plus the number of its
requests between the committed count and the answer (`Owed`), is at most what the
counters say it spent. CounterStep shows that every action other than Consume and
Respond is quiet (moves no counter and lets nobody else owe); Spends and HandsOut
say what those two do; PaidNext and AllowanceNext follow from these three alone.

`MailedOnce` needs the requests between the delivery of a mail and its count
(`MailsOwed`). `DownloadsAttributed` is about a sum over recipients: the proof
counts the set of pairs of a holder and a number up to its counter, whose
cardinality one count changes by one. `UrlsStayUsable` follows from `UrlInv`:
how long the URLs of a request may last, against its start, the drop's expiry
and the grace clock (Timed); how long those that left the server may (Lasts);
and that a cleanup acts only for a reason that still stands (CleanupSound),
which is what a recovery would break. A claim by the downgrade or by the owner
is recorded (`erased`) and excepted; the cleanups are proved to keep their graces
whatever those do in between.

### Forms

`IntakeInv` is StagingTyped, RecordsTyped and CoreInv: a held form row belongs to
the one submission that has the owner's lock, and what that checked of the rows it
holds stays so (Locked); the counters stay within the limits, since only the holder
of the lock adds to them (Counted). The refinement adds `AttachmentsFit`: what
each upload request, submission and deletion has read of a drop still fits its
row. PromiseStep
maps Accept to Use, the loss of a token or a claim to Abandon, the removal of
what a deletion claimed to Discard, and everything else to a stutter.

### Team keys

`TeamInv` is Typed; KeysAgree (no key in use, in a grant, a browser or a
request, is newer than the generation, two of one generation are the same, that
of the current one is `root`); Contents (items are as the rotations left them,
and what a browser has listed, wrapped or snapshot of them is still right, or will
be refused); Excluded (no grant, browser or request has anything of the current
generation for those `outsiders` names, and a rotation's snapshot knows them).

### Crypto plans

`BillingInv` (RestTyped, RowsTyped, WorkersSound, RefundGone) is the type
invariant with what a worker's step says of its order, and that a refunded order
has no running plan. `SingleInv`, without failing statements, says that at most
one row is active and that no expiry is being undone. `RemainderInv` is about a provider that
waits: what is unanswered is the order's last status and one request has it
(InOrder); who paid has a plan (Paid); what a request decided is still right
(Decided); a held payment stays held while somebody takes it up (HeldBack); what
a worker takes up was finished (Phases); what the daily run lists as lapsed stays
lapsed (Overdue). Hence an order about to be activated has no plan yet, and the
end of the paid time, a maximum over the active rows, only grows. That a finite
set of numbers has a maximum is a lemma of its own, by well-foundedness of the
strict subset relation on finite sets.

### Card subscriptions

`CardInv` says that the period any row, any handler or the provider's own
notification holds of a running subscription is at most one period beyond what
was paid by now (Billed, RowsPaid, WorkersSound): the provider shows no more than
one period before it charges it (Charged), and the paid time only grows, so that
nothing read earlier can exceed it, however late it is written. This is the
bound of `AccessIsPaid` for a provider that may lose anything.

For one that waits, `WaitInv` adds why a failed charge is not missed. A row fits
(Fit) if the period it shows is paid, or is a draft about to be charged; a row
that does not fit still has a notification unanswered that will put it right, and
no day passes meanwhile. Such a notification is answered only after a row that
fits was written, since what a worker is about to write is what the provider
still says (Fresh), and whoever holds its claim is at work on it. Each action
has its lemma, named ...Fresh.

### Only model-checked

* Liveness (UnfinishedDropsGo, OrphansDrain, SpentDropsGo, StagingEnds,
  PaidIsServed, LossReachesUser, MirrorSettles, AccountFollows): fairness and
  ENABLED are beyond the prover.
* WarningKept: it holds for one subscription, the instance of the run, and not
  for several (known limits), so that there is no theorem for every value of the
  constants.
* The two findings are counterexamples.

## Plan

1. Done: the modules, runs and proofs above.
2. Next to prove: WarningKept for a user with one subscription, with the day a
   loss is told and the clock as one invariant; the limits of drops and the cap
   of forms under the same kind of advisory lock as one lemma.
3. Next to model: account and organization deletion over `DropStorage`'s state,
   where owners disappear; the cron lock with its time to live, on which no
   module here relies (cleanups may overlap in all of them).

## Not modelled

The cron lock, account and organization deletion (above); administration beyond
hard deletion and takedowns; aliases, domains and recipients beyond their removal
after a downgrade, whose limit checks are single transactions under one lock;
team subscriptions and seats; personal vaults; accounts, two-factor, API keys,
rate limits and MCP, which are request-scoped glue around libraries and Redis
counters; the web interface and the cryptography of the browser: the server is
modelled against any client.
