---------------------------- MODULE CardBilling ----------------------------
(***************************************************************************)
(* Card subscriptions of one user: the rows that mirror what the provider  *)
(* (Stripe) says of them, kept by its notifications, by the user's request *)
(* to synchronize and by the daily run; what the loss and the recovery of  *)
(* a subscription do to the account; and the removal, in steps of days, of *)
(* what exceeds the free plan.  Sources: api/webhooks/stripe,              *)
(* lib/services/subscription-sync.ts, subscription-loss.ts,                *)
(* billing-downgrade.ts.                                                   *)
(*                                                                         *)
(* A statement, a transaction or a call to the provider is one action.     *)
(* Time counts days: whatever runs ends within one.                        *)
(***************************************************************************)
EXTENDS Integers, FiniteSets, FiniteSetsExt

CONSTANTS
    Subs,           \* card subscriptions of the user
    FormPlans,      \* those whose product includes forms
    Items,          \* aliases, domains and recipients the user has at the start
    Keep,           \* how many of them the free plan allows
    Requests,       \* notifications handled at once
    MaxVisits,      \* bound: how often the user asks for a synchronization
    Period,         \* days a payment is good for
    Grace,          \* days a lapsed period still gives access
    Recheck,        \* days after which a row in dunning is looked up again
    Patience,       \* days dunning holds the removal back at most
    Schedule,       \* days from the loss until the excess is scheduled
    Delay,          \* days from there until it is removed
    MaxTime,        \* bound: the clock stops there
    Troubles,       \* what may go wrong in one behaviour
    MaxFaults,      \* bound: statements that fail, requests and runs that are killed
    None

ASSUME CardAssumption ==
    /\ FormPlans \subseteq Subs
    /\ IsFiniteSet(Items)
    /\ {MaxVisits, Keep, Period, Grace, Recheck, Patience, Schedule, Delay, MaxTime, MaxFaults} \subseteq Nat
    /\ Period > 0
    /\ Troubles \subseteq SUBSET {"failures", "losses", "haste", "kills"}
    /\ None \notin Nat \cup Subs /\ {"cron", "visit"} \cap Requests = {}

Cron    == "cron"
Visit   == "visit"
Sweeps  == {Cron, Visit}
Workers == Requests \cup Sweeps

VARIABLES
    stripe,     \* provider: status of a subscription, end of its period, until when it is paid
    unanswered, \* provider: notifications not answered with 200
    snapshot,   \* provider: the period its last "resumed" notification tells
    row,        \* subscriptions: status, currentPeriodEnd, lossNotifiedAt is set, updatedAt
    clock,      \* users.downgradedAt
    drops,      \* expiry of the user's drops that had none
    kept, due,  \* items that exist, and their scheduledForRemovalAt
    claim,      \* Redis: notifications being handled, or whose handler died
    worker,     \* what a request, the user's synchronization, the daily run is doing
    listed,     \* rows a sweep still has to look up, as it read them
    chosen,     \* items the daily run is about to schedule or to remove
    told,       \* day of the last mail that told the user of a loss
    now, faults, visits,
    trouble     \* statements fail, notifications are lost, overtake each other, requests are killed

provider == <<stripe, unanswered, snapshot>>
account  == <<clock, drops, kept, due, told>>
bounds   == <<now, faults, visits, trouble>>
vars     == <<provider, row, account, claim, worker, listed, chosen, bounds>>

-----------------------------------------------------------------------------

\* "checkout" is checkout.session.completed, "paid" invoice.payment_succeeded,
\* "changed" customer.subscription.updated and invoice.payment_failed, which
\* are handled alike, "deleted" and "resumed" those of the subscription.
Kinds == {"checkout", "paid", "changed", "deleted", "resumed"}

\* "past_due" is incomplete as well, "unpaid" paused, "canceled" every other end.
StripeStatus == {"none", "active", "past_due", "unpaid", "canceled"}
RowStatus    == {"none", "active", "past_due", "canceled"}
Prior        == {"unlisted", "entitled", "losable", "over"}

Steps == {"idle", "retrieve", "write", "sync", "recover", "other", "claim", "stamp", "mark",
          "answer", "plan", "schedule", "batch", "trim", "remove", "list", "row"}

Days == 0..(MaxTime + 2 * Period)

TypeOK ==
    /\ stripe \in [Subs -> [status : StripeStatus, until : Days, paid : Days]]
    /\ unanswered \in [Subs -> SUBSET Kinds]
    /\ snapshot \in [Subs -> Days]
    /\ row \in [Subs -> [status : RowStatus, until : Days, noted : BOOLEAN, synced : Days]]
    /\ clock \in 0..MaxTime \cup {None} /\ told \in 0..MaxTime \cup {None}
    /\ drops \in {"unlimited", "grace", "limited"}
    /\ kept \subseteq Items /\ due \in [Items -> 0..MaxTime \cup {None}]
    /\ claim \in [Subs -> SUBSET Kinds]
    /\ worker \in [Workers -> [step : Steps, sub : Subs \cup {None}, kind : Kinds \cup {None},
                               seen : StripeStatus, until : Days, prior : Prior,
                               notify : BOOLEAN]]
    /\ listed \in [Sweeps -> [Subs -> Prior]]
    /\ chosen \subseteq Items
    /\ now \in 0..MaxTime /\ faults \in 0..MaxFaults
    /\ visits \in 0..MaxVisits /\ trouble \in Troubles

Idle == [step |-> "idle", sub |-> None, kind |-> None, seen |-> "none", until |-> 0,
         prior |-> "unlisted", notify |-> FALSE]

\* A free account.
Init ==
    /\ stripe = [s \in Subs |-> [status |-> "none", until |-> 0, paid |-> 0]]
    /\ unanswered = [s \in Subs |-> {}] /\ snapshot = [s \in Subs |-> 0]
    /\ row = [s \in Subs |-> [status |-> "none", until |-> 0, noted |-> FALSE, synced |-> 0]]
    /\ clock = None /\ drops = "unlimited" /\ kept = Items /\ due = [i \in Items |-> None]
    /\ claim = [s \in Subs |-> {}]
    /\ worker = [w \in Workers |-> Idle]
    /\ listed = [w \in Sweeps |-> [s \in Subs |-> "unlisted"]] /\ chosen = {} /\ told = None
    /\ now = 0 /\ faults = 0 /\ visits = 0 /\ trouble \in Troubles

-----------------------------------------------------------------------------
(* Rows and guards.                                                        *)

\* Mutated: the provider's status is stored as it comes.
M_Mirror(status) == status

\* Mutated: dunning gives access.
M_MirrorDunning(status) == IF status \in {"past_due", "unpaid"} THEN "active" ELSE status

\* mapStripeStatus
Mirror(status) == IF status = "unpaid" THEN "past_due" ELSE status

Lost == {"unpaid", "canceled"}

Live(s)    == row[s].status = "active"
Dunning(s) == row[s].status = "past_due" /\ ~row[s].noted

\* Mutated: the status alone decides.
M_Counts(s) == Live(s)

\* A period gives access until a day after its end.
Counts(s) == Live(s) /\ row[s].until + Grace >= now
Entitled  == \E s \in Subs : Counts(s)

\* Rows that the daily run takes for the trace of a lost notification.
Stale(s) ==
    \/ Live(s) /\ row[s].until + Grace < now
    \/ row[s].status = "past_due" /\ row[s].synced + Recheck < now

PriorOf(s) ==
    CASE Live(s)    -> "entitled"
      [] Dunning(s) -> "losable"
      [] OTHER      -> "over"

\* updatedAt, which only rows in dunning are asked for.
SyncedAt(status) == IF status = "past_due" THEN now ELSE 0

\* The row as the provider was seen; a subscription that runs again may be
\* announced lost again.
Mirrored(s, seen, until) ==
    [status |-> Mirror(seen), until |-> until,
     noted |-> row[s].noted /\ seen # "active", synced |-> SyncedAt(Mirror(seen))]

At(w, step) == worker[w].step = step
Go(w, step) == worker' = [worker EXCEPT ![w].step = step]
Stop(w)     == worker' = [worker EXCEPT ![w] = Idle]
Forget(w, step) ==
    worker' = [worker EXCEPT ![w] = [Idle EXCEPT !.step = step, !.sub = worker[w].sub,
                                                !.kind = worker[w].kind]]
SubOf(w)    == worker[w].sub
KindOf(w)   == worker[w].kind

\* The end of one subscription's handling: a request answers, a sweep goes on
\* with the next row.
Finish(w) ==
    IF w \in Requests THEN Forget(w, "answer")
    ELSE worker' = [worker EXCEPT ![w] = [Idle EXCEPT !.step = "row"]]

Fault(kind) == kind \in trouble /\ faults < MaxFaults /\ faults' = faults + 1

Handled(s, k) == \E r \in Requests : SubOf(r) = s /\ KindOf(r) = k

-----------------------------------------------------------------------------
(* The provider and time.                                                  *)

Resting  == \A w \in Workers : At(w, "idle")
Answered == \A s \in Subs : unanswered[s] = {}

\* A period that has begun and is not charged yet.
Draft(s) == stripe[s].status = "active" /\ stripe[s].until # stripe[s].paid

\* All notifications of one move are handled before the next, nothing else
\* happens during the daily run, and a draft is charged within the day, save as
\* often as there may be haste.
Unless(calm) == IF calm THEN UNCHANGED faults ELSE Fault("haste")

\* A notification of a kind that comes while another of this kind is not yet
\* answered is taken for lost.
Move(s, new, kinds) ==
    /\ Unless(Resting /\ Answered)
    /\ stripe' = [stripe EXCEPT ![s] = new]
    /\ unanswered' = [unanswered EXCEPT ![s] = @ \cup kinds]
    /\ claim' = [claim EXCEPT ![s] = {k \in @ : k \in kinds => Handled(s, k)}]
    /\ UNCHANGED <<row, account, worker, listed, chosen, now, visits, trouble>>

\* No checkout is opened while a subscription runs or is in dunning.
Subscribe(s) ==
    /\ stripe[s].status = "none"
    /\ \A x \in Subs : ~(Live(x) /\ row[x].until > now)
                       /\ ~(Dunning(x) /\ row[x].synced + Patience > now)
    /\ Move(s, [status |-> "active", until |-> now + Period, paid |-> now + Period],
            {"checkout", "paid"})
    /\ UNCHANGED snapshot

\* The period is over: the next begins, and is shown as one that runs while its
\* invoice is a draft.
Renew(s) ==
    /\ stripe[s].status = "active" /\ stripe[s].until = now /\ ~Draft(s)
    /\ Move(s, [stripe[s] EXCEPT !.until = @ + Period], {"changed"})
    /\ UNCHANGED snapshot

\* The invoice is charged, or cannot be.
Charge(s) ==
    /\ Draft(s)
    /\ \/ Move(s, [stripe[s] EXCEPT !.paid = stripe[s].until], {"paid"})
       \/ Move(s, [stripe[s] EXCEPT !.status = "past_due"], {"changed"})
    /\ UNCHANGED snapshot

GiveUp(s) ==
    /\ stripe[s].status = "past_due"
    /\ Move(s, [stripe[s] EXCEPT !.status = "unpaid"], {"changed"})
    /\ UNCHANGED snapshot

RecoverPayment(s) ==
    LET new == [status |-> "active", until |-> now + Period, paid |-> now + Period] IN
    \/ /\ stripe[s].status \in {"past_due", "unpaid"}
       /\ Move(s, new, {"paid", "changed"})
       /\ UNCHANGED snapshot
    \/ /\ stripe[s].status = "unpaid"
       /\ Move(s, new, {"resumed", "changed"})
       /\ snapshot' = [snapshot EXCEPT ![s] = now + Period]

Cancel(s) ==
    /\ stripe[s].status \in {"active", "past_due", "unpaid"}
    /\ Move(s, [stripe[s] EXCEPT !.status = "canceled"], {"deleted"})
    /\ UNCHANGED snapshot

\* The provider gives up repeating, or the notification was never sent.
Lose(s, k) ==
    /\ "losses" \in trouble /\ k \in unanswered[s]
    /\ unanswered' = [unanswered EXCEPT ![s] = @ \ {k}]
    /\ UNCHANGED <<stripe, snapshot, row, account, claim, worker, listed, chosen, bounds>>

Tick ==
    /\ now < MaxTime
    /\ Resting /\ Unless(Answered /\ \A s \in Subs : ~Draft(s))
    /\ \A s \in Subs : stripe[s].status = "active" => stripe[s].until > now
    /\ now' = now + 1
    /\ UNCHANGED <<provider, row, account, claim, worker, listed, chosen, visits, trouble>>

-----------------------------------------------------------------------------
(* A notification.                                                         *)

\* What its payload says: most handlers look the subscription up instead.
Payload(s, k) ==
    CASE k = "deleted" -> [seen |-> "canceled", until |-> stripe[s].until]
      [] k = "resumed" -> [seen |-> "active", until |-> snapshot[s]]
      [] OTHER         -> [seen |-> "none", until |-> 0]

\* One delivery, first or repeated: the claim.  Whoever finds it taken answers
\* 200.  Without a row most kinds are refused and repeated, which is left out
\* unless the row may appear meanwhile.  All free requests are alike.
Deliver(r, s, k) ==
    /\ At(r, "idle") /\ r = CHOOSE x \in Requests : At(x, "idle")
    /\ k \in unanswered[s]
    /\ Unless((\A w \in Sweeps : At(w, "idle")) /\ ~Handled(s, k))
    /\ row[s].status # "none" \/ k \in {"checkout", "deleted"} \/ Handled(s, "checkout")
    /\ IF k \notin claim[s]
       THEN /\ claim' = [claim EXCEPT ![s] = @ \cup {k}]
            /\ worker' = [worker EXCEPT ![r] =
                  [Idle EXCEPT !.step = IF k \in {"deleted", "resumed"} THEN "write" ELSE "retrieve",
                               !.sub = s, !.kind = k,
                               !.seen = Payload(s, k).seen, !.until = Payload(s, k).until]]
            /\ UNCHANGED unanswered
       ELSE /\ unanswered' = [unanswered EXCEPT ![s] = @ \ {k}]
            /\ UNCHANGED <<claim, worker>>
    /\ UNCHANGED <<stripe, snapshot, row, account, listed, chosen, now, visits, trouble>>

\* The claim expires after five minutes, which outlives any request.
ClaimLapses(s, k) ==
    /\ k \in claim[s] /\ ~Handled(s, k)
    /\ claim' = [claim EXCEPT ![s] = @ \ {k}]
    /\ UNCHANGED <<provider, row, account, worker, listed, chosen, bounds>>

Release(r) == claim' = [claim EXCEPT ![SubOf(r)] = @ \ {KindOf(r)}]

\* Every error but those that cannot heal gives the claim back; the answer is 500.
Refuse(r) == Release(r) /\ Stop(r)

\* What is answered is not repeated, or finds the mark of seven days.
Answer(r) ==
    /\ At(r, "answer")
    /\ Release(r)
    /\ unanswered' = [unanswered EXCEPT ![SubOf(r)] = @ \ {KindOf(r)}]
    /\ Stop(r)
    /\ UNCHANGED <<stripe, snapshot, row, account, listed, chosen, bounds>>

-----------------------------------------------------------------------------
(* Mirroring one subscription, by a request or a sweep.                    *)

Retrieve(w) ==
    LET s == SubOf(w) IN
    /\ At(w, "retrieve")
    /\ worker' = [worker EXCEPT ![w].step = "write", ![w].seen = stripe[s].status,
                                ![w].until = stripe[s].until]
    /\ UNCHANGED <<provider, row, account, claim, listed, chosen, bounds>>

\* Only a checkout makes a row.  A deletion without a row finds the owner by
\* the customer's address, and always tells; every other kind is refused.
Write(w) ==
    LET s == SubOf(w)  known == row[s].status # "none" IN
    /\ At(w, "write")
    /\ \/ /\ known \/ KindOf(w) = "checkout"
          /\ row' = [row EXCEPT ![s] = Mirrored(s, worker[w].seen, worker[w].until)]
          /\ Go(w, "sync")
          /\ UNCHANGED claim
       \/ /\ ~known /\ KindOf(w) = "deleted"
          /\ worker' = [worker EXCEPT ![w].step = "other", ![w].notify = TRUE]
          /\ UNCHANGED <<row, claim>>
       \/ /\ ~known /\ KindOf(w) \notin {"checkout", "deleted"}
          /\ Refuse(w)
          /\ UNCHANGED row
    /\ UNCHANGED <<provider, account, listed, chosen, bounds>>

\* Mutated: only a notification applies a loss.
M_LosesNow(w) ==
    CASE KindOf(w) = "changed" -> worker[w].seen \in Lost
      [] KindOf(w) = "deleted" -> TRUE
      [] OTHER                 -> FALSE

\* Whether a loss is applied: by a sweep to a row that it read as one that
\* could be lost.
LosesNow(w) ==
    CASE KindOf(w) = "changed" -> worker[w].seen \in Lost
      [] KindOf(w) = "deleted" -> TRUE
      [] KindOf(w) = None      -> worker[w].seen \in Lost /\ worker[w].prior # "over"
      [] OTHER                 -> FALSE

\* A payment, a checkout and a resumption recover the account whatever the
\* subscription is like by now.
RecoversNow(w) ==
    CASE KindOf(w) \in {"checkout", "paid", "resumed"} -> TRUE
      [] KindOf(w) = None -> worker[w].seen = "active" /\ worker[w].prior # "entitled"
      [] OTHER            -> FALSE

\* syncPersonalFormRetentionGrace: forms are kept for a while from here on.
SyncForms(w) ==
    /\ At(w, "sync")
    /\ clock' = CASE SubOf(w) \notin FormPlans -> clock
                  [] SubOf(w) \in FormPlans /\ worker[w].seen = "active" -> None
                  [] SubOf(w) \in FormPlans /\ worker[w].seen # "active" ->
                        IF clock = None /\ ~(\E x \in FormPlans : Live(x)) THEN now ELSE clock
    /\ CASE LosesNow(w)    -> Forget(w, "other")
         [] RecoversNow(w) -> Forget(w, "recover")
         [] OTHER          -> Finish(w)
    /\ UNCHANGED <<provider, row, drops, kept, due, told, claim, listed, chosen, bounds>>

\* cancelDowngrade.  Drops get back what the plan in force allows, and only the
\* mark tells that they had no expiry.
CancelDowngrade ==
    /\ clock' = None
    /\ due' = [i \in Items |-> None]
    /\ drops' = IF drops = "grace" THEN (IF Entitled THEN "unlimited" ELSE "limited") ELSE drops
    /\ UNCHANGED <<kept, told>>

Recover(w) ==
    /\ At(w, "recover")
    /\ CancelDowngrade
    /\ Finish(w)
    /\ UNCHANGED <<provider, row, claim, listed, chosen, bounds>>

-----------------------------------------------------------------------------
(* handleLostSubscription.                                                 *)

CheckOther(w) ==
    /\ At(w, "other")
    /\ IF \E s \in Subs : Live(s) THEN Finish(w)
       ELSE Go(w, IF worker[w].notify THEN "stamp" ELSE "claim")
    /\ UNCHANGED <<provider, row, account, claim, listed, chosen, bounds>>

\* The first signal of a loss tells the user and restarts the clock.
ClaimLoss(w) ==
    LET s == SubOf(w) IN
    /\ At(w, "claim")
    /\ row' = IF row[s].noted THEN row
              ELSE [row EXCEPT ![s].noted = TRUE, ![s].synced = SyncedAt(row[s].status)]
    /\ worker' = [worker EXCEPT ![w].step = "stamp", ![w].notify = ~row[s].noted]
    /\ UNCHANGED <<provider, account, claim, listed, chosen, bounds>>

StampDrops(w) ==
    /\ At(w, "stamp")
    /\ drops' = IF drops = "unlimited" THEN "grace" ELSE drops
    /\ Go(w, "mark")
    /\ UNCHANGED <<provider, row, clock, kept, due, told, claim, listed, chosen, bounds>>

\* Mutated: a running clock is kept.
M_StartClock(w) ==
    /\ At(w, "mark")
    /\ clock' = IF clock = None THEN now ELSE clock
    /\ told' = IF worker[w].notify THEN now ELSE told
    /\ Finish(w)
    /\ UNCHANGED <<provider, row, drops, kept, due, claim, listed, chosen, bounds>>

StartClock(w) ==
    /\ At(w, "mark")
    /\ clock' = IF worker[w].notify \/ clock = None THEN now ELSE clock
    /\ told' = IF worker[w].notify THEN now ELSE told
    /\ Finish(w)
    /\ UNCHANGED <<provider, row, drops, kept, due, claim, listed, chosen, bounds>>

-----------------------------------------------------------------------------
(* The daily run: scheduling, removal, then the rows that look stale.      *)

Aged(day, n) == day # None /\ day + n <= now

Excess == IF Cardinality(kept) > Keep THEN Cardinality(kept) - Keep ELSE 0

Scheduled == {i \in kept : due[i] # None}

InDunning == ~Aged(clock, Patience) /\ \E s \in Subs : Dunning(s)

\* processSchedulingBatch and processDeletionBatch
ToSchedule ==
    /\ Aged(clock, Schedule)
    /\ ~(\E s \in Subs : Live(s)) /\ ~InDunning /\ Scheduled = {}

ToRemove == \E i \in kept : Aged(due[i], Delay)

\* A run that finds nothing changes nothing, and is left out.
BeginRun ==
    /\ At(Cron, "idle") /\ Unless(Resting /\ Answered)
    /\ ToSchedule \/ ToRemove \/ \E s \in Subs : Stale(s)
    /\ Go(Cron, IF ToSchedule THEN "plan" ELSE "batch")
    /\ UNCHANGED <<provider, row, account, claim, listed, chosen, now, visits, trouble>>

\* scheduleExcessForUser looks again before it picks at random.
PlanRemoval ==
    /\ At(Cron, "plan")
    /\ \/ /\ \E s \in Subs : Live(s)
          /\ CancelDowngrade
          /\ Go(Cron, "batch")
          /\ UNCHANGED chosen
       \/ /\ ~(\E s \in Subs : Live(s)) /\ (InDunning \/ Scheduled # {})
          /\ Go(Cron, "batch")
          /\ UNCHANGED <<account, chosen>>
       \/ /\ ~(\E s \in Subs : Live(s)) /\ ~InDunning /\ Scheduled = {}
          /\ chosen' \in kSubset(Excess, kept)
          /\ clock' = IF Excess = 0 /\ Aged(clock, Schedule + Delay) THEN None ELSE clock
          /\ Go(Cron, IF Excess = 0 THEN "batch" ELSE "schedule")
          /\ UNCHANGED <<drops, kept, due, told>>
    /\ UNCHANGED <<provider, row, claim, listed, bounds>>

ScheduleRemoval ==
    /\ At(Cron, "schedule")
    /\ due' = [i \in Items |-> IF i \in chosen THEN now ELSE due[i]]
    /\ chosen' = {}
    /\ Go(Cron, "batch")
    /\ UNCHANGED <<provider, row, clock, drops, kept, told, claim, listed, bounds>>

BeginRemoval ==
    /\ At(Cron, "batch")
    /\ Go(Cron, IF ToRemove THEN "trim" ELSE "list")
    /\ UNCHANGED <<provider, row, account, claim, listed, chosen, bounds>>

\* deleteScheduledForUser removes no more than exceeds the plan of the moment.
PlanTrim ==
    LET excess == IF Entitled THEN 0 ELSE Excess
        n      == IF excess < Cardinality(Scheduled) THEN excess ELSE Cardinality(Scheduled)
    IN  /\ At(Cron, "trim")
        /\ chosen' \in kSubset(n, Scheduled)
        /\ Go(Cron, "remove")
        /\ UNCHANGED <<provider, row, account, claim, listed, bounds>>

\* What was scheduled and is spared is scheduled no more.
Remove ==
    /\ At(Cron, "remove")
    /\ kept' = kept \ chosen
    /\ due' = [i \in Items |-> None]
    /\ clock' = None /\ chosen' = {}
    /\ Go(Cron, "list")
    /\ UNCHANGED <<provider, row, drops, told, claim, listed, bounds>>

ListRows(w, subs) ==
    /\ listed' = [listed EXCEPT ![w] =
          [s \in Subs |-> IF s \in subs THEN PriorOf(s) ELSE "unlisted"]]
    /\ Go(w, "row")
    /\ UNCHANGED <<provider, row, account, claim, chosen, now, trouble>>

\* Mutated: rows in dunning are left to the notifications.
M_ListStale ==
    /\ At(Cron, "list")
    /\ ListRows(Cron, {s \in Subs : Stale(s) /\ Live(s)})
    /\ UNCHANGED <<faults, visits>>

ListStale ==
    /\ At(Cron, "list")
    /\ ListRows(Cron, {s \in Subs : Stale(s)})
    /\ UNCHANGED <<faults, visits>>

\* syncSubscriptionFromStripe takes up every row.
BeginVisit ==
    /\ At(Visit, "idle") /\ visits < MaxVisits
    /\ visits' = visits + 1
    /\ Unless(Resting)
    /\ ListRows(Visit, {s \in Subs : row[s].status # "none"})

TakeUp(w, s) ==
    /\ At(w, "row") /\ listed[w][s] # "unlisted"
    /\ listed' = [listed EXCEPT ![w][s] = "unlisted"]
    /\ worker' = [worker EXCEPT ![w] =
          [Idle EXCEPT !.step = "retrieve", !.sub = s, !.prior = listed[w][s]]]
    /\ UNCHANGED <<provider, row, account, claim, chosen, bounds>>

EndSweep(w) ==
    /\ At(w, "row") /\ \A s \in Subs : listed[w][s] = "unlisted"
    /\ Stop(w)
    /\ UNCHANGED <<provider, row, account, claim, listed, chosen, bounds>>

-----------------------------------------------------------------------------
(* What goes wrong.                                                        *)

Mirroring == {"retrieve", "write", "sync", "recover", "other", "claim", "stamp", "mark"}

\* A statement or a call fails: a request gives up, a sweep takes the next row,
\* the daily run its next part; a part that cannot begin ends the run.
Fail(w) ==
    /\ Fault("failures")
    /\ \/ w \in Requests /\ worker[w].step \in Mirroring /\ Refuse(w) /\ UNCHANGED chosen
       \/ w \in Sweeps /\ worker[w].step \in Mirroring /\ Finish(w) /\ UNCHANGED <<claim, chosen>>
       \/ /\ w = Cron /\ worker[w].step \in {"plan", "schedule", "trim", "remove"}
          /\ Go(w, IF worker[w].step \in {"plan", "schedule"} THEN "batch" ELSE "list")
          /\ chosen' = {}
          /\ UNCHANGED claim
       \/ w = Cron /\ worker[w].step \in {"batch", "list"} /\ Stop(w) /\ UNCHANGED <<claim, chosen>>
    /\ UNCHANGED <<provider, row, account, listed, now, visits, trouble>>

Kill(w) ==
    /\ Fault("kills")
    /\ ~At(w, "idle")
    /\ Stop(w)
    /\ listed' = IF w \in Sweeps THEN [listed EXCEPT ![w] = [s \in Subs |-> "unlisted"]] ELSE listed
    /\ chosen' = IF w = Cron THEN {} ELSE chosen
    /\ UNCHANGED <<provider, row, account, claim, now, visits, trouble>>

-----------------------------------------------------------------------------

ProviderStep ==
    \E s \in Subs :
        \/ Subscribe(s) \/ Renew(s) \/ Charge(s) \/ GiveUp(s) \/ RecoverPayment(s) \/ Cancel(s)
        \/ \E k \in Kinds : Lose(s, k)

Deliveries == \E r \in Requests, s \in Subs, k \in Kinds : Deliver(r, s, k)
Expiries   == \E s \in Subs, k \in Kinds : ClaimLapses(s, k)

MirrorStep(w) ==
    \/ Retrieve(w) \/ Write(w) \/ SyncForms(w) \/ Recover(w)
    \/ CheckOther(w) \/ ClaimLoss(w) \/ StampDrops(w) \/ StartClock(w)

RequestStep(r) == MirrorStep(r) \/ Answer(r)

SweepStep(w) == MirrorStep(w) \/ EndSweep(w) \/ \E s \in Subs : TakeUp(w, s)

CronStep ==
    \/ BeginRun \/ PlanRemoval \/ ScheduleRemoval \/ BeginRemoval \/ PlanTrim \/ Remove \/ ListStale
    \/ SweepStep(Cron)

Next ==
    \/ ProviderStep \/ Tick
    \/ Deliveries \/ Expiries
    \/ \E r \in Requests : RequestStep(r)
    \/ CronStep
    \/ BeginVisit \/ SweepStep(Visit)
    \/ \E w \in Workers : Fail(w) \/ Kill(w)

\* The provider repeats what is not answered; a request, once begun, goes on;
\* the run is started every day.  Nobody has to pay, to cancel or to visit.
Fairness ==
    /\ WF_vars(Deliveries) /\ WF_vars(Expiries)
    /\ \A r \in Requests : WF_vars(RequestStep(r))
    /\ WF_vars(CronStep) /\ WF_vars(SweepStep(Visit))

Spec == Init /\ [][Next]_vars /\ Fairness

-----------------------------------------------------------------------------
(* Properties.                                                             *)

\* The provider waits for each answer, nothing is lost and nothing killed.
Calm == trouble \subseteq {"failures"}

\* However the charge of a renewal ends, a subscription gives no access beyond a
\* day after what was paid for ends, if the provider waits for its answers; and
\* no more than the one period shown before it was charged beyond that, whatever
\* is lost, repeated, late or read before it changed: access is never indefinite
\* (subscription-entitlement.ts:19-23).
AccessIsPaid ==
    \A s \in Subs :
        Counts(s) => now <= stripe[s].paid + Grace + (IF Calm THEN 0 ELSE Period)

\* A row that the provider contradicts, of an ended period or long in dunning.
Outdated(s) ==
    /\ Stale(s)
    /\ row[s].status # Mirror(stripe[s].status) \/ row[s].until # stripe[s].until

\* No lost, late or repeated notification, and no handler that writes what it
\* read long ago, leaves a row wrong for ever (subscription-sync.ts:437-448).
MirrorSettles == []<>(\A s \in Subs : ~Outdated(s))

\* What ran at the provider is over, and the daily run can see it where no
\* notification told.
Over ==
    /\ \A s \in Subs : stripe[s].status \in {"none"} \cup Lost
    /\ \E s \in Subs : stripe[s].status \in Lost
    /\ "losses" \in trouble =>
          \A s \in Subs : stripe[s].status \in Lost =>
              row[s].status = "canceled" \/ Stale(s)

Downgraded == drops # "unlimited" /\ (clock # None \/ Excess = 0)
Unharmed   == drops = "unlimited" /\ clock = None /\ Scheduled = {}

\* The account of a user whose subscriptions are all over is downgraded, even
\* if notifications were lost, and that of a user who pays is not, if the
\* provider waits for its answers and repeats what failed
\* (subscription-loss.ts:49-55, billing-downgrade.ts:164-167).
AccountFollows ==
    []<>(/\ trouble \in {{}, {"failures"}, {"losses"}} /\ Over => Downgraded
         /\ Calm /\ (\E s \in Subs : stripe[s].status = "active") => Unharmed)

\* Nothing is removed before the day that the last mail about a loss named
\* (billing-downgrade.ts:254-257).
WarningKept ==
    [][Calm /\ kept' # kept => told = None \/ told + Schedule + Delay <= now]_vars

=============================================================================
