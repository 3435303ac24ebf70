--------------------------- MODULE CryptoBilling ---------------------------
(***************************************************************************)
(* Prepaid plans of one user: invoices, the payment notifications of the   *)
(* provider (IPN), activations, renewals, refunds, payments held back      *)
(* because a card subscription runs, the daily run that ends lapsed        *)
(* periods and takes held payments up again, and what a lost plan does to  *)
(* the account.  Sources: api/webhooks/nowpayments, lib/services/          *)
(* crypto-activation.ts, crypto-subscription.ts, subscription-sync.ts.     *)
(*                                                                         *)
(* A statement or a transaction is one action.  Time counts days: requests *)
(* and deliveries end within one, invoices and periods last some.          *)
(***************************************************************************)
EXTENDS Integers, FiniteSets, FiniteSetsExt

CONSTANTS
    Orders,         \* invoices the user may open
    Earlier,        \* those whose plan already runs when the behaviour begins
    Sent,           \* the statuses the provider notifies of an order
    Cards,          \* the states the user's card subscription gets into
    Requests,       \* notifications handled at once
    Period,         \* days an order pays for
    Grace,          \* days a lapsed period still counts as running
    Start,          \* the day the behaviour begins
    MaxTime,        \* bound: the clock stops there
    Troubles,       \* what may go wrong in one behaviour
    MaxFaults,      \* bound: statements that fail, requests and runs that are killed
    None

\* The statuses the provider notifies of: "sending" is handled as "confirmed",
\* "waiting" and "partially_paid" as "confirming", and "expired" as "failed".
Notices == {"confirming", "confirmed", "finished", "failed", "refunded"}

ASSUME CryptoAssumption ==
    /\ Earlier \subseteq Orders /\ IsFiniteSet(Orders)
    /\ \A x, y \in Earlier : x = y
    /\ Troubles \subseteq SUBSET {"failures", "haste", "kills"}
    /\ "none" \in Cards /\ Cards \subseteq {"none", "live", "past_due", "ended"}
    /\ Sent \in [Orders -> SUBSET Notices]
    /\ {Period, Grace, Start, MaxTime, MaxFaults} \subseteq Nat
    /\ Grace <= Period /\ Start <= MaxTime
    /\ None \notin Orders \cup Notices /\ {"cron", "support"} \cap Requests = {}

Cron    == "cron"
Support == "support"
Workers == Requests \cup {Cron, Support}

VARIABLES
    payment,    \* crypto_payments.status
    sub,        \* subscriptions "crypto_<order>": status, end, lossNotifiedAt is set
    loss,       \* what the loss of the plan did: drops got an expiry, the clock started
    card,       \* status of the user's card subscription
    claim,      \* Redis: who may handle a notification
    worker,     \* what a request, the daily run, the support's request is doing
    todo,       \* rows the daily run still has to take up
    invoice,    \* provider: how far the payment is, and what was paid
    unanswered, \* provider: notifications not answered with 200
    now, faults,
    trouble     \* statements fail, the provider does not wait for answers, requests are killed

rows     == <<payment, sub>>
provider == <<invoice, unanswered>>
bounds   == <<now, faults, trouble>>
vars     == <<rows, loss, card, claim, worker, todo, provider, bounds>>

-----------------------------------------------------------------------------

Success  == {"confirmed", "finished"}
Terminal == {"finished", "failed", "refunded", "expired"}

\* "rejected" is underpaid or price_mismatch.
PaymentStatus == {"none", "waiting", "expired", "needs_review", "rejected"} \cup Notices

Steps == {"idle", "reject", "update", "activate", "recover", "refund", "pending",
          "check", "stamp", "mark", "note", "answer", "expire", "undo", "recheck"}

TypeOK ==
    /\ payment \in [Orders -> PaymentStatus]
    /\ sub \in [Orders -> [status : {"none", "active", "expired", "canceled"},
                           end : Nat, noted : BOOLEAN]]
    /\ loss \subseteq {"drops", "clock"}
    /\ card \in Cards
    /\ claim \in [Orders -> [Notices -> {"free", "held", "done"}]]
    /\ worker \in [Workers -> [step : Steps, order : Orders \cup {None},
                               notice : Notices \cup {None}]]
    /\ todo \subseteq Orders
    /\ invoice \in [Orders -> [stage : {"none", "waiting", "lapsed"} \cup Notices, short : BOOLEAN]]
    /\ unanswered \in [Orders -> SUBSET Notices]
    /\ now \in Start..MaxTime /\ faults \in 0..MaxFaults
    /\ trouble \in Troubles

Idle == [step |-> "idle", order |-> None, notice |-> None]

\* The user may have a plan already: its notifications were all handled.
Init ==
    /\ payment = [o \in Orders |-> IF o \in Earlier THEN "finished" ELSE "none"]
    /\ sub = [o \in Orders |-> IF o \in Earlier
          THEN [status |-> "active", end |-> Period, noted |-> FALSE]
          ELSE [status |-> "none", end |-> 0, noted |-> FALSE]]
    /\ loss = {} /\ card = "none"
    /\ claim = [o \in Orders |-> [s \in Notices |->
          IF o \in Earlier /\ s \in {"confirming", "confirmed", "finished"} THEN "done" ELSE "free"]]
    /\ worker = [w \in Workers |-> Idle] /\ todo = {}
    /\ invoice = [o \in Orders |->
          [stage |-> IF o \in Earlier THEN "finished" ELSE "none", short |-> FALSE]]
    /\ unanswered = [o \in Orders |-> {}]
    /\ now = Start /\ faults = 0 /\ trouble \in Troubles

-----------------------------------------------------------------------------
(* Rows and guards.                                                        *)

Active(o)  == sub[o].status = "active"
Running(o) == Active(o) /\ sub[o].end > now
Lapsed(o)  == Active(o) /\ sub[o].end + Grace < now
Pending(o) == sub[o].status = "canceled" /\ ~sub[o].noted

\* A card subscription that still bills, or is in dunning.
CardConflicts == card \in {"live", "past_due"}

\* Entitlement checks count a period until a day after its end.
Counts(o) == Active(o) /\ sub[o].end + Grace > now
Entitled  == card = "live" \/ \E o \in Orders : Counts(o)

\* Mutated: a new period starts now.
M_PeriodStart(o) == now

\* A new period starts when the running one, of another order, ends.
PeriodStart(o) == Max({now} \cup {sub[x].end : x \in {y \in Orders \ {o} : Running(y)}})

\* Mutated: the refund is forgotten.
M_Settled(o) == payment[o] \in Terminal \ {"refunded"}

Settled(o) == payment[o] \in Terminal
SetStatus(o, s) == payment' = [payment EXCEPT ![o] = s]

\* Mutated: a status is written whatever has been written since.
M_SetUnlessSettled(o, s) == SetStatus(o, s)

\* A status is written only if no terminal one has been written since.
SetUnlessSettled(o, s) == IF Settled(o) THEN UNCHANGED payment ELSE SetStatus(o, s)

At(w, step) == worker[w].step = step
Go(w, step) == worker' = [worker EXCEPT ![w].step = step]
Stop(w)     == worker' = [worker EXCEPT ![w] = Idle]
OrderOf(w)  == worker[w].order

NextRow(step) == worker' = [worker EXCEPT ![Cron] = [Idle EXCEPT !.step = step]]

\* The end of one order's handling: a request answers, the daily run goes on
\* with the next row, the support's request is over.
Finish(w) ==
    CASE w \in Requests -> Go(w, "answer")
      [] w = Support    -> Stop(w)
      [] OTHER          -> NextRow(IF worker[w].notice = None THEN "expire" ELSE "recheck")

Fault(kind) == kind \in trouble /\ faults < MaxFaults /\ faults' = faults + 1

-----------------------------------------------------------------------------
(* The user, the provider, the card subscription, time.                    *)

Checkout(o) ==
    /\ payment[o] = "none" /\ ~CardConflicts
    /\ SetStatus(o, "waiting")
    /\ invoice' = [invoice EXCEPT ![o].stage = "waiting"]
    /\ UNCHANGED <<sub, loss, card, claim, worker, todo, unanswered, bounds>>

\* The statuses of a payment, and whether less was paid than asked for.
After(stage) ==
    CASE stage = "waiting"    -> {"confirming", "confirmed", "finished", "failed"}
      [] stage = "confirming" -> {"confirmed", "finished", "failed"}
      [] stage = "confirmed"  -> {"finished"}
      [] stage = "finished"   -> {"refunded"}
      [] OTHER                -> {}

Notify(o) ==
    /\ "haste" \notin trouble => unanswered[o] = {}
    /\ \E s \in Sent[o] \cap After(invoice[o].stage), short \in BOOLEAN :
          /\ short = invoice[o].short \/ invoice[o].stage = "waiting"
          /\ invoice' = [invoice EXCEPT ![o] = [stage |-> s, short |-> short]]
          /\ unanswered' = [unanswered EXCEPT ![o] = @ \cup {s}]
    /\ UNCHANGED <<rows, loss, card, claim, worker, todo, bounds>>

\* Nobody paid in time: no payment is accepted, and no notification comes.
InvoiceLapses(o) ==
    /\ invoice[o].stage = "waiting"
    /\ invoice' = [invoice EXCEPT ![o].stage = "lapsed"]
    /\ UNCHANGED <<rows, loss, card, claim, worker, todo, unanswered, bounds>>

\* The card subscription, and what its own notifications do to the account.
CardMoves ==
    /\ card' \in Cards \cap
          CASE card = "none"     -> {"live"}
            [] card = "live"     -> {"past_due", "ended"}
            [] card = "past_due" -> {"ended"}
            [] OTHER             -> {}
    /\ loss' = CASE card' = "live" -> {}
                 [] card' = "ended" /\ ~(\E o \in Orders : Counts(o)) -> {"drops", "clock"}
                 [] OTHER -> loss
    /\ UNCHANGED <<rows, claim, worker, todo, provider, bounds>>

Tick ==
    /\ now < MaxTime
    /\ \A w \in Workers : At(w, "idle")
    /\ \A o \in Orders : unanswered[o] = {}
    /\ now' = now + 1
    /\ UNCHANGED <<rows, loss, card, claim, worker, todo, provider, faults, trouble>>

-----------------------------------------------------------------------------
(* A notification.                                                         *)

Handled(o, s) == \E w \in Requests : OrderOf(w) = o /\ worker[w].notice = s

\* What the stored status, read without a lock, says is to be done.
Decision(o, s) ==
    LET p == payment[o]
        pays == s \in Success /\ p \notin Success
    IN  CASE s = "refunded"                         -> "refund"
          [] s # "refunded" /\ p \in Terminal       -> "answer"
          [] p \notin Terminal /\ pays /\ invoice[o].short  -> "reject"
          [] p \notin Terminal /\ pays /\ ~invoice[o].short -> "activate"
          [] OTHER                                  -> "update"

\* One delivery, first or repeated, in any order: the claim, and the lookup it
\* allows.  Whoever finds the claim taken answers 200.  All free requests are
\* alike.
Deliver(r, o, s) ==
    /\ At(r, "idle") /\ r = CHOOSE x \in Requests : At(x, "idle")
    /\ s \in unanswered[o]
    /\ "haste" \notin trouble => ~Handled(o, s)
    /\ IF claim[o][s] = "free"
       THEN /\ claim' = [claim EXCEPT ![o][s] = "held"]
            /\ worker' = [worker EXCEPT ![r] =
                  [step |-> Decision(o, s), order |-> o, notice |-> s]]
            /\ UNCHANGED unanswered
       ELSE /\ unanswered' = [unanswered EXCEPT ![o] = @ \ {s}]
            /\ UNCHANGED <<claim, worker>>
    /\ UNCHANGED <<rows, loss, card, todo, invoice, bounds>>

\* The claim expires after five minutes, which outlives any request.
ClaimLapses(o, s) ==
    /\ claim[o][s] = "held" /\ ~Handled(o, s)
    /\ claim' = [claim EXCEPT ![o][s] = "free"]
    /\ UNCHANGED <<rows, loss, card, worker, todo, provider, bounds>>

Write(r) ==
    /\ At(r, "reject") \/ At(r, "update")
    /\ SetUnlessSettled(OrderOf(r), IF At(r, "reject") THEN "rejected" ELSE worker[r].notice)
    /\ Go(r, "answer")
    /\ UNCHANGED <<sub, loss, card, claim, todo, provider, bounds>>

Answer(r) ==
    /\ At(r, "answer")
    /\ claim' = [claim EXCEPT ![OrderOf(r)][worker[r].notice] = "done"]
    /\ unanswered' = [unanswered EXCEPT ![OrderOf(r)] = @ \ {worker[r].notice}]
    /\ Stop(r)
    /\ UNCHANGED <<rows, loss, card, todo, invoice, bounds>>

\* A statement fails: the claim is given back and the answer is 500.
Fail(r) ==
    /\ worker[r].step \notin {"idle", "recover", "answer"}
    /\ Fault("failures")
    /\ claim' = [claim EXCEPT ![OrderOf(r)][worker[r].notice] = "free"]
    /\ Stop(r)
    /\ UNCHANGED <<rows, loss, card, todo, provider, now, trouble>>

-----------------------------------------------------------------------------
(* Activation, by a request, the daily run or the support.                 *)

\* Mutated: the plan of another order is left as it is.
M_Entitle(o, s, start) ==
    /\ SetStatus(o, s)
    /\ sub' = [sub EXCEPT ![o].status = "active", ![o].end = start + Period]

\* The serializable transaction.  Superseded plans of the user expire.
Entitle(o, s, start) ==
    /\ SetStatus(o, s)
    /\ sub' = [x \in Orders |->
          IF x = o THEN [sub[o] EXCEPT !.status = "active", !.end = start + Period]
          ELSE IF Active(x) THEN [sub[x] EXCEPT !.status = "expired"] ELSE sub[x]]

Activate(w) ==
    LET o == OrderOf(w) IN
    /\ At(w, "activate")
    /\ \/ /\ CardConflicts /\ w # Support
          /\ SetUnlessSettled(o, "needs_review")
          /\ Finish(w)
          /\ UNCHANGED sub
       \/ /\ ~CardConflicts \/ w = Support
          /\ IF Settled(o) THEN Finish(w) /\ UNCHANGED rows
             ELSE Entitle(o, worker[w].notice, PeriodStart(o)) /\ Go(w, "recover")
    /\ UNCHANGED <<loss, card, claim, todo, provider, bounds>>

\* cancelDowngrade, after the commit; its failure is logged and ignored.
Recover(w) ==
    /\ At(w, "recover")
    /\ \/ loss' = {} /\ UNCHANGED faults
       \/ Fault("failures") /\ UNCHANGED loss
    /\ Finish(w)
    /\ UNCHANGED <<rows, card, claim, todo, provider, now, trouble>>

\* The support takes up one held payment, whatever the card does.
BeginSupport(o) ==
    /\ At(Support, "idle") /\ payment[o] = "needs_review"
    /\ worker' = [worker EXCEPT ![Support] =
          [step |-> "activate", order |-> o, notice |-> "finished"]]
    /\ UNCHANGED <<rows, loss, card, claim, todo, provider, bounds>>

-----------------------------------------------------------------------------
(* Refund, and the loss of a plan.                                         *)

\* Mutated: a repeated refund closes the mark of the first.
M_RefundRow(o) ==
    CASE Active(o) -> [sub[o] EXCEPT !.status = "canceled"]
      [] sub[o].status \in {"expired", "canceled"} ->
            [sub[o] EXCEPT !.status = "canceled", !.noted = TRUE]
      [] OTHER -> sub[o]

\* Mutated: the status of the payment is copied into the subscription.
M_CopiedRow(o) == [sub[o] EXCEPT !.status = payment[o]]

\* Serializable.  A plan that was running leaves lossNotifiedAt open: the mark
\* of a loss still to be applied.  The end of a canceled period has no reader.
RefundRow(o) ==
    CASE Active(o) ->
            [sub[o] EXCEPT !.status = "canceled"]
      [] sub[o].status = "expired" ->
            [sub[o] EXCEPT !.status = "canceled", !.noted = TRUE]
      [] OTHER -> sub[o]

Refund(r) ==
    LET o == OrderOf(r) IN
    /\ At(r, "refund")
    /\ SetStatus(o, "refunded")
    /\ sub' = [sub EXCEPT ![o] = RefundRow(o)]
    /\ Go(r, "pending")
    /\ UNCHANGED <<loss, card, claim, todo, provider, bounds>>

FindPending(r) ==
    /\ At(r, "pending")
    /\ Go(r, IF Pending(OrderOf(r)) THEN "check" ELSE "answer")
    /\ UNCHANGED <<rows, loss, card, claim, todo, provider, bounds>>

\* A refund closes its mark; the daily run has none.
AfterLoss(w) == IF w \in Requests THEN Go(w, "note") ELSE Finish(w)

CheckOther(w) ==
    /\ At(w, "check")
    /\ IF Entitled THEN AfterLoss(w) ELSE Go(w, "stamp")
    /\ UNCHANGED <<rows, loss, card, claim, todo, provider, bounds>>

StampDrops(w) ==
    /\ At(w, "stamp")
    /\ loss' = loss \cup {"drops"}
    /\ Go(w, "mark")
    /\ UNCHANGED <<rows, card, claim, todo, provider, bounds>>

StartClock(w) ==
    /\ At(w, "mark")
    /\ loss' = loss \cup {"clock"}
    /\ AfterLoss(w)
    /\ UNCHANGED <<rows, card, claim, todo, provider, bounds>>

Note(r) ==
    /\ At(r, "note")
    /\ sub' = [sub EXCEPT ![OrderOf(r)].noted = TRUE]
    /\ Go(r, "answer")
    /\ UNCHANGED <<payment, loss, card, claim, todo, provider, bounds>>

-----------------------------------------------------------------------------
(* The daily run: lapsed periods first, then the held payments.            *)

\* A run that finds nothing changes nothing, and is left out.
BeginRun ==
    /\ At(Cron, "idle")
    /\ \E o \in Orders : Lapsed(o) \/ payment[o] = "needs_review"
    /\ todo' = {o \in Orders : Lapsed(o)}
    /\ Go(Cron, "expire")
    /\ UNCHANGED <<rows, loss, card, claim, provider, bounds>>

\* The row is still active: it expires, and its loss is applied.
Expire(o) ==
    /\ At(Cron, "expire") /\ o \in todo
    /\ todo' = todo \ {o}
    /\ IF Active(o)
       THEN /\ sub' = [sub EXCEPT ![o].status = "expired"]
            /\ worker' = [worker EXCEPT ![Cron] = [step |-> "check", order |-> o, notice |-> None]]
       ELSE UNCHANGED <<sub, worker>>
    /\ UNCHANGED <<payment, loss, card, claim, provider, bounds>>

\* The loss cannot be applied: the row becomes active again for the next run.
\* That this fails too is a run killed here.
LossFails ==
    /\ worker[Cron].step \in {"check", "stamp", "mark"}
    /\ Fault("failures")
    /\ Go(Cron, "undo")
    /\ UNCHANGED <<rows, loss, card, claim, todo, provider, now, trouble>>

Undo ==
    /\ At(Cron, "undo")
    /\ sub' = [sub EXCEPT ![OrderOf(Cron)].status = IF @ = "expired" THEN "active" ELSE @]
    /\ NextRow("expire")
    /\ UNCHANGED <<payment, loss, card, claim, todo, provider, bounds>>

\* Mutated: held payments wait for the support.
M_ListHeld ==
    /\ At(Cron, "expire") /\ todo = {}
    /\ Go(Cron, "recheck")
    /\ UNCHANGED <<rows, loss, card, claim, todo, provider, bounds>>

ListHeld ==
    /\ At(Cron, "expire") /\ todo = {}
    /\ todo' = {o \in Orders : payment[o] = "needs_review"}
    /\ Go(Cron, "recheck")
    /\ UNCHANGED <<rows, loss, card, claim, provider, bounds>>

TakeUp(o) ==
    /\ At(Cron, "recheck") /\ o \in todo
    /\ todo' = todo \ {o}
    /\ worker' = [worker EXCEPT ![Cron] =
          [step |-> "activate", order |-> o, notice |-> "finished"]]
    /\ UNCHANGED <<rows, loss, card, claim, provider, bounds>>

\* An activation rolls back: the run goes on, the support's request fails.
ActivationFails(w) ==
    /\ w \in {Cron, Support} /\ At(w, "activate")
    /\ Fault("failures")
    /\ Finish(w)
    /\ UNCHANGED <<rows, loss, card, claim, todo, provider, now, trouble>>

EndRun ==
    /\ At(Cron, "recheck") /\ todo = {}
    /\ Stop(Cron)
    /\ UNCHANGED <<rows, loss, card, claim, todo, provider, bounds>>

\* The hourly run gives up an invoice that is a week old.
ExpireInvoice(o) ==
    /\ payment[o] = "waiting" /\ invoice[o].stage = "lapsed"
    /\ SetStatus(o, "expired")
    /\ UNCHANGED <<sub, loss, card, claim, worker, todo, provider, bounds>>

Kill(w) ==
    /\ Fault("kills")
    /\ ~At(w, "idle")
    /\ Stop(w)
    /\ todo' = IF w = Cron THEN {} ELSE todo
    /\ UNCHANGED <<rows, loss, card, claim, provider, now, trouble>>

-----------------------------------------------------------------------------

UserStep     == \E o \in Orders : Checkout(o)
ProviderStep == \E o \in Orders : Notify(o) \/ InvoiceLapses(o)

Deliveries == \E r \in Requests, o \in Orders, s \in Notices : Deliver(r, o, s)
Expiries   == \E o \in Orders, s \in Notices : ClaimLapses(o, s)

RequestStep(r) ==
    \/ Write(r) \/ Answer(r)
    \/ Activate(r) \/ Recover(r)
    \/ Refund(r) \/ FindPending(r) \/ CheckOther(r) \/ StampDrops(r) \/ StartClock(r) \/ Note(r)

CronStep ==
    \/ BeginRun \/ ListHeld \/ EndRun \/ Undo
    \/ \E o \in Orders : Expire(o) \/ TakeUp(o)
    \/ CheckOther(Cron) \/ StampDrops(Cron) \/ StartClock(Cron)
    \/ Activate(Cron) \/ Recover(Cron)

SupportStep == Activate(Support) \/ Recover(Support)

Failures ==
    \/ \E r \in Requests : Fail(r)
    \/ LossFails
    \/ \E w \in {Cron, Support} : ActivationFails(w)
    \/ \E w \in Workers : Kill(w)

Next ==
    \/ UserStep \/ ProviderStep \/ CardMoves \/ Tick
    \/ Deliveries \/ Expiries
    \/ \E r \in Requests : RequestStep(r)
    \/ CronStep
    \/ \E o \in Orders : BeginSupport(o) \/ ExpireInvoice(o)
    \/ SupportStep
    \/ Failures

\* The provider repeats what is not answered; a request, once begun, goes on;
\* the run is started every day.  Nobody has to pay, to cancel or to support.
Fairness ==
    /\ WF_vars(Deliveries) /\ WF_vars(Expiries)
    /\ WF_vars(SupportStep \/ \E r \in Requests : RequestStep(r))
    /\ WF_vars(CronStep)

Spec == Init /\ [][Next]_vars /\ Fairness

-----------------------------------------------------------------------------
(* Properties.                                                             *)

\* The provider waits for each answer, and nothing is killed.
Calm == trouble \subseteq {"failures"}

\* A refund wins: whatever success notification is late, whichever activation
\* or daily run is under way, a refunded payment stays refunded and gives no
\* plan (route.ts:140-143, crypto-activation.ts:123-124).
RefundIsFinal ==
    [][\A o \in Orders :
          /\ payment[o] = "refunded" => payment'[o] = "refunded"
          /\ payment'[o] = "refunded" => sub'[o].status # "active"]_vars

\* Two orders never give two plans at once (subscription-sync.ts:602-605): a
\* lapsed row that the daily run makes active again does not count.
OneEntitling == Cardinality({o \in Orders : Counts(o)}) <= 1

\* Until when the user has paid.
Until == Max({now} \cup {sub[o].end : o \in {x \in Orders : Active(x)}})

Begins(o) == payment[o] \notin Success /\ payment'[o] \in Success

\* Only a refund takes paid days away, and every renewal adds its period to
\* what is left of the plan it supersedes (crypto-activation.ts:106-108), if the
\* provider waits for each answer before it sends the next status.
RemainderKeptInOrder ==
    [][Calm /\ ~(\E o \in Orders : payment'[o] = "refunded") =>
          /\ Until' >= Until
          /\ (\E o \in Orders : Begins(o)) => Until' >= Until + Period]_vars

Unserved(o) ==
    /\ invoice[o].stage = "finished" /\ ~invoice[o].short
    /\ sub[o].status = "none"
    /\ ~CardConflicts

\* No order that is paid in full stays without a plan for ever, unless a card
\* subscription holds it back for ever: failing statements are repeated, held
\* payments taken up again (crypto-activation.ts:253-257).
PaidIsServed == []<>(Calm => \A o \in Orders : ~Unserved(o))

Downgraded == "clock" \in loss

Revoked(o) == Pending(o) /\ \E r \in Requests : At(r, "pending") /\ OrderOf(r) = o

\* A plan that lapsed or was refunded starts the downgrade of the account,
\* despite failing statements, unless another plan runs
\* (crypto-subscription.ts:82-85, route.ts:210-213).  A refund that falls between
\* the expiry of a lapsed row and its failed loss finds nothing to revoke.
LossReachesUser ==
    /\ (Calm /\ \E o \in Orders : Revoked(o)) ~> (Downgraded \/ Entitled)
    /\ (Calm /\ \E o \in Orders : Lapsed(o)) ~>
          (Downgraded \/ Entitled \/ \E o \in Orders : payment[o] = "refunded" /\ sub[o].noted)

=============================================================================
