------------------------- MODULE CardBillingProofs -------------------------
(***************************************************************************)
(* Theorems about CardBilling for any number of subscriptions, items and   *)
(* requests, any lengths of the periods and graces, and any combination of *)
(* failures, losses, haste and kills.                                      *)
(***************************************************************************)
EXTENDS CardBilling, TLAPS

USE DEF Workers, Sweeps, Cron, Visit

-----------------------------------------------------------------------------
(* The inductive invariant.                                                *)

\* What the invariant says of the constants.
LEMMA Constants ==
    /\ FormPlans \subseteq Subs
    /\ MaxVisits \in Nat /\ Keep \in Nat /\ Period \in Nat /\ Period > 0 /\ Grace \in Nat
    /\ Schedule \in Nat /\ Delay \in Nat /\ MaxTime \in Nat /\ MaxFaults \in Nat
    /\ None \notin Nat /\ None \notin Subs
    /\ "cron" \notin Requests /\ "visit" \notin Requests
BY CardAssumption

StripeRecords == [status : StripeStatus, until : Days, paid : Days]
RowRecords    == [status : RowStatus, until : Days, noted : BOOLEAN, synced : Days]
WorkerRecords == [step : Steps, sub : Subs \cup {None}, kind : Kinds \cup {None},
                  seen : StripeStatus, until : Days, prior : Prior, notify : BOOLEAN]

AccountTyped ==
    /\ clock \in 0..MaxTime \cup {None} /\ told \in 0..MaxTime \cup {None}
    /\ drops \in {"unlimited", "grace", "limited"}
    /\ kept \subseteq Items /\ due \in [Items -> 0..MaxTime \cup {None}]

RestTyped ==
    /\ unanswered \in [Subs -> SUBSET Kinds]
    /\ claim \in [Subs -> SUBSET Kinds]
    /\ listed \in [Sweeps -> [Subs -> Prior]]
    /\ chosen \subseteq Items
    /\ faults \in 0..MaxFaults /\ visits \in 0..MaxVisits /\ trouble \in Troubles

\* A running period is paid, or is the one after the last that was paid, which is
\* over then, as it is in dunning.
Charged(x, t) ==
    /\ x.status = "active" => x.until = x.paid \/ (x.until = x.paid + Period /\ x.paid <= t)
    /\ x.status \in {"none", "past_due", "unpaid"} => x.paid <= t

\* The provider's periods.
Billed ==
    /\ now \in 0..MaxTime
    /\ stripe \in [Subs -> StripeRecords] /\ snapshot \in [Subs -> Days]
    /\ \A s \in Subs : Charged(stripe[s], now) /\ snapshot[s] <= stripe[s].paid

\* No row runs a whole period beyond what was paid for.
RowsPaid ==
    /\ row \in [Subs -> RowRecords]
    /\ \A s \in Subs : row[s].status = "active" => row[s].until <= stripe[s].paid + Period

\* Nor does what a handler or a sweep saw of a running subscription, however
\* long ago.
Sound(x) ==
    /\ x \in WorkerRecords
    /\ x.step \in Mirroring \cup {"answer"} => x.sub \in Subs
    /\ x.seen = "active" => x.sub \in Subs /\ x.until <= stripe[x.sub].paid + Period

WorkersSound ==
    /\ worker \in [Workers -> WorkerRecords]
    /\ \A w \in Workers : Sound(worker[w])

CardInv == AccountTyped /\ RestTyped /\ Billed /\ RowsPaid /\ WorkersSound

-----------------------------------------------------------------------------
(* How a worker goes on.                                                   *)

\* A worker that goes on with a sound record stays sound.
LEMMA OneWorker ==
    ASSUME WorkersSound, NEW w \in Workers, NEW x, Sound(x),
           worker' = [worker EXCEPT ![w] = x], UNCHANGED stripe
    PROVE  WorkersSound'
<1>1. worker' \in [Workers -> WorkerRecords]
  BY DEF WorkersSound, Sound
<1>2. ASSUME NEW v \in Workers PROVE Sound(worker[v])'
  BY DEF WorkersSound, Sound
<1> QED BY <1>1, <1>2 DEF WorkersSound

\* A sweep that takes the next row holds nothing.
LEMMA IdleSound == Sound([Idle EXCEPT !.step = "row"])
<1>1. 0 \in Days /\ "none" \in StripeStatus /\ "unlisted" \in Prior /\ "row" \in Steps
  BY Constants DEF Days, StripeStatus, Prior, Steps
<1> QED BY <1>1 DEF Idle, Sound, WorkerRecords, Mirroring

\* A worker stops.
LEMMA StopSound ==
    ASSUME WorkersSound, NEW w \in Workers, Stop(w), UNCHANGED stripe
    PROVE  WorkersSound'
<1>1. 0 \in Days /\ "none" \in StripeStatus /\ "unlisted" \in Prior /\ "idle" \in Steps
  BY Constants DEF Days, StripeStatus, Prior, Steps
<1>2. Sound(Idle)
  BY <1>1 DEF Idle, Sound, WorkerRecords, Mirroring
<1> QED BY <1>2, OneWorker DEF Stop

\* A worker takes the next step with what it holds.
LEMMA GoSound ==
    ASSUME WorkersSound, NEW w \in Workers, NEW step \in Steps, Go(w, step),
           step \in Mirroring \cup {"answer"} => worker[w].sub \in Subs,
           UNCHANGED stripe
    PROVE  WorkersSound'
<1> DEFINE x == [worker[w] EXCEPT !.step = step]
<1>1. worker' = [worker EXCEPT ![w] = x]
  BY DEF Go
<1>2. Sound(x)
  BY DEF WorkersSound, Sound, WorkerRecords
<1> HIDE DEF x
<1> QED BY <1>1, <1>2, OneWorker

\* A worker takes the next step and forgets what it saw.
LEMMA ForgetSound ==
    ASSUME WorkersSound, NEW w \in Workers, NEW step \in Steps, Forget(w, step),
           worker[w].sub \in Subs, UNCHANGED stripe
    PROVE  WorkersSound'
<1> DEFINE x == [Idle EXCEPT !.step = step, !.sub = worker[w].sub, !.kind = worker[w].kind]
<1>1. worker' = [worker EXCEPT ![w] = x]
  BY DEF Forget
<1>2. 0 \in Days /\ "none" \in StripeStatus /\ "unlisted" \in Prior
  BY Constants DEF Days, StripeStatus, Prior
<1>3. Sound(x)
  BY <1>2 DEF Idle, WorkersSound, Sound, WorkerRecords
<1> HIDE DEF x
<1> QED BY <1>1, <1>3, OneWorker

\* A request answers, a sweep takes the next row.
LEMMA FinishSound ==
    ASSUME WorkersSound, NEW w \in Workers, Finish(w), worker[w].sub \in Subs,
           UNCHANGED stripe
    PROVE  WorkersSound'
<1>1. CASE w \in Requests
  BY <1>1, ForgetSound DEF Finish, Steps
<1>2. CASE w \notin Requests
  <2>1. Sound([Idle EXCEPT !.step = "row"])
    BY IdleSound
  <2>2. worker' = [worker EXCEPT ![w] = [Idle EXCEPT !.step = "row"]]
    BY <1>2 DEF Finish
  <2> QED BY <2>1, <2>2, OneWorker
<1> QED BY <1>1, <1>2

\* What the provider is paid only grows, so that what was seen stays sound.
LEMMA PaidGrows ==
    ASSUME WorkersSound, UNCHANGED worker, stripe' \in [Subs -> StripeRecords],
           stripe \in [Subs -> StripeRecords],
           \A s \in Subs : stripe[s].paid <= stripe'[s].paid
    PROVE  WorkersSound'
<1>1. ASSUME NEW w \in Workers PROVE Sound(worker[w])'
  BY Constants DEF WorkersSound, Sound, WorkerRecords, StripeRecords, Days
<1> QED BY <1>1 DEF WorkersSound

-----------------------------------------------------------------------------
(* Mirroring one subscription.                                             *)

LEMMA RetrieveStep ==
    ASSUME CardInv, NEW w \in Workers, Retrieve(w) PROVE CardInv'
<1> DEFINE s == SubOf(w)
           x == [worker[w] EXCEPT !.step = "write", !.seen = stripe[s].status,
                                  !.until = stripe[s].until]
<1>1. s \in Subs
  BY DEF CardInv, WorkersSound, Sound, Retrieve, At, SubOf, Mirroring
<1>2. worker' = [worker EXCEPT ![w] = x] /\ UNCHANGED stripe
  BY DEF Retrieve, provider
<1>3. Sound(x)
  <2>1. stripe[s] \in StripeRecords /\ Charged(stripe[s], now)
    BY <1>1 DEF CardInv, Billed
  <2>2. worker[w] \in WorkerRecords /\ worker[w].sub = s
    BY DEF CardInv, WorkersSound, SubOf
  <2>3. stripe[s].status = "active" => stripe[s].until <= stripe[s].paid + Period
    BY <2>1, Constants DEF StripeRecords, Days, Charged
  <2> HIDE DEF s
  <2>4. x \in WorkerRecords /\ x.sub = s /\ x.seen = stripe[s].status /\ x.until = stripe[s].until
    BY <2>1, <2>2 DEF WorkerRecords, StripeRecords, Steps
  <2> HIDE DEF x
  <2> QED BY <1>1, <2>1, <2>3, <2>4 DEF Sound
<1> HIDE DEF s, x
<1>4. WorkersSound'
  BY <1>2, <1>3, OneWorker DEF CardInv
<1> QED BY <1>4 DEF CardInv, AccountTyped, RestTyped, Billed, RowsPaid, Retrieve, provider, account, bounds

\* What is written of a subscription is what was seen of it.
LEMMA WriteStep ==
    ASSUME CardInv, NEW w \in Workers, Write(w) PROVE CardInv'
<1> DEFINE s == SubOf(w)
           known == row[s].status # "none"
<1>1. s \in Subs /\ worker[w] \in WorkerRecords /\ Sound(worker[w])
  BY DEF CardInv, WorkersSound, Sound, Write, At, SubOf, Mirroring
<1>2. UNCHANGED <<provider, account, listed, chosen, bounds>>
  BY DEF Write
<1>3. CASE /\ known \/ KindOf(w) = "checkout"
           /\ row' = [row EXCEPT ![s] = Mirrored(s, worker[w].seen, worker[w].until)]
           /\ Go(w, "sync")
           /\ UNCHANGED claim
  <2>1. WorkersSound'
    BY <1>1, <1>2, <1>3, GoSound DEF CardInv, Steps, provider, SubOf
  <2>2. Mirrored(s, worker[w].seen, worker[w].until) \in RowRecords
    <3>1. worker[w].seen \in StripeStatus /\ worker[w].until \in Days
      BY <1>1 DEF WorkerRecords
    <3>2. Mirror(worker[w].seen) \in RowStatus
      BY <3>1 DEF Mirror, StripeStatus, RowStatus
    <3>3. row[s].noted \in BOOLEAN /\ now \in Days /\ 0 \in Days
      BY <1>1, Constants DEF CardInv, RowsPaid, RowRecords, Billed, Days
    <3> QED BY <3>1, <3>2, <3>3 DEF Mirrored, RowRecords, SyncedAt
  <2>3. Mirrored(s, worker[w].seen, worker[w].until).status = "active"
        => worker[w].until <= stripe[s].paid + Period
    BY <1>1 DEF Mirrored, Mirror, Sound, SubOf
  <2>4. Mirrored(s, worker[w].seen, worker[w].until).until = worker[w].until
    BY DEF Mirrored
  <2>5. RowsPaid'
    BY <1>1, <1>2, <1>3, <2>2, <2>3, <2>4 DEF CardInv, RowsPaid, provider
  <2> QED BY <1>2, <1>3, <2>1, <2>5
          DEF CardInv, AccountTyped, RestTyped, Billed, provider, account, bounds
<1>4. CASE /\ ~known /\ KindOf(w) = "deleted"
           /\ worker' = [worker EXCEPT ![w].step = "other", ![w].notify = TRUE]
           /\ UNCHANGED <<row, claim>>
  <2> DEFINE x == [worker[w] EXCEPT !.step = "other", !.notify = TRUE]
  <2>1. Sound(x)
    BY <1>1 DEF Sound, WorkerRecords, Steps, SubOf
  <2>2. worker' = [worker EXCEPT ![w] = x]
    BY <1>4
  <2> HIDE DEF x
  <2>3. WorkersSound'
    BY <1>2, <2>1, <2>2, OneWorker DEF CardInv, provider
  <2> QED BY <1>2, <1>4, <2>3
          DEF CardInv, AccountTyped, RestTyped, Billed, RowsPaid, provider, account, bounds
<1>5. CASE ~known /\ KindOf(w) \notin {"checkout", "deleted"} /\ Refuse(w) /\ UNCHANGED row
  <2>1. WorkersSound'
    BY <1>2, <1>5, StopSound DEF CardInv, Refuse, provider
  <2>2. claim' \in [Subs -> SUBSET Kinds]
    BY <1>5 DEF CardInv, RestTyped, Refuse, Release
  <2> QED BY <1>2, <1>5, <2>1, <2>2
          DEF CardInv, AccountTyped, RestTyped, Billed, RowsPaid, provider, account, bounds
<1> QED BY <1>3, <1>4, <1>5 DEF Write

\* The account's parts stay typed when a downgrade is canceled.
LEMMA CancelTyped == ASSUME AccountTyped, CancelDowngrade PROVE AccountTyped'
<1>1. due' \in [Items -> 0..MaxTime \cup {None}]
  BY DEF CancelDowngrade
<1>2. drops' \in {"unlimited", "grace", "limited"}
  BY DEF AccountTyped, CancelDowngrade
<1> QED BY <1>1, <1>2 DEF AccountTyped, CancelDowngrade

\* The steps that leave the rows alone: the account may change, and the worker
\* goes on, finishes or forgets what it saw.
LEMMA SyncStep ==
    ASSUME CardInv, NEW w \in Workers, SyncForms(w) PROVE CardInv'
<1>1. worker[w].sub \in Subs
  BY DEF CardInv, WorkersSound, Sound, SyncForms, At, Mirroring
<1>2. UNCHANGED <<provider, row, drops, kept, due, told, claim, listed, chosen, bounds>>
  BY DEF SyncForms
<1>3. Forget(w, "other") \/ Forget(w, "recover") \/ Finish(w)
  BY DEF SyncForms
<1>4. WorkersSound'
  BY <1>1, <1>2, <1>3, ForgetSound, FinishSound DEF CardInv, Steps, provider
<1>5. clock' \in 0..MaxTime \cup {None}
  <2>1. clock' = clock \/ clock' = None \/ clock' = now
    BY Constants DEF SyncForms
  <2> QED BY <2>1 DEF CardInv, AccountTyped, Billed
<1> QED BY <1>2, <1>4, <1>5
        DEF CardInv, AccountTyped, RestTyped, Billed, RowsPaid, provider, bounds

LEMMA RecoverStep ==
    ASSUME CardInv, NEW w \in Workers, Recover(w) PROVE CardInv'
<1>1. worker[w].sub \in Subs
  BY DEF CardInv, WorkersSound, Sound, Recover, At, Mirroring
<1>2. WorkersSound'
  BY <1>1, FinishSound DEF CardInv, Recover, provider
<1>3. AccountTyped'
  BY CancelTyped DEF CardInv, Recover
<1> QED BY <1>2, <1>3 DEF CardInv, RestTyped, Billed, RowsPaid, Recover, provider, bounds

LEMMA CheckOtherStep ==
    ASSUME CardInv, NEW w \in Workers, CheckOther(w) PROVE CardInv'
<1>1. worker[w].sub \in Subs
  BY DEF CardInv, WorkersSound, Sound, CheckOther, At, Mirroring
<1>2. Finish(w) \/ Go(w, "stamp") \/ Go(w, "claim")
  BY DEF CheckOther
<1>3. WorkersSound'
  BY <1>1, <1>2, FinishSound, GoSound DEF CardInv, CheckOther, Steps, provider
<1> QED BY <1>3
        DEF CardInv, AccountTyped, RestTyped, Billed, RowsPaid, CheckOther, provider, account, bounds

LEMMA ClaimLossStep ==
    ASSUME CardInv, NEW w \in Workers, ClaimLoss(w) PROVE CardInv'
<1> DEFINE s == SubOf(w)
           x == [worker[w] EXCEPT !.step = "stamp", !.notify = ~row[s].noted]
<1>1. s \in Subs /\ Sound(worker[w])
  BY DEF CardInv, WorkersSound, Sound, ClaimLoss, At, SubOf, Mirroring
<1>2. Sound(x)
  BY <1>1 DEF Sound, WorkerRecords, Steps, SubOf
<1>3. worker' = [worker EXCEPT ![w] = x] /\ UNCHANGED stripe
  BY DEF ClaimLoss, provider
<1>4. row' = row
      \/ row' = [row EXCEPT ![s].noted = TRUE, ![s].synced = SyncedAt(row[s].status)]
  BY DEF ClaimLoss
<1> HIDE DEF x, s
<1>5. WorkersSound'
  BY <1>2, <1>3, OneWorker DEF CardInv
<1>6. RowsPaid'
  <2>1. SyncedAt(row[s].status) \in Days
    BY Constants DEF CardInv, Billed, SyncedAt, Days
  <2>2. row' \in [Subs -> RowRecords]
    BY <1>1, <1>4, <2>1 DEF CardInv, RowsPaid, RowRecords
  <2>3. \A t \in Subs : row'[t].status = row[t].status /\ row'[t].until = row[t].until
    BY <1>1, <1>4 DEF CardInv, RowsPaid, RowRecords
  <2> QED BY <1>3, <2>2, <2>3 DEF CardInv, RowsPaid
<1> QED BY <1>5, <1>6
        DEF CardInv, AccountTyped, RestTyped, Billed, ClaimLoss, provider, account, bounds

LEMMA StampStep ==
    ASSUME CardInv, NEW w \in Workers, StampDrops(w) PROVE CardInv'
<1>1. worker[w].sub \in Subs
  BY DEF CardInv, WorkersSound, Sound, StampDrops, At, Mirroring
<1>2. WorkersSound'
  BY <1>1, GoSound DEF CardInv, StampDrops, Steps, provider
<1> QED BY <1>2 DEF CardInv, AccountTyped, RestTyped, Billed, RowsPaid, StampDrops, provider, bounds

LEMMA StartClockStep ==
    ASSUME CardInv, NEW w \in Workers, StartClock(w) PROVE CardInv'
<1>1. worker[w].sub \in Subs
  BY DEF CardInv, WorkersSound, Sound, StartClock, At, Mirroring
<1>2. WorkersSound'
  BY <1>1, FinishSound DEF CardInv, StartClock, provider
<1> QED BY <1>2 DEF CardInv, AccountTyped, RestTyped, Billed, RowsPaid, StartClock, provider, bounds

LEMMA MirrorPreserves ==
    ASSUME CardInv, NEW w \in Workers, MirrorStep(w) PROVE CardInv'
BY RetrieveStep, WriteStep, SyncStep, RecoverStep, CheckOtherStep, ClaimLossStep, StampStep,
   StartClockStep DEF MirrorStep

-----------------------------------------------------------------------------
(* The provider and time.                                                  *)

\* The faults stay within their bound.
LEMMA UnlessTyped ==
    ASSUME RestTyped, NEW calm, Unless(calm) PROVE faults' \in 0..MaxFaults
BY Constants DEF RestTyped, Unless, Fault

LEMMA FaultTyped ==
    ASSUME RestTyped, NEW kind, Fault(kind) PROVE faults' \in 0..MaxFaults
BY Constants DEF RestTyped, Fault

\* A move of the provider keeps the invariant if it takes back nothing paid.
LEMMA MoveStep ==
    ASSUME CardInv, NEW s \in Subs, NEW new \in StripeRecords, NEW kinds \in SUBSET Kinds,
           Move(s, new, kinds),
           stripe[s].paid <= new.paid, Charged(new, now),
           snapshot' \in [Subs -> Days], snapshot'[s] <= new.paid,
           \A t \in Subs \ {s} : snapshot'[t] = snapshot[t]
    PROVE  CardInv'
<1>1. /\ stripe' = [stripe EXCEPT ![s] = new] /\ now' = now
      /\ UNCHANGED <<row, account, worker, listed, chosen, visits, trouble>>
  BY DEF Move
<1>2. Billed'
  <2>1. stripe' \in [Subs -> StripeRecords]
    BY <1>1 DEF CardInv, Billed
  <2>2. ASSUME NEW t \in Subs
        PROVE  Charged(stripe'[t], now') /\ snapshot'[t] <= stripe'[t].paid
    BY <1>1 DEF CardInv, Billed
  <2> QED BY <1>1, <2>1, <2>2 DEF CardInv, Billed
<1>3. \A t \in Subs : stripe[t].paid <= stripe'[t].paid
  BY <1>1 DEF CardInv, Billed, StripeRecords, Days
<1>4. WorkersSound'
  BY <1>1, <1>2, <1>3, PaidGrows DEF CardInv, Billed
<1>5. RowsPaid'
  BY <1>1, <1>2, <1>3, Constants DEF CardInv, RowsPaid, Billed, RowRecords, StripeRecords, Days
<1>6. RestTyped'
  <2>1. unanswered' \in [Subs -> SUBSET Kinds] /\ claim' \in [Subs -> SUBSET Kinds]
    BY DEF Move, CardInv, RestTyped
  <2>2. faults' \in 0..MaxFaults
    BY UnlessTyped DEF Move, CardInv
  <2> QED BY <1>1, <2>1, <2>2 DEF CardInv, RestTyped
<1> QED BY <1>1, <1>2, <1>4, <1>5, <1>6 DEF CardInv, AccountTyped, account

LEMMA ProviderPreserves == ASSUME CardInv, ProviderStep PROVE CardInv'
<1> SUFFICES ASSUME NEW s \in Subs,
                    \/ Subscribe(s) \/ Renew(s) \/ Charge(s) \/ GiveUp(s) \/ RecoverPayment(s)
                    \/ Cancel(s)
                    \/ \E k \in Kinds : Lose(s, k)
             PROVE  CardInv'
  BY DEF ProviderStep
<1>0. /\ stripe[s] \in StripeRecords /\ snapshot \in [Subs -> Days]
      /\ Charged(stripe[s], now) /\ snapshot[s] <= stripe[s].paid
      /\ now \in 0..MaxTime
  BY DEF CardInv, Billed
<1> DEFINE paidUp == [status |-> "active", until |-> now + Period, paid |-> now + Period]
<1>1. now + Period \in Days
  BY <1>0, Constants DEF Days
<1>2. paidUp \in StripeRecords
  BY <1>1 DEF StripeRecords, StripeStatus
<1>3. Charged(paidUp, now) /\ paidUp.paid = now + Period
  BY DEF Charged
<1> HIDE DEF paidUp
<1>4. CASE Subscribe(s)
  <2>1. Move(s, paidUp, {"checkout", "paid"}) /\ UNCHANGED snapshot /\ stripe[s].status = "none"
    BY <1>4 DEF Subscribe, paidUp
  <2>2. stripe[s].paid <= now + Period /\ snapshot[s] <= now + Period
    BY <1>0, <2>1, Constants DEF StripeRecords, Days, Charged
  <2> QED BY <1>0, <1>2, <1>3, <2>1, <2>2, MoveStep DEF Kinds
<1>5. CASE Renew(s)
  <2> DEFINE new == [stripe[s] EXCEPT !.until = @ + Period]
  <2>1. /\ stripe[s].status = "active" /\ stripe[s].until = now /\ stripe[s].paid = now
        /\ Move(s, new, {"changed"}) /\ UNCHANGED snapshot
    BY <1>5 DEF Renew, Draft
  <2>2. new \in StripeRecords /\ new.until = now + Period /\ new.paid = now /\ new.status = "active"
    BY <1>0, <1>1, <2>1 DEF StripeRecords
  <2>3. Charged(new, now)
    BY <1>0, <2>2 DEF Charged
  <2> HIDE DEF new
  <2> QED BY <1>0, <2>1, <2>2, <2>3, MoveStep DEF Kinds
<1>10. CASE Charge(s)
  <2>1. stripe[s].status = "active" /\ stripe[s].until = stripe[s].paid + Period /\ stripe[s].paid <= now
    BY <1>0, <1>10 DEF Charge, Draft, Charged
  <2>2. stripe[s].paid \in Int /\ stripe[s].until \in Days
    BY <1>0 DEF StripeRecords, Days
  <2>3. CASE /\ Move(s, [stripe[s] EXCEPT !.paid = stripe[s].until], {"paid"})
             /\ UNCHANGED snapshot
    <3> DEFINE new == [stripe[s] EXCEPT !.paid = stripe[s].until]
    <3>1. /\ new \in StripeRecords /\ new.status = "active" /\ new.until = stripe[s].until
          /\ new.paid = stripe[s].until
      BY <1>0, <2>1 DEF StripeRecords
    <3>2. Move(s, new, {"paid"}) /\ Charged(new, now)
      BY <2>3, <3>1 DEF Charged
    <3> HIDE DEF new
    <3>3. stripe[s].paid <= new.paid /\ snapshot[s] <= new.paid
      BY <1>0, <2>1, <2>2, <3>1, Constants DEF Days
    <3> QED BY <1>0, <2>3, <3>1, <3>2, <3>3, MoveStep DEF Kinds
  <2>4. CASE /\ Move(s, [stripe[s] EXCEPT !.status = "past_due"], {"changed"})
             /\ UNCHANGED snapshot
    <3> DEFINE new == [stripe[s] EXCEPT !.status = "past_due"]
    <3>1. new \in StripeRecords /\ new.status = "past_due" /\ new.paid = stripe[s].paid
      BY <1>0 DEF StripeRecords, StripeStatus
    <3>2. Move(s, new, {"changed"}) /\ Charged(new, now)
      BY <2>1, <2>4, <3>1 DEF Charged
    <3> HIDE DEF new
    <3> QED BY <1>0, <2>2, <2>4, <3>1, <3>2, MoveStep DEF Kinds
  <2> QED BY <1>10, <2>3, <2>4 DEF Charge
<1>6. CASE GiveUp(s)
  <2> DEFINE new == [stripe[s] EXCEPT !.status = "unpaid"]
  <2>1. /\ stripe[s].status = "past_due" /\ Move(s, new, {"changed"}) /\ UNCHANGED snapshot
    BY <1>6 DEF GiveUp
  <2>2. new \in StripeRecords /\ Charged(new, now) /\ new.paid = stripe[s].paid
    BY <1>0, <2>1 DEF StripeRecords, StripeStatus, Charged
  <2>3. stripe[s].paid \in Int
    BY <1>0 DEF StripeRecords, Days
  <2> HIDE DEF new
  <2> QED BY <1>0, <2>1, <2>2, <2>3, MoveStep DEF Kinds
<1>7. CASE RecoverPayment(s)
  <2>1. \/ /\ stripe[s].status \in {"past_due", "unpaid"}
           /\ Move(s, paidUp, {"paid", "changed"})
           /\ UNCHANGED snapshot
        \/ /\ stripe[s].status = "unpaid"
           /\ Move(s, paidUp, {"resumed", "changed"})
           /\ snapshot' = [snapshot EXCEPT ![s] = now + Period]
    BY <1>7 DEF RecoverPayment, paidUp
  <2>2. stripe[s].paid <= now + Period /\ now + Period \in Int
    BY <1>0, <2>1, Constants DEF StripeRecords, Days, Charged
  <2>3. snapshot' \in [Subs -> Days] /\ snapshot'[s] <= now + Period
        /\ \A t \in Subs \ {s} : snapshot'[t] = snapshot[t]
    BY <1>0, <1>1, <2>1, <2>2, Constants DEF StripeRecords, Days
  <2> QED BY <1>2, <1>3, <2>1, <2>2, <2>3, MoveStep DEF Kinds
<1>8. CASE Cancel(s)
  <2> DEFINE new == [stripe[s] EXCEPT !.status = "canceled"]
  <2>1. Move(s, new, {"deleted"}) /\ UNCHANGED snapshot
    BY <1>8 DEF Cancel
  <2>2. new \in StripeRecords /\ Charged(new, now) /\ new.paid = stripe[s].paid
    BY <1>0 DEF StripeRecords, StripeStatus, Charged
  <2>3. stripe[s].paid \in Int
    BY <1>0 DEF StripeRecords, Days
  <2> HIDE DEF new
  <2> QED BY <1>0, <2>1, <2>2, <2>3, MoveStep DEF Kinds
<1>9. ASSUME NEW k \in Kinds, Lose(s, k) PROVE CardInv'
  <2>1. unanswered' \in [Subs -> SUBSET Kinds]
    BY <1>9 DEF CardInv, RestTyped, Lose
  <2> QED BY <1>9, <2>1 DEF CardInv, AccountTyped, RestTyped, Billed, RowsPaid, WorkersSound,
                            Sound, Lose, account, bounds
<1> QED BY <1>4, <1>5, <1>6, <1>7, <1>8, <1>9, <1>10

LEMMA TickStep == ASSUME CardInv, Tick PROVE CardInv'
<1>1. faults' \in 0..MaxFaults
  BY UnlessTyped DEF CardInv, Tick
<1>2. now' \in 0..MaxTime /\ now <= now'
  BY Constants DEF CardInv, Billed, Tick
<1>3. Billed'
  BY <1>2, Constants DEF CardInv, Billed, Tick, provider, StripeRecords, Days, Charged
<1> QED BY <1>1, <1>3 DEF CardInv, AccountTyped, RestTyped, RowsPaid, WorkersSound, Sound,
                          Tick, provider, account

-----------------------------------------------------------------------------
(* Notifications.                                                          *)

LEMMA DeliverStep ==
    ASSUME CardInv, NEW r \in Requests, NEW s \in Subs, NEW k \in Kinds, Deliver(r, s, k)
    PROVE  CardInv'
<1>1. UNCHANGED <<stripe, snapshot, row, account, listed, chosen, now, visits, trouble>>
  BY DEF Deliver
<1>2. faults' \in 0..MaxFaults
  BY UnlessTyped DEF CardInv, Deliver
<1>3. claim' \in [Subs -> SUBSET Kinds] /\ unanswered' \in [Subs -> SUBSET Kinds]
  BY DEF CardInv, RestTyped, Deliver
<1>4. WorkersSound'
  <2>1. CASE k \notin claim[s]
    <3> DEFINE x == [Idle EXCEPT !.step = IF k \in {"deleted", "resumed"} THEN "write" ELSE "retrieve",
                                 !.sub = s, !.kind = k,
                                 !.seen = Payload(s, k).seen, !.until = Payload(s, k).until]
    <3>1. worker' = [worker EXCEPT ![r] = x]
      BY <2>1 DEF Deliver
    <3>2. Payload(s, k).seen \in StripeStatus /\ Payload(s, k).until \in Days
      BY Constants DEF Payload, CardInv, Billed, StripeRecords, StripeStatus, Days, Kinds
    <3>3. Payload(s, k).seen = "active" => Payload(s, k).until <= stripe[s].paid + Period
      BY Constants DEF Payload, CardInv, Billed, Kinds, StripeRecords, Days
    <3>4. Sound(x)
      BY <3>2, <3>3 DEF Idle, Sound, WorkerRecords, Steps, Prior
    <3> HIDE DEF x
    <3> QED BY <1>1, <3>1, <3>4, OneWorker DEF CardInv
  <2>2. CASE k \in claim[s]
    BY <1>1, <2>2 DEF Deliver, CardInv, WorkersSound, Sound
  <2> QED BY <2>1, <2>2
<1> QED BY <1>1, <1>2, <1>3, <1>4 DEF CardInv, AccountTyped, RestTyped, Billed, RowsPaid, account

LEMMA ClaimLapsesStep ==
    ASSUME CardInv, NEW s \in Subs, NEW k \in Kinds, ClaimLapses(s, k) PROVE CardInv'
<1>1. claim' \in [Subs -> SUBSET Kinds]
  BY DEF CardInv, RestTyped, ClaimLapses
<1> QED BY <1>1 DEF CardInv, AccountTyped, RestTyped, Billed, RowsPaid, WorkersSound, Sound,
                    ClaimLapses, provider, account, bounds

LEMMA AnswerStep == ASSUME CardInv, NEW r \in Requests, Answer(r) PROVE CardInv'
<1>1. WorkersSound'
  BY StopSound DEF CardInv, Answer
<1>2. claim' \in [Subs -> SUBSET Kinds] /\ unanswered' \in [Subs -> SUBSET Kinds]
  BY DEF CardInv, RestTyped, Answer, Release
<1> QED BY <1>1, <1>2 DEF CardInv, AccountTyped, RestTyped, Billed, RowsPaid, Answer, account, bounds

-----------------------------------------------------------------------------
(* The daily run, the user's synchronization, and what goes wrong.         *)

\* Steps outside the mirroring of a subscription.
Other == {"idle", "plan", "schedule", "batch", "trim", "remove", "list", "row"}

LEMMA GoOther ==
    ASSUME WorkersSound, NEW w \in Workers, NEW step \in Other, Go(w, step), UNCHANGED stripe
    PROVE  WorkersSound'
BY GoSound DEF Other, Steps, Mirroring

LEMMA RunStep ==
    ASSUME CardInv, BeginRun \/ BeginRemoval \/ PlanTrim \/ PlanRemoval \/ ScheduleRemoval \/ Remove
    PROVE  CardInv'
<1> USE DEF CardInv
<1>0. Cron \in Workers
  OBVIOUS
<1>1. CASE BeginRun
  <2>1. faults' \in 0..MaxFaults
    BY <1>1, UnlessTyped DEF BeginRun
  <2>2. WorkersSound'
    BY <1>0, <1>1, GoOther DEF BeginRun, Other, provider
  <2> QED BY <1>1, <2>1, <2>2
          DEF AccountTyped, RestTyped, Billed, RowsPaid, BeginRun, provider, account
<1>2. CASE BeginRemoval
  <2>1. WorkersSound'
    BY <1>0, <1>2, GoOther DEF BeginRemoval, Other, provider
  <2> QED BY <1>2, <2>1
          DEF AccountTyped, RestTyped, Billed, RowsPaid, BeginRemoval, provider, account, bounds
<1>3. CASE PlanTrim
  <2>1. WorkersSound'
    BY <1>0, <1>3, GoOther DEF PlanTrim, Other, provider
  <2>2. chosen' \subseteq Items
    BY <1>3 DEF AccountTyped, PlanTrim, kSubset, Scheduled
  <2> QED BY <1>3, <2>1, <2>2
          DEF AccountTyped, RestTyped, Billed, RowsPaid, PlanTrim, provider, account, bounds
<1>4. CASE PlanRemoval
  <2>1. UNCHANGED <<provider, row, claim, listed, bounds>>
    BY <1>4 DEF PlanRemoval
  <2>2. Go(Cron, "batch") \/ Go(Cron, "schedule")
    BY <1>4 DEF PlanRemoval
  <2>3. WorkersSound'
    BY <1>0, <2>1, <2>2, GoOther DEF Other, provider
  <2>4. AccountTyped' /\ chosen' \subseteq Items
    <3>1. CASE CancelDowngrade /\ UNCHANGED chosen
      BY <3>1, CancelTyped DEF RestTyped
    <3>2. CASE UNCHANGED <<account, chosen>>
      BY <3>2 DEF AccountTyped, RestTyped, account
    <3>3. CASE /\ chosen' \in kSubset(Excess, kept)
               /\ clock' = clock \/ clock' = None
               /\ UNCHANGED <<drops, kept, due, told>>
      BY <3>3 DEF AccountTyped, kSubset
    <3> QED BY <1>4, <3>1, <3>2, <3>3 DEF PlanRemoval
  <2> QED BY <2>1, <2>3, <2>4 DEF RestTyped, Billed, RowsPaid, provider, bounds
<1>5. CASE ScheduleRemoval
  <2>1. WorkersSound'
    BY <1>0, <1>5, GoOther DEF ScheduleRemoval, Other, provider
  <2>2. due' \in [Items -> 0..MaxTime \cup {None}]
    BY <1>5 DEF ScheduleRemoval, AccountTyped, Billed
  <2> QED BY <1>5, <2>1, <2>2
          DEF AccountTyped, RestTyped, Billed, RowsPaid, ScheduleRemoval, provider, bounds
<1>6. CASE Remove
  <2>1. WorkersSound'
    BY <1>0, <1>6, GoOther DEF Remove, Other, provider
  <2> QED BY <1>6, <2>1
          DEF AccountTyped, RestTyped, Billed, RowsPaid, Remove, provider, bounds
<1> QED BY <1>1, <1>2, <1>3, <1>4, <1>5, <1>6

\* What a sweep lists of the rows.
LEMMA ListTyped ==
    ASSUME CardInv, NEW w \in Sweeps, NEW subs, ListRows(w, subs), faults' \in 0..MaxFaults,
           visits' \in 0..MaxVisits
    PROVE  CardInv'
<1>1. WorkersSound'
  BY GoOther DEF CardInv, ListRows, Other, provider
<1>2. listed' \in [Sweeps -> [Subs -> Prior]]
  BY DEF CardInv, RestTyped, ListRows, PriorOf, Prior
<1> QED BY <1>1, <1>2
        DEF CardInv, AccountTyped, RestTyped, Billed, RowsPaid, ListRows, provider, account

LEMMA SweepPreserves ==
    ASSUME CardInv, NEW w \in Sweeps,
           EndSweep(w) \/ \E s \in Subs : TakeUp(w, s)
    PROVE  CardInv'
<1>1. CASE EndSweep(w)
  <2>1. WorkersSound'
    BY <1>1, StopSound DEF CardInv, EndSweep, provider
  <2> QED BY <1>1, <2>1
          DEF CardInv, AccountTyped, RestTyped, Billed, RowsPaid, EndSweep, provider, account, bounds
<1>2. ASSUME NEW s \in Subs, TakeUp(w, s) PROVE CardInv'
  <2> DEFINE x == [Idle EXCEPT !.step = "retrieve", !.sub = s, !.prior = listed[w][s]]
  <2>1. worker' = [worker EXCEPT ![w] = x] /\ UNCHANGED stripe
    BY <1>2 DEF TakeUp, provider
  <2>2. listed[w][s] \in Prior
    BY DEF CardInv, RestTyped
  <2>3. 0 \in Days /\ "none" \in StripeStatus /\ "retrieve" \in Steps
    BY Constants DEF Days, StripeStatus, Steps
  <2>4. Sound(x)
    BY <2>2, <2>3 DEF Idle, Sound, WorkerRecords
  <2> HIDE DEF x
  <2>5. WorkersSound'
    BY <2>1, <2>4, OneWorker DEF CardInv
  <2>6. listed' \in [Sweeps -> [Subs -> Prior]]
    BY <1>2 DEF CardInv, RestTyped, TakeUp, Prior
  <2> QED BY <1>2, <2>5, <2>6
          DEF CardInv, AccountTyped, RestTyped, Billed, RowsPaid, TakeUp, provider, account, bounds
<1> QED BY <1>1, <1>2

LEMMA ListStep == ASSUME CardInv, ListStale \/ BeginVisit PROVE CardInv'
<1>1. CASE ListStale
  BY <1>1, ListTyped DEF ListStale, CardInv, RestTyped
<1>2. CASE BeginVisit
  <2>1. faults' \in 0..MaxFaults
    BY <1>2, UnlessTyped DEF BeginVisit, CardInv
  <2>2. visits' \in 0..MaxVisits
    BY <1>2, Constants DEF BeginVisit, CardInv, RestTyped
  <2> QED BY <1>2, <2>1, <2>2, ListTyped DEF BeginVisit
<1> QED BY <1>1, <1>2

LEMMA FailStep == ASSUME CardInv, NEW w \in Workers, Fail(w) PROVE CardInv'
<1>1. faults' \in 0..MaxFaults /\ UNCHANGED <<provider, row, account, listed, now, visits, trouble>>
  BY FaultTyped DEF Fail, CardInv
<1>2. WorkersSound' /\ claim' \in [Subs -> SUBSET Kinds] /\ chosen' \subseteq Items
  <2>1. CASE w \in Requests /\ worker[w].step \in Mirroring /\ Refuse(w) /\ UNCHANGED chosen
    BY <1>1, <2>1, StopSound DEF CardInv, RestTyped, Refuse, Release, provider
  <2>2. CASE w \in Sweeps /\ worker[w].step \in Mirroring /\ Finish(w) /\ UNCHANGED <<claim, chosen>>
    <3>1. worker[w].sub \in Subs
      BY <2>2 DEF CardInv, WorkersSound, Sound
    <3> QED BY <1>1, <2>2, <3>1, FinishSound DEF CardInv, RestTyped, provider
  <2>3. CASE /\ Go(w, "batch") \/ Go(w, "list")
             /\ chosen' = {} /\ UNCHANGED claim
    BY <1>1, <2>3, GoOther DEF CardInv, RestTyped, Other, provider
  <2>4. CASE Stop(w) /\ UNCHANGED <<claim, chosen>>
    BY <1>1, <2>4, StopSound DEF CardInv, RestTyped, provider
  <2> QED BY <2>1, <2>2, <2>3, <2>4 DEF Fail
<1> QED BY <1>1, <1>2
        DEF CardInv, AccountTyped, RestTyped, Billed, RowsPaid, provider, account

LEMMA KillStep == ASSUME CardInv, NEW w \in Workers, Kill(w) PROVE CardInv'
<1>1. faults' \in 0..MaxFaults
  BY FaultTyped DEF Kill, CardInv
<1>2. WorkersSound'
  BY StopSound DEF CardInv, Kill, provider
<1>3. listed' \in [Sweeps -> [Subs -> Prior]] /\ chosen' \subseteq Items
  BY DEF CardInv, RestTyped, Kill, Prior
<1> QED BY <1>1, <1>2, <1>3
        DEF CardInv, AccountTyped, RestTyped, Billed, RowsPaid, Kill, provider, account

-----------------------------------------------------------------------------
(* A provider that waits for its answers.                                  *)

\* The steps after the row was written.
After == {"sync", "recover", "other", "claim", "stamp", "mark", "answer"}

\* A row that gives access shows a period that is paid, or is about to be charged.
Fit(s) == row[s].status = "active" => row[s].until <= stripe[s].paid \/ Draft(s)

\* What a worker is about to write is what the provider still says, unless it is
\* paid, and what a request has written fits.
Fresh(w) ==
    LET x == worker[w] IN
    /\ x.step = "write" /\ x.seen = "active" =>
          \/ x.until <= stripe[x.sub].paid
          \/ stripe[x.sub].status = "active" /\ x.until = stripe[x.sub].until
    /\ w \in Requests /\ x.step \in After => Fit(x.sub)
    /\ w \in Requests /\ x.step = "idle" => x.sub = None

\* No day passes before a draft is charged, nor while a row does not fit, since a
\* notification that corrects it is not answered; whoever claimed one handles it.
WaitInv ==
    /\ \A s \in Subs : Draft(s) => now <= stripe[s].paid
    /\ \A s \in Subs : ~Fit(s) =>
          now <= stripe[s].paid /\ unanswered[s] \cap {"changed", "deleted"} # {}
    /\ \A s \in Subs : \A k \in claim[s] : Handled(s, k)
    /\ \A w \in Workers : Fresh(w)

CalmInv == Calm => WaitInv

\* A waiting provider shows nothing new while anything runs.
LEMMA CalmUnless == ASSUME Calm, NEW calm, Unless(calm) PROVE calm
BY DEF Calm, Unless, Fault

\* What the steps of a worker leave of its record.
LEMMA GoFields ==
    ASSUME CardInv, NEW w \in Workers, NEW step, Go(w, step)
    PROVE  /\ \A v \in Workers \ {w} : worker'[v] = worker[v]
           /\ worker'[w].step = step /\ worker'[w].sub = worker[w].sub
           /\ worker'[w].kind = worker[w].kind
BY DEF CardInv, WorkersSound, WorkerRecords, Go

LEMMA ForgetFields ==
    ASSUME CardInv, NEW w \in Workers, NEW step, Forget(w, step)
    PROVE  /\ \A v \in Workers \ {w} : worker'[v] = worker[v]
           /\ worker'[w].step = step /\ worker'[w].sub = worker[w].sub
           /\ worker'[w].kind = worker[w].kind
BY DEF CardInv, WorkersSound, WorkerRecords, Forget, Idle

LEMMA StopFields ==
    ASSUME CardInv, NEW w \in Workers, Stop(w)
    PROVE  /\ \A v \in Workers \ {w} : worker'[v] = worker[v]
           /\ worker'[w].step = "idle" /\ worker'[w].sub = None
BY DEF CardInv, WorkersSound, Stop, Idle

LEMMA FinishFields ==
    ASSUME CardInv, NEW w \in Workers, Finish(w)
    PROVE  /\ \A v \in Workers \ {w} : worker'[v] = worker[v]
           /\ w \in Requests => /\ worker'[w].step = "answer" /\ worker'[w].sub = worker[w].sub
                                /\ worker'[w].kind = worker[w].kind
           /\ w \notin Requests => worker'[w].step = "row"
<1>1. CASE w \in Requests
  BY <1>1, ForgetFields DEF Finish
<1>2. CASE w \notin Requests
  BY <1>2 DEF Finish, CardInv, WorkersSound, Idle
<1> QED BY <1>1, <1>2

\* One worker goes on, the rows keep fitting, and a request that forgets its
\* notification gives the claim back.
LEMMA OneFresh ==
    ASSUME CardInv, WaitInv, NEW w \in Workers,
           \A v \in Workers \ {w} : worker'[v] = worker[v],
           UNCHANGED <<stripe, unanswered, now>>,
           \A s \in Subs : Fit(s) => Fit(s)',
           \A s \in Subs : claim'[s] \subseteq claim[s],
           Fresh(w)',
           w \in Requests =>
              \/ worker'[w].sub = worker[w].sub /\ worker'[w].kind = worker[w].kind
              \/ \A s \in Subs : s = worker[w].sub => worker[w].kind \notin claim'[s]
    PROVE  WaitInv'
<1>1. ASSUME NEW s \in Subs, Draft(s)' PROVE now' <= stripe'[s].paid
  BY <1>1 DEF WaitInv, Draft
<1>2. ASSUME NEW s \in Subs, ~Fit(s)'
      PROVE  now' <= stripe'[s].paid /\ unanswered'[s] \cap {"changed", "deleted"} # {}
  BY <1>2 DEF WaitInv
<1>3. ASSUME NEW s \in Subs, NEW k \in claim'[s] PROVE Handled(s, k)'
  <2>1. PICK r \in Requests : worker[r].sub = s /\ worker[r].kind = k
    BY DEF WaitInv, Handled, SubOf, KindOf
  <2>2. worker'[r].sub = s /\ worker'[r].kind = k
    BY <2>1
  <2> QED BY <2>2 DEF Handled, SubOf, KindOf
<1>4. ASSUME NEW v \in Workers PROVE Fresh(v)'
  <2>1. CASE v # w
    <3>1. worker'[v] = worker[v] /\ Fresh(v)
      BY <2>1 DEF WaitInv
    <3>2. v \in Requests /\ worker[v].step \in After => worker[v].sub \in Subs
      BY DEF CardInv, WorkersSound, Sound, After, Mirroring
    <3> QED BY <3>1, <3>2 DEF Fresh
  <2> QED BY <2>1
<1> QED BY <1>1, <1>2, <1>3, <1>4 DEF WaitInv

\* After the row was written, a worker goes on until it answers or takes the next.
LEMMA OnwardFresh ==
    ASSUME CardInv, WaitInv, NEW w \in Workers, NEW step \in After,
           worker[w].step \in After, worker[w].sub \in Subs,
           Go(w, step) \/ Forget(w, step) \/ Finish(w),
           UNCHANGED <<stripe, unanswered, now, claim>>,
           \A s \in Subs : Fit(s) => Fit(s)'
    PROVE  WaitInv'
<1>1. \A v \in Workers \ {w} : worker'[v] = worker[v]
  BY GoFields, ForgetFields, FinishFields
<1>2. w \in Requests => /\ worker'[w].step \in After /\ worker'[w].sub = worker[w].sub
                        /\ worker'[w].kind = worker[w].kind
  BY GoFields, ForgetFields, FinishFields DEF After
<1>3. worker'[w].step # "write" /\ worker'[w].step # "idle"
  BY GoFields, ForgetFields, FinishFields DEF After
<1>4. w \in Requests => Fit(worker[w].sub)
  BY DEF WaitInv, Fresh
<1>5. Fresh(w)'
  BY <1>2, <1>3, <1>4 DEF Fresh
<1> QED BY <1>1, <1>2, <1>5, OneFresh

\* A request that gives up gives the claim back.
LEMMA RefuseFresh ==
    ASSUME CardInv, WaitInv, NEW w \in Workers, Refuse(w),
           UNCHANGED <<stripe, unanswered, now, row>>
    PROVE  WaitInv'
<1>1. \A s \in Subs : claim'[s] = IF s = SubOf(w) THEN claim[s] \ {KindOf(w)} ELSE claim[s]
  BY DEF Refuse, Release, CardInv, RestTyped
<1>2. Fresh(w)'
  BY StopFields DEF Fresh, Refuse, After
<1>3. \A s \in Subs : Fit(s) => Fit(s)'
  BY DEF Fit, Draft
<1> QED BY <1>1, <1>2, <1>3, StopFields, OneFresh DEF Refuse, SubOf, KindOf

\* A sweep takes a step outside the mirroring of a subscription.
LEMMA SweepFresh ==
    ASSUME CardInv, WaitInv, NEW w \in Sweeps,
           \A v \in Workers \ {w} : worker'[v] = worker[v],
           worker'[w].step # "write",
           UNCHANGED <<stripe, unanswered, now, claim, row>>
    PROVE  WaitInv'
<1>1. Fresh(w)'
  BY Constants DEF Fresh
<1>2. \A s \in Subs : Fit(s) => Fit(s)'
  BY DEF Fit, Draft
<1> QED BY <1>1, <1>2, Constants, OneFresh

LEMMA RetrieveFresh ==
    ASSUME CardInv, WaitInv, NEW w \in Workers, Retrieve(w) PROVE WaitInv'
<1> USE DEF provider, bounds
<1>1. /\ \A v \in Workers \ {w} : worker'[v] = worker[v]
      /\ worker'[w].step = "write" /\ worker'[w].sub = worker[w].sub
      /\ worker'[w].kind = worker[w].kind
      /\ worker'[w].seen = stripe[worker[w].sub].status
      /\ worker'[w].until = stripe[worker[w].sub].until
  BY DEF CardInv, WorkersSound, WorkerRecords, Retrieve, SubOf
<1>2. Fresh(w)'
  BY <1>1 DEF Fresh, After, Retrieve
<1>3. \A s \in Subs : Fit(s) => Fit(s)'
  BY DEF Fit, Draft, Retrieve
<1> QED BY <1>1, <1>2, <1>3, OneFresh DEF Retrieve

\* Whatever is written fits.
LEMMA WriteFresh ==
    ASSUME CardInv, WaitInv, NEW w \in Workers, Write(w) PROVE WaitInv'
<1>0. SubOf(w) \in Subs /\ worker[w] \in WorkerRecords /\ worker[w].step = "write"
  BY DEF CardInv, WorkersSound, Sound, Write, At, SubOf, Mirroring
<1>1. PICK s \in Subs : s = worker[w].sub
  BY <1>0 DEF SubOf
<1> DEFINE known == row[s].status # "none"
<1>2. UNCHANGED <<stripe, unanswered, now>>
  BY DEF Write, provider, bounds
<1>3. CASE /\ known \/ KindOf(w) = "checkout"
           /\ row' = [row EXCEPT ![s] = Mirrored(s, worker[w].seen, worker[w].until)]
           /\ Go(w, "sync")
           /\ UNCHANGED claim
  <2>1. /\ \A t \in Subs \ {s} : row'[t] = row[t]
        /\ row'[s].status = Mirror(worker[w].seen) /\ row'[s].until = worker[w].until
    BY <1>3 DEF CardInv, RowsPaid, Mirrored
  <2>2. row'[s].status = "active" => \/ worker[w].until <= stripe[s].paid
                                     \/ stripe[s].status = "active" /\ worker[w].until = stripe[s].until
    BY <1>0, <1>1, <2>1 DEF Mirror, WaitInv, Fresh
  <2>3. Fit(s)'
    <3>1. stripe[s].paid \in Int
      BY DEF CardInv, Billed, StripeRecords, Days
    <3> QED BY <1>2, <2>1, <2>2, <3>1 DEF Fit, Draft
  <2>4. \A t \in Subs : Fit(t) => Fit(t)'
    BY <1>2, <2>1, <2>3 DEF Fit, Draft
  <2>5. Fresh(w)'
    <3>1. worker'[w].step = "sync" /\ worker'[w].sub = s
      BY <1>1, <1>3, GoFields
    <3> QED BY <2>3, <3>1 DEF Fresh
  <2> QED BY <1>2, <1>3, <2>4, <2>5, GoFields, OneFresh
<1>4. CASE /\ ~known /\ KindOf(w) = "deleted"
           /\ worker' = [worker EXCEPT ![w].step = "other", ![w].notify = TRUE]
           /\ UNCHANGED <<row, claim>>
  <2>1. /\ \A v \in Workers \ {w} : worker'[v] = worker[v]
        /\ worker'[w].step = "other" /\ worker'[w].sub = s /\ worker'[w].kind = worker[w].kind
    BY <1>1, <1>4 DEF CardInv, WorkersSound, WorkerRecords
  <2>2. \A t \in Subs : Fit(t) => Fit(t)'
    BY <1>2, <1>4 DEF Fit, Draft
  <2>3. Fresh(w)'
    <3>1. row'[s].status # "active"
      BY <1>4
    <3> QED BY <2>1, <3>1 DEF Fresh, Fit
  <2> QED BY <1>1, <1>2, <1>4, <2>1, <2>2, <2>3, OneFresh
<1>5. CASE ~known /\ KindOf(w) \notin {"checkout", "deleted"} /\ Refuse(w) /\ UNCHANGED row
  BY <1>2, <1>5, RefuseFresh
<1> QED BY <1>1, <1>3, <1>4, <1>5 DEF Write, SubOf

\* The steps from there to the answer.
LEMMA MirrorFresh ==
    ASSUME CardInv, WaitInv, NEW w \in Workers, MirrorStep(w) PROVE WaitInv'
<1> USE DEF provider, account, bounds, After
<1>0. UNCHANGED row => \A s \in Subs : UNCHANGED stripe /\ Fit(s) => Fit(s)'
  BY DEF Fit, Draft
<1>s. worker[w].step \in Mirroring => worker[w].sub \in Subs
  BY DEF CardInv, WorkersSound, Sound
<1>1. CASE SyncForms(w)
  <2>1. Forget(w, "other") \/ Forget(w, "recover") \/ Finish(w)
    BY <1>1 DEF SyncForms
  <2>2. /\ worker[w].step = "sync" /\ UNCHANGED <<stripe, unanswered, now, claim, row>>
    BY <1>1 DEF SyncForms, At
  <2> QED BY <1>0, <1>s, <2>1, <2>2, OnwardFresh DEF Mirroring
<1>2. CASE Recover(w)
  <2>1. /\ Finish(w) /\ worker[w].step = "recover"
        /\ UNCHANGED <<stripe, unanswered, now, claim, row>>
    BY <1>2 DEF Recover, At
  <2> QED BY <1>0, <1>s, <2>1, OnwardFresh DEF Mirroring
<1>3. CASE CheckOther(w)
  <2>1. /\ Finish(w) \/ Go(w, "stamp") \/ Go(w, "claim")
        /\ worker[w].step = "other" /\ UNCHANGED <<stripe, unanswered, now, claim, row>>
    BY <1>3 DEF CheckOther, At
  <2> QED BY <1>0, <1>s, <2>1, OnwardFresh DEF Mirroring
<1>4. CASE StampDrops(w)
  <2>1. /\ Go(w, "mark") /\ worker[w].step = "stamp"
        /\ UNCHANGED <<stripe, unanswered, now, claim, row>>
    BY <1>4 DEF StampDrops, At
  <2> QED BY <1>0, <1>s, <2>1, OnwardFresh DEF Mirroring
<1>5. CASE StartClock(w)
  <2>1. /\ Finish(w) /\ worker[w].step = "mark"
        /\ UNCHANGED <<stripe, unanswered, now, claim, row>>
    BY <1>5 DEF StartClock, At
  <2> QED BY <1>0, <1>s, <2>1, OnwardFresh DEF Mirroring
<1>6. CASE ClaimLoss(w)
  <2>1. worker[w].step = "claim" /\ UNCHANGED <<stripe, unanswered, now, claim>>
    BY <1>6 DEF ClaimLoss, At
  <2>2. /\ \A v \in Workers \ {w} : worker'[v] = worker[v]
        /\ worker'[w].step = "stamp" /\ worker'[w].sub = worker[w].sub
        /\ worker'[w].kind = worker[w].kind
    BY <1>6 DEF ClaimLoss, CardInv, WorkersSound, WorkerRecords
  <2>3. \A s \in Subs : row'[s].status = row[s].status /\ row'[s].until = row[s].until
    BY <1>6 DEF ClaimLoss, CardInv, RowsPaid, RowRecords
  <2>4. \A s \in Subs : Fit(s) => Fit(s)'
    BY <2>1, <2>3 DEF Fit, Draft
  <2>5. Fresh(w)'
    <3>1. PICK s \in Subs : s = worker[w].sub
      BY <1>s, <2>1 DEF Mirroring
    <3>2. w \in Requests => Fit(s)'
      BY <2>1, <2>4, <3>1 DEF WaitInv, Fresh
    <3> QED BY <2>2, <3>1, <3>2 DEF Fresh
  <2> QED BY <2>1, <2>2, <2>4, <2>5, OneFresh
<1> QED BY <1>1, <1>2, <1>3, <1>4, <1>5, <1>6, RetrieveFresh, WriteFresh DEF MirrorStep

\* A move of the provider, which waits until nothing runs: only the charge of a
\* draft that fails, or a cancellation, leaves a row that does not fit, and both
\* are announced.
LEMMA MoveFresh ==
    ASSUME CardInv, Calm, WaitInv, NEW s \in Subs, NEW new \in StripeRecords,
           NEW kinds \in SUBSET Kinds, Move(s, new, kinds),
           stripe[s].paid <= new.paid,
           new.status = "active" /\ new.until # new.paid => now <= new.paid,
           Draft(s) => new.paid = stripe[s].until \/ kinds \cap {"changed", "deleted"} # {}
    PROVE  WaitInv'
<1>0. Resting /\ Answered
  BY CalmUnless DEF Move
<1>1. /\ stripe' = [stripe EXCEPT ![s] = new] /\ UNCHANGED <<now, row, worker>>
      /\ unanswered' = [unanswered EXCEPT ![s] = @ \cup kinds]
      /\ claim' = [claim EXCEPT ![s] = {k \in @ : k \in kinds => Handled(s, k)}]
  BY DEF Move
<1>2. /\ stripe'[s] = new /\ unanswered'[s] = unanswered[s] \cup kinds
      /\ \A t \in Subs \ {s} : stripe'[t] = stripe[t] /\ unanswered'[t] = unanswered[t]
      /\ \A t \in Subs : claim'[t] \subseteq claim[t]
  BY <1>1 DEF CardInv, Billed, RestTyped
<1>3. ASSUME NEW t \in Subs, Draft(t)' PROVE now' <= stripe'[t].paid
  BY <1>1, <1>2, <1>3 DEF WaitInv, Draft
<1>4. ASSUME NEW t \in Subs, ~Fit(t)'
      PROVE  now' <= stripe'[t].paid /\ unanswered'[t] \cap {"changed", "deleted"} # {}
  <2>1. CASE t # s
    BY <1>1, <1>2, <1>4, <2>1 DEF WaitInv, Fit, Draft
  <2>2. CASE t = s
    <3>1. Fit(s)
      BY <1>0 DEF WaitInv, Answered
    <3>2. /\ row[s].until \in Int /\ stripe[s].paid \in Int /\ stripe[s].until \in Int
          /\ new.paid \in Int /\ now \in Int
      BY DEF CardInv, RowsPaid, RowRecords, Billed, StripeRecords, Days
    <3>3. row[s].status = "active" /\ ~(row[s].until <= new.paid)
      BY <1>1, <1>2, <1>4, <2>2 DEF Fit
    <3>4. Draft(s)
      BY <3>1, <3>2, <3>3 DEF Fit
    <3>5. now <= new.paid
      BY <3>2, <3>4 DEF WaitInv
    <3>6. row[s].until <= stripe[s].until
      BY <3>3, <3>4 DEF CardInv, RowsPaid, Billed, Charged, Draft
    <3>7. kinds \cap {"changed", "deleted"} # {}
      BY <3>3, <3>4, <3>6
    <3> QED BY <1>1, <1>2, <2>2, <3>5, <3>7
  <2> QED BY <2>1, <2>2
<1>5. ASSUME NEW t \in Subs, NEW k \in claim'[t] PROVE Handled(t, k)'
  BY <1>1, <1>2 DEF WaitInv, Handled, SubOf, KindOf
<1>6. ASSUME NEW w \in Workers PROVE Fresh(w)'
  <2>1. worker[w].step = "idle" /\ Fresh(w)
    BY <1>0 DEF Resting, At, WaitInv
  <2> QED BY <1>1, <2>1 DEF Fresh, After
<1> QED BY <1>3, <1>4, <1>5, <1>6 DEF WaitInv

LEMMA ProviderFresh ==
    ASSUME CardInv, Calm, WaitInv, ProviderStep PROVE WaitInv'
<1> SUFFICES ASSUME NEW s \in Subs,
                    \/ Subscribe(s) \/ Renew(s) \/ Charge(s) \/ GiveUp(s) \/ RecoverPayment(s)
                    \/ Cancel(s)
                    \/ \E k \in Kinds : Lose(s, k)
             PROVE  WaitInv'
  BY DEF ProviderStep
<1>0. /\ stripe[s] \in StripeRecords /\ Charged(stripe[s], now) /\ now \in 0..MaxTime
      /\ stripe[s].paid \in Int /\ stripe[s].until \in Int
      /\ Draft(s) => now <= stripe[s].paid
  BY DEF CardInv, Billed, WaitInv, StripeRecords, Days
<1> DEFINE paidUp == [status |-> "active", until |-> now + Period, paid |-> now + Period]
<1>1. /\ paidUp \in StripeRecords /\ paidUp.until = paidUp.paid
      /\ stripe[s].status \in {"none", "past_due", "unpaid"} => stripe[s].paid <= paidUp.paid
  BY <1>0, Constants DEF StripeRecords, StripeStatus, Days, Charged
<1>2. CASE Subscribe(s)
  <2>1. Move(s, paidUp, {"checkout", "paid"}) /\ stripe[s].status = "none"
    BY <1>2 DEF Subscribe
  <2> HIDE DEF paidUp
  <2> QED BY <1>1, <2>1, MoveFresh DEF Kinds, Draft
<1>3. CASE Renew(s)
  <2> DEFINE new == [stripe[s] EXCEPT !.until = @ + Period]
  <2>1. Move(s, new, {"changed"}) /\ stripe[s].until = now /\ stripe[s].paid = now
    BY <1>3 DEF Renew, Draft
  <2>2. new \in StripeRecords /\ new.paid = now
    BY <1>0, <2>1, Constants DEF StripeRecords, Days
  <2> HIDE DEF new
  <2> QED BY <1>0, <2>1, <2>2, MoveFresh DEF Kinds
<1>4. CASE Charge(s)
  <2>1. CASE Move(s, [stripe[s] EXCEPT !.paid = stripe[s].until], {"paid"})
    <3> DEFINE new == [stripe[s] EXCEPT !.paid = stripe[s].until]
    <3>1. new \in StripeRecords /\ new.paid = stripe[s].until /\ new.until = stripe[s].until
      BY <1>0 DEF StripeRecords
    <3>2. Move(s, new, {"paid"}) /\ stripe[s].paid <= stripe[s].until
      BY <1>0, <1>4, <2>1, Constants DEF Charge, Draft, Charged
    <3> HIDE DEF new
    <3> QED BY <3>1, <3>2, MoveFresh DEF Kinds
  <2>2. CASE Move(s, [stripe[s] EXCEPT !.status = "past_due"], {"changed"})
    <3> DEFINE new == [stripe[s] EXCEPT !.status = "past_due"]
    <3>1. new \in StripeRecords /\ new.status = "past_due" /\ new.paid = stripe[s].paid
      BY <1>0 DEF StripeRecords, StripeStatus
    <3>2. Move(s, new, {"changed"})
      BY <2>2
    <3> HIDE DEF new
    <3> QED BY <1>0, <3>1, <3>2, MoveFresh DEF Kinds
  <2> QED BY <1>4, <2>1, <2>2 DEF Charge
<1>5. CASE GiveUp(s)
  <2> DEFINE new == [stripe[s] EXCEPT !.status = "unpaid"]
  <2>1. new \in StripeRecords /\ new.status = "unpaid" /\ new.paid = stripe[s].paid
    BY <1>0 DEF StripeRecords, StripeStatus
  <2>2. Move(s, new, {"changed"})
    BY <1>5 DEF GiveUp
  <2> HIDE DEF new
  <2> QED BY <1>0, <2>1, <2>2, MoveFresh DEF Kinds
<1>6. CASE RecoverPayment(s)
  <2>1. /\ stripe[s].status \in {"past_due", "unpaid"}
        /\ Move(s, paidUp, {"paid", "changed"}) \/ Move(s, paidUp, {"resumed", "changed"})
    BY <1>6 DEF RecoverPayment
  <2> HIDE DEF paidUp
  <2> QED BY <1>1, <2>1, MoveFresh DEF Kinds
<1>7. CASE Cancel(s)
  <2> DEFINE new == [stripe[s] EXCEPT !.status = "canceled"]
  <2>1. new \in StripeRecords /\ new.status = "canceled" /\ new.paid = stripe[s].paid
    BY <1>0 DEF StripeRecords, StripeStatus
  <2>2. Move(s, new, {"deleted"})
    BY <1>7 DEF Cancel
  <2> HIDE DEF new
  <2> QED BY <1>0, <2>1, <2>2, MoveFresh DEF Kinds
<1>8. ASSUME NEW k \in Kinds, Lose(s, k) PROVE FALSE
  BY <1>8 DEF Lose, Calm
<1> QED BY <1>2, <1>3, <1>4, <1>5, <1>6, <1>7, <1>8

\* A day passes when every row fits and nothing is about to be charged.
LEMMA TickFresh == ASSUME CardInv, Calm, WaitInv, Tick PROVE WaitInv'
<1>1. Answered /\ \A s \in Subs : ~Draft(s)
  BY CalmUnless DEF Tick
<1>2. UNCHANGED <<stripe, unanswered, row, claim, worker>>
  BY DEF Tick, provider
<1>3. \A s \in Subs : Fit(s) /\ Fit(s)' /\ ~Draft(s)'
  BY <1>1, <1>2 DEF WaitInv, Answered, Fit, Draft
<1>4. ASSUME NEW w \in Workers PROVE Fresh(w)'
  BY <1>2 DEF WaitInv, Fresh, Fit, Draft
<1>5. \A s \in Subs : \A k \in claim'[s] : Handled(s, k)'
  BY <1>2 DEF WaitInv, Handled, SubOf, KindOf
<1> QED BY <1>3, <1>4, <1>5 DEF WaitInv

\* A notification is delivered to a request that was free.
LEMMA DeliverFresh ==
    ASSUME CardInv, Calm, WaitInv, NEW r \in Requests, NEW s \in Subs, NEW k \in Kinds,
           Deliver(r, s, k)
    PROVE  WaitInv'
<1>0. ~Handled(s, k)
  BY CalmUnless DEF Deliver
<1>1. k \notin claim[s]
  BY <1>0 DEF WaitInv
<1>2. UNCHANGED <<stripe, unanswered, row, now>>
  BY <1>1 DEF Deliver
<1>3. /\ \A v \in Workers \ {r} : worker'[v] = worker[v]
      /\ worker'[r].sub = s /\ worker'[r].kind = k /\ worker'[r].step \in {"write", "retrieve"}
      /\ worker'[r].seen = Payload(s, k).seen /\ worker'[r].until = Payload(s, k).until
  <2> DEFINE step == IF k \in {"deleted", "resumed"} THEN "write" ELSE "retrieve"
             x == [Idle EXCEPT !.step = step, !.sub = s, !.kind = k,
                               !.seen = Payload(s, k).seen, !.until = Payload(s, k).until]
  <2>1. worker' = [worker EXCEPT ![r] = x]
    BY <1>1 DEF Deliver
  <2>2. /\ x.sub = s /\ x.kind = k /\ x.step \in {"write", "retrieve"}
        /\ x.seen = Payload(s, k).seen /\ x.until = Payload(s, k).until
    BY DEF Idle
  <2> HIDE DEF x
  <2> QED BY <2>1, <2>2 DEF CardInv, WorkersSound
<1>4. /\ claim'[s] = claim[s] \cup {k}
      /\ \A t \in Subs \ {s} : claim'[t] = claim[t]
  BY <1>1 DEF Deliver, CardInv, RestTyped
<1>5. worker[r].sub = None
  BY DEF WaitInv, Fresh, Deliver, At
<1>6. \A t \in Subs : Fit(t) <=> Fit(t)'
  BY <1>2 DEF Fit, Draft
<1>7. ASSUME NEW t \in Subs, NEW j \in claim'[t] PROVE Handled(t, j)'
  <2>1. CASE t = s /\ j = k
    BY <1>3, <2>1 DEF Handled, SubOf, KindOf
  <2>2. CASE j \in claim[t]
    <3>1. PICK q \in Requests : worker[q].sub = t /\ worker[q].kind = j
      BY <2>2 DEF WaitInv, Handled, SubOf, KindOf
    <3>2. worker'[q] = worker[q]
      BY <1>3, <1>5, <3>1, Constants
    <3> QED BY <3>1, <3>2 DEF Handled, SubOf, KindOf
  <2> QED BY <1>4, <1>7, <2>1, <2>2
<1>8. Fresh(r)'
  <2>1. Payload(s, k).seen = "active" => Payload(s, k).until <= stripe[s].paid
    BY DEF Payload, CardInv, Billed
  <2> QED BY <1>2, <1>3, <2>1 DEF Fresh, After
<1>9. ASSUME NEW v \in Workers PROVE Fresh(v)'
  <2>1. CASE v # r
    <3>1. worker'[v] = worker[v] /\ Fresh(v)
      BY <1>3, <2>1 DEF WaitInv
    <3>2. v \in Requests /\ worker[v].step \in After => worker[v].sub \in Subs
      BY DEF CardInv, WorkersSound, Sound, After, Mirroring
    <3> QED BY <1>2, <1>6, <3>1, <3>2 DEF Fresh
  <2> QED BY <1>8, <2>1
<1>10. \A t \in Subs : Draft(t)' => now' <= stripe'[t].paid
  BY <1>2 DEF WaitInv, Draft
<1>11. \A t \in Subs : ~Fit(t)' =>
          now' <= stripe'[t].paid /\ unanswered'[t] \cap {"changed", "deleted"} # {}
  BY <1>2, <1>6 DEF WaitInv
<1> QED BY <1>7, <1>9, <1>10, <1>11 DEF WaitInv

\* What is answered has been written, so that it fits.
LEMMA AnswerFresh ==
    ASSUME CardInv, WaitInv, NEW r \in Requests, Answer(r) PROVE WaitInv'
<1>0. worker[r].sub \in Subs /\ worker[r].step = "answer"
  BY DEF CardInv, WorkersSound, Sound, Answer, At
<1>1. PICK s \in Subs : s = worker[r].sub
  BY <1>0
<1>2. Fit(s)
  BY <1>0, <1>1 DEF WaitInv, Fresh, After
<1>3. UNCHANGED <<stripe, row, now>>
  BY DEF Answer, bounds
<1>4. /\ \A t \in Subs \ {s} : unanswered'[t] = unanswered[t] /\ claim'[t] = claim[t]
      /\ claim'[s] = claim[s] \ {worker[r].kind}
  BY <1>1 DEF Answer, Release, SubOf, KindOf, CardInv, RestTyped
<1>5. /\ \A v \in Workers \ {r} : worker'[v] = worker[v]
      /\ worker'[r].step = "idle" /\ worker'[r].sub = None
  BY StopFields DEF Answer
<1>6. \A t \in Subs : Fit(t) <=> Fit(t)'
  BY <1>3 DEF Fit, Draft
<1>7. \A t \in Subs : Draft(t)' => now' <= stripe'[t].paid
  BY <1>3 DEF WaitInv, Draft
<1>8. ASSUME NEW t \in Subs, ~Fit(t)'
      PROVE  now' <= stripe'[t].paid /\ unanswered'[t] \cap {"changed", "deleted"} # {}
  <2>1. ~Fit(t) /\ t # s
    BY <1>2, <1>6, <1>8
  <2> QED BY <1>3, <1>4, <2>1 DEF WaitInv
<1>9. ASSUME NEW t \in Subs, NEW k \in claim'[t] PROVE Handled(t, k)'
  <2>1. k \in claim[t] /\ ~(t = s /\ k = worker[r].kind)
    BY <1>4, <1>9
  <2>2. PICK q \in Requests : worker[q].sub = t /\ worker[q].kind = k
    BY <2>1 DEF WaitInv, Handled, SubOf, KindOf
  <2>3. worker'[q] = worker[q]
    BY <1>1, <1>5, <2>1, <2>2
  <2> QED BY <2>2, <2>3 DEF Handled, SubOf, KindOf
<1>10. ASSUME NEW v \in Workers PROVE Fresh(v)'
  <2>1. CASE v = r
    BY <1>5, <2>1 DEF Fresh, After
  <2>2. CASE v # r
    <3>1. worker'[v] = worker[v] /\ Fresh(v)
      BY <1>5, <2>2 DEF WaitInv
    <3>2. v \in Requests /\ worker[v].step \in After => worker[v].sub \in Subs
      BY DEF CardInv, WorkersSound, Sound, After, Mirroring
    <3> QED BY <1>3, <1>6, <3>1, <3>2 DEF Fresh
  <2> QED BY <2>1, <2>2
<1> QED BY <1>7, <1>8, <1>9, <1>10 DEF WaitInv

\* The steps of the daily run and of the user's synchronization around it.
LEMMA RunFresh ==
    ASSUME CardInv, WaitInv,
           \/ BeginRun \/ PlanRemoval \/ ScheduleRemoval \/ BeginRemoval \/ PlanTrim \/ Remove
           \/ ListStale \/ BeginVisit
           \/ \E w \in Sweeps : EndSweep(w) \/ \E s \in Subs : TakeUp(w, s)
    PROVE  WaitInv'
<1> USE DEF provider, account, bounds
<1>1. ASSUME NEW w \in Sweeps, NEW step \in Steps \ {"write"}, Go(w, step),
             UNCHANGED <<stripe, unanswered, now, claim, row>>
      PROVE  WaitInv'
  <2>1. \A v \in Workers \ {w} : worker'[v] = worker[v]
    BY <1>1, GoFields
  <2>2. worker'[w].step # "write"
    BY <1>1, GoFields
  <2> QED BY <1>1, <2>1, <2>2, SweepFresh
<1>2. CASE BeginRun
  <2>1. Go(Cron, "plan") \/ Go(Cron, "batch")
    BY <1>2 DEF BeginRun
  <2> QED BY <1>1, <1>2, <2>1 DEF BeginRun, Steps
<1>3. CASE PlanRemoval
  <2>1. Go(Cron, "batch") \/ Go(Cron, "schedule")
    BY <1>3 DEF PlanRemoval
  <2> QED BY <1>1, <1>3, <2>1 DEF PlanRemoval, Steps
<1>4. CASE ScheduleRemoval
  BY <1>1, <1>4 DEF ScheduleRemoval, Steps
<1>5. CASE BeginRemoval
  <2>1. Go(Cron, "trim") \/ Go(Cron, "list")
    BY <1>5 DEF BeginRemoval
  <2> QED BY <1>1, <1>5, <2>1 DEF BeginRemoval, Steps
<1>6. CASE PlanTrim
  BY <1>1, <1>6 DEF PlanTrim, Steps
<1>7. CASE Remove
  BY <1>1, <1>7 DEF Remove, Steps
<1>8. CASE ListStale
  BY <1>1, <1>8 DEF ListStale, ListRows, Steps
<1>9. CASE BeginVisit
  BY <1>1, <1>9 DEF BeginVisit, ListRows, Steps
<1>10. ASSUME NEW w \in Sweeps, EndSweep(w) PROVE WaitInv'
  <2>1. Stop(w) /\ UNCHANGED <<stripe, unanswered, now, claim, row>>
    BY <1>10 DEF EndSweep
  <2>2. (\A v \in Workers \ {w} : worker'[v] = worker[v]) /\ worker'[w].step # "write"
    BY <2>1, StopFields
  <2> QED BY <2>1, <2>2, SweepFresh
<1>11. ASSUME NEW w \in Sweeps, NEW s \in Subs, TakeUp(w, s) PROVE WaitInv'
  <2>1. (\A v \in Workers \ {w} : worker'[v] = worker[v]) /\ worker'[w].step # "write"
    BY <1>11 DEF TakeUp, CardInv, WorkersSound, Idle
  <2> QED BY <1>11, <2>1, SweepFresh DEF TakeUp
<1> QED BY <1>2, <1>3, <1>4, <1>5, <1>6, <1>7, <1>8, <1>9, <1>10, <1>11

\* A failing statement.
LEMMA FailFresh ==
    ASSUME CardInv, WaitInv, NEW w \in Workers, Fail(w) PROVE WaitInv'
<1>1. UNCHANGED <<stripe, unanswered, row, now>>
  BY DEF Fail, provider
<1>2. CASE Refuse(w)
  BY <1>1, <1>2, RefuseFresh
<1>3. CASE /\ w \in Sweeps /\ UNCHANGED claim
           /\ Finish(w) \/ Stop(w) \/ Go(w, "batch") \/ Go(w, "list")
  <2>1. \A v \in Workers \ {w} : worker'[v] = worker[v]
    BY <1>3, FinishFields, StopFields, GoFields
  <2>2. worker'[w].step # "write"
    BY <1>3, Constants, FinishFields, StopFields, GoFields
  <2> QED BY <1>1, <1>3, <2>1, <2>2, SweepFresh
<1> QED BY <1>2, <1>3 DEF Fail

-----------------------------------------------------------------------------
(* The theorems.                                                           *)

LEMMA InitCard == Init => CardInv
<1> SUFFICES ASSUME Init PROVE CardInv
  OBVIOUS
<1>1. 0 \in Days /\ 0 \in 0..MaxTime /\ 0 \in 0..MaxFaults /\ 0 \in 0..MaxVisits
  BY Constants DEF Days
<1>2. AccountTyped
  BY DEF Init, AccountTyped
<1>3. RestTyped
  BY <1>1 DEF Init, RestTyped, Prior
<1>4. Billed
  BY <1>1, Constants DEF Init, Billed, StripeRecords, StripeStatus, Charged
<1>5. RowsPaid
  BY <1>1 DEF Init, RowsPaid, RowRecords, RowStatus
<1>6. WorkersSound
  <2>1. Sound(Idle)
    BY <1>1 DEF Idle, Sound, WorkerRecords, Mirroring, Steps, StripeStatus, Prior
  <2> QED BY <2>1 DEF Init, WorkersSound, Sound
<1> QED BY <1>2, <1>3, <1>4, <1>5, <1>6 DEF CardInv

LEMMA NextCard == CardInv /\ [Next]_vars => CardInv'
<1> SUFFICES ASSUME CardInv, [Next]_vars PROVE CardInv'
  OBVIOUS
<1>1. ASSUME NEW w \in Sweeps, SweepStep(w) PROVE CardInv'
  BY <1>1, MirrorPreserves, SweepPreserves DEF SweepStep
<1>2. CASE CronStep
  BY <1>1, <1>2, RunStep, ListStep DEF CronStep
<1>3. ASSUME NEW r \in Requests, RequestStep(r) PROVE CardInv'
  BY <1>3, MirrorPreserves, AnswerStep DEF RequestStep
<1>4. CASE Deliveries \/ Expiries
  BY <1>4, DeliverStep, ClaimLapsesStep DEF Deliveries, Expiries
<1>5. CASE UNCHANGED vars
  BY <1>5 DEF vars, provider, account, bounds, CardInv, AccountTyped, RestTyped, Billed, RowsPaid,
              WorkersSound, Sound
<1>6. CASE Next
  BY <1>1, <1>2, <1>3, <1>4, <1>6, ProviderPreserves, TickStep, ListStep, FailStep, KillStep DEF Next
<1> QED BY <1>5, <1>6

\* The invariants hold in every reachable state.
LEMMA CardInvariant == Spec => []CardInv
BY InitCard, NextCard, PTL DEF Spec

LEMMA InitCalm == Init => CalmInv
BY Constants DEF Init, CalmInv, WaitInv, Fit, Draft, Fresh, Idle, After

LEMMA NextCalm == CardInv /\ CalmInv /\ [Next]_vars => CalmInv'
<1> SUFFICES ASSUME CardInv, WaitInv, Calm, [Next]_vars PROVE WaitInv'
  <2>1. [Next]_vars => UNCHANGED trouble
    BY DEF Next, vars, bounds, ProviderStep, Subscribe, Renew, Charge, GiveUp, RecoverPayment, Cancel,
           Move, Lose, Tick, Deliveries, Deliver, Expiries, ClaimLapses, RequestStep, Answer, CronStep,
           SweepStep, TakeUp, EndSweep, BeginRun, PlanRemoval, ScheduleRemoval, BeginRemoval, PlanTrim,
           Remove, ListStale, BeginVisit, ListRows, MirrorStep, Retrieve, Write, SyncForms, Recover,
           CheckOther, ClaimLoss, StampDrops, StartClock, Fail, Kill
  <2> QED BY <2>1 DEF CalmInv, Calm
<1>1. CASE CronStep \/ BeginVisit \/ SweepStep(Visit)
  <2>1. ASSUME NEW w \in Sweeps, SweepStep(w) PROVE WaitInv'
    BY <2>1, MirrorFresh, RunFresh DEF SweepStep
  <2> QED BY <1>1, <2>1, RunFresh DEF CronStep
<1>2. ASSUME NEW r \in Requests, RequestStep(r) PROVE WaitInv'
  BY <1>2, MirrorFresh, AnswerFresh DEF RequestStep
<1>3. CASE Deliveries
  BY <1>3, DeliverFresh DEF Deliveries
<1>4. ASSUME Expiries PROVE FALSE
  BY <1>4 DEF Expiries, ClaimLapses, WaitInv
<1>5. ASSUME NEW w \in Workers, Kill(w) PROVE FALSE
  BY <1>5 DEF Kill, Fault, Calm
<1>6. CASE UNCHANGED vars
  BY <1>6 DEF vars, provider, account, bounds, WaitInv, Fit, Draft, Fresh, Handled, SubOf, KindOf
<1>7. CASE Next
  BY <1>1, <1>2, <1>3, <1>4, <1>5, <1>7, ProviderFresh, TickFresh, FailFresh DEF Next
<1> QED BY <1>6, <1>7

LEMMA CalmInvariant == Spec => []CalmInv
BY InitCalm, NextCalm, CardInvariant, PTL DEF Spec

\* Every reachable state is well typed: what a handler remembers of a
\* subscription and of its row included.
THEOREM TypeCorrect == Spec => []TypeOK
<1>1. CardInv => TypeOK
  BY DEF CardInv, AccountTyped, RestTyped, Billed, RowsPaid, WorkersSound, StripeRecords, RowRecords,
         WorkerRecords, TypeOK
<1> QED BY <1>1, CardInvariant, PTL

\* However the charge of a renewal ends, and whatever a handler read before the
\* provider changed, a subscription gives no access beyond the grace after what
\* was paid for if the provider waits for its answers; and no more than the one
\* period shown before it was charged beyond that, whatever is lost, repeated,
\* late, overtaken or killed.
THEOREM AccessCorrect == Spec => []AccessIsPaid
<1>1. CardInv /\ CalmInv => AccessIsPaid
  <2> SUFFICES ASSUME CardInv, CalmInv, NEW s \in Subs, Counts(s)
               PROVE  now <= stripe[s].paid + Grace + (IF Calm THEN 0 ELSE Period)
    BY DEF AccessIsPaid
  <2>1. row[s].status = "active" /\ row[s].until + Grace >= now
    BY DEF Counts, Live
  <2>2. /\ row[s].until \in Int /\ stripe[s].paid \in Int /\ now \in Int
        /\ Grace \in Nat /\ Period \in Nat
    BY Constants DEF CardInv, RowsPaid, Billed, RowRecords, StripeRecords, Days
  <2>3. CASE ~Calm
    <3>1. row[s].until <= stripe[s].paid + Period
      BY <2>1 DEF CardInv, RowsPaid
    <3> QED BY <2>1, <2>2, <2>3, <3>1
  <2>4. CASE Calm
    <3>1. CASE row[s].until <= stripe[s].paid
      BY <2>1, <2>2, <2>4, <3>1
    <3>2. CASE ~(row[s].until <= stripe[s].paid)
      <4>1. now <= stripe[s].paid
        BY <2>1, <2>4, <3>2 DEF CalmInv, WaitInv, Fit
      <4> QED BY <2>2, <2>4, <4>1
    <3> QED BY <3>1, <3>2
  <2> QED BY <2>3, <2>4
<1> QED BY <1>1, CardInvariant, CalmInvariant, PTL

=============================================================================
