------------------------ MODULE CryptoBillingProofs ------------------------
(***************************************************************************)
(* Theorems about CryptoBilling for any number of orders and of requests,  *)
(* any lengths of a period, any statuses the provider sends, and any       *)
(* combination of failures, haste and kills.                               *)
(***************************************************************************)
EXTENDS CryptoBilling, FiniteSetTheorems, WellFoundedInduction, TLAPS

USE DEF Workers, Cron, Support

-----------------------------------------------------------------------------
(* The greatest element of a finite set.                                   *)

\* A finite set of natural numbers that is not empty has a greatest element.
LEMMA GreatestExists ==
    ASSUME NEW S \in SUBSET Nat, IsFiniteSet(S), S # {}
    PROVE  \E m \in S : \A x \in S : m >= x
<1> DEFINE HasMax(A) == \E m \in A : \A x \in A : m >= x
           Bad == {A \in SUBSET S : A # {} /\ ~HasMax(A)}
           R == StrictSubsetOrdering(S)
           F == FiniteSubsetsOf(S)
<1> SUFFICES ASSUME ~HasMax(S) PROVE FALSE
  OBVIOUS
<1>1. IsWellFoundedOn(R, F)
  BY FS_StrictSubsetOrderingWellFounded
<1>2. Bad \subseteq F /\ Bad # {}
  BY FS_Subset DEF FiniteSubsetsOf
<1>3. PICK A \in Bad : \A B \in Bad : ~(<<B, A>> \in R)
  <2> HIDE DEF Bad, R, F
  <2> QED BY <1>1, <1>2, WFMin
<1>4. PICK x \in A : TRUE
  BY <1>3
<1> DEFINE B == A \ {x}
<1>5. A \subseteq Nat /\ x \in Nat
  BY <1>3, <1>4
<1>6. B # {}
  <2>1. CASE B = {}
    <3>1. \A y \in A : y = x
      BY <2>1
    <3>2. HasMax(A)
      BY <3>1, <1>4, <1>5
    <3> QED BY <3>2, <1>3
  <2> QED BY <2>1
<1>7. HasMax(B)
  <2>1. <<B, A>> \in R
    BY <1>3, <1>4 DEF StrictSubsetOrdering
  <2>2. B \notin Bad
    BY <2>1, <1>3
  <2> QED BY <2>2, <1>3, <1>6
<1>8. PICK m \in B : \A y \in B : m >= y
  BY <1>7
<1>9. CASE m >= x
  <2>1. \A y \in A : m >= y
    BY <1>8, <1>9
  <2> QED BY <2>1, <1>3, <1>8
<1>10. CASE ~(m >= x)
  <2>1. \A y \in A : x >= y
    <3> TAKE y \in A
    <3>1. CASE y = x
      BY <3>1, <1>5
    <3>2. CASE y # x
      <4>1. y \in B /\ m >= y /\ m \in Nat /\ y \in Nat
        BY <3>2, <1>5, <1>8
      <4> QED BY <4>1, <1>5, <1>10
    <3> QED BY <3>1, <3>2
  <2> QED BY <2>1, <1>3, <1>4
<1> QED BY <1>9, <1>10

\* Max of such a set is one of its elements.
LEMMA MaxBelongs ==
    ASSUME NEW S \in SUBSET Nat, IsFiniteSet(S), S # {}
    PROVE  Max(S) \in S /\ \A x \in S : Max(S) >= x
BY GreatestExists DEF Max

-----------------------------------------------------------------------------
(* What a worker is doing.                                                 *)

WorkerRow == [step : Steps, order : Orders \cup {None}, notice : Notices \cup {None}]

\* Steps that are about no order.
Between == {"idle", "expire", "recheck"}

\* A step about an order has one, an activation is of a success, and a plain
\* update is not of a refund.
Sound(q) ==
    /\ q.step \notin Between => q.order \in Orders
    /\ q.step = "activate" => q.notice \in Success
    /\ q.step = "update" => q.notice # "refunded"

\* A request that is under way has its notification and its order.
WorkersSound ==
    /\ worker \in [Workers -> WorkerRow]
    /\ \A w \in Workers : Sound(worker[w])
    /\ \A r \in Requests : worker[r].step # "idle" =>
          worker[r].notice \in Notices /\ worker[r].step \notin Between

\* A worker without work is well formed.
LEMMA IdleRow == Idle \in WorkerRow /\ Sound(Idle)
BY DEF Idle, WorkerRow, Sound, Between, Steps

\* So are the workers when one of them takes up work that is.
LEMMA TakesUp ==
    ASSUME WorkersSound, NEW w \in Workers, NEW q \in WorkerRow, Sound(q),
           w \in Requests => q.step = "idle" \/ (q.notice \in Notices /\ q.step \notin Between),
           worker' = [worker EXCEPT ![w] = q]
    PROVE  WorkersSound'
BY DEF WorkersSound, Sound

\* So they are when one of them stops.
LEMMA Stops ==
    ASSUME WorkersSound, NEW w \in Workers, Stop(w)
    PROVE  WorkersSound'
BY IdleRow, TakesUp DEF Stop, Idle

\* So they are when one goes on with the order it has.
LEMMA GoesOn ==
    ASSUME WorkersSound, NEW w \in Workers, NEW step \in Steps \ ({"activate", "update"} \cup Between),
           worker[w].step \notin Between, Go(w, step)
    PROVE  WorkersSound'
<1> DEFINE q == [worker[w] EXCEPT !.step = step]
<1>1. q \in WorkerRow /\ q.step = step /\ q.order = worker[w].order /\ q.notice = worker[w].notice
  BY DEF WorkersSound, WorkerRow
<1>2. Sound(q)
  BY <1>1 DEF WorkersSound, Sound
<1>3. worker' = [worker EXCEPT ![w] = q]
  BY DEF Go
<1>4. w \in Requests => q.notice \in Notices /\ q.step \notin Between
  BY <1>1 DEF WorkersSound, Between
<1> QED BY <1>1, <1>2, <1>3, <1>4, TakesUp

\* So they are when the daily run goes on with other orders.
LEMMA RunGoesOn ==
    ASSUME WorkersSound, NEW step \in {"expire", "recheck"},
           NextRow(step) \/ Go("cron", step)
    PROVE  WorkersSound'
<1> DEFINE q == IF NextRow(step) THEN [Idle EXCEPT !.step = step]
                ELSE [worker["cron"] EXCEPT !.step = step]
<1>1. q \in WorkerRow /\ q.step = step
  BY IdleRow DEF WorkersSound, WorkerRow, Steps
<1>2. Sound(q)
  BY <1>1 DEF Sound, Between
<1>3. worker' = [worker EXCEPT !["cron"] = q]
  BY DEF NextRow, Go
<1> HIDE DEF q
<1>4. "cron" \notin Requests
  BY CryptoAssumption
<1> QED BY <1>1, <1>2, <1>3, <1>4, TakesUp

\* So they are when one has done with its order.
LEMMA Finishes ==
    ASSUME WorkersSound, NEW w \in Workers, worker[w].step \notin Between, Finish(w)
    PROVE  WorkersSound'
<1>1. CASE w \in Requests
  <2>1. Go(w, "answer")
    BY <1>1, CryptoAssumption DEF Finish
  <2> QED BY <2>1, GoesOn DEF Steps, Between
<1>2. CASE w = "support"
  <2>1. Stop(w)
    BY <1>2, CryptoAssumption DEF Finish
  <2> QED BY <2>1, Stops
<1>3. CASE w = "cron"
  <2>1. \E step \in {"expire", "recheck"} : NextRow(step)
    BY <1>3, CryptoAssumption DEF Finish
  <2> QED BY <2>1, RunGoesOn
<1> QED BY <1>1, <1>2, <1>3

-----------------------------------------------------------------------------
(* Every step keeps the workers sound.                                     *)

\* The steps of a request, and of the others that share them.
LEMMA SharedSound ==
    ASSUME WorkersSound, NEW w \in Workers,
           \/ Activate(w) \/ Recover(w) \/ CheckOther(w) \/ StampDrops(w) \/ StartClock(w)
    PROVE  WorkersSound'
<1>1. worker[w].step \notin Between
  BY DEF Activate, Recover, CheckOther, StampDrops, StartClock, At, Between
<1>2. \/ Finish(w)
      \/ \E step \in {"recover", "stamp", "mark", "note"} : Go(w, step)
  BY DEF Activate, Recover, CheckOther, StampDrops, StartClock, AfterLoss
<1> QED BY <1>1, <1>2, Finishes, GoesOn DEF Steps, Between

\* The steps of requests alone.
LEMMA RequestSound ==
    ASSUME WorkersSound, NEW r \in Requests, RequestStep(r) \/ Fail(r)
    PROVE  WorkersSound'
<1> r \in Workers
  OBVIOUS
<1>1. ASSUME Write(r) \/ Refund(r) \/ FindPending(r) \/ Note(r) PROVE WorkersSound'
  <2>1. worker[r].step \notin Between
    BY <1>1 DEF Write, Refund, FindPending, Note, At, Between
  <2>2. \E step \in {"answer", "pending", "check"} : Go(r, step)
    BY <1>1 DEF Write, Refund, FindPending, Note
  <2> QED BY <2>1, <2>2, GoesOn DEF Steps, Between
<1>2. ASSUME Answer(r) \/ Fail(r) PROVE WorkersSound'
  <2>1. Stop(r)
    BY <1>2 DEF Answer, Fail
  <2> QED BY <2>1, Stops
<1> QED BY <1>1, <1>2, SharedSound DEF RequestStep

\* A delivery: what the lookup says is to be done is well formed.
LEMMA DeliverySound ==
    ASSUME WorkersSound, NEW r \in Requests, NEW o \in Orders, NEW s \in Notices, Deliver(r, o, s)
    PROVE  WorkersSound'
<1> DEFINE q == [step |-> Decision(o, s), order |-> o, notice |-> s]
<1> USE DEF Between
<1>1. Decision(o, s) \in {"reject", "update", "activate", "refund", "answer"}
  BY DEF Decision
<1>2. /\ Decision(o, s) = "activate" => s \in Success
      /\ Decision(o, s) = "update" => s # "refunded"
  BY DEF Decision
<1>3. q \in WorkerRow /\ Sound(q) /\ q.notice \in Notices /\ q.step \notin Between
  BY <1>1, <1>2 DEF WorkerRow, Steps, Sound
<1>4. worker' = worker \/ worker' = [worker EXCEPT ![r] = q]
  BY DEF Deliver
<1> HIDE DEF q
<1>5. CASE worker' = worker
  BY <1>5 DEF WorkersSound, Sound
<1> QED BY <1>3, <1>4, <1>5, TakesUp

\* The steps of the daily run.
LEMMA RunSound ==
    ASSUME WorkersSound, CronStep \/ LossFails
    PROVE  WorkersSound'
<1>0. "cron" \notin Requests
  BY CryptoAssumption
<1>1. CASE BeginRun \/ ListHeld \/ Undo
  <2>1. \E step \in {"expire", "recheck"} : NextRow(step) \/ Go("cron", step)
    BY <1>1 DEF BeginRun, ListHeld, Undo
  <2> QED BY <2>1, RunGoesOn
<1>2. CASE EndRun
  BY <1>2, Stops DEF EndRun
<1>3. ASSUME NEW o \in Orders, Expire(o) PROVE WorkersSound'
  <2> DEFINE q == [step |-> "check", order |-> o, notice |-> None]
  <2>1. q \in WorkerRow /\ Sound(q)
    BY DEF WorkerRow, Steps, Sound
  <2>2. worker' = worker \/ worker' = [worker EXCEPT !["cron"] = q]
    BY <1>3 DEF Expire
  <2>3. CASE worker' = worker
    BY <2>3 DEF WorkersSound, Sound
  <2> QED BY <1>0, <2>1, <2>2, <2>3, TakesUp
<1>4. ASSUME NEW o \in Orders, TakeUp(o) PROVE WorkersSound'
  <2> DEFINE q == [step |-> "activate", order |-> o, notice |-> "finished"]
  <2>1. q \in WorkerRow /\ Sound(q)
    BY DEF WorkerRow, Steps, Sound, Success, Notices
  <2>2. worker' = [worker EXCEPT !["cron"] = q]
    BY <1>4 DEF TakeUp
  <2> QED BY <1>0, <2>1, <2>2, TakesUp
<1>5. CASE LossFails
  <2>1. worker["cron"].step \notin Between /\ Go("cron", "undo")
    BY <1>5 DEF LossFails, Between
  <2> QED BY <2>1, GoesOn DEF Steps, Between
<1> QED BY <1>1, <1>2, <1>3, <1>4, <1>5, SharedSound DEF CronStep

\* Every step.
LEMMA StepsSound ==
    ASSUME WorkersSound, [Next]_vars
    PROVE  WorkersSound'
<1>1. ASSUME worker' = worker PROVE WorkersSound'
  BY <1>1 DEF WorkersSound, Sound
<1>2. CASE UNCHANGED vars
  BY <1>2, <1>1 DEF vars
<1>3. CASE UserStep \/ ProviderStep \/ CardMoves \/ Tick \/ Expiries
  BY <1>3, <1>1 DEF UserStep, Checkout, ProviderStep, Notify, InvoiceLapses, CardMoves, Tick,
                    Expiries, ClaimLapses
<1>4. CASE Deliveries
  BY <1>4, DeliverySound DEF Deliveries
<1>5. CASE \E r \in Requests : RequestStep(r)
  BY <1>5, RequestSound
<1>6. CASE CronStep
  BY <1>6, RunSound
<1>7. ASSUME NEW o \in Orders, BeginSupport(o) PROVE WorkersSound'
  <2> DEFINE q == [step |-> "activate", order |-> o, notice |-> "finished"]
  <2>1. q \in WorkerRow /\ Sound(q)
    BY DEF WorkerRow, Steps, Sound, Success, Notices
  <2>2. worker' = [worker EXCEPT !["support"] = q]
    BY <1>7 DEF BeginSupport
  <2>3. "support" \notin Requests
    BY CryptoAssumption
  <2> QED BY <2>1, <2>2, <2>3, TakesUp
<1>8. ASSUME NEW o \in Orders, ExpireInvoice(o) PROVE WorkersSound'
  BY <1>8, <1>1 DEF ExpireInvoice
<1>9. CASE SupportStep
  BY <1>9, SharedSound DEF SupportStep
<1>10. CASE Failures
  <2>1. ASSUME NEW w \in {"cron", "support"}, ActivationFails(w) PROVE WorkersSound'
    <3>1. worker[w].step \notin Between /\ Finish(w)
      BY <2>1 DEF ActivationFails, At, Between
    <3> QED BY <3>1, Finishes
  <2>2. ASSUME NEW w \in Workers, Kill(w) PROVE WorkersSound'
    BY <2>2, Stops DEF Kill
  <2> QED BY <1>10, <2>1, <2>2, RequestSound, RunSound DEF Failures
<1> QED BY <1>2, <1>3, <1>4, <1>5, <1>6, <1>7, <1>8, <1>9, <1>10 DEF Next

-----------------------------------------------------------------------------
(* The rows.                                                               *)

SubRow == [status : {"none", "active", "expired", "canceled"}, end : Nat, noted : BOOLEAN]

RowsTyped == payment \in [Orders -> PaymentStatus] /\ sub \in [Orders -> SubRow]

\* A refunded payment has no plan, and none that could run again.
RefundGone == \A o \in Orders : payment[o] = "refunded" => sub[o].status \in {"none", "canceled"}

\* At most one plan runs.
OneRuns == \A x, y \in Orders : Active(x) /\ Active(y) => x = y

\* Nothing restores a row but an undone expiry.
NoUndo == worker["cron"].step # "undo" /\ "failures" \notin trouble

RefundStep ==
    \A o \in Orders :
       /\ payment[o] = "refunded" => payment'[o] = "refunded"
       /\ payment'[o] = "refunded" => sub'[o].status # "active"

\* What a step may do to the rows.
SetsStatus(o, s) == SetStatus(o, s) /\ UNCHANGED sub

\* A new period is a time, and starts when every plan that runs has ended.
LEMMA PeriodStartType ==
    ASSUME RowsTyped, now \in Nat, NEW o \in Orders
    PROVE  /\ PeriodStart(o) \in Nat /\ PeriodStart(o) >= now
           /\ \A x \in Orders \ {o} : Active(x) => PeriodStart(o) >= sub[x].end
<1> DEFINE A == {y \in Orders \ {o} : Running(y)}
           E == {sub[x].end : x \in A}
<1>1. IsFiniteSet(A)
  BY CryptoAssumption, FS_Subset
<1>2. IsFiniteSet(E)
  <2> DEFINE f == [x \in A |-> sub[x].end]
  <2>1. f \in Surjection(A, E)
    BY DEF Surjection
  <2> HIDE DEF A, E, f
  <2> QED BY <1>1, <2>1, FS_Surjection
<1>3. IsFiniteSet({now} \cup E)
  <2> HIDE DEF E
  <2> QED BY <1>2, FS_Singleton, FS_Union
<1>4. {now} \cup E \in SUBSET Nat
  BY DEF RowsTyped, SubRow
<1>5. Max({now} \cup E) \in {now} \cup E /\ \A n \in {now} \cup E : Max({now} \cup E) >= n
  <2> HIDE DEF E
  <2> QED BY <1>3, <1>4, MaxBelongs
<1>6. PeriodStart(o) \in Nat /\ PeriodStart(o) >= now /\ \A n \in E : PeriodStart(o) >= n
  BY <1>4, <1>5 DEF PeriodStart
<1>7. ASSUME NEW x \in Orders \ {o}, Active(x) PROVE PeriodStart(o) >= sub[x].end
  <2>1. sub[x].end \in Nat
    BY DEF RowsTyped, SubRow
  <2>2. CASE sub[x].end > now
    BY <1>6, <1>7, <2>2 DEF Running
  <2>3. CASE ~(sub[x].end > now)
    BY <1>6, <2>1, <2>3
  <2> QED BY <2>2, <2>3
<1> QED BY <1>6, <1>7

\* A step changes one payment and leaves the plans, or is one of five.
LEMMA RowSteps ==
    ASSUME WorkersSound, [Next]_vars
    PROVE  \/ UNCHANGED rows
           \/ \E o \in Orders :
                 \/ ~Settled(o) /\ \E s \in PaymentStatus \ {"refunded"} : SetsStatus(o, s)
                 \/ Expire(o)
           \/ \E w \in Workers : Activate(w)
           \/ \E r \in Requests : Refund(r) \/ Note(r)
           \/ Undo
<1> USE DEF rows
<1>1. CASE UNCHANGED vars
  BY <1>1 DEF vars
<1>2. ASSUME NEW o \in Orders, Checkout(o) PROVE ~Settled(o) /\ SetsStatus(o, "waiting")
  BY <1>2 DEF Checkout, Settled, SetsStatus, Terminal
<1>3. ASSUME NEW o \in Orders, ExpireInvoice(o) PROVE ~Settled(o) /\ SetsStatus(o, "expired")
  BY <1>3 DEF ExpireInvoice, Settled, SetsStatus, Terminal
<1>4. CASE UserStep \/ \E o \in Orders : BeginSupport(o) \/ ExpireInvoice(o)
  BY <1>2, <1>3, <1>4 DEF UserStep, BeginSupport, PaymentStatus
<1>5. CASE ProviderStep \/ CardMoves \/ Tick \/ Deliveries \/ Expiries
  BY <1>5 DEF ProviderStep, Notify, InvoiceLapses, CardMoves, Tick, Deliveries, Deliver, Expiries,
              ClaimLapses
<1>6. ASSUME NEW r \in Requests, Write(r)
      PROVE  \/ UNCHANGED rows
             \/ \E o \in Orders : ~Settled(o) /\ \E s \in PaymentStatus \ {"refunded"} : SetsStatus(o, s)
  <2> DEFINE s == IF At(r, "reject") THEN "rejected" ELSE worker[r].notice
  <2>1. OrderOf(r) \in Orders /\ worker[r].notice \in Notices
    BY <1>6 DEF Write, At, WorkersSound, Sound, Between, OrderOf
  <2>2. s \in PaymentStatus \ {"refunded"}
    BY <1>6, <2>1 DEF Write, At, WorkersSound, Sound, PaymentStatus
  <2> HIDE DEF s
  <2>3. SetUnlessSettled(OrderOf(r), s) /\ UNCHANGED sub
    BY <1>6 DEF Write, s
  <2>4. UNCHANGED rows \/ (~Settled(OrderOf(r)) /\ SetsStatus(OrderOf(r), s))
    BY <2>3 DEF SetUnlessSettled, SetsStatus
  <2> QED BY <2>1, <2>2, <2>4
<1>7. ASSUME NEW w \in Workers, Recover(w) \/ CheckOther(w) \/ StampDrops(w) \/ StartClock(w)
      PROVE  UNCHANGED rows
  BY <1>7 DEF Recover, CheckOther, StampDrops, StartClock
<1>8. ASSUME NEW r \in Requests, Answer(r) \/ FindPending(r) \/ Fail(r) PROVE UNCHANGED rows
  BY <1>8 DEF Answer, FindPending, Fail
<1>9. ASSUME NEW r \in Requests, RequestStep(r)
      PROVE  \/ UNCHANGED rows
             \/ \E o \in Orders : ~Settled(o) /\ \E s \in PaymentStatus \ {"refunded"} : SetsStatus(o, s)
             \/ Activate(r) \/ Refund(r) \/ Note(r)
  BY <1>6, <1>7, <1>8, <1>9 DEF RequestStep
<1>10. ASSUME BeginRun \/ ListHeld \/ EndRun \/ \E o \in Orders : TakeUp(o) PROVE UNCHANGED rows
  BY <1>10 DEF BeginRun, ListHeld, EndRun, TakeUp
<1>11. ASSUME CronStep
       PROVE  \/ UNCHANGED rows \/ \E o \in Orders : Expire(o)
              \/ \E w \in Workers : Activate(w)
              \/ Undo
  BY <1>7, <1>10, <1>11 DEF CronStep
<1>12. CASE SupportStep
  BY <1>7, <1>12 DEF SupportStep
<1>13. ASSUME Failures PROVE UNCHANGED rows
  BY <1>8, <1>13 DEF Failures, LossFails, ActivationFails, Kill
<1> QED BY <1>1, <1>4, <1>5, <1>9, <1>11, <1>12, <1>13 DEF Next

\* What an activation does to the rows.
LEMMA ActivationRows ==
    ASSUME WorkersSound, NEW w \in Workers, Activate(w)
    PROVE  \E o \in Orders :
              \/ UNCHANGED rows
              \/ ~Settled(o) /\ SetsStatus(o, "needs_review")
              \/ ~Settled(o) /\ \E s \in Success : Entitle(o, s, PeriodStart(o))
<1> DEFINE o == OrderOf(w)
<1>1. o \in Orders /\ worker[w].notice \in Success
  BY DEF Activate, At, WorkersSound, Sound, Between, OrderOf
<1>2. CASE SetUnlessSettled(o, "needs_review") /\ UNCHANGED sub
  BY <1>1, <1>2 DEF SetUnlessSettled, SetsStatus, rows
<1>3. CASE IF Settled(o) THEN UNCHANGED rows ELSE Entitle(o, worker[w].notice, PeriodStart(o))
  BY <1>1, <1>3
<1> HIDE DEF o
<1>4. \/ SetUnlessSettled(o, "needs_review") /\ UNCHANGED sub
      \/ IF Settled(o) THEN UNCHANGED rows ELSE Entitle(o, worker[w].notice, PeriodStart(o))
  BY DEF Activate, o
<1> QED BY <1>2, <1>3, <1>4 DEF o

\* Every step keeps the rows typed, and what was refunded refunded.
LEMMA StepsRows ==
    ASSUME WorkersSound, RowsTyped, RefundGone, now \in Nat, [Next]_vars
    PROVE  RowsTyped' /\ RefundGone' /\ RefundStep
<1> USE DEF Active, Success, Terminal
<1>1. CASE UNCHANGED rows
  BY <1>1 DEF rows, RowsTyped, RefundGone, RefundStep
<1>2. ASSUME NEW o \in Orders, ~Settled(o), NEW s \in PaymentStatus \ {"refunded"}, SetsStatus(o, s)
      PROVE  RowsTyped' /\ RefundGone' /\ RefundStep
  BY <1>2 DEF Settled, SetsStatus, SetStatus, RowsTyped, RefundGone, RefundStep
<1>3. ASSUME NEW o \in Orders, ~Settled(o), NEW s \in Success, Entitle(o, s, PeriodStart(o))
      PROVE  RowsTyped' /\ RefundGone' /\ RefundStep
  <2> DEFINE start == PeriodStart(o)
  <2>1. start + Period \in Nat
    BY PeriodStartType, CryptoAssumption
  <2>2. Entitle(o, s, start)
    BY <1>3
  <2> HIDE DEF start
  <2>3. payment' = [payment EXCEPT ![o] = s]
    BY <2>2 DEF Entitle, SetStatus
  <2>4. sub' = [x \in Orders |->
            IF x = o THEN [sub[o] EXCEPT !.status = "active", !.end = start + Period]
            ELSE IF Active(x) THEN [sub[x] EXCEPT !.status = "expired"] ELSE sub[x]]
    BY <2>2 DEF Entitle
  <2>5. RowsTyped'
    <3>1. s \in PaymentStatus
      BY DEF PaymentStatus, Notices
    <3>2. \A x \in Orders : /\ [sub[x] EXCEPT !.status = "active", !.end = start + Period] \in SubRow
                            /\ [sub[x] EXCEPT !.status = "expired"] \in SubRow /\ sub[x] \in SubRow
      BY <2>1 DEF RowsTyped, SubRow
    <3> QED BY <2>3, <2>4, <3>1, <3>2 DEF RowsTyped
  <2>6. \A x \in Orders : payment'[x] = "refunded" =>
            x # o /\ payment[x] = "refunded" /\ sub'[x] = sub[x]
    BY <2>3, <2>4 DEF RowsTyped, RefundGone
  <2>7. \A x \in Orders : payment[x] = "refunded" => payment'[x] = "refunded"
    BY <1>3, <2>3 DEF Settled, RowsTyped
  <2> QED BY <2>5, <2>6, <2>7 DEF RefundGone, RefundStep
<1>4. ASSUME NEW w \in Workers, Activate(w) PROVE RowsTyped' /\ RefundGone' /\ RefundStep
  BY <1>1, <1>2, <1>3, <1>4, ActivationRows DEF PaymentStatus
<1>5. ASSUME NEW o \in Orders, Expire(o) PROVE RowsTyped' /\ RefundGone' /\ RefundStep
  <2>1. CASE ~Active(o)
    BY <1>1, <1>5, <2>1 DEF Expire, rows
  <2>2. CASE Active(o)
    BY <1>5, <2>2 DEF Expire, RowsTyped, SubRow, RefundGone, RefundStep
  <2> QED BY <2>1, <2>2
<1>6. ASSUME NEW r \in Requests, Refund(r) PROVE RowsTyped' /\ RefundGone' /\ RefundStep
  <2> DEFINE o == OrderOf(r)
  <2>1. o \in Orders
    BY <1>6 DEF Refund, At, WorkersSound, Sound, Between, OrderOf
  <2>2. RefundRow(o) \in SubRow /\ RefundRow(o).status \in {"none", "canceled"}
    BY <2>1 DEF RefundRow, RowsTyped, SubRow
  <2>3. payment' = [payment EXCEPT ![o] = "refunded"] /\ sub' = [sub EXCEPT ![o] = RefundRow(o)]
    BY <1>6 DEF Refund, SetStatus
  <2> HIDE DEF o
  <2> QED BY <2>1, <2>2, <2>3 DEF RowsTyped, PaymentStatus, Notices, RefundGone, RefundStep
<1>7. ASSUME NEW r \in Requests, Note(r) PROVE RowsTyped' /\ RefundGone' /\ RefundStep
  BY <1>7 DEF Note, RowsTyped, SubRow, RefundGone, RefundStep
<1>8. CASE Undo
  BY <1>8 DEF Undo, RowsTyped, SubRow, RefundGone, RefundStep
<1> QED BY <1>1, <1>2, <1>4, <1>5, <1>6, <1>7, <1>8, RowSteps

-----------------------------------------------------------------------------
(* Type correctness and refunds.                                           *)

\* The variables that are neither rows nor workers.
RestTyped ==
    /\ loss \subseteq {"drops", "clock"}
    /\ card \in Cards
    /\ claim \in [Orders -> [Notices -> {"free", "held", "done"}]]
    /\ todo \subseteq Orders
    /\ invoice \in [Orders -> [stage : {"none", "waiting", "lapsed"} \cup Notices, short : BOOLEAN]]
    /\ unanswered \in [Orders -> SUBSET Notices]
    /\ now \in Start..MaxTime /\ faults \in 0..MaxFaults
    /\ trouble \in Troubles

Claims == [Orders -> [Notices -> {"free", "held", "done"}]]

\* One claim taken, given back or closed.
LEMMA ClaimTyped ==
    ASSUME claim \in Claims, NEW o \in Orders, NEW s \in Notices, NEW c \in {"free", "held", "done"},
           claim' = [claim EXCEPT ![o][s] = c]
    PROVE  claim' \in Claims
<1>1. [claim[o] EXCEPT ![s] = c] \in [Notices -> {"free", "held", "done"}]
  BY DEF Claims
<1>2. claim' = [claim EXCEPT ![o] = [claim[o] EXCEPT ![s] = c]]
  BY DEF Claims
<1> HIDE DEF Notices
<1> QED BY <1>1, <1>2 DEF Claims

\* A fault is counted.
LEMMA FaultTyped ==
    ASSUME RestTyped, NEW kind, Fault(kind)
    PROVE  faults' \in 0..MaxFaults
BY CryptoAssumption DEF RestTyped, Fault

\* The steps that requests share with the daily run and the support.
LEMMA RestShared ==
    ASSUME RestTyped, NEW w \in Workers,
           \/ Activate(w) \/ Recover(w) \/ CheckOther(w) \/ StampDrops(w) \/ StartClock(w)
    PROVE  RestTyped'
<1> USE DEF bounds, provider
<1>1. UNCHANGED <<card, claim, todo, invoice, unanswered, now, trouble>>
  BY DEF Activate, Recover, CheckOther, StampDrops, StartClock
<1>2. faults' \in 0..MaxFaults
  <2>1. UNCHANGED faults \/ Fault("failures")
    BY DEF Activate, Recover, CheckOther, StampDrops, StartClock
  <2> QED BY <2>1, FaultTyped DEF RestTyped
<1>3. loss' \in {loss, {}, loss \cup {"drops"}, loss \cup {"clock"}}
  BY DEF Activate, Recover, CheckOther, StampDrops, StartClock
<1> QED BY <1>1, <1>2, <1>3 DEF RestTyped

\* The steps of requests.
LEMMA RestRequest ==
    ASSUME RestTyped, WorkersSound, NEW r \in Requests, RequestStep(r) \/ Fail(r)
    PROVE  RestTyped'
<1> USE DEF bounds, provider
<1>1. ASSUME Answer(r) \/ Fail(r) PROVE RestTyped'
  <2> DEFINE o == OrderOf(r)
             s == worker[r].notice
  <2>1. o \in Orders /\ s \in Notices
    BY <1>1 DEF Answer, Fail, At, WorkersSound, Sound, Between, OrderOf
  <2>2. UNCHANGED <<loss, card, todo, invoice, now, trouble>>
    BY <1>1 DEF Answer, Fail
  <2>3. faults' \in 0..MaxFaults
    <3>1. UNCHANGED faults \/ Fault("failures")
      BY <1>1 DEF Answer, Fail
    <3> QED BY <3>1, FaultTyped DEF RestTyped
  <2>4. \E c \in {"free", "done"} : claim' = [claim EXCEPT ![o][s] = c]
    BY <1>1 DEF Answer, Fail
  <2>5. UNCHANGED unanswered \/ unanswered' = [unanswered EXCEPT ![o] = @ \ {s}]
    BY <1>1 DEF Answer, Fail
  <2> HIDE DEF o, s
  <2>6. claim' \in Claims
    BY <2>1, <2>4, ClaimTyped DEF RestTyped, Claims
  <2> QED BY <2>2, <2>3, <2>5, <2>6 DEF RestTyped, Claims
<1>2. ASSUME Write(r) \/ Refund(r) \/ FindPending(r) \/ Note(r) PROVE RestTyped'
  BY <1>2 DEF Write, Refund, FindPending, Note, RestTyped
<1> QED BY <1>1, <1>2, RestShared DEF RequestStep

\* The daily run, the support, and what goes wrong.
LEMMA RestOthers ==
    ASSUME RestTyped, WorkersSound, CronStep \/ SupportStep \/ Failures
    PROVE  RestTyped'
<1> USE DEF bounds, provider
<1>1. ASSUME BeginRun \/ ListHeld \/ EndRun \/ Undo PROVE RestTyped'
  BY <1>1 DEF BeginRun, ListHeld, EndRun, Undo, RestTyped
<1>2. ASSUME NEW o \in Orders, Expire(o) \/ TakeUp(o) PROVE RestTyped'
  BY <1>2 DEF Expire, TakeUp, RestTyped
<1>3. CASE CronStep \/ SupportStep
  BY <1>1, <1>2, <1>3, RestShared DEF CronStep, SupportStep
<1>4. ASSUME NEW w \in Workers, LossFails \/ ActivationFails(w) \/ Kill(w) PROVE RestTyped'
  <2>1. UNCHANGED <<loss, card, claim, invoice, unanswered, now, trouble>>
    BY <1>4 DEF LossFails, ActivationFails, Kill
  <2>2. faults' \in 0..MaxFaults
    BY <1>4, FaultTyped DEF LossFails, ActivationFails, Kill
  <2>3. todo' \subseteq Orders
    BY <1>4 DEF LossFails, ActivationFails, Kill, RestTyped
  <2> QED BY <2>1, <2>2, <2>3 DEF RestTyped
<1>5. CASE Failures
  BY <1>4, <1>5, RestRequest DEF Failures
<1> QED BY <1>3, <1>5

\* Every step.
LEMMA StepsRest ==
    ASSUME RestTyped, WorkersSound, [Next]_vars
    PROVE  RestTyped'
<1> USE DEF bounds, provider
<1>1. CASE UNCHANGED vars
  BY <1>1 DEF vars, RestTyped
<1>2. ASSUME NEW o \in Orders, Checkout(o) \/ BeginSupport(o) \/ ExpireInvoice(o) \/ InvoiceLapses(o)
      PROVE  RestTyped'
  BY <1>2 DEF Checkout, BeginSupport, ExpireInvoice, InvoiceLapses, RestTyped
<1>3. ASSUME NEW o \in Orders, Notify(o) PROVE RestTyped'
  <2>1. PICK s \in Sent[o] \cap After(invoice[o].stage), short \in BOOLEAN :
            /\ invoice' = [invoice EXCEPT ![o] = [stage |-> s, short |-> short]]
            /\ unanswered' = [unanswered EXCEPT ![o] = @ \cup {s}]
    BY <1>3 DEF Notify
  <2>2. s \in Notices
    BY <2>1, CryptoAssumption DEF Notices
  <2> QED BY <1>3, <2>1, <2>2 DEF Notify, RestTyped
<1>4. CASE CardMoves
  <2>1. card' \in Cards /\ UNCHANGED <<claim, todo, invoice, unanswered, now, faults, trouble>>
    BY <1>4 DEF CardMoves
  <2>2. loss' \in {loss, {}, {"drops", "clock"}}
    BY <1>4 DEF CardMoves
  <2> QED BY <2>1, <2>2 DEF RestTyped
<1>5. CASE Tick
  BY <1>5, CryptoAssumption DEF Tick, RestTyped
<1>6. ASSUME NEW r \in Requests, NEW o \in Orders, NEW s \in Notices, Deliver(r, o, s) PROVE RestTyped'
  <2>1. UNCHANGED <<loss, card, todo, invoice, now, faults, trouble>>
    BY <1>6 DEF Deliver
  <2>2. \/ claim' = [claim EXCEPT ![o][s] = "held"] /\ UNCHANGED unanswered
        \/ unanswered' = [unanswered EXCEPT ![o] = @ \ {s}] /\ UNCHANGED claim
    BY <1>6 DEF Deliver
  <2>3. claim' \in Claims
    BY <2>2, ClaimTyped DEF RestTyped, Claims
  <2> QED BY <2>1, <2>2, <2>3 DEF RestTyped, Claims
<1>7. ASSUME NEW o \in Orders, NEW s \in Notices, ClaimLapses(o, s) PROVE RestTyped'
  <2>1. claim' \in Claims
    BY <1>7, ClaimTyped DEF ClaimLapses, RestTyped, Claims
  <2> QED BY <1>7, <2>1 DEF ClaimLapses, RestTyped, Claims
<1>8. CASE \E r \in Requests : RequestStep(r)
  BY <1>8, RestRequest
<1>9. CASE CronStep \/ SupportStep \/ Failures
  BY <1>9, RestOthers
<1> QED BY <1>1, <1>2, <1>3, <1>4, <1>5, <1>6, <1>7, <1>8, <1>9
        DEF Next, UserStep, ProviderStep, Deliveries, Expiries

\* The inductive invariant.
BillingInv == RestTyped /\ RowsTyped /\ WorkersSound /\ RefundGone

\* It holds initially.
LEMMA BillingInit == Init => BillingInv
<1> SUFFICES ASSUME Init PROVE BillingInv
  OBVIOUS
<1>1. RestTyped
  <2>1. now \in Start..MaxTime /\ faults \in 0..MaxFaults
    BY CryptoAssumption DEF Init
  <2> QED BY <2>1, CryptoAssumption DEF Init, RestTyped, Notices
<1>2. RowsTyped /\ RefundGone
  BY CryptoAssumption DEF Init, RowsTyped, SubRow, PaymentStatus, Notices, RefundGone
<1>3. WorkersSound
  BY IdleRow DEF Init, WorkersSound, Idle
<1> QED BY <1>1, <1>2, <1>3 DEF BillingInv

\* Every step keeps it, and leaves what is refunded refunded.
LEMMA BillingStep == BillingInv /\ [Next]_vars => BillingInv' /\ RefundStep
<1> SUFFICES ASSUME BillingInv, [Next]_vars PROVE BillingInv' /\ RefundStep
  OBVIOUS
<1>1. now \in Nat
  BY CryptoAssumption DEF BillingInv, RestTyped
<1> QED BY <1>1, StepsRest, StepsRows, StepsSound DEF BillingInv

\* It implies that every variable is well typed.
LEMMA BillingTyped == BillingInv => TypeOK
BY DEF BillingInv, RestTyped, RowsTyped, SubRow, WorkersSound, WorkerRow, TypeOK

\* Every reachable state is well typed.
THEOREM TypeCorrect == Spec => []TypeOK
<1>1. Spec => []BillingInv
  BY BillingInit, BillingStep, PTL DEF Spec
<1> QED BY <1>1, BillingTyped, PTL

\* A refund is final, in whatever order notifications, repetitions,
\* activations by the daily run and by the support, failures and kills come
\* (api/webhooks/nowpayments/route.ts:140-208, crypto-activation.ts:123-137).
THEOREM RefundCorrect == Spec => RefundIsFinal
<1>1. BillingInv /\ [Next]_vars => RefundStep
  BY BillingStep
<1>2. Spec => []BillingInv
  BY BillingInit, BillingStep, PTL DEF Spec
<1>3. Spec => [][RefundStep]_vars
  BY <1>1, <1>2, PTL DEF Spec
<1> QED BY <1>3, PTL DEF RefundIsFinal, RefundStep

-----------------------------------------------------------------------------
(* One plan at a time.  A failing loss makes an expired row active again;  *)
(* without failing statements nothing but an activation does.              *)

SingleInv == BillingInv /\ OneRuns /\ NoUndo

\* At most one plan runs initially, and nothing is being undone.
LEMMA SingleInit ==
    ASSUME \A t \in Troubles : "failures" \notin t
    PROVE  Init => SingleInv
<1> SUFFICES ASSUME Init PROVE SingleInv
  OBVIOUS
<1>1. OneRuns
  BY CryptoAssumption DEF Init, OneRuns, Active
<1>2. NoUndo
  BY DEF Init, NoUndo, Idle
<1> QED BY <1>1, <1>2, BillingInit DEF SingleInv

\* The kind of trouble stays what it is, and only the clock moves the day.
LEMMA ClockOnly ==
    ASSUME [Next]_vars
    PROVE  trouble' = trouble /\ (now' = now \/ Tick)
BY DEF Next, vars, bounds, provider, rows, UserStep, Checkout, ProviderStep, Notify, InvoiceLapses, CardMoves,
       Tick, Deliveries, Deliver, Expiries, ClaimLapses, RequestStep, Write, Answer, Activate,
       Recover, Refund, FindPending, CheckOther, StampDrops, StartClock, Note, CronStep, BeginRun,
       ListHeld, EndRun, Undo, Expire, TakeUp, BeginSupport, ExpireInvoice, SupportStep, Failures,
       Fail, LossFails, ActivationFails, Kill

\* The daily run never has anything to undo.
LEMMA NoUndoStep ==
    ASSUME BillingInv, NoUndo, [Next]_vars
    PROVE  NoUndo'
<1> USE DEF NoUndo
<1>0. "cron" \in Workers /\ "cron" \notin Requests /\ worker \in [Workers -> WorkerRow]
  BY CryptoAssumption DEF BillingInv, WorkersSound
<1>1. trouble' = trouble
  BY ClockOnly
<1>2. ASSUME NEW w \in Workers, NEW step \in Steps \ {"undo"},
             Go(w, step) \/ Stop(w) \/ Finish(w) \/ NextRow("expire")
      PROVE  worker'["cron"].step # "undo"
  BY <1>0, <1>2, CryptoAssumption DEF Go, Stop, Finish, NextRow, Idle, WorkerRow
<1>3. ASSUME NEW w \in Workers, NEW q \in WorkerRow, q.step # "undo",
             worker' = [worker EXCEPT ![w] = q]
      PROVE  worker'["cron"].step # "undo"
  BY <1>0, <1>3
<1>4. ASSUME worker' = worker PROVE worker'["cron"].step # "undo"
  BY <1>4
<1>5. ASSUME NEW w \in Workers,
             \/ Activate(w) \/ Recover(w) \/ CheckOther(w) \/ StampDrops(w) \/ StartClock(w)
             \/ ActivationFails(w) \/ Kill(w)
      PROVE  worker'["cron"].step # "undo"
  <2>1. \/ Finish(w) \/ Stop(w)
        \/ \E step \in {"recover", "stamp", "mark", "note"} : Go(w, step)
    BY <1>5 DEF Activate, Recover, CheckOther, StampDrops, StartClock, AfterLoss, ActivationFails, Kill
  <2>2. {"recover", "stamp", "mark", "note"} \subseteq Steps \ {"undo"}
    BY DEF Steps
  <2> QED BY <1>2, <2>1, <2>2
<1>6. ASSUME NEW r \in Requests, RequestStep(r) \/ Fail(r) PROVE worker'["cron"].step # "undo"
  <2>1. CASE Write(r) \/ Refund(r) \/ FindPending(r) \/ Note(r) \/ Answer(r) \/ Fail(r)
    <3>1. Stop(r) \/ \E step \in {"answer", "pending", "check"} : Go(r, step)
      BY <2>1 DEF Write, Refund, FindPending, Note, Answer, Fail
    <3>2. {"answer", "pending", "check"} \subseteq Steps \ {"undo"} /\ r \in Workers
      BY DEF Steps
    <3> QED BY <1>2, <3>1, <3>2
  <2> QED BY <1>5, <1>6, <2>1 DEF RequestStep
<1>7. ASSUME CronStep PROVE worker'["cron"].step # "undo"
  <2>1. CASE BeginRun \/ ListHeld \/ EndRun \/ Undo
    <3>1. Stop("cron") \/ NextRow("expire") \/ \E step \in {"expire", "recheck"} : Go("cron", step)
      BY <2>1 DEF BeginRun, ListHeld, EndRun, Undo
    <3>2. {"expire", "recheck"} \subseteq Steps \ {"undo"}
      BY DEF Steps
    <3> QED BY <1>0, <1>2, <3>1, <3>2
  <2>2. ASSUME NEW o \in Orders, Expire(o) \/ TakeUp(o) PROVE worker'["cron"].step # "undo"
    <3>1. \/ worker' = worker
          \/ worker' = [worker EXCEPT !["cron"] = [step |-> "check", order |-> o, notice |-> None]]
          \/ worker' = [worker EXCEPT !["cron"] =
                [step |-> "activate", order |-> o, notice |-> "finished"]]
      BY <2>2 DEF Expire, TakeUp
    <3> QED BY <1>0, <1>4, <3>1
  <2> QED BY <1>5, <1>7, <2>1, <2>2 DEF CronStep
<1>8. ASSUME Deliveries \/ \E o \in Orders : BeginSupport(o) PROVE worker'["cron"].step # "undo"
  <2>1. ASSUME NEW r \in Requests, NEW o \in Orders, NEW s \in Notices, Deliver(r, o, s)
        PROVE  worker'["cron"].step # "undo"
    BY <1>0, <2>1 DEF Deliver
  <2>2. ASSUME NEW o \in Orders, BeginSupport(o) PROVE worker'["cron"].step # "undo"
    BY <1>0, <2>2 DEF BeginSupport
  <2> QED BY <1>8, <2>1, <2>2 DEF Deliveries
<1>9. ASSUME \/ UNCHANGED vars \/ UserStep \/ ProviderStep \/ CardMoves \/ Tick \/ Expiries
             \/ \E o \in Orders : ExpireInvoice(o)
      PROVE  worker'["cron"].step # "undo"
  BY <1>4, <1>9 DEF vars, UserStep, Checkout, ProviderStep, Notify, InvoiceLapses, CardMoves, Tick,
                    Expiries, ClaimLapses, ExpireInvoice
<1>10. ~LossFails
  BY DEF LossFails, Fault
<1>11. worker'["cron"].step # "undo"
  BY <1>5, <1>6, <1>7, <1>8, <1>9, <1>10 DEF Next, SupportStep, Failures
<1> QED BY <1>1, <1>11

\* An activation ends every other plan, and nothing else starts one.
LEMMA OneRunsStep ==
    ASSUME SingleInv, [Next]_vars
    PROVE  OneRuns'
<1> USE DEF Active
<1>0. WorkersSound /\ RowsTyped
  BY DEF SingleInv, BillingInv
<1>1. ASSUME \A x \in Orders : sub'[x].status = "active" => Active(x) PROVE OneRuns'
  BY <1>1 DEF SingleInv, OneRuns
<1>2. CASE UNCHANGED sub
  BY <1>1, <1>2
<1>3. ASSUME NEW o \in Orders, NEW s, NEW start, Entitle(o, s, start) PROVE OneRuns'
  BY <1>0, <1>3 DEF Entitle, OneRuns, RowsTyped, SubRow
<1>4. ASSUME NEW w \in Workers, Activate(w) PROVE OneRuns'
  BY <1>0, <1>2, <1>3, <1>4, ActivationRows DEF rows, SetsStatus
<1>5. ASSUME NEW o \in Orders, Expire(o) PROVE OneRuns'
  BY <1>0, <1>1, <1>5 DEF Expire, RowsTyped, SubRow
<1>6. ASSUME NEW r \in Requests, Refund(r) PROVE OneRuns'
  BY <1>0, <1>1, <1>6 DEF Refund, RefundRow, RowsTyped, SubRow
<1>7. ASSUME NEW r \in Requests, Note(r) PROVE OneRuns'
  BY <1>0, <1>1, <1>7 DEF Note, RowsTyped, SubRow
<1>8. ~Undo
  BY DEF Undo, At, SingleInv, NoUndo
<1> QED BY <1>0, <1>2, <1>4, <1>5, <1>6, <1>7, <1>8, RowSteps DEF rows, SetsStatus

\* Where no statement fails, two plans never entitle the user at once, however
\* notifications, the daily run, the support and kills interleave
\* (subscription-sync.ts:602-633).
THEOREM OneEntitlingCorrect ==
    ASSUME \A t \in Troubles : "failures" \notin t
    PROVE  Spec => []OneEntitling
<1>1. Init => SingleInv
  BY SingleInit
<1>2. SingleInv /\ [Next]_vars => SingleInv'
  BY BillingStep, NoUndoStep, OneRunsStep DEF SingleInv
<1>3. SingleInv => OneEntitling
  <2> SUFFICES ASSUME OneRuns PROVE OneEntitling
    BY DEF SingleInv
  <2> DEFINE A == {o \in Orders : Counts(o)}
  <2>1. CASE A = {}
    BY <2>1, FS_EmptySet DEF OneEntitling
  <2>2. CASE A # {}
    <3>1. PICK o \in A : TRUE
      BY <2>2
    <3>2. A = {o}
      BY <3>1 DEF OneRuns, Counts
    <3> QED BY <3>2, FS_Singleton DEF OneEntitling
  <2> QED BY <2>1, <2>2
<1> QED BY <1>1, <1>2, <1>3, PTL DEF Spec

-----------------------------------------------------------------------------
(* The remainder.  While the provider waits for each answer, nothing is    *)
(* killed and nothing is refunded, a payment is activated once: what is    *)
(* unanswered is the last status, one request has it, and whoever is about *)
(* to activate an order has one that was not activated yet.                *)

\* What is unanswered is the order's last status, and a request that is under
\* way handles it, alone.
InOrder ==
    /\ \A o \in Orders : \A s \in unanswered[o] : s = invoice[o].stage
    /\ \A r \in Requests : worker[r].step # "idle" => worker[r].notice \in unanswered[worker[r].order]
    /\ \A q, r \in Requests :
          worker[q].step # "idle" /\ worker[r].step # "idle" /\ worker[q].order = worker[r].order => q = r

\* The paid orders have a plan, and what is paid or held is confirmed in full.
Paid ==
    \A o \in Orders :
       /\ payment[o] = "none" => invoice[o].stage = "none"
       /\ sub[o].status # "none" <=> payment[o] \in Success
       /\ payment[o] \in Success \cup {"needs_review"} =>
             invoice[o].stage \in {"confirmed", "finished", "refunded"} /\ ~invoice[o].short

\* What a request decided from the status it read is still right.
Decided ==
    \A r \in Requests :
       /\ worker[r].step = "reject" => invoice[worker[r].order].short
       /\ worker[r].step = "activate" =>
             ~invoice[worker[r].order].short /\ payment[worker[r].order] # "confirmed"
       /\ worker[r].step = "update" /\ worker[r].notice \in Success =>
             payment[worker[r].order] \in Success

\* The daily run and the support are taking up a held payment.
Held(o) ==
    \/ \E w \in {"cron", "support"} : worker[w].step = "activate" /\ worker[w].order = o
    \/ worker["cron"].step \in {"recheck", "activate", "recover"} /\ o \in todo

\* It is still held or settled for ever, and no request is about to activate a
\* confirmed one as well.
HeldBack ==
    \A o \in Orders :
       /\ Held(o) => payment[o] = "needs_review" \/ payment[o] \in Terminal
       /\ payment[o] = "needs_review" /\ invoice[o].stage = "confirmed" /\ unanswered[o] # {} =>
             \E r \in Requests : worker[r].step = "answer" /\ worker[r].order = o

\* The two halves of the daily run are told apart by the notification; what is
\* taken up was finished.
Phases ==
    /\ \A w \in {"cron", "support"} :
          worker[w].step = "activate" => worker[w].notice = "finished"
    /\ worker["cron"].step = "recover" => worker["cron"].notice # None
    /\ worker["cron"].step \in {"check", "stamp", "mark"} => worker["cron"].notice = None

\* What the daily run lists as lapsed stays lapsed.
Overdue ==
    worker["cron"].step \in {"expire", "check", "stamp", "mark", "undo"} =>
       \A o \in todo : sub[o].status # "none" /\ sub[o].end + Grace < now

Ordered == InOrder /\ Paid /\ Decided /\ HeldBack /\ Phases /\ Overdue

USE DEF At, OrderOf, Go, Stop, Idle

\* The user and the provider.
LEMMA OrderedOutside ==
    ASSUME BillingInv, Calm, Ordered, NEW o \in Orders,
           Checkout(o) \/ Notify(o) \/ InvoiceLapses(o) \/ ExpireInvoice(o)
    PROVE  Ordered'
<1> USE DEF BillingInv, RestTyped, RowsTyped, WorkersSound, Sound, Between, WorkerRow, SubRow
<1>1. CASE Checkout(o)
  <2>0. unanswered[o] = {}
    BY <1>1 DEF Checkout, Ordered, InOrder, Paid, Notices
  <2>1. InOrder'
    BY <1>1, <2>0 DEF Checkout, Ordered, InOrder
  <2>2. Paid'
    BY <1>1 DEF Checkout, Ordered, Paid, SetStatus, Success
  <2>3. Decided'
    BY <1>1 DEF Checkout, Ordered, Decided, SetStatus, Success, InOrder, Paid, Notices
  <2>4. HeldBack'
    BY <1>1 DEF Checkout, Ordered, HeldBack, Held, SetStatus, Terminal
  <2> QED BY <1>1, <2>1, <2>2, <2>3, <2>4 DEF Checkout, Ordered, Phases, Overdue, bounds
<1>2. CASE Notify(o)
  <2>0. unanswered[o] = {}
    BY <1>2 DEF Notify, Calm
  <2>1. PICK s \in Sent[o] \cap After(invoice[o].stage), short \in BOOLEAN :
            /\ short = invoice[o].short \/ invoice[o].stage = "waiting"
            /\ invoice' = [invoice EXCEPT ![o] = [stage |-> s, short |-> short]]
            /\ unanswered' = [unanswered EXCEPT ![o] = @ \cup {s}]
    BY <1>2 DEF Notify
  <2>2. \A r \in Requests : worker[r].step # "idle" => worker[r].order \in Orders \ {o}
    BY <2>0 DEF Ordered, InOrder
  <2>3. InOrder'
    BY <1>2, <2>0, <2>1, <2>2 DEF Notify, Ordered, InOrder
  <2>4. Paid'
    BY <1>2, <2>1 DEF Notify, rows, Ordered, Paid, After
  <2>5. Decided'
    BY <1>2, <2>1, <2>2 DEF Notify, rows, Ordered, Decided
  <2>6. HeldBack'
    <3>1. UNCHANGED <<payment, worker, todo>>
      BY <1>2 DEF Notify, rows
    <3>2. \A x \in Orders \ {o} : invoice'[x] = invoice[x] /\ unanswered'[x] = unanswered[x]
      BY <2>1
    <3>3. payment[o] = "needs_review" => invoice'[o].stage # "confirmed"
      BY <2>1 DEF Ordered, Paid, After
    <3>4. \A x \in Orders : Held(x)' <=> Held(x)
      BY <3>1 DEF Held
    <3>5. ASSUME NEW x \in Orders, payment[x] = "needs_review", invoice'[x].stage = "confirmed",
                 unanswered'[x] # {}
          PROVE  \E r \in Requests : worker[r].step = "answer" /\ worker[r].order = x
      <4>1. x # o /\ invoice[x].stage = "confirmed" /\ unanswered[x] # {}
        BY <3>2, <3>3, <3>5
      <4> QED BY <3>5, <4>1 DEF Ordered, HeldBack
    <3>6. \A x \in Orders : Held(x)' => payment'[x] = "needs_review" \/ payment'[x] \in Terminal
      BY <3>1, <3>4 DEF Ordered, HeldBack
    <3> QED BY <3>1, <3>5, <3>6 DEF HeldBack
  <2>7. Phases' /\ Overdue'
    <3>1. worker' = worker /\ todo' = todo /\ sub' = sub /\ now' = now
      BY <1>2 DEF Notify, rows, bounds
    <3> QED BY <3>1 DEF Ordered, Phases, Overdue
  <2> QED BY <2>3, <2>4, <2>5, <2>6, <2>7 DEF Ordered
<1>3. CASE InvoiceLapses(o)
  <2>0. unanswered[o] = {} /\ worker' = worker /\ unanswered' = unanswered
    BY <1>3 DEF InvoiceLapses, Ordered, InOrder, Notices
  <2>a. \A p \in Orders \ {o} : invoice'[p] = invoice[p]
    BY <1>3 DEF InvoiceLapses
  <2>1. InOrder'
    BY <2>0, <2>a DEF Ordered, InOrder
  <2>2. Paid'
    BY <1>3 DEF InvoiceLapses, rows, Ordered, Paid
  <2>3. Decided'
    BY <1>3 DEF InvoiceLapses, rows, Ordered, Decided
  <2>4. HeldBack'
    <3>1. UNCHANGED <<payment, worker, todo, unanswered>>
      BY <1>3 DEF InvoiceLapses, rows
    <3>2. \A x \in Orders : invoice'[x].stage = "confirmed" => invoice[x].stage = "confirmed"
      BY <1>3 DEF InvoiceLapses
    <3> QED BY <3>1, <3>2 DEF Ordered, HeldBack, Held
  <2> QED BY <1>3, <2>1, <2>2, <2>3, <2>4 DEF InvoiceLapses, rows, Ordered, Phases, Overdue, bounds
<1>4. CASE ExpireInvoice(o)
  <2>1. InOrder'
    BY <1>4 DEF ExpireInvoice, provider, Ordered, InOrder
  <2>2. Paid'
    BY <1>4 DEF ExpireInvoice, provider, Ordered, Paid, SetStatus, Success
  <2>3. Decided'
    BY <1>4 DEF ExpireInvoice, provider, Ordered, Decided, SetStatus, Success
  <2>4. HeldBack'
    <3>1. UNCHANGED <<worker, todo, invoice, unanswered>>
      BY <1>4 DEF ExpireInvoice, provider
    <3>2. payment[o] = "waiting" /\ payment'[o] = "expired"
          /\ \A x \in Orders \ {o} : payment'[x] = payment[x]
      BY <1>4 DEF ExpireInvoice, SetStatus
    <3>3. \A x \in Orders : Held(x)' <=> Held(x)
      BY <3>1 DEF Held
    <3> QED BY <3>1, <3>2, <3>3 DEF Ordered, HeldBack, Terminal
  <2> QED BY <1>4, <2>1, <2>2, <2>3, <2>4 DEF ExpireInvoice, provider, Ordered, Phases, Overdue, bounds
<1> QED BY <1>1, <1>2, <1>3, <1>4

\* A delivery: the request that takes it is the only one of its order, and what
\* it decides is right of the status it reads.
LEMMA OrderedDelivery ==
    ASSUME BillingInv, Calm, Ordered, NEW r \in Requests, NEW o \in Orders, NEW s \in Notices,
           Deliver(r, o, s)
    PROVE  Ordered'
<1> USE DEF BillingInv, RestTyped, RowsTyped, WorkersSound, Sound, Between, WorkerRow, SubRow
<1>1. UNCHANGED <<payment, sub, todo, invoice, now>>
  BY DEF Deliver, rows, bounds
<1>2. worker[r].step = "idle" /\ s \in unanswered[o] /\ s = invoice[o].stage
  BY DEF Deliver, Ordered, InOrder
<1>3. ~Handled(o, s)
  BY DEF Deliver, Calm
<1>4. \A q \in Requests : worker[q].step # "idle" => worker[q].order # o
  <2> SUFFICES ASSUME NEW q \in Requests, worker[q].step # "idle", worker[q].order = o PROVE FALSE
    OBVIOUS
  <2>1. worker[q].notice \in unanswered[o]
    BY DEF Ordered, InOrder
  <2>2. worker[q].notice = s
    BY <1>2, <2>1 DEF Ordered, InOrder
  <2> QED BY <1>3, <2>2 DEF Handled
<1>5. "cron" \notin Requests /\ "support" \notin Requests
  BY CryptoAssumption
<1>6. CASE claim[o][s] = "free"
  <2> DEFINE q == [step |-> Decision(o, s), order |-> o, notice |-> s]
  <2>1. worker' = [worker EXCEPT ![r] = q] /\ UNCHANGED unanswered
    BY <1>6 DEF Deliver
  <2>2. Decision(o, s) \in {"reject", "update", "activate", "refund", "answer"}
    BY DEF Decision
  <2>3. /\ Decision(o, s) = "reject" => invoice[o].short
        /\ Decision(o, s) = "activate" => ~invoice[o].short /\ payment[o] \notin Success
        /\ Decision(o, s) = "update" /\ s \in Success => payment[o] \in Success
    BY DEF Decision
  <2>4. q.step = Decision(o, s) /\ q.order = o /\ q.notice = s
    OBVIOUS
  <2> HIDE DEF q
  <2>5. InOrder'
    BY <1>1, <1>2, <1>4, <2>1, <2>2, <2>4 DEF Ordered, InOrder
  <2>6. Decided'
    BY <1>1, <2>1, <2>2, <2>3, <2>4 DEF Ordered, Decided, Success
  <2>7. HeldBack'
    BY <1>1, <1>2, <1>5, <2>1, <2>2, <2>4 DEF Ordered, HeldBack, Held
  <2>8. Paid' /\ Phases' /\ Overdue'
    BY <1>1, <1>5, <2>1 DEF Ordered, Paid, Phases, Overdue
  <2> QED BY <2>5, <2>6, <2>7, <2>8 DEF Ordered
<1>7. CASE claim[o][s] # "free"
  <2>1. unanswered' = [unanswered EXCEPT ![o] = @ \ {s}] /\ UNCHANGED worker
    BY <1>7 DEF Deliver
  <2>2. InOrder'
    BY <1>1, <1>4, <2>1 DEF Ordered, InOrder
  <2>3. HeldBack'
    <3>1. \A x \in Orders : Held(x)' <=> Held(x)
      BY <1>1, <2>1 DEF Held
    <3>2. ASSUME NEW x \in Orders, unanswered'[x] # {} PROVE unanswered[x] # {}
      BY <2>1, <3>2
    <3> QED BY <1>1, <2>1, <3>1, <3>2 DEF Ordered, HeldBack
  <2>4. Paid' /\ Decided' /\ Phases' /\ Overdue'
    BY <1>1, <2>1 DEF Ordered, Paid, Decided, Phases, Overdue
  <2> QED BY <2>2, <2>3, <2>4 DEF Ordered
<1> QED BY <1>6, <1>7

\* A request goes on and decides nothing: the payments, the provider and what
\* the plans give are as they were.
LEMMA OrderedMoves ==
    ASSUME BillingInv, Ordered, UNCHANGED <<payment, todo, invoice, unanswered, now>>,
           \A o \in Orders : sub'[o].status = sub[o].status /\ sub'[o].end = sub[o].end,
           NEW r \in Requests, NEW step \in Steps, Go(r, step),
           worker[r].step # "idle", step \notin {"idle", "reject", "update", "activate"},
           worker[r].step # "answer"
    PROVE  Ordered'
<1> USE DEF BillingInv, RestTyped, RowsTyped, WorkersSound, Sound, Between, WorkerRow, SubRow
<1>1. "cron" \notin Requests /\ "support" \notin Requests
  BY CryptoAssumption
<1>2. InOrder'
  BY DEF Ordered, InOrder
<1>3. Decided'
  BY DEF Ordered, Decided
<1>4. HeldBack'
  BY <1>1 DEF Ordered, HeldBack, Held
<1>5. Paid' /\ Phases' /\ Overdue'
  BY <1>1 DEF Ordered, Paid, Phases, Overdue
<1> QED BY <1>2, <1>3, <1>4, <1>5 DEF Ordered

\* One notification is answered.
LEMMA Answers ==
    ASSUME unanswered \in [Orders -> SUBSET Notices], NEW o \in Orders, NEW s,
           unanswered' = [unanswered EXCEPT ![o] = @ \ {s}], NEW x \in Orders
    PROVE  unanswered'[x] \subseteq unanswered[x]
<1>1. CASE x = o
  BY <1>1
<1>2. CASE x # o
  BY <1>2
<1> QED BY <1>1, <1>2

\* A request stops: what it handled is answered, or nobody has it now.
LEMMA OrderedStops ==
    ASSUME BillingInv, Ordered, NEW r \in Requests, Answer(r) \/ Fail(r)
    PROVE  Ordered'
<1> USE DEF BillingInv, RestTyped, RowsTyped, WorkersSound, Sound, Between, WorkerRow, SubRow
<1> DEFINE o == worker[r].order
<1>1. "cron" \notin Requests /\ "support" \notin Requests
  BY CryptoAssumption
<1>2. /\ UNCHANGED <<payment, sub, todo, invoice, now>>
      /\ worker' = [worker EXCEPT ![r] = [step |-> "idle", order |-> None, notice |-> None]]
  BY DEF Answer, Fail, rows, provider, bounds
<1>3. worker[r].step # "idle" /\ o \in Orders
  BY DEF Answer, Fail
<1>4. \/ unanswered' = [unanswered EXCEPT ![o] = @ \ {worker[r].notice}]
      \/ unanswered' = unanswered /\ worker[r].step # "answer"
  BY DEF Answer, Fail, provider
<1> HIDE DEF o
<1>5. \A q \in Requests \ {r} : worker[q].step # "idle" => worker[q].order # o
  BY <1>3 DEF Ordered, InOrder, o
<1>6. InOrder'
  <2>1. \A q \in Requests : worker'[q].step # "idle" =>
           q # r /\ worker'[q] = worker[q] /\ worker[q].order \in Orders \ {o}
    BY <1>2, <1>5
  <2>2. ASSUME NEW x \in Orders PROVE unanswered'[x] \subseteq unanswered[x]
    BY <1>3, <1>4, Answers
  <2>3. \A x \in Orders \ {o} : unanswered'[x] = unanswered[x]
    BY <1>3, <1>4
  <2> QED BY <1>2, <2>1, <2>2, <2>3 DEF Ordered, InOrder
<1>7. Decided'
  BY <1>2 DEF Ordered, Decided
<1>8. HeldBack'
  <2>1. \A x \in Orders : Held(x)' <=> Held(x)
    BY <1>1, <1>2 DEF Held
  <2>2. ASSUME NEW x \in Orders, payment[x] = "needs_review", invoice[x].stage = "confirmed",
               unanswered'[x] # {}
        PROVE  \E q \in Requests : worker'[q].step = "answer" /\ worker'[q].order = x
    <3>1. unanswered[x] # {}
      <4>1. unanswered'[x] \subseteq unanswered[x]
        BY <1>3, <1>4, Answers
      <4> QED BY <2>2, <4>1
    <3>2. PICK q \in Requests : worker[q].step = "answer" /\ worker[q].order = x
      BY <2>2, <3>1 DEF Ordered, HeldBack
    <3>3. CASE q = r
      <4>1. unanswered' = [unanswered EXCEPT ![o] = @ \ {worker[r].notice}] /\ x = o
        BY <1>4, <3>2, <3>3 DEF o
      <4>2. \A s \in unanswered[o] : s = worker[r].notice
        BY <1>3 DEF Ordered, InOrder, o
      <4> QED BY <1>3, <2>2, <4>1, <4>2
    <3>4. CASE q # r
      BY <1>2, <3>2, <3>4
    <3> QED BY <3>3, <3>4
  <2> QED BY <1>2, <2>1, <2>2 DEF Ordered, HeldBack
<1>9. Paid' /\ Phases' /\ Overdue'
  BY <1>1, <1>2 DEF Ordered, Paid, Phases, Overdue
<1> QED BY <1>6, <1>7, <1>8, <1>9 DEF Ordered

\* A request writes a status; or looks for a loss, applies it, closes its mark.
LEMMA OrderedWrites ==
    ASSUME BillingInv, Ordered, NEW r \in Requests,
           \/ Write(r) \/ Recover(r) \/ FindPending(r) \/ CheckOther(r) \/ StampDrops(r)
           \/ StartClock(r) \/ Note(r)
    PROVE  Ordered'
<1>0. "cron" \notin Requests /\ "support" \notin Requests /\ r \in Workers
  BY CryptoAssumption
<1>1. ASSUME Recover(r) \/ FindPending(r) \/ CheckOther(r) \/ StampDrops(r) \/ StartClock(r) \/ Note(r)
      PROVE  Ordered'
  <2>1. \E step \in {"check", "stamp", "mark", "note", "answer"} : Go(r, step)
    BY <1>0, <1>1 DEF Recover, FindPending, CheckOther, StampDrops, StartClock, Note, AfterLoss, Finish
  <2>2. worker[r].step \notin {"idle", "answer"}
    BY <1>1 DEF Recover, FindPending, CheckOther, StampDrops, StartClock, Note
  <2>3. UNCHANGED <<payment, todo, invoice, unanswered, now>>
    BY <1>1 DEF Recover, FindPending, CheckOther, StampDrops, StartClock, Note, rows, provider, bounds
  <2>4. \A o \in Orders : sub'[o].status = sub[o].status /\ sub'[o].end = sub[o].end
    <3>1. CASE Note(r)
      BY <3>1 DEF Note, BillingInv, RowsTyped, SubRow
    <3>2. CASE ~Note(r)
      BY <1>1, <3>2 DEF Recover, FindPending, CheckOther, StampDrops, StartClock, rows
    <3> QED BY <3>1, <3>2
  <2>5. {"check", "stamp", "mark", "note", "answer"} \subseteq Steps
    BY DEF Steps
  <2> QED BY <2>1, <2>2, <2>3, <2>4, <2>5, OrderedMoves
<1>2. CASE Write(r)
  <2> USE DEF BillingInv, RestTyped, RowsTyped, WorkersSound, Sound, Between, WorkerRow, SubRow
  <2> DEFINE o == worker[r].order
             s == IF worker[r].step = "reject" THEN "rejected" ELSE worker[r].notice
  <2>1. /\ worker[r].step \in {"reject", "update"}
        /\ worker' = [worker EXCEPT ![r].step = "answer"]
        /\ UNCHANGED <<sub, todo, invoice, unanswered, now>>
    BY <1>2 DEF Write, provider, bounds
  <2>2. o \in Orders /\ worker[r].notice \in Notices /\ worker[r].notice \in unanswered[o]
    BY <2>1 DEF Ordered, InOrder
  <2>3. \/ UNCHANGED payment
        \/ payment[o] \notin Terminal /\ payment' = [payment EXCEPT ![o] = s]
    BY <1>2 DEF Write, SetUnlessSettled, SetStatus, Settled
  <2>4. worker[r].notice = invoice[o].stage
    BY <2>2 DEF Ordered, InOrder
  <2>5. payment[o] \in Success <=> s \in Success
    <3>1. CASE worker[r].step = "reject"
      BY <2>2, <3>1 DEF Ordered, Decided, Paid, Success
    <3>2. CASE worker[r].step = "update"
      BY <2>2, <2>4, <3>2 DEF Ordered, Decided, Paid, Success
    <3> QED BY <2>1, <3>1, <3>2
  <2>6. payment[o] # "needs_review" /\ s \notin {"needs_review", "none"}
    <3>1. CASE worker[r].step = "reject"
      BY <2>2, <3>1 DEF Ordered, Decided, Paid
    <3>2. CASE worker[r].step = "update"
      BY <2>2, <2>4, <3>2 DEF Ordered, Decided, Paid, Success, Notices
    <3> QED BY <2>1, <3>1, <3>2
  <2>7. InOrder'
    BY <2>1, <2>2 DEF Ordered, InOrder
  <2>8. Paid'
    BY <2>1, <2>2, <2>3, <2>5, <2>6 DEF Ordered, Paid
  <2>9. Decided'
    <3>1. \A q \in Requests \ {r} : worker[q].step # "idle" => worker[q].order # o
      BY <2>1 DEF Ordered, InOrder
    <3>2. \A q \in Requests : worker'[q].step \in {"reject", "activate", "update"} =>
             /\ worker'[q] = worker[q]
             /\ payment'[worker[q].order] = payment[worker[q].order]
      BY <2>1, <2>2, <2>3, <3>1
    <3> QED BY <2>1, <3>2 DEF Ordered, Decided
  <2>10. HeldBack'
    <3>1. \A x \in Orders : Held(x)' <=> Held(x)
      BY <1>0, <2>1 DEF Held
    <3>2. \A x \in Orders : payment'[x] = payment[x] \/ (x = o /\ payment[o] \notin Terminal)
      BY <2>2, <2>3
    <3>3. \A x \in Orders : payment'[x] = "needs_review" => payment[x] = "needs_review"
      BY <2>2, <2>3, <2>6
    <3>4. \A q \in Requests : worker[q].step = "answer" =>
             worker'[q].step = "answer" /\ worker'[q].order = worker[q].order
      BY <2>1
    <3> HIDE DEF o, s
    <3>5. ASSUME NEW x \in Orders, Held(x)' PROVE payment'[x] = "needs_review" \/ payment'[x] \in Terminal
      BY <2>6, <3>1, <3>2, <3>5 DEF Ordered, HeldBack
    <3>6. ASSUME NEW x \in Orders, payment'[x] = "needs_review", invoice'[x].stage = "confirmed",
                 unanswered'[x] # {}
          PROVE  \E q \in Requests : worker'[q].step = "answer" /\ worker'[q].order = x
      <4>1. PICK q \in Requests : worker[q].step = "answer" /\ worker[q].order = x
        BY <2>1, <3>3, <3>6 DEF Ordered, HeldBack
      <4> QED BY <3>4, <4>1
    <3> QED BY <3>5, <3>6 DEF HeldBack
  <2>11. Phases' /\ Overdue'
    BY <1>0, <2>1 DEF Ordered, Phases, Overdue
  <2> QED BY <2>7, <2>8, <2>9, <2>10, <2>11 DEF Ordered
<1> QED BY <1>1, <1>2

\* An order that is about to be activated has no plan, is confirmed in full, and
\* nobody else is about to activate it as confirmed only.
LEMMA Fresh ==
    ASSUME BillingInv, Ordered, NEW w \in Workers, worker[w].step = "activate",
           payment[worker[w].order] \notin Terminal
    PROVE  LET o == worker[w].order IN
           /\ o \in Orders /\ worker[w].notice \in Success
           /\ payment[o] \notin Success /\ sub[o].status = "none"
           /\ invoice[o].stage \in {"confirmed", "finished", "refunded"} /\ ~invoice[o].short
           /\ w \notin Requests => payment[o] = "needs_review" /\ worker[w].notice = "finished"
           /\ Held(o) => worker[w].notice = "finished" /\ payment[o] = "needs_review"
<1> USE DEF BillingInv, RestTyped, RowsTyped, WorkersSound, Sound, Between, WorkerRow, SubRow
<1> DEFINE o == worker[w].order
<1>1. o \in Orders /\ worker[w].notice \in Success
  OBVIOUS
<1>2. w \in Requests => /\ worker[w].notice = invoice[o].stage /\ ~invoice[o].short
                        /\ payment[o] # "confirmed" /\ worker[w].notice \in unanswered[o]
  BY <1>1 DEF Ordered, InOrder, Decided
<1>3. w \notin Requests => Held(o) /\ worker[w].notice = "finished"
  BY DEF Held, Ordered, Phases
<1>4. Held(o) => payment[o] = "needs_review"
  BY <1>1 DEF Ordered, HeldBack
<1>5. w \in Requests /\ Held(o) => worker[w].notice = "finished"
  <2> SUFFICES ASSUME w \in Requests, Held(o), worker[w].notice = "confirmed" PROVE FALSE
    BY <1>1 DEF Success
  <2>1. PICK r \in Requests : worker[r].step = "answer" /\ worker[r].order = o
    BY <1>1, <1>2, <1>4 DEF Ordered, HeldBack
  <2>2. r = w
    BY <2>1 DEF Ordered, InOrder
  <2> QED BY <2>1, <2>2
<1>6. payment[o] \notin Success
  BY <1>2, <1>3, <1>4 DEF Success, Terminal
<1>7. sub[o].status = "none"
  BY <1>1, <1>6 DEF Ordered, Paid
<1>8. invoice[o].stage \in {"confirmed", "finished", "refunded"} /\ ~invoice[o].short
  <2>1. CASE w \in Requests
    BY <1>1, <1>2, <2>1 DEF Success
  <2>2. CASE w \notin Requests
    BY <1>1, <1>3, <1>4, <2>2 DEF Ordered, Paid
  <2> QED BY <2>1, <2>2
<1> QED BY <1>1, <1>3, <1>4, <1>5, <1>6, <1>7, <1>8

\* Where a worker goes that has done with its order.
LEMMA Leaves ==
    ASSUME BillingInv, Ordered, NEW w \in Workers, worker[w].step \in {"activate", "recover"},
           Finish(w) \/ Go(w, "recover")
    PROVE  \E q \in WorkerRow :
              /\ worker' = [worker EXCEPT ![w] = q]
              /\ w \in Requests => /\ q.step \in {"answer", "recover"}
                                   /\ q.order = worker[w].order /\ q.notice = worker[w].notice
              /\ w = "cron" => q.step \in {"recheck", "recover"} /\ (q.step = "recover" => q.notice # None)
              /\ w = "support" => q.step \in {"idle", "recover"}
              /\ Finish(w) /\ w \in Requests => q.step = "answer"
<1> USE DEF BillingInv, WorkersSound, Sound, Between, WorkerRow
<1>0. "cron" \notin Requests /\ "support" \notin Requests /\ None \notin Success /\ "finished" # None
  BY CryptoAssumption DEF Success, Notices
<1>1. CASE w \in Requests
  <2> DEFINE step == IF Finish(w) THEN "answer" ELSE "recover"
             q == [worker[w] EXCEPT !.step = step]
  <2>1. worker' = [worker EXCEPT ![w] = q]
    BY <1>0, <1>1 DEF Finish
  <2>2. q \in WorkerRow /\ q.step = step /\ q.order = worker[w].order /\ q.notice = worker[w].notice
    BY DEF Steps
  <2> HIDE DEF q
  <2> QED BY <1>0, <1>1, <2>1, <2>2
<1>2. CASE w = "support"
  <2> DEFINE q == IF Finish(w) THEN [step |-> "idle", order |-> None, notice |-> None]
                  ELSE [worker[w] EXCEPT !.step = "recover"]
  <2>1. worker' = [worker EXCEPT ![w] = q]
    BY <1>0, <1>2 DEF Finish
  <2>2. q \in WorkerRow /\ q.step \in {"idle", "recover"}
    BY DEF Steps
  <2> HIDE DEF q
  <2> QED BY <1>0, <1>2, <2>1, <2>2
<1>3. CASE w = "cron"
  <2>0. worker[w].notice # None
    BY <1>0, <1>3 DEF Ordered, Phases
  <2> DEFINE q == IF Finish(w) THEN [step |-> "recheck", order |-> None, notice |-> None]
                  ELSE [worker[w] EXCEPT !.step = "recover"]
  <2>1. worker' = [worker EXCEPT ![w] = q]
    BY <1>0, <1>3, <2>0 DEF Finish, NextRow
  <2>2. q \in WorkerRow /\ q.step \in {"recheck", "recover"} /\ (q.step = "recover" => q.notice # None)
    BY <2>0 DEF Steps
  <2> HIDE DEF q
  <2> QED BY <1>0, <1>3, <2>1, <2>2
<1> QED BY <1>1, <1>2, <1>3

\* A worker has done with its order, or applies its activation: the payment is
\* held back, or activated once.
LEMMA OrderedLeaves ==
    ASSUME BillingInv, Ordered, NEW w \in Workers, NEW s \in PaymentStatus,
           worker[w].step \in {"activate", "recover"},
           Finish(w) \/ Go(w, "recover"),
           UNCHANGED <<todo, invoice, unanswered, now>>,
           \A x \in Orders : x # worker[w].order =>
              /\ sub'[x].status = "none" <=> sub[x].status = "none"
              /\ sub'[x].end = sub[x].end,
           \/ UNCHANGED rows
           \/ /\ worker[w].step = "activate" /\ payment[worker[w].order] \notin Terminal
              /\ payment' = [payment EXCEPT ![worker[w].order] = s]
              /\ \/ s = "needs_review" /\ Finish(w) /\ UNCHANGED sub
                 \/ s = worker[w].notice /\ sub'[worker[w].order].status # "none"
    PROVE  Ordered'
<1> DEFINE o == worker[w].order
<1>0. PICK q \in WorkerRow :
         /\ worker' = [worker EXCEPT ![w] = q]
         /\ w \in Requests => q.step \in {"answer", "recover"} /\ q.order = o /\ q.notice = worker[w].notice
         /\ w = "cron" => q.step \in {"recheck", "recover"} /\ (q.step = "recover" => q.notice # None)
         /\ w = "support" => q.step \in {"idle", "recover"}
         /\ Finish(w) /\ w \in Requests => q.step = "answer"
  BY Leaves
<1> USE DEF BillingInv, RestTyped, RowsTyped, WorkersSound, Sound, Between, WorkerRow, SubRow
<1>1. "cron" \notin Requests /\ "support" \notin Requests
  BY CryptoAssumption
<1>2. o \in Orders
  OBVIOUS
<1> DEFINE Changes == /\ worker[w].step = "activate" /\ payment[o] \notin Terminal
                      /\ payment' = [payment EXCEPT ![o] = s]
                      /\ \/ s = "needs_review" /\ Finish(w) /\ UNCHANGED sub
                         \/ s = worker[w].notice /\ sub'[o].status # "none"
<1>3. UNCHANGED rows \/ Changes
  OBVIOUS
<1>4. Changes =>
         /\ payment[o] \notin Success /\ sub[o].status = "none"
         /\ invoice[o].stage \in {"confirmed", "finished", "refunded"} /\ ~invoice[o].short
         /\ worker[w].notice \in Success
         /\ w \notin Requests => payment[o] = "needs_review" /\ worker[w].notice = "finished"
         /\ Held(o) => worker[w].notice = "finished" /\ payment[o] = "needs_review"
  BY Fresh
<1>5. w \in Requests => \A r \in Requests \ {w} : worker[r].step # "idle" => worker[r].order # o
  BY DEF Ordered, InOrder
<1>6. InOrder'
  <2>1. \A r \in Requests : worker'[r].step # "idle" =>
           worker[r].step # "idle" /\ worker'[r].order = worker[r].order /\ worker'[r].notice = worker[r].notice
    BY <1>1, <1>0
  <2> HIDE DEF o, Changes
  <2> QED BY <2>1 DEF Ordered, InOrder
<1>7. Paid'
  <2>1. CASE UNCHANGED rows
    BY <2>1 DEF rows, Ordered, Paid
  <2>2. CASE Changes
    <3>1. s \in Success \cup {"needs_review"} /\ (s = "needs_review" => sub'[o] = sub[o])
      BY <1>4, <2>2 DEF Success
    <3> QED BY <1>2, <1>4, <2>2, <3>1 DEF Ordered, Paid, Success
  <2> QED BY <1>3, <2>1, <2>2
<1>8. Decided'
  <2>1. \A r \in Requests : worker'[r].step \in {"reject", "activate", "update"} =>
           r # w /\ worker'[r] = worker[r]
    BY <1>0
  <2>2. CASE UNCHANGED rows
    BY <2>1, <2>2 DEF rows, Ordered, Decided
  <2>3. CASE Changes
    <3>1. CASE w \in Requests
      <4>1. \A r \in Requests : worker'[r].step \in {"reject", "activate", "update"} =>
               payment'[worker[r].order] = payment[worker[r].order]
        BY <1>2, <1>5, <2>1, <2>3, <3>1
      <4> HIDE DEF o, Changes
      <4> QED BY <2>1, <4>1 DEF Ordered, Decided
    <3>2. CASE w \notin Requests
      <4>1. payment[o] = "needs_review" /\ s \in {"finished", "needs_review"}
        BY <1>4, <2>3, <3>2
      <4>2. \A r \in Requests : worker'[r].step \in {"reject", "activate", "update"} =>
               \/ payment'[worker[r].order] = payment[worker[r].order]
               \/ worker[r].order = o /\ payment'[o] = "finished"
        BY <1>2, <2>1, <2>3, <4>1
      <4> QED BY <2>1, <4>2 DEF Ordered, Decided, Success
    <3> QED BY <3>1, <3>2
  <2> QED BY <1>3, <2>2, <2>3
<1>9. HeldBack'
  <2>1. \A x \in Orders : Held(x)' => Held(x)
    BY <1>1, <1>0 DEF Held
  <2>2. \A r \in Requests : worker[r].step = "answer" => worker'[r] = worker[r]
    BY <1>0
  <2>3. ASSUME NEW x \in Orders, Held(x)' PROVE payment'[x] = "needs_review" \/ payment'[x] \in Terminal
    <3>1. payment[x] = "needs_review" \/ payment[x] \in Terminal
      BY <2>1, <2>3 DEF Ordered, HeldBack
    <3>2. CASE x = o /\ Changes
      <4>1. s \in {"needs_review", "finished"}
        BY <1>4, <2>1, <2>3, <3>2
      <4> QED BY <1>2, <3>2, <4>1 DEF Terminal
    <3>3. CASE ~(x = o /\ Changes)
      BY <1>3, <3>1, <3>3 DEF rows
    <3> QED BY <3>2, <3>3
  <2>4. ASSUME NEW x \in Orders, payment'[x] = "needs_review", invoice'[x].stage = "confirmed",
               unanswered'[x] # {}
        PROVE  \E r \in Requests : worker'[r].step = "answer" /\ worker'[r].order = x
    <3>1. CASE payment[x] = "needs_review"
      <4>1. PICK r \in Requests : worker[r].step = "answer" /\ worker[r].order = x
        BY <2>4, <3>1 DEF Ordered, HeldBack
      <4> QED BY <2>2, <4>1
    <3>2. CASE payment[x] # "needs_review"
      <4>1. x = o /\ Changes
        BY <1>3, <2>4, <3>2 DEF rows
      <4>2. s = "needs_review" /\ w \in Requests
        BY <1>2, <1>4, <2>4, <3>2, <4>1
      <4>3. Finish(w)
        BY <1>4, <4>1, <4>2 DEF Success
      <4> QED BY <1>0, <4>1, <4>2, <4>3
    <3> QED BY <3>1, <3>2
  <2> QED BY <2>3, <2>4 DEF HeldBack
<1>10. Phases'
  BY <1>1, <1>0 DEF Ordered, Phases
<1>11. Overdue'
  <2>1. worker'["cron"].step \in {"expire", "check", "stamp", "mark", "undo"} => worker'["cron"] = worker["cron"]
    BY <1>1, <1>0
  <2>2. ASSUME NEW x \in Orders, sub[x].status # "none"
        PROVE  sub'[x].status # "none" /\ sub'[x].end = sub[x].end
    <3>1. CASE x = o /\ Changes
      BY <1>4, <2>2, <3>1
    <3>2. CASE ~(x = o /\ Changes)
      BY <1>3, <2>2, <3>2 DEF rows
    <3> QED BY <3>1, <3>2
  <2> HIDE DEF o, Changes
  <2> QED BY <2>1, <2>2 DEF Ordered, Overdue
<1> QED BY <1>6, <1>7, <1>8, <1>9, <1>10, <1>11 DEF Ordered

\* An activation, its aftermath, or its failure.
LEMMA OrderedActivates ==
    ASSUME BillingInv, Ordered, NEW w \in Workers,
           Activate(w) \/ Recover(w) \/ ActivationFails(w)
    PROVE  Ordered'
<1>1. UNCHANGED <<todo, invoice, unanswered, now>>
  BY DEF Activate, Recover, ActivationFails, provider, bounds
<1>2. worker[w].step \in {"activate", "recover"}
  BY DEF Activate, Recover, ActivationFails
<1>3. ASSUME UNCHANGED rows, Finish(w) PROVE Ordered'
  <2>1. "none" \in PaymentStatus
    BY DEF PaymentStatus
  <2> QED BY <1>1, <1>2, <1>3, <2>1, OrderedLeaves DEF rows
<1>4. CASE Recover(w) \/ ActivationFails(w)
  BY <1>3, <1>4 DEF Recover, ActivationFails
<1>5. CASE Activate(w)
  <2> DEFINE o == worker[w].order
  <2>1. CASE SetUnlessSettled(o, "needs_review") /\ Finish(w) /\ UNCHANGED sub
    <3>1. CASE payment[o] \in Terminal
      BY <1>3, <2>1, <3>1 DEF SetUnlessSettled, Settled, rows
    <3>2. CASE payment[o] \notin Terminal
      <4>1. payment' = [payment EXCEPT ![o] = "needs_review"] /\ worker[w].step = "activate"
        BY <1>5, <2>1, <3>2 DEF SetUnlessSettled, Settled, SetStatus, Activate
      <4>2. "needs_review" \in PaymentStatus
        BY DEF PaymentStatus
      <4> HIDE DEF Go
      <4> QED BY <1>1, <1>2, <2>1, <3>2, <4>1, <4>2, OrderedLeaves
    <3> QED BY <3>1, <3>2
  <2>2. CASE Finish(w) /\ UNCHANGED rows
    BY <1>3, <2>2
  <2>3. CASE payment[o] \notin Terminal /\ Entitle(o, worker[w].notice, PeriodStart(o)) /\ Go(w, "recover")
    <3>1. payment' = [payment EXCEPT ![o] = worker[w].notice] /\ worker[w].step = "activate"
      BY <1>5, <2>3 DEF Entitle, SetStatus, Activate
    <3>2. ASSUME NEW x \in Orders, x # o
          PROVE  (sub'[x].status = "none" <=> sub[x].status = "none") /\ sub'[x].end = sub[x].end
      BY <2>3, <3>2 DEF Entitle, Active, BillingInv, RowsTyped, SubRow
    <3>3. sub'[o].status # "none"
      <4>1. o \in Orders
        BY <3>1 DEF BillingInv, WorkersSound, Sound, Between
      <4>2. sub[o] \in SubRow
        BY <4>1 DEF BillingInv, RowsTyped
      <4>3. sub'[o] = [sub[o] EXCEPT !.status = "active", !.end = PeriodStart(o) + Period]
        BY <2>3, <4>1 DEF Entitle
      <4> QED BY <4>2, <4>3 DEF SubRow
    <3>4. worker[w].notice \in PaymentStatus
      BY <3>1 DEF BillingInv, WorkersSound, Sound, Success, PaymentStatus, Notices
    <3> HIDE DEF Go
    <3> QED BY <1>1, <1>2, <2>3, <3>1, <3>2, <3>3, <3>4, OrderedLeaves
  <2> QED BY <1>5, <2>1, <2>2, <2>3 DEF Activate, Settled
<1> QED BY <1>4, <1>5

\* The daily run, and the support's request.
LEMMA OrderedRun ==
    ASSUME BillingInv, Ordered,
           \/ BeginRun \/ ListHeld \/ EndRun \/ Undo \/ LossFails
           \/ \E o \in Orders : Expire(o) \/ TakeUp(o) \/ BeginSupport(o)
           \/ CheckOther("cron") \/ StampDrops("cron") \/ StartClock("cron")
    PROVE  Ordered'
<1> USE DEF BillingInv, RestTyped, RowsTyped, WorkersSound, Sound, Between, WorkerRow, SubRow
<1>1. "cron" \notin Requests /\ "support" \notin Requests /\ None \notin Notices /\ "finished" \in Notices
  BY CryptoAssumption DEF Notices
<1>2. UNCHANGED <<payment, invoice, unanswered, now>>
  BY DEF BeginRun, ListHeld, EndRun, Undo, LossFails, Expire, TakeUp, BeginSupport, CheckOther,
         StampDrops, StartClock, rows, provider, bounds
<1>3. \A x \in Orders : /\ sub'[x].status = "none" <=> sub[x].status = "none"
                        /\ sub'[x].end = sub[x].end
  <2>1. CASE UNCHANGED sub
    BY <2>1
  <2>2. ASSUME NEW o \in Orders, NEW status \in {"expired", "active"}, sub[o].status # "none",
               sub' = [sub EXCEPT ![o].status = status]
        PROVE  \A x \in Orders : /\ sub'[x].status = "none" <=> sub[x].status = "none"
                                 /\ sub'[x].end = sub[x].end
    BY <2>2
  <2>3. ASSUME NEW o \in Orders, Expire(o), sub' # sub
        PROVE  sub[o].status # "none" /\ sub' = [sub EXCEPT ![o].status = "expired"]
    BY <2>3 DEF Expire, Active
  <2>4. ASSUME Undo, sub' # sub
        PROVE  \E o \in Orders : sub[o].status # "none" /\ sub' = [sub EXCEPT ![o].status = "active"]
    <3> DEFINE o == worker["cron"].order
    <3>1. o \in Orders /\ sub' = [sub EXCEPT ![o].status = IF @ = "expired" THEN "active" ELSE @]
      BY <2>4 DEF Undo
    <3>2. CASE sub[o].status = "expired"
      BY <3>1, <3>2
    <3>3. CASE sub[o].status # "expired"
      BY <2>4, <3>1, <3>3
    <3> QED BY <3>2, <3>3
  <2> QED BY <2>1, <2>2, <2>3, <2>4 DEF BeginRun, ListHeld, EndRun, LossFails, TakeUp, BeginSupport,
             CheckOther, StampDrops, StartClock, rows
<1>4. \E w \in {"cron", "support"} : \E q : worker' = [worker EXCEPT ![w] = q]
  <2>1. CASE BeginRun \/ ListHeld \/ EndRun \/ Undo \/ LossFails
    BY <2>1 DEF BeginRun, ListHeld, EndRun, Undo, LossFails, NextRow
  <2>2. ASSUME NEW o \in Orders, Expire(o) PROVE \E q : worker' = [worker EXCEPT !["cron"] = q]
    <3>1. worker' = [worker EXCEPT !["cron"] = worker["cron"]]
          \/ worker' = [worker EXCEPT !["cron"] = [step |-> "check", order |-> o, notice |-> None]]
      BY <2>2 DEF Expire
    <3> QED BY <3>1
  <2>3. ASSUME NEW o \in Orders, TakeUp(o) \/ BeginSupport(o)
        PROVE  \E w \in {"cron", "support"} : \E q : worker' = [worker EXCEPT ![w] = q]
    BY <2>3 DEF TakeUp, BeginSupport
  <2>4. CASE CheckOther("cron") \/ StampDrops("cron") \/ StartClock("cron")
    BY <1>1, <2>4 DEF CheckOther, StampDrops, StartClock, AfterLoss, Finish, NextRow
  <2> QED BY <2>1, <2>2, <2>3, <2>4
<1>5. \A r \in Requests : worker'[r] = worker[r]
  BY <1>1, <1>4
<1>6. InOrder' /\ Decided' /\ Paid'
  BY <1>2, <1>3, <1>5 DEF Ordered, InOrder, Decided, Paid
<1>7. ASSUME \A x \in Orders : Held(x)' => Held(x) \/ payment[x] = "needs_review" PROVE HeldBack'
  <2>1. ASSUME NEW x \in Orders, Held(x)' PROVE payment'[x] = "needs_review" \/ payment'[x] \in Terminal
    BY <1>2, <1>7, <2>1 DEF Ordered, HeldBack
  <2>2. ASSUME NEW x \in Orders, payment'[x] = "needs_review", invoice'[x].stage = "confirmed",
               unanswered'[x] # {}
        PROVE  \E r \in Requests : worker'[r].step = "answer" /\ worker'[r].order = x
    <3>1. PICK r \in Requests : worker[r].step = "answer" /\ worker[r].order = x
      BY <1>2, <2>2 DEF Ordered, HeldBack
    <3> QED BY <1>5, <3>1
  <2> QED BY <2>1, <2>2 DEF HeldBack
<1>8. CASE BeginRun
  <2>1. HeldBack'
    BY <1>7, <1>8 DEF BeginRun, Held
  <2> QED BY <1>2, <1>3, <1>6, <1>8, <2>1 DEF BeginRun, Ordered, Phases, Overdue, Lapsed, Active
<1>9. CASE ListHeld
  <2>1. HeldBack'
    BY <1>7, <1>9 DEF ListHeld, Held
  <2> QED BY <1>6, <1>9, <2>1 DEF ListHeld, Ordered, Phases, Overdue
<1>10. CASE EndRun
  <2>1. HeldBack'
    BY <1>7, <1>10 DEF EndRun, Held
  <2> QED BY <1>6, <1>10, <2>1 DEF EndRun, Ordered, Phases, Overdue
<1>11. CASE Undo
  <2>1. HeldBack'
    BY <1>7, <1>11 DEF Undo, NextRow, Held
  <2> QED BY <1>2, <1>3, <1>6, <1>11, <2>1 DEF Undo, NextRow, Ordered, Phases, Overdue
<1>12. CASE LossFails
  <2>1. HeldBack'
    BY <1>7, <1>12 DEF LossFails, Held
  <2> QED BY <1>2, <1>3, <1>6, <1>12, <2>1 DEF LossFails, Ordered, Phases, Overdue
<1>13. ASSUME NEW o \in Orders, Expire(o) PROVE Ordered'
  <2>1. worker["cron"].step = "expire" /\ todo' = todo \ {o}
    BY <1>13 DEF Expire
  <2>2. \/ worker' = worker
        \/ worker' = [worker EXCEPT !["cron"] = [step |-> "check", order |-> o, notice |-> None]]
    BY <1>13 DEF Expire
  <2>3. /\ worker'["support"] = worker["support"]
        /\ worker'["cron"].step = "expire"
           \/ (worker'["cron"].step = "check" /\ worker'["cron"].notice = None)
    BY <2>1, <2>2
  <2>4. HeldBack'
    <3>1. \A x \in Orders : Held(x)' => Held(x)
      BY <2>3 DEF Held
    <3> QED BY <1>7, <3>1
  <2>5. Phases'
    BY <2>3 DEF Ordered, Phases
  <2>6. Overdue'
    BY <1>2, <1>3, <2>1, <2>3 DEF Ordered, Overdue
  <2> QED BY <1>6, <2>4, <2>5, <2>6 DEF Ordered
<1>14. ASSUME NEW o \in Orders, TakeUp(o) PROVE Ordered'
  <2>1. \A x \in Orders : Held(x)' => Held(x)
    BY <1>14 DEF TakeUp, Held
  <2> QED BY <1>2, <1>6, <1>7, <1>14, <2>1 DEF TakeUp, Ordered, Phases, Overdue
<1>15. ASSUME NEW o \in Orders, BeginSupport(o) PROVE Ordered'
  <2>1. \A x \in Orders : Held(x)' => Held(x) \/ payment[x] = "needs_review"
    BY <1>15 DEF BeginSupport, Held
  <2> QED BY <1>2, <1>3, <1>6, <1>7, <1>15, <2>1 DEF BeginSupport, Ordered, Phases, Overdue
<1>16. CASE CheckOther("cron") \/ StampDrops("cron") \/ StartClock("cron")
  <2>1. worker["cron"].step \in {"check", "stamp", "mark"} /\ worker["cron"].notice = None
    BY <1>16 DEF CheckOther, StampDrops, StartClock, Ordered, Phases
  <2>2. UNCHANGED <<sub, todo>>
    BY <1>16 DEF CheckOther, StampDrops, StartClock, rows
  <2>3. \/ worker' = [worker EXCEPT !["cron"].step = "stamp"]
        \/ worker' = [worker EXCEPT !["cron"].step = "mark"]
        \/ worker' = [worker EXCEPT !["cron"] = [step |-> "expire", order |-> None, notice |-> None]]
    BY <1>1, <1>16, <2>1 DEF CheckOther, StampDrops, StartClock, AfterLoss, Finish, NextRow
  <2>4. /\ worker'["support"] = worker["support"]
        /\ worker'["cron"].step \in {"stamp", "mark", "expire"} /\ worker'["cron"].notice = None
    BY <2>1, <2>3
  <2>5. HeldBack'
    <3>1. \A x \in Orders : Held(x)' => Held(x)
      BY <2>4 DEF Held
    <3> QED BY <1>7, <3>1
  <2>6. Phases'
    BY <2>4 DEF Ordered, Phases
  <2>7. Overdue'
    BY <1>2, <2>1, <2>2, <2>4 DEF Ordered, Overdue
  <2> QED BY <1>6, <2>5, <2>6, <2>7 DEF Ordered
<1> QED BY <1>8, <1>9, <1>10, <1>11, <1>12, <1>13, <1>14, <1>15, <1>16

\* Steps that touch none of it; time only goes on.
LEMMA OrderedQuiet ==
    ASSUME BillingInv, Ordered, now' \in Nat, now' >= now,
           UNCHANGED <<payment, sub, worker, todo, invoice, unanswered>>
    PROVE  Ordered'
<1>1. now \in Nat /\ \A o \in Orders : sub[o].end \in Nat
  BY CryptoAssumption DEF BillingInv, RestTyped, RowsTyped, SubRow
<1>2. InOrder' /\ Paid' /\ Decided' /\ Phases'
  BY DEF Ordered, InOrder, Paid, Decided, Phases
<1>3. HeldBack'
  <2>1. \A x \in Orders : Held(x)' <=> Held(x)
    BY DEF Held
  <2> QED BY <2>1 DEF Ordered, HeldBack
<1>4. Overdue'
  <2>1. todo \subseteq Orders /\ Grace \in Nat
    BY CryptoAssumption DEF BillingInv, RestTyped
  <2> QED BY <1>1, <2>1 DEF Ordered, Overdue
<1> QED BY <1>2, <1>3, <1>4 DEF Ordered

\* Time goes on.
LEMMA TimeGoesOn ==
    ASSUME BillingInv, [Next]_vars
    PROVE  now \in Nat /\ now' \in Nat /\ now' >= now
<1>1. now \in Nat
  BY CryptoAssumption DEF BillingInv, RestTyped
<1>2. now' = now \/ now' = now + 1
  BY ClockOnly DEF Tick
<1> QED BY <1>1, <1>2

\* Every step but a refund.
LEMMA OrderedStep ==
    ASSUME BillingInv, Calm, Ordered, [Next]_vars, \A r \in Requests : ~Refund(r)
    PROVE  Ordered'
<1>0. "cron" \in Workers /\ "support" \in Workers /\ Requests \subseteq Workers
  OBVIOUS
<1>1. CASE UNCHANGED vars \/ CardMoves \/ Tick \/ Expiries
  <2>1. UNCHANGED <<payment, sub, worker, todo, invoice, unanswered>>
    BY <1>1 DEF vars, rows, provider, CardMoves, Tick, Expiries, ClaimLapses
  <2> QED BY <2>1, TimeGoesOn, OrderedQuiet
<1>2. CASE UserStep \/ ProviderStep \/ \E o \in Orders : ExpireInvoice(o)
  BY <1>2, OrderedOutside DEF UserStep, ProviderStep
<1>3. CASE Deliveries
  BY <1>3, OrderedDelivery DEF Deliveries
<1>4. ASSUME NEW r \in Requests, RequestStep(r) \/ Fail(r) PROVE Ordered'
  BY <1>0, <1>4, OrderedWrites, OrderedStops, OrderedActivates DEF RequestStep
<1>5. CASE CronStep \/ SupportStep \/ \E o \in Orders : BeginSupport(o)
  BY <1>0, <1>5, OrderedRun, OrderedActivates DEF CronStep, SupportStep
<1>6. CASE Failures
  <2>1. \A w \in Workers : ~Kill(w)
    BY DEF Calm, Kill, Fault
  <2> QED BY <1>0, <1>4, <1>6, <2>1, OrderedRun, OrderedActivates DEF Failures
<1> QED BY <1>1, <1>2, <1>3, <1>4, <1>5, <1>6 DEF Next

\* It holds initially, and is asked for while nothing is refunded.
NoRefund == \A o \in Orders : payment[o] # "refunded"

RemainderInv == BillingInv /\ (Calm /\ NoRefund => Ordered)

LEMMA RemainderInit == Init => RemainderInv
<1> SUFFICES ASSUME Init PROVE RemainderInv
  OBVIOUS
<1>1. BillingInv
  BY BillingInit
<1>2. InOrder /\ Decided
  BY DEF Init, InOrder, Decided
<1>3. Paid
  BY CryptoAssumption DEF Init, Paid, Success
<1>4. HeldBack /\ Phases /\ Overdue
  BY CryptoAssumption DEF Init, HeldBack, Held, Phases, Overdue
<1> QED BY <1>1, <1>2, <1>3, <1>4 DEF RemainderInv, Ordered

LEMMA RemainderStep == RemainderInv /\ [Next]_vars => RemainderInv'
<1> SUFFICES ASSUME RemainderInv, [Next]_vars, Calm', NoRefund' PROVE Ordered'
  BY BillingStep DEF RemainderInv
<1>1. Calm
  BY ClockOnly DEF Calm
<1>2. NoRefund
  BY BillingStep DEF RemainderInv, RefundStep, NoRefund
<1>3. ASSUME NEW r \in Requests, Refund(r) PROVE FALSE
  <2>1. worker[r].order \in Orders /\ payment \in [Orders -> PaymentStatus]
    BY <1>3 DEF Refund, RemainderInv, BillingInv, RowsTyped, WorkersSound, Sound, Between
  <2> QED BY <1>3, <2>1 DEF Refund, SetStatus, NoRefund
<1> QED BY <1>1, <1>2, <1>3, OrderedStep DEF RemainderInv

\* Until when rows pay at a time: one of the ends that count, and the last.
LEMMA UntilBelongs ==
    ASSUME NEW n \in Nat, NEW row \in [Orders -> SubRow]
    PROVE  LET A == {o \in Orders : row[o].status = "active"}
               u == Max({n} \cup {row[o].end : o \in A})
           IN  /\ u \in Nat /\ u >= n
               /\ \A o \in A : u >= row[o].end
               /\ u = n \/ \E o \in A : u = row[o].end
<1> DEFINE A == {o \in Orders : row[o].status = "active"}
           E == {row[o].end : o \in A}
<1>1. IsFiniteSet(A)
  BY CryptoAssumption, FS_Subset
<1>2. IsFiniteSet(E)
  <2> DEFINE f == [o \in A |-> row[o].end]
  <2>1. f \in Surjection(A, E)
    BY DEF Surjection
  <2> HIDE DEF A, E, f
  <2> QED BY <1>1, <2>1, FS_Surjection
<1>3. IsFiniteSet({n} \cup E)
  <2> HIDE DEF E
  <2> QED BY <1>2, FS_Singleton, FS_Union
<1>4. {n} \cup E \in SUBSET Nat
  BY DEF SubRow
<1>5. Max({n} \cup E) \in {n} \cup E /\ \A x \in {n} \cup E : Max({n} \cup E) >= x
  <2> HIDE DEF E
  <2> QED BY <1>3, <1>4, MaxBelongs
<1> QED BY <1>4, <1>5

\* While the plans that run go on as long, so does what the user has paid.
LEMMA UntilKept ==
    ASSUME RowsTyped, RowsTyped', now \in Nat, now' \in Nat, now' >= now,
           \A o \in Orders : Active(o) /\ sub[o].end > now =>
              sub'[o].status = "active" /\ sub'[o].end = sub[o].end
    PROVE  Until' >= Until
<1> DEFINE u == Until
           v == Until'
<1>1. /\ u \in Nat /\ u >= now
      /\ u = now \/ \E o \in Orders : Active(o) /\ u = sub[o].end
  BY UntilBelongs DEF RowsTyped, Until, Active
<1>2. v \in Nat /\ v >= now' /\ \A o \in Orders : sub'[o].status = "active" => v >= sub'[o].end
  BY UntilBelongs DEF RowsTyped, Until, Active
<1> HIDE DEF u, v
<1>3. ASSUME u = now PROVE v >= u
  BY <1>1, <1>2, <1>3
<1>4. ASSUME NEW o \in Orders, Active(o), u = sub[o].end PROVE v >= u
  <2>1. CASE u > now
    BY <1>2, <1>4, <2>1
  <2>2. CASE ~(u > now)
    BY <1>1, <1>2, <2>2
  <2> QED BY <2>1, <2>2
<1>5. v >= u
  BY <1>1, <1>3, <1>4
<1> QED BY <1>5 DEF u, v

\* An activation adds a period to it.
LEMMA UntilExtended ==
    ASSUME RowsTyped, RowsTyped', now \in Nat, now' = now, NEW o \in Orders, NEW s,
           sub[o].status = "none", Entitle(o, s, PeriodStart(o))
    PROVE  Until' >= Until /\ Until' >= Until + Period
<1> DEFINE u == Until
           v == Until'
           start == PeriodStart(o)
<1>0. Period \in Nat
  BY CryptoAssumption
<1>1. /\ u \in Nat /\ u >= now
      /\ u = now \/ \E x \in Orders : Active(x) /\ u = sub[x].end
  BY UntilBelongs DEF RowsTyped, Until, Active
<1>2. v \in Nat /\ \A x \in Orders : sub'[x].status = "active" => v >= sub'[x].end
  BY UntilBelongs DEF RowsTyped, Until, Active
<1>3. start \in Nat /\ start >= now /\ \A x \in Orders \ {o} : Active(x) => start >= sub[x].end
  BY PeriodStartType
<1>4. sub'[o].status = "active" /\ sub'[o].end = start + Period
  <2>1. sub[o] \in SubRow
    BY DEF RowsTyped
  <2>2. sub'[o] = [sub[o] EXCEPT !.status = "active", !.end = start + Period]
    BY DEF Entitle
  <2> QED BY <2>1, <2>2 DEF SubRow
<1>5. ~Active(o)
  BY DEF Active
<1> HIDE DEF u, v, start
<1>6. start >= u
  BY <1>1, <1>3, <1>5
<1>7. v >= u /\ v >= u + Period
  BY <1>0, <1>1, <1>2, <1>3, <1>4, <1>6
<1> QED BY <1>7 DEF u, v

\* Without a refund no step takes paid days away, and what begins adds its period.
RemainderKept ==
    NoRefund' => /\ Until' >= Until
                 /\ (\E o \in Orders : Begins(o)) => Until' >= Until + Period

LEMMA RemainderKeeps ==
    ASSUME BillingInv, Calm, Ordered, [Next]_vars
    PROVE  RemainderKept
<1> SUFFICES ASSUME NoRefund'
             PROVE  /\ Until' >= Until
                    /\ (\E o \in Orders : Begins(o)) => Until' >= Until + Period
  BY DEF RemainderKept
<1>1. now \in Nat /\ now' \in Nat /\ now' >= now
  BY TimeGoesOn
<1>2. RowsTyped /\ RowsTyped' /\ WorkersSound
  BY BillingStep DEF BillingInv
<1>3. ASSUME NEW r \in Requests, Refund(r) PROVE FALSE
  <2>1. worker[r].order \in Orders
    BY <1>2, <1>3 DEF Refund, WorkersSound, Sound, Between
  <2> QED BY <1>2, <1>3, <2>1 DEF Refund, SetStatus, NoRefund, RowsTyped
<1>4. Paid /\ Paid'
  BY <1>3, OrderedStep DEF Ordered
<1>5. ASSUME \A x \in Orders : /\ sub'[x].status = "none" <=> sub[x].status = "none"
                               /\ sub'[x].end = sub[x].end
                               /\ Active(x) /\ sub[x].end > now => sub'[x].status = "active"
      PROVE  Until' >= Until /\ \A o \in Orders : ~Begins(o)
  <2>1. Until' >= Until
    BY <1>1, <1>2, <1>5, UntilKept
  <2>2. \A o \in Orders : ~Begins(o)
    BY <1>4, <1>5 DEF Paid, Begins
  <2> QED BY <2>1, <2>2
<1>6. ASSUME UNCHANGED sub PROVE Until' >= Until /\ \A o \in Orders : ~Begins(o)
  BY <1>5, <1>6 DEF Active
<1>7. ASSUME NEW o \in Orders, Expire(o) PROVE Until' >= Until /\ \A x \in Orders : ~Begins(x)
  <2>1. ~(sub[o].end > now)
    <3>1. sub[o].end + Grace < now
      BY <1>7 DEF Expire, Ordered, Overdue
    <3>2. sub[o].end \in Nat /\ Grace \in Nat
      BY <1>2, CryptoAssumption DEF RowsTyped, SubRow
    <3> QED BY <1>1, <3>1, <3>2
  <2>2. sub' = sub \/ (Active(o) /\ sub' = [sub EXCEPT ![o].status = "expired"])
    BY <1>7 DEF Expire
  <2>3. CASE sub' = sub
    BY <1>6, <2>3
  <2>4. CASE Active(o) /\ sub' = [sub EXCEPT ![o].status = "expired"]
    BY <1>2, <1>5, <2>1, <2>4 DEF Active, RowsTyped, SubRow
  <2> QED BY <2>2, <2>3, <2>4
<1>8. ASSUME NEW r \in Requests, Note(r) PROVE Until' >= Until /\ \A x \in Orders : ~Begins(x)
  BY <1>2, <1>5, <1>8 DEF Note, Active, RowsTyped, SubRow
<1>9. ASSUME Undo PROVE Until' >= Until /\ \A o \in Orders : ~Begins(o)
  <2>1. worker["cron"].order \in Orders
    BY <1>2, <1>9 DEF Undo, WorkersSound, Sound, Between
  <2>2. sub' = [sub EXCEPT ![worker["cron"].order].status = IF @ = "expired" THEN "active" ELSE @]
    BY <1>9 DEF Undo
  <2> HIDE DEF Undo
  <2> QED BY <1>2, <1>5, <2>1, <2>2 DEF Active, RowsTyped, SubRow
<1>10. ASSUME NEW w \in Workers, Activate(w), sub' # sub
       PROVE  Until' >= Until /\ Until' >= Until + Period
  <2> DEFINE o == worker[w].order
  <2>1. /\ worker[w].step = "activate" /\ payment[o] \notin Terminal
        /\ Entitle(o, worker[w].notice, PeriodStart(o)) /\ now' = now
    BY <1>10 DEF Activate, Settled, rows, bounds
  <2>2. o \in Orders /\ sub[o].status = "none"
    BY <2>1, Fresh
  <2> HIDE DEF o
  <2> QED BY <1>1, <1>2, <2>1, <2>2, UntilExtended
<1>11. \/ UNCHANGED sub
       \/ \E o \in Orders : Expire(o)
       \/ \E w \in Workers : Activate(w)
       \/ \E r \in Requests : Note(r)
       \/ Undo
  BY <1>2, <1>3, RowSteps DEF rows, SetsStatus
<1> QED BY <1>6, <1>7, <1>8, <1>9, <1>10, <1>11

\* Only a refund takes paid days away, and every renewal adds its period to what
\* is left of the plan it supersedes, if the provider waits for each answer and
\* nothing is killed: for any number of orders and of requests, any statements
\* that fail, and whatever the daily run, the support and the card subscription
\* do meanwhile (crypto-activation.ts:85-137, 250-290).
THEOREM RemainderCorrect == Spec => RemainderKeptInOrder
<1>1. Spec => []RemainderInv
  BY RemainderInit, RemainderStep, PTL DEF Spec
<1>2. RemainderInv /\ [Next]_vars => (Calm /\ NoRefund => RemainderKept)
  BY RemainderKeeps DEF RemainderInv
<1>3. RemainderInv /\ [Next]_vars =>
         (Calm /\ ~(\E o \in Orders : payment'[o] = "refunded") =>
            /\ Until' >= Until
            /\ (\E o \in Orders : Begins(o)) => Until' >= Until + Period)
  <2> SUFFICES ASSUME RemainderInv, [Next]_vars, Calm, NoRefund' PROVE NoRefund /\ RemainderKept
    BY <1>2 DEF NoRefund, RemainderKept
  <2>1. NoRefund
    BY BillingStep DEF RemainderInv, RefundStep, NoRefund
  <2> QED BY <1>2, <2>1
<1> QED BY <1>1, <1>3, PTL DEF Spec, RemainderKeptInOrder

=============================================================================
