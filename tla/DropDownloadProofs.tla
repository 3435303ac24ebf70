------------------------- MODULE DropDownloadProofs -------------------------
(***************************************************************************)
(* Theorems about DropDownload for any number of requests, recipients and  *)
(* owner sessions, any limits and any lifetimes.                           *)
(***************************************************************************)
EXTENDS DropDownload, FiniteSetTheorems, TLAPS

USE DEF OrNone, Kinds, Holders, Cleaners

-----------------------------------------------------------------------------
(* Type correctness.                                                       *)

\* A drops row with one column changed is a drops row.
LEMMA DropUpdate ==
    ASSUME NEW d \in DropRow
    PROVE  /\ \A b \in BOOLEAN :
                 /\ [d EXCEPT !.exists = b] \in DropRow
                 /\ [d EXCEPT !.files = b] \in DropRow
                 /\ [d EXCEPT !.disabled = b] \in DropRow
                 /\ [d EXCEPT !.takenDown = b] \in DropRow
                 /\ [d EXCEPT !.restrict = b] \in DropRow
                 /\ [d EXCEPT !.grace = b] \in DropRow
           /\ \A t \in OrNone(Nat) :
                 /\ [d EXCEPT !.deletedAt = t] \in DropRow
                 /\ [d EXCEPT !.expiresAt = t] \in DropRow
           /\ [d EXCEPT !.downloads = @ + 1] \in DropRow
           /\ [d EXCEPT !.sent = @ + 1] \in DropRow
BY DEF DropRow

\* What its columns hold.
LEMMA DropColumns ==
    ASSUME NEW d \in DropRow
    PROVE  /\ d.exists \in BOOLEAN /\ d.files \in BOOLEAN /\ d.disabled \in BOOLEAN
           /\ d.takenDown \in BOOLEAN /\ d.restrict \in BOOLEAN /\ d.grace \in BOOLEAN
           /\ d.deletedAt \in OrNone(Nat) /\ d.expiresAt \in OrNone(Nat)
           /\ d.downloads \in Nat /\ d.sent \in Nat
BY DEF DropRow

\* A request that has gone on to another stage, or ended, is a request.
LEMMA RequestUpdate ==
    ASSUME NEW q \in Request
    PROVE  /\ \A stage \in Stages : [q EXCEPT !.stage = stage] \in Request
           /\ \A kind \in Kinds : [q EXCEPT !.kind = kind] \in Request
           /\ \A h \in Holders : [q EXCEPT !.holder = h] \in Request
           /\ \A b \in BOOLEAN : [q EXCEPT !.restrict = b] \in Request
           /\ \A n \in Nat : [q EXCEPT !.since = n] \in Request
           /\ \A n \in Nat : [q EXCEPT !.until = n] \in Request /\ [q EXCEPT !.seen = n] \in Request
BY DEF Request

\* A slot without a request is a request row.
LEMMA IdleRequest == Idle \in Request
BY DEF Idle, Request, Stages

\* A request that goes on to another stage keeps the requests well typed.
LEMMA GoesType ==
    ASSUME TypeOK, NEW c \in Clients, NEW stage \in Stages, Goes(c, stage)
    PROVE  request' \in [Clients -> Request]
BY RequestUpdate DEF TypeOK, Goes

\* So does one that ends.
LEMMA EndsType ==
    ASSUME TypeOK, NEW c \in Clients, Ends(c)
    PROVE  request' \in [Clients -> Request]
BY IdleRequest DEF TypeOK, Ends

\* The initial state is well typed.
LEMMA TypeInit == Init => TypeOK
<1> SUFFICES ASSUME Init PROVE TypeOK
  OBVIOUS
<1>1. drop \in DropRow
  BY ConstantsAssumption DEF Init, DropRow
<1>2. recipient \in [Recipients -> RecipientRow]
  BY DEF Init, RecipientRow
<1>3. session \in [Sessions -> Session]
  BY DEF Init, Session, Vacant
<1>4. request \in [Clients -> Request]
  BY IdleRequest DEF Init
<1>5. now \in 0..MaxTime /\ given \in [Holders -> Nat] /\ mails \in [access : Nat, limit : Nat]
  BY ConstantsAssumption DEF Init
<1> QED BY <1>1, <1>2, <1>3, <1>4, <1>5 DEF Init, TypeOK

\* The steps of a request keep every variable well typed.
LEMMA RequestType ==
    ASSUME TypeOK, NEW c \in Clients,
           \/ DownloadStep(c) \/ Abandon(c)
           \/ \E token \in Holders, kind \in Kinds : Lookup(c, token, kind)
    PROVE  TypeOK'
<1> USE ConstantsAssumption, TimeAssumption DEF vars, record, history
<1>0. now \in Nat
  BY DEF TypeOK
<1>1. ASSUME NEW token \in Holders, NEW kind \in Kinds, Lookup(c, token, kind) PROVE TypeOK'
  <2>0. [Idle EXCEPT !.stage = "looked", !.kind = kind, !.holder = token] \in Request
    BY IdleRequest, RequestUpdate DEF Stages
  <2>1. [Idle EXCEPT !.stage = "looked", !.kind = kind, !.holder = token,
                     !.restrict = drop.restrict, !.since = now] \in Request
    BY <1>0, <2>0, RequestUpdate, DropColumns DEF TypeOK
  <2> QED BY <1>1, <2>1 DEF TypeOK, Lookup
<1>2. CASE Authorize(c)
  <2>1. CASE Goes(c, "authorized")
    BY <1>2, <2>1, GoesType DEF TypeOK, Authorize, Stages
  <2>2. CASE Ends(c)
    BY <1>2, <2>2, EndsType DEF TypeOK, Authorize
  <2>3. CASE request' = [request EXCEPT ![c].stage = "authorized", ![c].holder = None]
    <3>1. request' \in [Clients -> Request]
      BY <2>3, RequestUpdate DEF TypeOK, Stages
    <3> QED BY <1>2, <3>1 DEF TypeOK, Authorize
  <2> QED BY <1>2, <2>1, <2>2, <2>3 DEF Authorize
<1>3. CASE Sign(c)
  <2> DEFINE n == now + IF Limited(request[c].holder) THEN LimitedTtl ELSE UrlTtl
  <2>1. n \in Nat
    BY DEF TypeOK
  <2>2. request' = [request EXCEPT ![c].stage = "signed", ![c].until = n]
    BY <1>3 DEF Sign
  <2> HIDE DEF n
  <2>3. request' \in [Clients -> Request]
    BY <2>1, <2>2, RequestUpdate DEF TypeOK, Stages
  <2> QED BY <1>3, <2>3 DEF TypeOK, Sign
<1>4. CASE Consume(c)
  <2>1. request[c].holder \in Holders
    BY DEF TypeOK, Request
  <2>2. recipient' \in [Recipients -> RecipientRow]
    BY <1>4, <2>1 DEF Consume, TypeOK, RecipientRow
  <2>3. drop' \in DropRow
    BY <1>4, DropUpdate DEF Consume, TypeOK
  <2>4. request' \in [Clients -> Request]
    BY <1>4, GoesType DEF Consume, Stages
  <2>5. anonymous' \in Nat
    BY <1>4 DEF Consume, TypeOK
  <2> QED BY <1>4, <2>2, <2>3, <2>4, <2>5 DEF Consume, TypeOK
<1>5. CASE ConsumeRefused(c)
  BY <1>5, EndsType DEF TypeOK, ConsumeRefused
<1>6. CASE ReadCommitted(c)
  <2> DEFINE stage == CASE ~drop.exists -> "done"
                        [] drop.exists /\ drop.sent < drop.downloads -> "mail"
                        [] OTHER -> "limit"
  <2>1. stage \in Stages
    BY DEF Stages
  <2>2. request' = [request EXCEPT ![c].seen = drop.downloads, ![c].stage = stage]
    BY <1>6 DEF ReadCommitted
  <2> HIDE DEF stage
  <2>3. request' \in [Clients -> Request]
    BY <2>1, <2>2, RequestUpdate, DropColumns DEF TypeOK
  <2> QED BY <1>6, <2>3 DEF TypeOK, ReadCommitted
<1>7. CASE SendMail(c)
  BY <1>7, GoesType DEF TypeOK, SendMail, Stages
<1>8. CASE CountMail(c)
  BY <1>8, GoesType, DropUpdate DEF TypeOK, CountMail, Stages
<1>9. CASE MarkLimitReached(c)
  <2>1. mails' \in [access : Nat, limit : Nat]
    BY <1>9 DEF TypeOK, MarkLimitReached
  <2>2. drop' \in DropRow
    BY <1>0, <1>9, DropUpdate DEF TypeOK, MarkLimitReached
  <2> QED BY <1>9, <2>1, <2>2, GoesType DEF TypeOK, MarkLimitReached, Stages
<1>10. CASE SkipLimit(c)
  BY <1>10, GoesType DEF TypeOK, SkipLimit, Stages
<1>11. CASE Respond(c)
  <2>1. request[c].until \in Nat /\ request[c].holder \in Holders
    BY DEF TypeOK, Request
  <2> QED BY <1>11, <2>1, EndsType DEF TypeOK, Respond
<1>12. CASE Abandon(c)
  BY <1>12, EndsType DEF TypeOK, Abandon
<1> QED
  BY <1>1, <1>2, <1>3, <1>4, <1>5, <1>6, <1>7, <1>8, <1>9, <1>10, <1>11, <1>12 DEF DownloadStep

\* So do the owner's requests.
LEMMA OwnerType ==
    ASSUME TypeOK, NEW s \in Sessions, OwnerStep(s)
    PROVE  TypeOK'
<1> USE DEF vars, record, history
<1>1. Vacant \in Session
  BY DEF Vacant, Session
<1>2. [session[s] EXCEPT !.op = "create"] \in Session /\ session[s].value \in BOOLEAN
  BY DEF TypeOK, Session
<1>3. CASE ReadDisabled(s)
  <2>1. [Vacant EXCEPT !.op = "disable", !.value = ~drop.disabled] \in Session
    BY DropColumns DEF TypeOK, Vacant, Session
  <2> QED BY <1>3, <2>1 DEF TypeOK, ReadDisabled
<1>4. CASE WriteDisabled(s)
  BY <1>4, <1>1, <1>2, DropUpdate DEF TypeOK, WriteDisabled
<1>5. CASE WriteRestrict(s)
  BY <1>5, <1>1, <1>2, DropUpdate DEF TypeOK, WriteRestrict
<1>6. CASE SessionDies(s)
  BY <1>6, <1>1 DEF TypeOK, SessionDies
<1>7. ASSUME NEW restrict \in BOOLEAN, ReadShared(s, restrict) PROVE TypeOK'
  <2>1. [op |-> "share", value |-> restrict, seen |-> drop.restrict] \in Session
    BY DropColumns DEF TypeOK, Session
  <2> QED BY <1>7, <2>1 DEF TypeOK, ReadShared
<1>8. ASSUME NEW S \in SUBSET Recipients, CreateRecipients(s, S) PROVE TypeOK'
  <2>1. \A r \in Recipients : [recipient[r] EXCEPT !.state = "live"] \in RecipientRow
    BY DEF TypeOK, RecipientRow
  <2> QED BY <1>8, <1>1, <2>1 DEF TypeOK, CreateRecipients
<1> QED BY <1>3, <1>4, <1>5, <1>6, <1>7, <1>8 DEF OwnerStep

\* And whatever else may happen.
LEMMA TypeNext == TypeOK /\ [Next]_vars => TypeOK'
<1> USE ConstantsAssumption, TimeAssumption DEF vars, record, history
<1> SUFFICES ASSUME TypeOK, [Next]_vars PROVE TypeOK'
  OBVIOUS
<1>0. now \in Nat
  BY DEF TypeOK
<1>1. ASSUME NEW r \in Recipients, RevokeRecipient(r) PROVE TypeOK'
  <2>1. [recipient[r] EXCEPT !.state = "revoked"] \in RecipientRow
    BY DEF TypeOK, RecipientRow
  <2> QED BY <1>1, <2>1 DEF TypeOK, RevokeRecipient
<1>2. ASSUME NEW value \in BOOLEAN, SetTakenDown(value) PROVE TypeOK'
  BY <1>2, DropUpdate DEF TypeOK, SetTakenDown
<1>3. CASE StampGrace
  <2> DEFINE t == now + BillingGrace
  <2>1. t \in OrNone(Nat)
    BY <1>0
  <2>2. drop' = [drop EXCEPT !.expiresAt = t, !.grace = TRUE]
    BY <1>3 DEF StampGrace
  <2> HIDE DEF t
  <2>3. drop' \in DropRow
    BY <2>1, <2>2, DropUpdate DEF TypeOK
  <2> QED BY <1>3, <2>3 DEF TypeOK, StampGrace
<1>4. CASE RestoreGrace
  <2> DEFINE t == CASE PlanDays = None -> None
                    [] PlanDays # None /\ now + PlanDays > drop.expiresAt -> now + PlanDays
                    [] OTHER -> drop.expiresAt
  <2>1. t \in OrNone(Nat)
    BY DropColumns DEF TypeOK
  <2>2. drop' = [drop EXCEPT !.grace = FALSE, !.expiresAt = t]
    BY <1>4 DEF RestoreGrace
  <2> HIDE DEF t
  <2>3. drop' \in DropRow
    BY <2>1, <2>2, DropUpdate DEF TypeOK
  <2> QED BY <1>4, <2>3 DEF TypeOK, RestoreGrace
<1>5. CASE SelectDrop
  BY <1>5 DEF TypeOK, SelectDrop
<1>12. CASE SelectDowngraded
  BY <1>12 DEF TypeOK, SelectDowngraded
<1>6. CASE FallbackSoftDelete
  BY <1>0, <1>6, DropUpdate DEF TypeOK, FallbackSoftDelete
<1>7. ASSUME NEW k \in Cleaners, ClaimDrop(k) PROVE TypeOK'
  <2> DEFINE t == IF drop.deletedAt = None THEN now ELSE drop.deletedAt
  <2>1. t \in OrNone(Nat)
    BY DropColumns DEF TypeOK
  <2>2. drop' = IF drop.exists THEN [drop EXCEPT !.deletedAt = t, !.files = FALSE] ELSE drop
    BY <1>7 DEF ClaimDrop
  <2> HIDE DEF t
  <2>3. drop' \in DropRow
    BY <2>1, <2>2, DropUpdate DEF TypeOK
  <2> QED BY <1>7, <2>3 DEF TypeOK, ClaimDrop
<1>8. ASSUME NEW k \in Cleaners, RemoveDrop(k) PROVE TypeOK'
  BY <1>8, DropUpdate DEF TypeOK, RemoveDrop
<1>9. ASSUME NEW k \in Cleaners, CleanerDies(k) PROVE TypeOK'
  BY <1>9 DEF TypeOK, CleanerDies
<1>10. CASE Tick
  BY <1>10, IdleRequest DEF TypeOK, Tick
<1>11. CASE UNCHANGED vars
  BY <1>11 DEF TypeOK
<1> QED
  BY <1>1, <1>2, <1>3, <1>4, <1>5, <1>6, <1>7, <1>8, <1>9, <1>10, <1>11, <1>12, RequestType, OwnerType
  DEF Next

\* Every reachable state is well typed.
THEOREM TypeCorrect == Spec => []TypeOK
BY TypeInit, TypeNext, PTL DEF Spec

-----------------------------------------------------------------------------
(* Nothing is handed out that was not spent before.                        *)

\* The requests that owe an answer are finitely many.
LEMMA OwedFinite == \A h \in Holders : IsFiniteSet(Owed(h)) /\ Cardinality(Owed(h)) \in Nat
BY ConstantsAssumption, FS_Subset, FS_CardinalityType DEF Owed

\* The same after a step.
LEMMA OwedFiniteNext == (\A h \in Holders : IsFiniteSet(Owed(h)) /\ Cardinality(Owed(h)) \in Nat)'
BY ConstantsAssumption, FS_Subset, FS_CardinalityType DEF Owed

\* A step that spends nothing, hands nothing out, and lets no other request owe
\* an answer keeps what was spent ahead of what is given.
LEMMA NothingOwed ==
    ASSUME TypeOK, PaidFirst,
           UNCHANGED given, \A h \in Holders : Tracked(h)' = Tracked(h),
           \A h \in Holders : Owed(h)' \subseteq Owed(h)
    PROVE  PaidFirst'
<1> SUFFICES ASSUME NEW h \in Holders
             PROVE  given'[h] + Cardinality(Owed(h)') <= Tracked(h)'
  BY DEF PaidFirst
<1>1. Cardinality(Owed(h)') <= Cardinality(Owed(h))
  BY OwedFinite, FS_Subset
<1>2. given[h] + Cardinality(Owed(h)) <= Tracked(h) /\ given[h] \in Nat
  BY DEF PaidFirst, TypeOK
<1>3. Tracked(h) \in Nat
  BY DEF Tracked, TypeOK, RecipientRow
<1> QED BY <1>1, <1>2, <1>3, OwedFinite, OwedFiniteNext

\* A request whose stage changes within, or away from, those that owe.
LEMMA SameRequests ==
    ASSUME TypeOK, NEW c \in Clients,
           \A d \in Clients : d # c => request'[d] = request[d],
           \/ request'[c].stage \in {"idle", "looked", "authorized", "signed"}
           \/ /\ request[c].stage \in {"counted", "mail", "mailed", "limit", "done"}
              /\ request'[c].holder = request[c].holder
    PROVE  \A h \in Holders : Owed(h)' \subseteq Owed(h)
BY DEF Owed

\* A drops row keeps its counter when another column changes.
LEMMA SameDownloads ==
    ASSUME NEW d \in DropRow
    PROVE  /\ \A b \in BOOLEAN :
                 /\ [d EXCEPT !.exists = b].downloads = d.downloads
                 /\ [d EXCEPT !.disabled = b].downloads = d.downloads
                 /\ [d EXCEPT !.takenDown = b].downloads = d.downloads
                 /\ [d EXCEPT !.restrict = b].downloads = d.downloads
           /\ \A t : [d EXCEPT !.deletedAt = t].downloads = d.downloads
           /\ \A t : [d EXCEPT !.deletedAt = t, !.files = FALSE].downloads = d.downloads
           /\ \A t, b : [d EXCEPT !.expiresAt = t, !.grace = b].downloads = d.downloads
           /\ \A t, b : [d EXCEPT !.grace = b, !.expiresAt = t].downloads = d.downloads
           /\ [d EXCEPT !.sent = @ + 1].downloads = d.downloads
BY DEF DropRow

\* Only Consume spends, only Respond hands out, and nothing else makes a request
\* owe an answer.
Quiet ==
    /\ UNCHANGED <<given, anonymous>>
    /\ drop'.downloads = drop.downloads
    /\ \A r \in Recipients : recipient'[r].downloads = recipient[r].downloads
    /\ \A h \in Holders : Owed(h)' \subseteq Owed(h)

\* The steps of a request other than Consume and Respond are quiet.
LEMMA RequestQuiet ==
    ASSUME TypeOK, NEW c \in Clients,
           \/ Authorize(c) \/ Sign(c) \/ ConsumeRefused(c) \/ ReadCommitted(c) \/ SendMail(c)
           \/ CountMail(c) \/ MarkLimitReached(c) \/ SkipLimit(c) \/ Abandon(c)
           \/ \E token \in Holders, kind \in Kinds : Lookup(c, token, kind)
    PROVE  Quiet
<1> USE SameRequests DEF TypeOK, Quiet, record, history
<1>1. ASSUME NEW token \in Holders, NEW kind \in Kinds, Lookup(c, token, kind) PROVE Quiet
  BY <1>1 DEF Lookup, Idle
<1>2. CASE Authorize(c)
  BY <1>2 DEF Authorize, Goes, Ends, Idle, Request
<1>3. CASE Sign(c)
  BY <1>3 DEF Sign, Request
<1>4. CASE ConsumeRefused(c)
  BY <1>4 DEF ConsumeRefused, Ends, Idle
<1>5. CASE ReadCommitted(c)
  BY <1>5 DEF ReadCommitted, Request
<1>6. CASE SendMail(c)
  BY <1>6 DEF SendMail, Goes, Request
<1>7. CASE CountMail(c)
  BY <1>7, SameDownloads DEF CountMail, Goes, Request
<1>8. CASE MarkLimitReached(c)
  BY <1>8, SameDownloads DEF MarkLimitReached, Goes, Request
<1>9. CASE SkipLimit(c)
  BY <1>9 DEF SkipLimit, Goes, Request
<1>10. CASE Abandon(c)
  BY <1>10 DEF Abandon, Ends, Idle
<1> QED BY <1>1, <1>2, <1>3, <1>4, <1>5, <1>6, <1>7, <1>8, <1>9, <1>10

\* So are the owner's.
LEMMA OwnerQuiet ==
    ASSUME TypeOK, NEW s \in Sessions, OwnerStep(s)
    PROVE  Quiet
<1>0. request' = request => \A h \in Holders : Owed(h)' \subseteq Owed(h)
  BY DEF Owed
<1> USE <1>0 DEF TypeOK, Quiet, record, history
<1>1. CASE ReadDisabled(s)
  BY <1>1 DEF ReadDisabled
<1>2. CASE WriteDisabled(s)
  BY <1>2, SameDownloads DEF WriteDisabled, Session
<1>3. CASE WriteRestrict(s)
  <2>1. drop' = drop \/ drop' = [drop EXCEPT !.restrict = session[s].value]
    BY <1>3 DEF WriteRestrict
  <2>2. session[s].value \in BOOLEAN
    BY DEF Session
  <2>3. [drop EXCEPT !.restrict = session[s].value].downloads = drop.downloads
    BY <2>2, SameDownloads DEF TypeOK
  <2>4. drop'.downloads = drop.downloads
    BY <2>1, <2>3
  <2> QED BY <1>3, <2>4 DEF WriteRestrict
<1>4. CASE SessionDies(s)
  BY <1>4 DEF SessionDies
<1>5. ASSUME NEW restrict \in BOOLEAN, ReadShared(s, restrict) PROVE Quiet
  BY <1>5 DEF ReadShared
<1>6. ASSUME NEW S \in SUBSET Recipients, CreateRecipients(s, S) PROVE Quiet
  BY <1>6 DEF CreateRecipients, RecipientRow
<1> QED BY <1>1, <1>2, <1>3, <1>4, <1>5, <1>6 DEF OwnerStep

\* Every step spends, hands out, or is quiet.
LEMMA CounterStep ==
    ASSUME TypeOK, [Next]_vars
    PROVE  (\E c \in Clients : Consume(c) \/ Respond(c)) \/ Quiet
<1>0. request' = request => \A h \in Holders : Owed(h)' \subseteq Owed(h)
  BY DEF Owed
<1>1. ASSUME NEW r \in Recipients, RevokeRecipient(r) PROVE Quiet
  BY <1>0, <1>1 DEF RevokeRecipient, RecipientRow, TypeOK, Quiet, history
<1>2. ASSUME NEW value \in BOOLEAN, SetTakenDown(value) PROVE Quiet
  BY <1>0, <1>2, SameDownloads DEF SetTakenDown, TypeOK, Quiet, history
<1>3. CASE StampGrace
  BY <1>0, <1>3, SameDownloads DEF StampGrace, TypeOK, Quiet, history
<1>4. CASE RestoreGrace
  BY <1>0, <1>4, SameDownloads DEF RestoreGrace, TypeOK, Quiet, history
<1>5. CASE SelectDrop
  BY <1>0, <1>5 DEF SelectDrop, Quiet, record, history
<1>12. CASE SelectDowngraded
  BY <1>0, <1>12 DEF SelectDowngraded, Quiet, record, history
<1>6. CASE FallbackSoftDelete
  BY <1>0, <1>6, SameDownloads DEF FallbackSoftDelete, TypeOK, Quiet, history
<1>7. ASSUME NEW k \in Cleaners, ClaimDrop(k) PROVE Quiet
  BY <1>0, <1>7, SameDownloads DEF ClaimDrop, TypeOK, Quiet
<1>8. ASSUME NEW k \in Cleaners, RemoveDrop(k) PROVE Quiet
  BY <1>0, <1>8, SameDownloads DEF RemoveDrop, TypeOK, Quiet, history
<1>9. ASSUME NEW k \in Cleaners, CleanerDies(k) PROVE Quiet
  BY <1>0, <1>9 DEF CleanerDies, Quiet, record, history
<1>10. CASE Tick
  <2>1. \A h \in Holders : Owed(h)' \subseteq Owed(h)
    BY <1>10 DEF Tick, Owed, Idle
  <2> QED BY <1>10, <2>1 DEF Tick, Quiet, record, history
<1>11. CASE UNCHANGED vars
  BY <1>0, <1>11 DEF vars, Quiet, record, history
<1> QED
  BY <1>1, <1>2, <1>3, <1>4, <1>5, <1>6, <1>7, <1>8, <1>9, <1>10, <1>11, <1>12, RequestQuiet,
     OwnerQuiet
  DEF Next, DownloadStep

\* A committed download adds one unit to what its holder has spent, and owes it.
LEMMA Spends ==
    ASSUME TypeOK, NEW c \in Clients, Consume(c), NEW h \in Holders, h = request[c].holder
    PROVE  /\ drop'.downloads = drop.downloads + 1 /\ UNCHANGED given
           /\ Tracked(h)' = Tracked(h) + 1
           /\ \A g \in Holders \ {h} : Tracked(g)' = Tracked(g) /\ Owed(g)' = Owed(g)
           /\ c \notin Owed(h) /\ Owed(h)' = Owed(h) \cup {c}
<1> USE DEF Consume
<1>1. drop'.downloads = drop.downloads + 1
  BY DEF TypeOK, DropRow
<1>2. Tracked(h)' = Tracked(h) + 1 /\ \A g \in Holders \ {h} : Tracked(g)' = Tracked(g)
  BY ConstantsAssumption DEF Tracked, TypeOK, RecipientRow
<1>3. /\ request[c].stage = "signed"
      /\ request'[c].stage = "counted" /\ request'[c].holder = h
      /\ \A d \in Clients \ {c} : request'[d] = request[d]
  BY DEF Goes, TypeOK, Request
<1>4. c \notin Owed(h) /\ Owed(h)' = Owed(h) \cup {c}
  BY <1>3 DEF Owed
<1>5. \A g \in Holders \ {h} : Owed(g)' = Owed(g)
  BY <1>3 DEF Owed
<1> QED BY <1>1, <1>2, <1>4, <1>5

\* An answer against an allowance settles one unit that was owed; any other is
\* not counted.
LEMMA HandsOut ==
    ASSUME TypeOK, NEW c \in Clients, Respond(c), NEW h \in Holders, h = request[c].holder
    PROVE  \/ Quiet
           \/ /\ given' = [given EXCEPT ![h] = @ + 1] /\ UNCHANGED <<record, anonymous>>
              /\ \A g \in Holders : Tracked(g)' = Tracked(g)
              /\ \A g \in Holders \ {h} : Owed(g)' = Owed(g)
              /\ c \in Owed(h) /\ Owed(h)' = Owed(h) \ {c}
<1> USE DEF Respond
<1>1. /\ request'[c].stage = "idle"
      /\ \A d \in Clients \ {c} : request'[d] = request[d]
  BY DEF Ends, Idle, TypeOK
<1>2. CASE ~Limited(h)
  <2>1. \A g \in Holders : Owed(g)' \subseteq Owed(g)
    BY <1>1, SameRequests
  <2> QED BY <1>2, <2>1 DEF Quiet, record
<1>3. CASE Limited(h)
  <2>1. request[c].stage = "done"
    BY <1>3 DEF ShouldCount
  <2>2. c \in Owed(h) /\ Owed(h)' = Owed(h) \ {c}
    BY <1>1, <2>1 DEF Owed
  <2>3. \A g \in Holders \ {h} : Owed(g)' = Owed(g)
    BY <1>1, <2>1 DEF Owed
  <2> QED BY <1>3, <2>2, <2>3 DEF record, Tracked
<1> QED BY <1>2, <1>3

\* What the counters say, and what was handed out, are numbers.
LEMMA Numbers ==
    ASSUME TypeOK
    PROVE  \A h \in Holders : Tracked(h) \in Nat /\ given[h] \in Nat
BY DEF Tracked, TypeOK, RecipientRow

\* Nothing is handed out, or about to be, that was not spent before; kept by
\* every step.
LEMMA PaidNext == Inv /\ [Next]_vars => PaidFirst'
<1> SUFFICES ASSUME TypeOK, PaidFirst, [Next]_vars PROVE PaidFirst'
  BY DEF Inv
<1>1. CASE Quiet
  <2>1. \A h \in Holders : Tracked(h)' = Tracked(h)
    BY <1>1 DEF Quiet, Tracked
  <2> QED BY <1>1, <2>1, NothingOwed DEF Quiet
<1>2. ASSUME NEW c \in Clients, Consume(c) PROVE PaidFirst'
  <2>0. request[c].holder \in Holders
    BY DEF TypeOK, Request
  <2>1. PICK h \in Holders : h = request[c].holder
    BY <2>0
  <2>3. /\ UNCHANGED given
        /\ Tracked(h)' = Tracked(h) + 1
        /\ \A g \in Holders \ {h} : Tracked(g)' = Tracked(g) /\ Owed(g)' = Owed(g)
        /\ c \notin Owed(h) /\ Owed(h)' = Owed(h) \cup {c}
    BY <1>2, <2>1, Spends
  <2>4. Cardinality(Owed(h)') = Cardinality(Owed(h)) + 1
    BY <2>1, <2>3, OwedFinite, FS_AddElement
  <2>5. given'[h] + Cardinality(Owed(h)') <= Tracked(h)'
    BY <2>1, <2>3, <2>4, Numbers, OwedFinite DEF PaidFirst
  <2>6. \A g \in Holders \ {h} : given'[g] + Cardinality(Owed(g)') <= Tracked(g)'
    BY <2>3 DEF PaidFirst
  <2> QED BY <2>5, <2>6 DEF PaidFirst
<1>3. ASSUME NEW c \in Clients, Respond(c), ~Quiet PROVE PaidFirst'
  <2>0. request[c].holder \in Holders
    BY DEF TypeOK, Request
  <2>1. PICK h \in Holders : h = request[c].holder
    BY <2>0
  <2>3. /\ given' = [given EXCEPT ![h] = @ + 1]
        /\ \A g \in Holders : Tracked(g)' = Tracked(g)
        /\ \A g \in Holders \ {h} : Owed(g)' = Owed(g)
        /\ c \in Owed(h) /\ Owed(h)' = Owed(h) \ {c}
    BY <1>3, <2>1, HandsOut
  <2>4. Cardinality(Owed(h)') = Cardinality(Owed(h)) - 1
    BY <2>1, <2>3, OwedFinite, FS_RemoveElement
  <2>5. given'[h] = given[h] + 1 /\ \A g \in Holders \ {h} : given'[g] = given[g]
    BY <2>1, <2>3 DEF TypeOK
  <2>6. given'[h] + Cardinality(Owed(h)') <= Tracked(h)'
    BY <2>1, <2>3, <2>4, <2>5, Numbers, OwedFinite DEF PaidFirst
  <2>7. \A g \in Holders \ {h} : given'[g] + Cardinality(Owed(g)') <= Tracked(g)'
    BY <2>3, <2>5 DEF PaidFirst
  <2> QED BY <2>6, <2>7 DEF PaidFirst
<1> QED BY <1>1, <1>2, <1>3, CounterStep

\* At the start nothing is owed or given.
LEMMA PaidInit == Init => PaidFirst
<1> SUFFICES ASSUME Init, NEW h \in Holders
             PROVE  given[h] + Cardinality(Owed(h)) <= Tracked(h)
  BY DEF PaidFirst
<1>1. Owed(h) = {}
  BY DEF Init, Owed, Idle
<1>2. given[h] = 0 /\ Tracked(h) = 0
  BY DEF Init, Tracked
<1> QED BY <1>1, <1>2, FS_EmptySet

\* Whatever is handed out of an allowance, to any number of concurrent requests,
\* was spent from it before.
THEOREM PaidFirstCorrect == Spec => []Inv
<1>1. Init => Inv
  BY TypeInit, PaidInit DEF Inv
<1>2. Inv /\ [Next]_vars => Inv'
  BY TypeNext, PaidNext DEF Inv
<1> QED BY <1>1, <1>2, PTL DEF Spec

-----------------------------------------------------------------------------
(* The allowance it implements.                                            *)

\* The initial state is an unspent allowance.
LEMMA AllowanceInit == Init => Budget!Init
BY DEF Init, Tracked, Budget!Init

\* A committed download spends from both allowances, an answer against one is
\* handed out after it was spent, and no other step moves them.
LEMMA AllowanceNext == Inv /\ [Next]_vars => [Budget!Next]_(Budget!allowance)
<1> SUFFICES ASSUME TypeOK, PaidFirst, [Next]_vars PROVE [Budget!Next]_(Budget!allowance)
  BY DEF Inv
<1>0. ASSUME \A h \in Holders : Tracked(h)' = Tracked(h)
      PROVE  [h \in Holders |-> Tracked(h)]' = [h \in Holders |-> Tracked(h)]
  BY <1>0
<1>1. CASE Quiet
  <2>1. \A h \in Holders : Tracked(h)' = Tracked(h)
    BY <1>1 DEF Quiet, Tracked
  <2> QED BY <1>0, <1>1, <2>1 DEF Quiet, Budget!allowance
<1>2. ASSUME NEW c \in Clients, Consume(c) PROVE Budget!Next
  <2>0. request[c].holder \in Holders
    BY DEF TypeOK, Request
  <2>1. PICK h \in Holders : h = request[c].holder
    BY <2>0
  <2>2. /\ drop'.downloads = drop.downloads + 1 /\ UNCHANGED given
        /\ Tracked(h)' = Tracked(h) + 1
        /\ \A g \in Holders \ {h} : Tracked(g)' = Tracked(g)
    BY <1>2, <2>1, Spends
  <2>3. [g \in Holders |-> Tracked(g)]'
           = [[g \in Holders |-> Tracked(g)] EXCEPT ![h] = @ + 1]
    BY <2>2
  <2>4. Budget!Left(drop.downloads, MaxDownloads)
    BY <1>2 DEF Consume, Spendable, Under, Budget!Left
  <2>5. Budget!Left(Tracked(h), LimitOf(h))
    BY <1>2, <2>1 DEF Consume, ValidRecipient, Under, Budget!Left, LimitOf, Tracked
  <2>6. Budget!Spend(h)
    BY <2>2, <2>3, <2>4, <2>5 DEF Budget!Spend
  <2> QED BY <2>6 DEF Budget!Next
<1>3. ASSUME NEW c \in Clients, Respond(c), ~Quiet PROVE Budget!Next
  <2>0. request[c].holder \in Holders
    BY DEF TypeOK, Request
  <2>1. PICK h \in Holders : h = request[c].holder
    BY <2>0
  <2>2. /\ given' = [given EXCEPT ![h] = @ + 1] /\ UNCHANGED record
        /\ \A g \in Holders : Tracked(g)' = Tracked(g)
        /\ c \in Owed(h)
    BY <1>3, <2>1, HandsOut
  <2>3. Cardinality(Owed(h)) > 0
    BY <2>1, <2>2, OwedFinite, FS_EmptySet
  <2>4. given[h] < Tracked(h)
    BY <2>1, <2>3, Numbers, OwedFinite DEF PaidFirst
  <2>5. Budget!HandOut(h)
    BY <1>0, <2>2, <2>4 DEF Budget!HandOut, record
  <2> QED BY <2>5 DEF Budget!Next
<1> QED BY <1>1, <1>2, <1>3, CounterStep

\* Every answer with URLs of a limited drop, or to a named recipient, was paid
\* for from both allowances, neither of which is ever exceeded.
THEOREM AllowanceCorrect == Spec => ImplementsAllowance
<1>1. Init => Budget!Init
  BY AllowanceInit
<1>2. Inv /\ [Next]_vars => [Budget!Next]_(Budget!allowance)
  BY AllowanceNext
<1> QED BY <1>1, <1>2, PaidFirstCorrect, PTL DEF Spec, ImplementsAllowance, Budget!Spec

-----------------------------------------------------------------------------
(* What a step may never do.                                               *)

\* Only Consume moves a counter, and it does so while everything the route
\* checked earlier still holds.
LEMMA SpentStep ==
    ASSUME TypeOK, NEW c \in Clients, Consume(c)
    PROVE  /\ ~Hidden /\ ~Reached
           /\ anonymous' # anonymous => ~drop.restrict
           /\ \A r \in Recipients : recipient'[r].downloads # recipient[r].downloads =>
                 recipient[r].state = "live"
<1>1. ~Hidden /\ (anonymous' # anonymous => ~drop.restrict)
  BY DEF Consume, Spendable
<1>2. ~Reached
  BY ConstantsAssumption, DropColumns DEF Consume, Spendable, Under, Reached, TypeOK
<1>3. ASSUME NEW r \in Recipients, recipient'[r].downloads # recipient[r].downloads
      PROVE  recipient[r].state = "live"
  BY <1>3 DEF Consume, ValidRecipient, TypeOK
<1> QED BY <1>1, <1>2, <1>3

\* No download is counted of a drop that was disabled, taken down, deleted,
\* restricted or used up in the meantime, or for a revoked recipient.
THEOREM SpentCorrect == Spec => SpentOnlyWhileAvailable
<1> DEFINE Allowed ==
        /\ drop'.downloads # drop.downloads => ~Hidden /\ ~Reached
        /\ anonymous' # anonymous => ~drop.restrict
        /\ \A r \in Recipients : recipient'[r].downloads # recipient[r].downloads =>
              recipient[r].state = "live"
<1>1. ASSUME TypeOK, [Next]_vars PROVE Allowed
  <2>1. CASE Quiet
    BY <2>1 DEF Quiet
  <2>2. ASSUME NEW c \in Clients, Consume(c) PROVE Allowed
    BY <1>1, <2>2, SpentStep
  <2>3. ASSUME NEW c \in Clients, Respond(c) PROVE Allowed
    BY <2>3 DEF Respond, record
  <2> QED BY <1>1, <2>1, <2>2, <2>3, CounterStep
<1>2. TypeOK /\ [Next]_vars => [Allowed]_vars
  BY <1>1
<1> QED BY <1>2, TypeCorrect, PTL DEF Spec, SpentOnlyWhileAvailable

\* A column that is not written keeps its value.
LEMMA SameDeletedAt ==
    ASSUME NEW d \in DropRow
    PROVE  /\ \A v :
                 /\ [d EXCEPT !.exists = v].deletedAt = d.deletedAt
                 /\ [d EXCEPT !.disabled = v].deletedAt = d.deletedAt
                 /\ [d EXCEPT !.takenDown = v].deletedAt = d.deletedAt
                 /\ [d EXCEPT !.restrict = v].deletedAt = d.deletedAt
           /\ [d EXCEPT !.downloads = @ + 1].deletedAt = d.deletedAt
           /\ [d EXCEPT !.sent = @ + 1].deletedAt = d.deletedAt
BY DEF DropRow

\* The steps of a request leave a running grace clock alone.
LEMMA RequestGrace ==
    ASSUME TypeOK, drop.deletedAt # None, NEW c \in Clients,
           \/ DownloadStep(c) \/ Abandon(c)
           \/ \E token \in Holders, kind \in Kinds : Lookup(c, token, kind)
    PROVE  drop'.deletedAt = drop.deletedAt
<1> USE DEF record
<1>1. CASE Consume(c)
  BY <1>1, SameDeletedAt DEF Consume, TypeOK
<1>2. CASE CountMail(c)
  BY <1>2, SameDeletedAt DEF CountMail, TypeOK
<1>3. CASE MarkLimitReached(c)
  BY <1>3 DEF MarkLimitReached
<1>4. CASE \/ Authorize(c) \/ Sign(c) \/ ConsumeRefused(c) \/ ReadCommitted(c) \/ SendMail(c)
           \/ SkipLimit(c) \/ Respond(c) \/ Abandon(c)
  BY <1>4 DEF Authorize, Sign, ConsumeRefused, ReadCommitted, SendMail, SkipLimit, Respond, Abandon
<1>5. ASSUME NEW token \in Holders, NEW kind \in Kinds, Lookup(c, token, kind)
      PROVE  drop'.deletedAt = drop.deletedAt
  BY <1>5 DEF Lookup
<1> QED BY <1>1, <1>2, <1>3, <1>4, <1>5 DEF DownloadStep

\* The owner's requests leave a running grace clock alone.
LEMMA OwnerGrace ==
    ASSUME TypeOK, drop.deletedAt # None, NEW s \in Sessions, OwnerStep(s)
    PROVE  drop'.deletedAt = drop.deletedAt
<1> USE DEF record
<1>1. CASE WriteDisabled(s)
  BY <1>1, SameDeletedAt DEF WriteDisabled, TypeOK
<1>2. CASE WriteRestrict(s)
  <2>1. drop' = drop \/ drop' = [drop EXCEPT !.restrict = session[s].value]
    BY <1>2 DEF WriteRestrict
  <2>2. [drop EXCEPT !.restrict = session[s].value].deletedAt = drop.deletedAt
    BY SameDeletedAt DEF TypeOK
  <2> QED BY <2>1, <2>2
<1>3. CASE ReadDisabled(s) \/ SessionDies(s)
  BY <1>3 DEF ReadDisabled, SessionDies
<1>4. ASSUME NEW restrict \in BOOLEAN, ReadShared(s, restrict)
      PROVE  drop'.deletedAt = drop.deletedAt
  BY <1>4 DEF ReadShared
<1>5. ASSUME NEW S \in SUBSET Recipients, CreateRecipients(s, S)
      PROVE  drop'.deletedAt = drop.deletedAt
  BY <1>5 DEF CreateRecipients
<1> QED BY <1>1, <1>2, <1>3, <1>4, <1>5 DEF OwnerStep

\* No step resets or stops a running grace clock.
LEMMA GraceStep ==
    ASSUME TypeOK, [Next]_vars, drop.deletedAt # None
    PROVE  drop'.deletedAt = drop.deletedAt
<1> USE DEF record
<1>1. ASSUME NEW value \in BOOLEAN, SetTakenDown(value) PROVE drop'.deletedAt = drop.deletedAt
  BY <1>1, SameDeletedAt DEF SetTakenDown, TypeOK
<1>2. CASE StampGrace \/ RestoreGrace \/ FallbackSoftDelete
  BY <1>2 DEF StampGrace, RestoreGrace, FallbackSoftDelete
<1>3. ASSUME NEW k \in Cleaners, ClaimDrop(k) PROVE drop'.deletedAt = drop.deletedAt
  <2>1. \/ drop' = drop
        \/ drop' = [drop EXCEPT !.deletedAt = drop.deletedAt, !.files = FALSE]
    BY <1>3 DEF ClaimDrop
  <2> QED BY <2>1 DEF TypeOK, DropRow
<1>4. ASSUME NEW k \in Cleaners, RemoveDrop(k) PROVE drop'.deletedAt = drop.deletedAt
  BY <1>4, SameDeletedAt DEF RemoveDrop, TypeOK
<1>5. ASSUME NEW r \in Recipients, RevokeRecipient(r) PROVE drop'.deletedAt = drop.deletedAt
  BY <1>5 DEF RevokeRecipient
<1>6. ASSUME NEW k \in Cleaners, CleanerDies(k) PROVE drop'.deletedAt = drop.deletedAt
  BY <1>6 DEF CleanerDies
<1>7. CASE SelectDrop \/ SelectDowngraded \/ Tick \/ UNCHANGED vars
  BY <1>7 DEF SelectDrop, SelectDowngraded, Tick, vars
<1> QED
  BY <1>1, <1>2, <1>3, <1>4, <1>5, <1>6, <1>7, RequestGrace, OwnerGrace DEF Next

\* The grace clock of a soft-deleted drop is never reset or stopped.
THEOREM GraceClockCorrect == Spec => GraceClockKept
<1>1. TypeOK /\ [Next]_vars => [drop.deletedAt # None => drop'.deletedAt = drop.deletedAt]_vars
  BY GraceStep
<1> QED BY <1>1, TypeCorrect, PTL DEF Spec, GraceClockKept

-----------------------------------------------------------------------------
(* Mails.                                                                  *)

\* Requests whose access mail is delivered and not yet counted, and those whose
\* counted download has not been mailed.
Mailing  == {c \in Clients : request[c].stage = "mailed"}
Unmailed == {c \in Clients : request[c].stage \in {"counted", "mail"}}

\* Every counted mail was delivered, every delivered one is of a download of its
\* own, and the limit is announced by whoever sets the grace clock.
MailsOwed ==
    /\ mails.limit <= 1 /\ (drop.deletedAt = None => mails.limit = 0)
    /\ drop.sent + Cardinality(Mailing) <= mails.access
    /\ mails.access + Cardinality(Unmailed) <= drop.downloads

\* Those requests are finitely many, before and after a step.
LEMMA MailFinite ==
    /\ IsFiniteSet(Mailing) /\ Cardinality(Mailing) \in Nat
    /\ IsFiniteSet(Unmailed) /\ Cardinality(Unmailed) \in Nat
BY ConstantsAssumption, FS_Subset, FS_CardinalityType DEF Mailing, Unmailed

LEMMA MailFiniteNext ==
    /\ IsFiniteSet(Mailing') /\ Cardinality(Mailing') \in Nat
    /\ IsFiniteSet(Unmailed') /\ Cardinality(Unmailed') \in Nat
BY ConstantsAssumption, FS_Subset, FS_CardinalityType DEF Mailing, Unmailed

\* Steps that send nothing and count nothing.
MailQuiet ==
    /\ UNCHANGED mails /\ drop'.sent = drop.sent /\ drop'.downloads = drop.downloads
    /\ Mailing' \subseteq Mailing /\ Unmailed' \subseteq Unmailed

\* A request that goes on to another stage, away from those that owe a mail or a
\* count.
LEMMA MailRequests ==
    ASSUME TypeOK, NEW c \in Clients,
           \A d \in Clients : d # c => request'[d] = request[d],
           request'[c].stage \notin {"counted", "mail", "mailed"}
    PROVE  Mailing' \subseteq Mailing /\ Unmailed' \subseteq Unmailed
BY DEF Mailing, Unmailed

\* The steps of a request but the four that send or count, or mark the limit.
LEMMA MailQuietRequest ==
    ASSUME TypeOK, NEW c \in Clients,
           \/ Authorize(c) \/ Sign(c) \/ ConsumeRefused(c) \/ ReadCommitted(c) \/ SkipLimit(c)
           \/ Respond(c) \/ Abandon(c)
           \/ \E token \in Holders, kind \in Kinds : Lookup(c, token, kind)
    PROVE  MailQuiet
<1> USE DEF MailQuiet, TypeOK, record, history
<1>1. ASSUME NEW token \in Holders, NEW kind \in Kinds, Lookup(c, token, kind) PROVE MailQuiet
  BY <1>1, MailRequests DEF Lookup, Idle
<1>2. CASE Authorize(c)
  BY <1>2, MailRequests DEF Authorize, Goes, Ends, Idle, Request
<1>3. CASE Sign(c)
  BY <1>3, MailRequests DEF Sign, Request
<1>4. CASE ConsumeRefused(c) \/ Abandon(c) \/ Respond(c)
  BY <1>4, MailRequests DEF ConsumeRefused, Abandon, Respond, Ends, Idle
<1>5. CASE ReadCommitted(c)
  BY <1>5 DEF ReadCommitted, Request, Mailing, Unmailed
<1>6. CASE SkipLimit(c)
  BY <1>6, MailRequests DEF SkipLimit, Goes, Request
<1> QED BY <1>1, <1>2, <1>3, <1>4, <1>5, <1>6

\* A drops row keeps the count of its mails when another column changes.
LEMMA SameSent ==
    ASSUME NEW d \in DropRow
    PROVE  /\ \A v :
                 /\ [d EXCEPT !.exists = v].sent = d.sent
                 /\ [d EXCEPT !.disabled = v].sent = d.sent
                 /\ [d EXCEPT !.takenDown = v].sent = d.sent
                 /\ [d EXCEPT !.restrict = v].sent = d.sent
                 /\ [d EXCEPT !.deletedAt = v].sent = d.sent
           /\ \A t, b :
                 /\ [d EXCEPT !.deletedAt = t, !.files = b].sent = d.sent
                 /\ [d EXCEPT !.expiresAt = t, !.grace = b].sent = d.sent
                 /\ [d EXCEPT !.grace = b, !.expiresAt = t].sent = d.sent
           /\ [d EXCEPT !.downloads = @ + 1].sent = d.sent
BY DEF DropRow

\* Every step is one of those four or quiet.
LEMMA MailStep ==
    ASSUME TypeOK, [Next]_vars
    PROVE  \/ \E c \in Clients : Consume(c) \/ SendMail(c) \/ CountMail(c) \/ MarkLimitReached(c)
           \/ MailQuiet
<1>1. ASSUME NEW c \in Clients, Consume(c) \/ SendMail(c) \/ CountMail(c) \/ MarkLimitReached(c)
      PROVE  \E d \in Clients : Consume(d) \/ SendMail(d) \/ CountMail(d) \/ MarkLimitReached(d)
  BY <1>1
<1>2. SUFFICES ASSUME ~\E c \in Clients : \/ Consume(c) \/ SendMail(c)
                                          \/ CountMail(c) \/ MarkLimitReached(c)
               PROVE  MailQuiet
  BY <1>1
<1>3. drop'.downloads = drop.downloads
  BY <1>2, CounterStep DEF Respond, record, Quiet
<1>4. request' = request => Mailing' = Mailing /\ Unmailed' = Unmailed
  BY DEF Mailing, Unmailed
<1> USE <1>3, <1>4 DEF MailQuiet, record, history
<1>5. ASSUME NEW s \in Sessions, OwnerStep(s) PROVE MailQuiet
  <2>1. \/ drop' = drop
        \/ drop' = [drop EXCEPT !.disabled = session[s].value]
        \/ drop' = [drop EXCEPT !.restrict = session[s].value]
    BY <1>5 DEF OwnerStep, ReadDisabled, WriteDisabled, WriteRestrict, SessionDies, ReadShared,
                CreateRecipients
  <2>2. /\ [drop EXCEPT !.disabled = session[s].value].sent = drop.sent
        /\ [drop EXCEPT !.restrict = session[s].value].sent = drop.sent
    BY SameSent DEF TypeOK
  <2>3. UNCHANGED <<mails, request>>
    BY <1>5 DEF OwnerStep, ReadDisabled, WriteDisabled, WriteRestrict, SessionDies, ReadShared,
                CreateRecipients
  <2>4. drop'.sent = drop.sent
    BY <2>1, <2>2
  <2> QED BY <2>3, <2>4
<1>6. ASSUME NEW r \in Recipients, RevokeRecipient(r) PROVE MailQuiet
  BY <1>6 DEF RevokeRecipient
<1>7. ASSUME NEW value \in BOOLEAN, SetTakenDown(value) PROVE MailQuiet
  BY <1>7, SameSent DEF SetTakenDown, TypeOK
<1>8. CASE StampGrace
  BY <1>8, SameSent DEF StampGrace, TypeOK
<1>9. CASE RestoreGrace
  BY <1>9, SameSent DEF RestoreGrace, TypeOK
<1>10. CASE SelectDrop \/ SelectDowngraded
  BY <1>10 DEF SelectDrop, SelectDowngraded
<1>11. CASE FallbackSoftDelete
  BY <1>11, SameSent DEF FallbackSoftDelete, TypeOK
<1>12. ASSUME NEW k \in Cleaners, ClaimDrop(k) PROVE MailQuiet
  BY <1>12, SameSent DEF ClaimDrop, TypeOK
<1>13. ASSUME NEW k \in Cleaners, RemoveDrop(k) PROVE MailQuiet
  BY <1>13, SameSent DEF RemoveDrop, TypeOK
<1>14. ASSUME NEW k \in Cleaners, CleanerDies(k) PROVE MailQuiet
  BY <1>14 DEF CleanerDies
<1>15. CASE Tick
  <2>1. Mailing' \subseteq Mailing /\ Unmailed' \subseteq Unmailed
    BY <1>15 DEF Tick, Mailing, Unmailed, Idle
  <2> QED BY <1>15, <2>1 DEF Tick
<1>16. CASE UNCHANGED vars
  BY <1>16 DEF vars
<1> QED
  BY <1>2, <1>5, <1>6, <1>7, <1>8, <1>9, <1>10, <1>11, <1>12, <1>13, <1>14, <1>15, <1>16,
     MailQuietRequest
  DEF Next, DownloadStep

\* What the mails and the counters hold are numbers.
LEMMA MailNumbers ==
    ASSUME TypeOK
    PROVE  mails.access \in Nat /\ mails.limit \in Nat /\ drop.sent \in Nat /\ drop.downloads \in Nat
BY DropColumns DEF TypeOK

\* Kept by every step.
LEMMA MailsNext == TypeOK /\ MailsOwed /\ [Next]_vars => MailsOwed'
<1> SUFFICES ASSUME TypeOK, MailsOwed, [Next]_vars PROVE MailsOwed'
  OBVIOUS
<1>0. drop'.deletedAt = None => drop.deletedAt = None
  BY GraceStep
<1>1. CASE MailQuiet
  <2>1. Cardinality(Mailing') <= Cardinality(Mailing) /\ Cardinality(Unmailed') <= Cardinality(Unmailed)
    BY <1>1, MailFinite, FS_Subset DEF MailQuiet
  <2> QED BY <1>0, <1>1, <2>1, MailNumbers, MailFinite, MailFiniteNext DEF MailQuiet, MailsOwed
<1>2. ASSUME NEW c \in Clients, Consume(c) PROVE MailsOwed'
  <2>1. Mailing' = Mailing /\ Unmailed' = Unmailed \cup {c} /\ c \notin Unmailed
    BY <1>2 DEF Consume, Goes, TypeOK, Request, Mailing, Unmailed
  <2>2. /\ drop'.downloads = drop.downloads + 1 /\ drop'.sent = drop.sent /\ UNCHANGED mails
    BY <1>2, SameSent DEF Consume, TypeOK, DropRow
  <2>3. Cardinality(Unmailed') = Cardinality(Unmailed) + 1
    BY <2>1, MailFinite, FS_AddElement
  <2> QED BY <1>0, <2>1, <2>2, <2>3, MailNumbers, MailFinite DEF MailsOwed
<1>3. ASSUME NEW c \in Clients, SendMail(c) PROVE MailsOwed'
  <2>1. /\ c \in Unmailed /\ c \notin Mailing /\ Unmailed' = Unmailed \ {c} /\ UNCHANGED drop
        /\ \/ mails' = [mails EXCEPT !.access = @ + 1] /\ Mailing' = Mailing \cup {c}
           \/ UNCHANGED mails /\ Mailing' = Mailing
    BY <1>3 DEF SendMail, Goes, TypeOK, Request, Mailing, Unmailed, record
  <2>2. Cardinality(Unmailed') = Cardinality(Unmailed) - 1
    BY <2>1, MailFinite, FS_RemoveElement
  <2>3. Cardinality(Mailing \cup {c}) = Cardinality(Mailing) + 1
    BY <2>1, MailFinite, FS_AddElement
  <2>4. mails' = [mails EXCEPT !.access = @ + 1]
        => mails'.access = mails.access + 1 /\ mails'.limit = mails.limit
    BY DEF TypeOK
  <2>5. CASE UNCHANGED mails /\ Mailing' = Mailing
    BY <2>1, <2>2, <2>5, MailNumbers, MailFinite DEF MailsOwed
  <2>6. CASE mails' = [mails EXCEPT !.access = @ + 1] /\ Mailing' = Mailing \cup {c}
    <3>1. Cardinality(Mailing') = Cardinality(Mailing) + 1
      BY <2>3, <2>6
    <3>2. drop'.sent = drop.sent /\ drop'.downloads = drop.downloads /\ drop'.deletedAt = drop.deletedAt
      BY <2>1
    <3> QED BY <2>2, <2>4, <2>6, <3>1, <3>2, MailNumbers, MailFinite DEF MailsOwed
  <2> QED BY <2>1, <2>5, <2>6
<1>4. ASSUME NEW c \in Clients, CountMail(c) PROVE MailsOwed'
  <2>1. c \in Mailing /\ Mailing' = Mailing \ {c} /\ Unmailed' = Unmailed /\ UNCHANGED mails
    BY <1>4 DEF CountMail, Goes, TypeOK, Request, Mailing, Unmailed, history
  <2>2. drop'.downloads = drop.downloads /\ drop'.sent \in {drop.sent, drop.sent + 1}
    BY <1>4 DEF CountMail, TypeOK, DropRow
  <2>3. Cardinality(Mailing') = Cardinality(Mailing) - 1
    BY <2>1, MailFinite, FS_RemoveElement
  <2> QED BY <1>0, <2>1, <2>2, <2>3, MailNumbers, MailFinite DEF MailsOwed
<1>5. ASSUME NEW c \in Clients, MarkLimitReached(c) PROVE MailsOwed'
  <2>1. Mailing' \subseteq Mailing /\ Unmailed' \subseteq Unmailed
    BY <1>5, MailRequests DEF MarkLimitReached, Goes, TypeOK, Request
  <2>2. Cardinality(Mailing') <= Cardinality(Mailing) /\ Cardinality(Unmailed') <= Cardinality(Unmailed)
    BY <2>1, MailFinite, FS_Subset
  <2>3. drop'.sent = drop.sent /\ drop'.downloads = drop.downloads /\ mails'.access = mails.access
    BY <1>5, SameSent, SameDownloads DEF MarkLimitReached, TypeOK
  <2>4. mails'.limit <= 1 /\ (drop'.deletedAt = None => mails'.limit = 0)
    <3>1. CASE drop.exists /\ drop.deletedAt = None
      <4>1. mails'.limit = mails.limit + 1 /\ drop'.deletedAt = now
        BY <1>5, <3>1 DEF MarkLimitReached, TypeOK, DropRow
      <4>2. now # None
        BY ConstantsAssumption DEF TypeOK
      <4> QED BY <3>1, <4>1, <4>2 DEF MailsOwed
    <3>2. CASE ~(drop.exists /\ drop.deletedAt = None)
      BY <1>5, <3>2 DEF MarkLimitReached, MailsOwed
    <3> QED BY <3>1, <3>2
  <2> QED BY <2>2, <2>3, <2>4, MailNumbers, MailFinite, MailFiniteNext DEF MailsOwed
<1> QED BY <1>1, <1>2, <1>3, <1>4, <1>5, MailStep

\* At the start nothing is sent or counted.
LEMMA MailsInit == Init => MailsOwed
<1> SUFFICES ASSUME Init PROVE MailsOwed
  OBVIOUS
<1>1. Mailing = {} /\ Unmailed = {}
  BY DEF Init, Mailing, Unmailed, Idle
<1> QED BY <1>1, FS_EmptySet DEF Init, MailsOwed

\* However many downloads reach the limit at once, the owner hears of it once,
\* and no access mail is counted that was not delivered, or delivered without a
\* download of its own.
THEOREM MailedOnceCorrect == Spec => []MailedOnce
<1>1. TypeOK /\ MailsOwed => MailedOnce
  BY MailNumbers, MailFinite DEF MailsOwed, MailedOnce
<1>2. Spec => []MailsOwed
  BY MailsInit, MailsNext, TypeCorrect, PTL DEF Spec
<1> QED BY <1>1, <1>2, TypeCorrect, PTL
-----------------------------------------------------------------------------
(* URLs and cleanups.                                                      *)

\* The stages after the download was counted.
Spent == {"counted", "mail", "mailed", "limit", "done"}

\* What the clock allows a request q at time t, d being the drops row: it began
\* before the drop expired and no longer ago than requests run, and its URLs,
\* once signed, outlive neither that nor the grace clock by more than they last.
Timed(q, d, t) ==
    /\ q.stage # "idle" =>
          /\ q.since <= t /\ t <= q.since + RequestTime
          /\ d.expiresAt # None => q.since <= d.expiresAt
    /\ q.stage \in {"signed"} \cup Spent =>
          /\ q.until <= t + UrlTtl /\ q.until <= q.since + RequestTime + UrlTtl
          /\ MaxDownloads # None => q.until <= t + LimitedTtl
    /\ q.stage \in Spent /\ MaxDownloads # None /\ d.deletedAt # None =>
          q.until <= d.deletedAt + LimitedTtl

\* How long a URL that left the server may last.
Lasts(until, d, t) ==
    /\ until <= t + UrlTtl
    /\ d.expiresAt # None => until <= d.expiresAt + RequestTime + UrlTtl
    /\ MaxDownloads # None => until <= t + LimitedTtl
    /\ MaxDownloads # None /\ d.deletedAt # None => until <= d.deletedAt + LimitedTtl

\* Why the objects may go.
PastExpiry == drop.expiresAt # None /\ drop.expiresAt + ExpiryGrace < now
PastLimit  == MaxDownloads # None /\ drop.deletedAt # None /\ drop.deletedAt + LimitGrace < now
Condemned  == erased \/ PastExpiry \/ PastLimit

\* Cleanups act only for such a reason, whenever they read it.
CleanupSound ==
    /\ MaxDownloads = None /\ drop.deletedAt # None => erased \/ PastExpiry
    /\ cleaner["cron"] # "idle" => Condemned
    /\ \A k \in Cleaners \ {"cron"} : cleaner[k] = "claimed" => erased
    /\ ~drop.files => drop.deletedAt # None
    /\ ~stored => Condemned

UrlInv ==
    /\ \A c \in Clients : Timed(request[c], drop, now)
    /\ Lasts(liveUntil, drop, now)
    /\ CleanupSound

\* Both dates of a drops row are set once: the expiry not in the past, the grace
\* clock to the time of the step, no later than the files are claimed.
DateMove(d, e, t) ==
    /\ IF d.expiresAt = None THEN e.expiresAt # None => e.expiresAt >= t
                             ELSE e.expiresAt = d.expiresAt
    /\ IF d.deletedAt = None THEN e.deletedAt # None => e.deletedAt = t
                             ELSE e.deletedAt = d.deletedAt
    /\ ~e.files => ~d.files \/ e.deletedAt # None

\* Neither date moves when another column is written.
LEMMA SameDates ==
    ASSUME NEW d \in DropRow
    PROVE  /\ \A v, t :
                 /\ DateMove(d, [d EXCEPT !.exists = v], t)
                 /\ DateMove(d, [d EXCEPT !.disabled = v], t)
                 /\ DateMove(d, [d EXCEPT !.takenDown = v], t)
                 /\ DateMove(d, [d EXCEPT !.restrict = v], t)
           /\ \A t :
                 /\ DateMove(d, d, t)
                 /\ DateMove(d, [d EXCEPT !.downloads = @ + 1], t)
                 /\ DateMove(d, [d EXCEPT !.sent = @ + 1], t)
BY DEF DropRow, DateMove

\* A step of a request moves the dates so, and the clock stands still.
LEMMA RequestDates ==
    ASSUME TypeOK, NEW c \in Clients,
           \/ DownloadStep(c) \/ Abandon(c)
           \/ \E token \in Holders, kind \in Kinds : Lookup(c, token, kind)
    PROVE  now' = now /\ DateMove(drop, drop', now)
<1> USE DEF record
<1>0. drop' = drop => DateMove(drop, drop', now)
  BY SameDates DEF TypeOK
<1>1. CASE Consume(c)
  BY <1>1, SameDates DEF Consume, TypeOK
<1>2. CASE CountMail(c)
  BY <1>2, SameDates DEF CountMail, TypeOK
<1>3. CASE MarkLimitReached(c)
  BY <1>0, <1>3 DEF MarkLimitReached, TypeOK, DropRow, DateMove
<1>4. CASE \/ Authorize(c) \/ Sign(c) \/ ConsumeRefused(c) \/ ReadCommitted(c) \/ SendMail(c)
           \/ SkipLimit(c) \/ Respond(c) \/ Abandon(c)
  BY <1>0, <1>4
  DEF Authorize, Sign, ConsumeRefused, ReadCommitted, SendMail, SkipLimit, Respond, Abandon
<1>5. ASSUME NEW token \in Holders, NEW kind \in Kinds, Lookup(c, token, kind)
      PROVE  now' = now /\ DateMove(drop, drop', now)
  BY <1>0, <1>5 DEF Lookup
<1> QED BY <1>1, <1>2, <1>3, <1>4, <1>5 DEF DownloadStep

\* So does a step of an owner's request, which reaches no object.
LEMMA OwnerDates ==
    ASSUME TypeOK, NEW s \in Sessions, OwnerStep(s)
    PROVE  /\ now' = now /\ DateMove(drop, drop', now)
           /\ drop'.deletedAt = drop.deletedAt
           /\ UNCHANGED <<request, liveUntil, stored, cleaner, erased>>
<1>1. \/ drop' = drop
      \/ drop' = [drop EXCEPT !.disabled = session[s].value]
      \/ drop' = [drop EXCEPT !.restrict = session[s].value]
  BY DEF OwnerStep, ReadDisabled, WriteDisabled, WriteRestrict, SessionDies, ReadShared,
         CreateRecipients, record
<1>2. /\ DateMove(drop, [drop EXCEPT !.disabled = session[s].value], now)
      /\ DateMove(drop, [drop EXCEPT !.restrict = session[s].value], now)
      /\ DateMove(drop, drop, now)
  BY SameDates DEF TypeOK
<1>3. /\ [drop EXCEPT !.disabled = session[s].value].deletedAt = drop.deletedAt
      /\ [drop EXCEPT !.restrict = session[s].value].deletedAt = drop.deletedAt
  BY SameDeletedAt DEF TypeOK
<1>4. now' = now /\ UNCHANGED <<request, liveUntil, stored, cleaner, erased>>
  BY DEF OwnerStep, ReadDisabled, WriteDisabled, WriteRestrict, SessionDies, ReadShared,
         CreateRecipients, history
<1> QED BY <1>1, <1>2, <1>3, <1>4

\* Of the other steps before a deletion, without a recovery, only the fallback
\* sets the grace clock, at the download limit.
LEMMA OtherDates ==
    ASSUME TypeOK, "recovery" \notin Events,
           \/ \E r \in Recipients : RevokeRecipient(r)
           \/ \E value \in BOOLEAN : SetTakenDown(value)
           \/ StampGrace \/ RestoreGrace \/ FallbackSoftDelete
    PROVE  /\ now' = now /\ DateMove(drop, drop', now)
           /\ drop'.deletedAt = drop.deletedAt \/ MaxDownloads # None
           /\ UNCHANGED <<request, liveUntil, stored, cleaner, erased>>
<1> USE DEF history
<1>1. ASSUME NEW r \in Recipients, RevokeRecipient(r)
      PROVE  now' = now /\ drop' = drop /\ UNCHANGED <<request, liveUntil, stored, cleaner, erased>>
  BY <1>1 DEF RevokeRecipient
<1>2. ASSUME NEW value \in BOOLEAN, SetTakenDown(value)
      PROVE  /\ now' = now /\ DateMove(drop, drop', now) /\ drop'.deletedAt = drop.deletedAt
             /\ UNCHANGED <<request, liveUntil, stored, cleaner, erased>>
  BY <1>2, SameDates, SameDeletedAt DEF SetTakenDown, TypeOK
<1>3. CASE StampGrace
  <2>1. /\ drop'.expiresAt = now + BillingGrace /\ drop'.deletedAt = drop.deletedAt
        /\ drop.expiresAt = None /\ drop.deletedAt = None /\ drop'.files = drop.files
    BY <1>3 DEF StampGrace, TypeOK, DropRow
  <2>2. DateMove(drop, drop', now)
    <3>1. now + BillingGrace >= now
      BY TimeAssumption DEF TypeOK
    <3> QED BY <2>1, <3>1 DEF DateMove
  <2> QED BY <1>3, <2>1, <2>2 DEF StampGrace
<1>4. CASE FallbackSoftDelete
  <2>1. /\ drop'.expiresAt = drop.expiresAt /\ drop'.deletedAt = now /\ drop.deletedAt = None
        /\ drop'.files = drop.files
    BY <1>4 DEF FallbackSoftDelete, TypeOK, DropRow
  <2>2. DateMove(drop, drop', now)
    BY <2>1 DEF DateMove
  <2> QED BY <1>4, <2>2 DEF FallbackSoftDelete, Reached
<1>5. DateMove(drop, drop, now)
  BY SameDates DEF TypeOK
<1> QED BY <1>1, <1>2, <1>3, <1>4, <1>5 DEF RestoreGrace

\* A claim sets the grace clock unless it runs, and keeps the expiry.
LEMMA ClaimDates ==
    ASSUME TypeOK, NEW k \in Cleaners, ClaimDrop(k)
    PROVE  /\ DateMove(drop, drop', now) /\ drop'.expiresAt = drop.expiresAt
           /\ UNCHANGED <<now, request, liveUntil, stored>>
<1>1. \/ drop' = drop
      \/ drop' = [drop EXCEPT !.deletedAt = IF @ = None THEN now ELSE @, !.files = FALSE]
  BY DEF ClaimDrop
<1>2. ASSUME drop' = drop
      PROVE  DateMove(drop, drop', now) /\ drop'.expiresAt = drop.expiresAt
  BY <1>2, SameDates DEF TypeOK
<1>3. ASSUME drop' = [drop EXCEPT !.deletedAt = IF @ = None THEN now ELSE @, !.files = FALSE]
      PROVE  DateMove(drop, drop', now) /\ drop'.expiresAt = drop.expiresAt
  <2>1. /\ drop'.expiresAt = drop.expiresAt
        /\ drop'.deletedAt = IF drop.deletedAt = None THEN now ELSE drop.deletedAt
    BY <1>3 DEF TypeOK, DropRow
  <2>2. now \in Nat /\ now # None
    BY ConstantsAssumption DEF TypeOK
  <2> QED BY <2>1, <2>2 DEF DateMove
<1> QED BY <1>1, <1>2, <1>3 DEF ClaimDrop

\* What the clock allows a request it still allows when the dates move.
LEMMA TimedKept ==
    ASSUME NEW q \in Request, NEW d \in DropRow, NEW e \in DropRow, NEW t \in Nat,
           Timed(q, d, t), DateMove(d, e, t)
    PROVE  Timed(q, e, t)
<1>1. q.since \in Nat /\ q.until \in Nat
  BY DEF Request
<1>2. d.expiresAt \in OrNone(Nat) /\ d.deletedAt \in OrNone(Nat)
      /\ e.expiresAt \in OrNone(Nat) /\ e.deletedAt \in OrNone(Nat)
  BY DropColumns
<1>3. {LimitedTtl, UrlTtl, RequestTime} \subseteq Nat
  BY TimeAssumption
<1>4. q.stage # "idle" => q.since <= t /\ t <= q.since + RequestTime
                          /\ (e.expiresAt # None => q.since <= e.expiresAt)
  BY <1>1, <1>2, <1>3 DEF Timed, DateMove
<1>5. q.stage \in Spent /\ MaxDownloads # None /\ e.deletedAt # None =>
          q.until <= e.deletedAt + LimitedTtl
  <2>1. CASE d.deletedAt = None
    BY <2>1 DEF Timed, DateMove
  <2>2. CASE d.deletedAt # None
    BY <2>2 DEF Timed, DateMove
  <2> QED BY <2>1, <2>2
<1> QED BY <1>4, <1>5 DEF Timed

\* And a URL.
LEMMA LastsKept ==
    ASSUME NEW u \in Nat, NEW d \in DropRow, NEW e \in DropRow, NEW t \in Nat,
           Lasts(u, d, t), DateMove(d, e, t)
    PROVE  Lasts(u, e, t)
<1>1. d.expiresAt \in OrNone(Nat) /\ d.deletedAt \in OrNone(Nat)
      /\ e.expiresAt \in OrNone(Nat) /\ e.deletedAt \in OrNone(Nat)
  BY DropColumns
<1>2. {LimitedTtl, UrlTtl, RequestTime} \subseteq Nat
  BY TimeAssumption
<1>3. e.expiresAt # None => u <= e.expiresAt + RequestTime + UrlTtl
  BY <1>1, <1>2 DEF Lasts, DateMove
<1>4. MaxDownloads # None /\ e.deletedAt # None => u <= e.deletedAt + LimitedTtl
  <2>1. CASE d.deletedAt = None
    BY <2>1 DEF Lasts, DateMove
  <2>2. CASE d.deletedAt # None
    BY <2>2 DEF Lasts, DateMove
  <2> QED BY <2>1, <2>2
<1> QED BY <1>3, <1>4 DEF Lasts

\* A request that ended is bound by nothing, and one that goes on without a new
\* date by what bound it before.
LEMMA TimedGoes ==
    ASSUME NEW q \in Request, NEW r \in Request, NEW d \in DropRow, NEW t \in Nat,
           Timed(q, d, t),
           \/ r.stage = "idle"
           \/ /\ r.since = q.since /\ r.until = q.until /\ q.stage # "idle"
              /\ r.stage \in {"signed"} \cup Spent => q.stage \in {"signed"} \cup Spent
              /\ r.stage \in Spent => q.stage \in Spent \/ d.deletedAt = None
    PROVE  Timed(r, d, t)
BY DEF Timed, Spent

\* The steps of a request touch no other request and no cleanup, and keep the
\* request within what the clock allows.
LEMMA TimedRequest ==
    ASSUME TypeOK, NEW c \in Clients, Timed(request[c], drop, now),
           \/ DownloadStep(c) \/ Abandon(c)
           \/ \E token \in Holders, kind \in Kinds : Lookup(c, token, kind)
    PROVE  /\ Timed(request'[c], drop, now)
           /\ \A d \in Clients \ {c} : request'[d] = request[d]
           /\ UNCHANGED <<stored, cleaner, erased>>
           /\ drop'.deletedAt = drop.deletedAt \/ MaxDownloads # None
<1> DEFINE Rest == /\ \A d \in Clients \ {c} : request'[d] = request[d]
                   /\ UNCHANGED <<stored, cleaner, erased>>
                   /\ drop'.deletedAt = drop.deletedAt \/ MaxDownloads # None
           Onward == request'[c].since = request[c].since /\ request'[c].until = request[c].until
<1>0. /\ request[c] \in Request /\ drop \in DropRow /\ now \in Nat
      /\ (request' \in [Clients -> Request] => request'[c] \in Request)
  BY DEF TypeOK
<1> USE DEF TypeOK, record, history
<1>t. request' \in [Clients -> Request]
  BY RequestType
<1>1. ASSUME NEW token \in Holders, NEW kind \in Kinds, Lookup(c, token, kind)
      PROVE  Timed(request'[c], drop, now) /\ Rest
  <2>1. /\ request'[c].stage = "looked" /\ request'[c].since = now
        /\ drop.expiresAt # None => now <= drop.expiresAt
    BY <1>1 DEF Lookup, Idle
  <2>2. Rest
    BY <1>1 DEF Lookup
  <2> QED BY <2>1, <2>2, <1>0, TimeAssumption DEF Timed, Spent
<1>2. CASE Authorize(c)
  <2>1. Rest
    BY <1>2 DEF Authorize, Goes, Ends
  <2>2. CASE Ends(c)
    <3>1. request'[c].stage = "idle"
      BY <2>2 DEF Ends, Idle
    <3> QED BY <2>1, <3>1, <1>0, <1>t, TimedGoes
  <2>3. CASE Goes(c, "authorized")
    <3>1. request'[c].stage = "authorized" /\ Onward
      BY <2>3 DEF Goes, Request
    <3> QED BY <1>2, <2>1, <3>1, <1>0, <1>t, TimedGoes DEF Authorize, Spent
  <2>4. CASE request' = [request EXCEPT ![c].stage = "authorized", ![c].holder = None]
    <3>1. request'[c].stage = "authorized" /\ Onward
      BY <2>4 DEF Request
    <3> QED BY <1>2, <2>1, <3>1, <1>0, <1>t, TimedGoes DEF Authorize, Spent
  <2> QED BY <1>2, <2>2, <2>3, <2>4 DEF Authorize
<1>3. CASE Sign(c)
  <2>1. Rest
    BY <1>3 DEF Sign
  <2> DEFINE ttl == IF Limited(request[c].holder) THEN LimitedTtl ELSE UrlTtl
  <2>2. /\ request[c].stage = "authorized" /\ request'[c].stage = "signed"
        /\ request'[c].since = request[c].since /\ request'[c].until = now + ttl
    BY <1>3 DEF Sign, Request
  <2>3. /\ ttl \in Nat /\ ttl <= UrlTtl /\ (MaxDownloads # None => ttl <= LimitedTtl)
        /\ UrlTtl \in Nat /\ RequestTime \in Nat /\ request[c].since \in Nat
    BY TimeAssumption, <1>0 DEF Limited, Request
  <2> HIDE DEF ttl
  <2>4. /\ request[c].since <= now /\ now <= request[c].since + RequestTime
        /\ drop.expiresAt # None => request[c].since <= drop.expiresAt
    BY <2>2 DEF Timed
  <2>5. /\ now + ttl <= now + UrlTtl /\ now + ttl <= request[c].since + RequestTime + UrlTtl
        /\ MaxDownloads # None => now + ttl <= now + LimitedTtl
    BY <2>3, <2>4, <1>0, TimeAssumption
  <2>6. Timed(request'[c], drop, now)
    BY <2>2, <2>4, <2>5 DEF Timed, Spent
  <2> QED BY <2>1, <2>6
<1>4. CASE Consume(c)
  <2>1. /\ request[c].stage = "signed" /\ request'[c].stage = "counted" /\ Onward
        /\ drop.deletedAt = None
    BY <1>4 DEF Consume, Goes, Request, Spendable, Hidden
  <2>2. drop'.deletedAt = drop.deletedAt
    BY <1>4, SameDeletedAt DEF Consume
  <2>3. Rest
    BY <1>4, <2>2 DEF Consume, Goes
  <2> QED BY <2>1, <2>3, <1>0, <1>t, TimedGoes DEF Spent
<1>5. CASE ConsumeRefused(c) \/ Abandon(c) \/ Respond(c)
  <2>1. request'[c].stage = "idle"
    BY <1>5 DEF ConsumeRefused, Abandon, Respond, Ends, Idle
  <2>2. Rest
    BY <1>5 DEF ConsumeRefused, Abandon, Respond, Ends
  <2> QED BY <2>1, <2>2, <1>0, <1>t, TimedGoes
<1>6. CASE ReadCommitted(c)
  <2>1. request[c].stage = "counted" /\ request'[c].stage \in Spent /\ Onward
    BY <1>6 DEF ReadCommitted, Request, Spent
  <2>2. Rest
    BY <1>6 DEF ReadCommitted
  <2> QED BY <2>1, <2>2, <1>0, <1>t, TimedGoes DEF Spent
<1>7. CASE SendMail(c) \/ CountMail(c) \/ MarkLimitReached(c) \/ SkipLimit(c)
  <2>1. request[c].stage \in Spent /\ request'[c].stage \in Spent /\ Onward
    BY <1>7 DEF SendMail, CountMail, MarkLimitReached, SkipLimit, Goes, Request, Spent
  <2>2. drop'.deletedAt = drop.deletedAt \/ MaxDownloads # None
    BY <1>7, SameDeletedAt DEF SendMail, CountMail, MarkLimitReached, SkipLimit
  <2>3. Rest
    BY <1>7, <2>2 DEF SendMail, CountMail, MarkLimitReached, SkipLimit, Goes
  <2> QED BY <2>1, <2>3, <1>0, <1>t, TimedGoes DEF Spent
<1> QED BY <1>1, <1>2, <1>3, <1>4, <1>5, <1>6, <1>7 DEF DownloadStep

\* A reason to remove the objects remains one.
LEMMA CondemnedKept ==
    ASSUME TypeOK, DateMove(drop, drop', now), now' = now, erased => erased'
    PROVE  /\ Condemned => Condemned'
           /\ erased \/ PastExpiry => (erased \/ PastExpiry)'
BY DEF DateMove, Condemned, PastExpiry, PastLimit

\* Steps before a deletion keep the cleanups sound.
LEMMA CleanupKept ==
    ASSUME TypeOK, CleanupSound, DateMove(drop, drop', now), now' = now,
           UNCHANGED <<stored, cleaner, erased>>,
           drop'.deletedAt = drop.deletedAt \/ MaxDownloads # None
    PROVE  CleanupSound'
<1>1. ~drop'.files => drop'.deletedAt # None
  BY DEF CleanupSound, DateMove
<1>2. /\ Condemned => Condemned'
      /\ erased \/ PastExpiry => (erased \/ PastExpiry)'
  BY CondemnedKept
<1> QED BY <1>1, <1>2 DEF CleanupSound

\* Requests, owners, billing and the fallback keep the invariant.
LEMMA UrlRequest ==
    ASSUME TypeOK, UrlInv, TypeOK', NEW c \in Clients,
           \/ DownloadStep(c) \/ Abandon(c)
           \/ \E token \in Holders, kind \in Kinds : Lookup(c, token, kind)
    PROVE  UrlInv'
<1>0. /\ \A b \in Clients : request[b] \in Request /\ request'[b] \in Request
      /\ drop \in DropRow /\ drop' \in DropRow /\ now \in Nat /\ liveUntil \in Nat
  BY DEF TypeOK
<1>1. now' = now /\ DateMove(drop, drop', now)
  BY RequestDates
<1>2. /\ Timed(request'[c], drop, now)
      /\ \A d \in Clients \ {c} : request'[d] = request[d]
      /\ UNCHANGED <<stored, cleaner, erased>>
      /\ drop'.deletedAt = drop.deletedAt \/ MaxDownloads # None
  BY TimedRequest DEF UrlInv
<1>3. ASSUME NEW b \in Clients PROVE Timed(request'[b], drop', now')
  <2>1. Timed(request'[b], drop, now)
    BY <1>2 DEF UrlInv
  <2> QED BY <1>0, <1>1, <2>1, TimedKept
<1>4. Lasts(liveUntil', drop, now)
  <2>1. ASSUME Respond(c), liveUntil' = request[c].until PROVE Lasts(request[c].until, drop, now)
    <3> DEFINE q == request[c]
    <3>1. q \in Request /\ Timed(q, drop, now)
      BY <1>0 DEF UrlInv
    <3>2. q.stage \in Spent \/ (q.stage = "signed" /\ MaxDownloads = None)
      BY <2>1 DEF Respond, Spent, ShouldCount, Limited
    <3>3. /\ q.since \in Nat /\ q.until \in Nat /\ {LimitedTtl, UrlTtl, RequestTime} \subseteq Nat
          /\ drop.expiresAt \in OrNone(Nat)
      BY <3>1, <1>0, TimeAssumption, DropColumns DEF Request
    <3> HIDE DEF q
    <3>4. q.until <= now + UrlTtl /\ (MaxDownloads # None => q.until <= now + LimitedTtl)
      BY <3>1, <3>2 DEF Timed, Spent
    <3>5. drop.expiresAt # None => q.until <= drop.expiresAt + RequestTime + UrlTtl
      BY <3>1, <3>2, <3>3 DEF Timed, Spent
    <3>6. MaxDownloads # None /\ drop.deletedAt # None => q.until <= drop.deletedAt + LimitedTtl
      BY <3>1, <3>2 DEF Timed
    <3> QED BY <3>4, <3>5, <3>6 DEF Lasts, q
  <2>2. liveUntil' = liveUntil \/ (Respond(c) /\ liveUntil' = request[c].until)
    BY DEF DownloadStep, Authorize, Sign, Consume, ConsumeRefused, ReadCommitted, SendMail,
           CountMail, MarkLimitReached, SkipLimit, Respond, Abandon, Lookup, history
  <2> QED BY <2>1, <2>2 DEF UrlInv
<1>5. Lasts(liveUntil', drop', now')
  <2>1. liveUntil' \in Nat
    BY DEF TypeOK
  <2> QED BY <1>0, <1>1, <1>4, <2>1, LastsKept
<1>6. CleanupSound'
  BY <1>1, <1>2, CleanupKept DEF UrlInv
<1> QED BY <1>3, <1>5, <1>6 DEF UrlInv

\* So does whatever touches no request.
LEMMA UrlDates ==
    ASSUME TypeOK, UrlInv, TypeOK', now' = now, DateMove(drop, drop', now),
           UNCHANGED <<request, liveUntil>>, CleanupSound'
    PROVE  UrlInv'
<1>0. /\ \A b \in Clients : request[b] \in Request
      /\ drop \in DropRow /\ drop' \in DropRow /\ now \in Nat /\ liveUntil \in Nat
  BY DEF TypeOK
<1>1. ASSUME NEW b \in Clients PROVE Timed(request'[b], drop', now')
  BY <1>0, TimedKept DEF UrlInv
<1>2. Lasts(liveUntil', drop', now')
  BY <1>0, LastsKept DEF UrlInv
<1> QED BY <1>1, <1>2 DEF UrlInv

\* The deletions keep it: the daily scan finds a reason, which remains one, and
\* the others are a reason once they hold the files.
LEMMA UrlCleanup ==
    ASSUME TypeOK, UrlInv, TypeOK',
           \/ SelectDrop \/ SelectDowngraded
           \/ \E k \in Cleaners : ClaimDrop(k) \/ RemoveDrop(k) \/ CleanerDies(k)
    PROVE  UrlInv'
<1>0. /\ drop \in DropRow /\ drop.expiresAt \in OrNone(Nat) /\ drop.deletedAt \in OrNone(Nat)
      /\ now \in Nat /\ {LimitGrace, DeleteGrace, ExpiryGrace} \subseteq Nat
      /\ LimitGrace <= DeleteGrace
  BY TimeAssumption, DropColumns DEF TypeOK
<1>d. DateMove(drop, drop, now)
  BY SameDates DEF TypeOK
<1>1. CASE SelectDrop
  <2>1. Condemned
    <3>1. Expired => PastExpiry
      BY <1>0 DEF Expired, PastExpiry
    <3>2. SoftDeleted => Condemned
      BY <1>0 DEF SoftDeleted, UrlInv, CleanupSound, Condemned, PastLimit
    <3> QED BY <1>1, <3>1, <3>2 DEF SelectDrop, Condemned
  <2>2. now' = now /\ drop' = drop /\ erased' = erased
    BY <1>1 DEF SelectDrop, record, history
  <2>3. CleanupSound'
    BY <1>1, <1>d, <2>1, <2>2, CondemnedKept DEF SelectDrop, UrlInv, CleanupSound, TypeOK
  <2> QED BY <1>1, <1>d, <2>2, <2>3, UrlDates DEF SelectDrop, history
<1>2. ASSUME NEW k \in Cleaners, ClaimDrop(k) PROVE UrlInv'
  <2>1. /\ DateMove(drop, drop', now) /\ drop'.expiresAt = drop.expiresAt
        /\ UNCHANGED <<now, request, liveUntil, stored>>
    BY <1>2, ClaimDates
  <2>2. erased => erased'
    BY <1>2 DEF ClaimDrop
  <2>3. /\ k = "cron" => Condemned
        /\ k # "cron" /\ drop.exists /\ drop.files => erased'
    BY <1>2 DEF ClaimDrop, UrlInv, CleanupSound
  <2>4. /\ Condemned => Condemned'
        /\ erased \/ PastExpiry => (erased \/ PastExpiry)'
    BY <2>1, <2>2, CondemnedKept
  <2>5. MaxDownloads = None /\ drop'.deletedAt # None => (erased \/ PastExpiry)'
    <3>1. CASE drop.deletedAt # None
      BY <2>4, <3>1 DEF UrlInv, CleanupSound
    <3>2. CASE drop.deletedAt = None
      <4>1. drop.files
        BY <3>2 DEF UrlInv, CleanupSound
      <4>2. drop.exists \/ drop' = drop
        BY <1>2 DEF ClaimDrop
      <4>3. MaxDownloads = None /\ Condemned => erased \/ PastExpiry
        BY DEF Condemned, PastLimit
      <4> QED BY <2>3, <2>4, <3>2, <4>1, <4>2, <4>3
    <3> QED BY <3>1, <3>2
  <2>6. cleaner'["cron"] # "idle" => Condemned'
    BY <1>2, <2>3, <2>4 DEF ClaimDrop, UrlInv, CleanupSound, TypeOK
  <2>7. ASSUME NEW j \in Cleaners \ {"cron"}, cleaner'[j] = "claimed" PROVE erased'
    BY <1>2, <2>2, <2>3, <2>7 DEF ClaimDrop, UrlInv, CleanupSound, TypeOK
  <2>8. /\ ~drop'.files => drop'.deletedAt # None
        /\ ~stored' => Condemned'
    BY <2>1, <2>4 DEF UrlInv, CleanupSound, DateMove
  <2> QED BY <2>1, <2>5, <2>6, <2>7, <2>8, UrlDates DEF CleanupSound
<1>3. ASSUME NEW k \in Cleaners, RemoveDrop(k) \/ CleanerDies(k) PROVE UrlInv'
  <2>0. drop' = drop \/ drop' = [drop EXCEPT !.exists = FALSE]
    BY <1>3 DEF RemoveDrop, CleanerDies, record
  <2>1. DateMove(drop, drop', now) /\ drop'.deletedAt = drop.deletedAt
    <3>1. /\ DateMove(drop, [drop EXCEPT !.exists = FALSE], now)
          /\ [drop EXCEPT !.exists = FALSE].deletedAt = drop.deletedAt
      BY <1>0, SameDates, SameDeletedAt
    <3> QED BY <1>d, <2>0, <3>1
  <2>2. UNCHANGED <<now, erased, request, liveUntil>>
    BY <1>3 DEF RemoveDrop, CleanerDies, history
  <2>3. /\ Condemned => Condemned'
        /\ erased \/ PastExpiry => (erased \/ PastExpiry)'
    BY <2>1, <2>2, CondemnedKept
  <2>4. cleaner[k] = "claimed" => Condemned
    BY DEF UrlInv, CleanupSound, Condemned
  <2>5. /\ \A j \in Cleaners : cleaner'[j] = cleaner[j] \/ cleaner'[j] = "idle"
        /\ ~stored' => ~stored \/ cleaner[k] = "claimed"
    BY <1>3 DEF RemoveDrop, CleanerDies, TypeOK
  <2>6. ~drop'.files => drop'.deletedAt # None
    BY <2>1 DEF UrlInv, CleanupSound, DateMove
  <2>7. CleanupSound'
    BY <2>1, <2>2, <2>3, <2>4, <2>5, <2>6 DEF UrlInv, CleanupSound, Cleaners
  <2> QED BY <2>1, <2>2, <2>7, UrlDates
<1>4. CASE SelectDowngraded
  <2>1. now' = now /\ drop' = drop /\ erased' = erased
    BY <1>4 DEF SelectDowngraded, record, history
  <2>2. CleanupSound'
    BY <1>4, <1>d, <2>1, CondemnedKept DEF SelectDowngraded, UrlInv, CleanupSound, TypeOK
  <2> QED BY <1>4, <1>d, <2>1, <2>2, UrlDates DEF SelectDowngraded, history
<1> QED BY <1>1, <1>2, <1>3, <1>4

\* Time runs: requests that lasted too long are gone.
LEMMA UrlTick == ASSUME TypeOK, UrlInv, Tick PROVE UrlInv'
<1> USE TimeAssumption
<1>0. /\ now \in Nat /\ now' = now + 1 /\ drop' = drop /\ drop \in DropRow /\ liveUntil \in Nat
      /\ UNCHANGED <<liveUntil, stored, cleaner, erased>>
      /\ drop.expiresAt \in OrNone(Nat) /\ drop.deletedAt \in OrNone(Nat)
  BY DropColumns DEF Tick, TypeOK, record, history
<1>1. ASSUME NEW c \in Clients PROVE Timed(request'[c], drop, now + 1)
  <2>1. request[c] \in Request /\ Timed(request[c], drop, now)
    BY DEF UrlInv, TypeOK
  <2>2. PICK q \in Request : q = request[c]
    BY <2>1
  <2>3. \/ request'[c] = Idle
        \/ request'[c] = q /\ (q.stage = "idle" \/ now + 1 <= q.since + RequestTime)
    BY <2>2, <1>0 DEF Tick, Request
  <2>4. q.since \in Nat /\ q.until \in Nat
    BY <2>2 DEF Request
  <2>5. Timed(Idle, drop, now + 1)
    BY DEF Timed, Idle, Spent
  <2>6. q.stage = "idle" \/ now + 1 <= q.since + RequestTime => Timed(q, drop, now + 1)
    BY <1>0, <2>1, <2>2, <2>4 DEF Timed, Spent
  <2> QED BY <2>3, <2>5, <2>6
<1>2. Lasts(liveUntil, drop, now + 1)
  BY <1>0 DEF UrlInv, Lasts
<1>3. Condemned => Condemned'
  BY <1>0 DEF Condemned, PastExpiry, PastLimit
<1>4. erased \/ PastExpiry => (erased \/ PastExpiry)'
  BY <1>0 DEF PastExpiry
<1>5. CleanupSound'
  BY <1>0, <1>3, <1>4 DEF UrlInv, CleanupSound
<1> QED BY <1>0, <1>1, <1>2, <1>5 DEF UrlInv

\* Every step keeps it, as long as no subscription recovers.
LEMMA UrlNext ==
    ASSUME TypeOK, UrlInv, TypeOK', [Next]_vars, "recovery" \notin Events
    PROVE  UrlInv'
<1>1. ASSUME NEW s \in Sessions, OwnerStep(s) PROVE UrlInv'
  BY <1>1, OwnerDates, CleanupKept, UrlDates DEF UrlInv
<1>2. ASSUME \/ \E r \in Recipients : RevokeRecipient(r)
             \/ \E value \in BOOLEAN : SetTakenDown(value)
             \/ StampGrace \/ RestoreGrace \/ FallbackSoftDelete
      PROVE  UrlInv'
  BY <1>2, OtherDates, CleanupKept, UrlDates DEF UrlInv
<1>3. CASE UNCHANGED vars
  BY <1>3
  DEF vars, record, history, UrlInv, CleanupSound, Condemned, PastExpiry, PastLimit
<1> QED BY <1>1, <1>2, <1>3, UrlRequest, UrlCleanup, UrlTick DEF Next

\* At the start nothing runs and no URL is out.
LEMMA UrlInit == Init => UrlInv
<1> SUFFICES ASSUME Init PROVE UrlInv
  OBVIOUS
<1>1. \A c \in Clients : Timed(request[c], drop, now)
  BY DEF Init, Timed, Idle, Spent
<1>2. Lasts(liveUntil, drop, now)
  <2>1. drop.expiresAt \in OrNone(Nat) /\ drop.deletedAt = None
    BY ConstantsAssumption DEF Init
  <2> QED BY <2>1, TimeAssumption DEF Init, Lasts
<1>3. CleanupSound
  BY DEF Init, CleanupSound
<1> QED BY <1>1, <1>2, <1>3 DEF UrlInv

\* Whatever the lifetimes and grace periods, as long as they are ordered as the
\* code orders them: no cleanup removes the objects under a URL that left the
\* server.  The deletions that grant no grace are excepted: those of the owner or
\* an administrator, and those of what exceeds the free plan when a downgrade is
\* carried out (billing-downgrade.ts:759-807).  A recovered subscription is
\* excluded: the expiry cleanup claims what its scan saw expired.
THEOREM UrlsCorrect ==
    ASSUME "recovery" \notin Events
    PROVE  Spec => []UrlsStayUsable
<1>1. TypeOK /\ UrlInv => UrlsStayUsable
  <2> SUFFICES ASSUME TypeOK, UrlInv, ~erased, ~stored PROVE ~(now < liveUntil)
    BY DEF UrlsStayUsable
  <2>0. /\ now \in Nat /\ liveUntil \in Nat /\ Lasts(liveUntil, drop, now)
        /\ drop.expiresAt \in OrNone(Nat) /\ drop.deletedAt \in OrNone(Nat)
    BY DropColumns DEF TypeOK, UrlInv
  <2>1. PastExpiry \/ PastLimit
    BY DEF UrlInv, CleanupSound, Condemned
  <2>2. CASE PastExpiry
    BY <2>0, <2>2, TimeAssumption DEF PastExpiry, Lasts
  <2>3. CASE PastLimit
    BY <2>0, <2>3, TimeAssumption DEF PastLimit, Lasts
  <2> QED BY <2>1, <2>2, <2>3
<1>2. TypeOK /\ UrlInv /\ TypeOK' /\ [Next]_vars => UrlInv'
  BY UrlNext
<1> QED BY <1>1, <1>2, UrlInit, TypeCorrect, PTL DEF Spec

-----------------------------------------------------------------------------
(* Attribution.                                                            *)

\* A download of the recipient h is one more pair, and no other's.
LEMMA AttributedGrows ==
    ASSUME TypeOK, NEW h \in Recipients,
           recipient' = [recipient EXCEPT ![h].downloads = @ + 1]
    PROVE  LET new == <<h, recipient[h].downloads + 1>> IN
           new \notin Attributed /\ Attributed' = Attributed \cup {new}
<1> DEFINE n == recipient[h].downloads
<1>1. n \in Nat /\ recipient[h] \in RecipientRow
  BY DEF TypeOK, RecipientRow
<1>2. /\ recipient'[h].downloads = n + 1
      /\ \A r \in Recipients \ {h} : recipient'[r].downloads = recipient[r].downloads
  BY DEF TypeOK, RecipientRow
<1>3. 1..(n + 1) = (1..n) \cup {n + 1}
  BY <1>1
<1>4. <<h, n + 1>> \notin Attributed
  BY <1>1 DEF Attributed
<1>5. {h} \X (1..(n + 1)) = ({h} \X (1..n)) \cup {<<h, n + 1>>}
  BY <1>3
<1> HIDE DEF n
<1>6. ASSUME NEW p \in Attributed' PROVE p \in Attributed \cup {<<h, n + 1>>}
  <2>1. PICK r \in Recipients : p \in {r} \X (1..recipient'[r].downloads)
    BY <1>6 DEF Attributed
  <2> QED BY <1>2, <1>5, <2>1 DEF Attributed, n
<1>7. ASSUME NEW p \in Attributed \cup {<<h, n + 1>>} PROVE p \in Attributed'
  <2>1. CASE p = <<h, n + 1>>
    BY <1>2, <1>5, <2>1 DEF Attributed
  <2>2. CASE p \in Attributed
    <3>1. PICK r \in Recipients : p \in {r} \X (1..recipient[r].downloads)
      BY <2>2 DEF Attributed
    <3> QED BY <1>2, <1>5, <3>1 DEF Attributed, n
  <2> QED BY <1>7, <2>1, <2>2
<1> QED BY <1>4, <1>6, <1>7 DEF n

\* The drop's counter and what it is made of move together.
LEMMA AttributedStep ==
    ASSUME TypeOK, IsFiniteSet(Attributed), DownloadsAttributed, [Next]_vars
    PROVE  IsFiniteSet(Attributed)' /\ DownloadsAttributed'
<1>0. Cardinality(Attributed) \in Nat /\ anonymous \in Nat
  BY FS_CardinalityType DEF TypeOK
<1>1. CASE /\ drop'.downloads = drop.downloads /\ anonymous' = anonymous
           /\ \A r \in Recipients : recipient'[r].downloads = recipient[r].downloads
  <2>1. Attributed' = Attributed
    BY <1>1 DEF Attributed
  <2> QED BY <1>1, <2>1 DEF DownloadsAttributed
<1>2. ASSUME NEW c \in Clients, Consume(c)
      PROVE  IsFiniteSet(Attributed)' /\ DownloadsAttributed'
  <2>1. drop'.downloads = drop.downloads + 1 /\ request[c].holder \in Holders
    BY <1>2 DEF Consume, TypeOK, DropRow, Request
  <2>2. CASE request[c].holder = None
    <3>1. anonymous' = anonymous + 1 /\ Attributed' = Attributed
      BY <1>2, <2>2 DEF Consume, Attributed
    <3> QED BY <1>0, <2>1, <3>1 DEF DownloadsAttributed
  <2>3. ASSUME NEW h \in Recipients, request[c].holder = h, h # None
        PROVE  IsFiniteSet(Attributed)' /\ DownloadsAttributed'
    <3> DEFINE new == <<h, recipient[h].downloads + 1>>
    <3>1. anonymous' = anonymous /\ recipient' = [recipient EXCEPT ![h].downloads = @ + 1]
      BY <1>2, <2>3 DEF Consume
    <3>2. new \notin Attributed /\ Attributed' = Attributed \cup {new}
      BY <3>1, AttributedGrows
    <3> HIDE DEF new
    <3>3. IsFiniteSet(Attributed') /\ Cardinality(Attributed') = Cardinality(Attributed) + 1
      BY <3>2, FS_AddElement
    <3> QED BY <1>0, <2>1, <3>1, <3>3 DEF DownloadsAttributed
  <2> QED BY <2>1, <2>2, <2>3
<1>3. ASSUME NEW c \in Clients, Respond(c)
      PROVE  IsFiniteSet(Attributed)' /\ DownloadsAttributed'
  <2>1. drop' = drop /\ recipient' = recipient /\ anonymous' = anonymous
    BY <1>3 DEF Respond, record
  <2> QED BY <1>1, <2>1
<1> QED BY <1>1, <1>2, <1>3, CounterStep DEF Quiet

\* The drop's counter is the sum of what the bare link and each recipient spent,
\* for any number of recipients.
THEOREM AttributionCorrect == Spec => []DownloadsAttributed
<1>1. Init => IsFiniteSet(Attributed) /\ DownloadsAttributed
  <2> SUFFICES ASSUME Init PROVE IsFiniteSet(Attributed) /\ DownloadsAttributed
    OBVIOUS
  <2>1. Attributed = {}
    BY DEF Init, Attributed
  <2> QED BY <2>1, FS_EmptySet DEF Init, DownloadsAttributed
<1>2. TypeOK /\ (IsFiniteSet(Attributed) /\ DownloadsAttributed) /\ [Next]_vars
      => (IsFiniteSet(Attributed) /\ DownloadsAttributed)'
  BY AttributedStep
<1> QED BY <1>1, <1>2, TypeCorrect, PTL DEF Spec


=============================================================================
