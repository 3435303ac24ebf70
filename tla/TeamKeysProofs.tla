--------------------------- MODULE TeamKeysProofs ---------------------------
(***************************************************************************)
(* Theorems about TeamKeys for any number of people, items, generations,   *)
(* identities and texts.                                                   *)
(***************************************************************************)
EXTENDS TeamKeys, TLAPS

-----------------------------------------------------------------------------
(* Type correctness.                                                       *)

\* What a browser knows in each stage of what it does.
Sound(p, w) ==
    /\ w.stage = "seeding" => w.key = [gen |-> 1, by |-> p] /\ w.identity # 0
    /\ w.stage \in {"sealed", "checked"} => w.to \in People /\ w.key \in Keys /\ w.identity # 0
    /\ w.stage \in {"listed", "prepared", "rotating"} => w.key \in Keys /\ w.key.gen < MaxGen
    /\ w.stage = "rotating" => w.snap \in Snapshots
    /\ w.stage \in {"wrapped", "stamped"} => w.item \in Items /\ w.key \in Keys
    /\ w.stage = "stamped" => w.stamp # 0

WorkSound == \A p \in People : Sound(p, work[p])

Typed == TypeOK /\ WorkSound

\* One browser goes on to a sound job.
LEMMA DoesTyped ==
    ASSUME Typed, NEW p \in People, NEW w \in Jobs, Sound(p, w), Does(p, w)
    PROVE  work' \in [People -> Jobs] /\ WorkSound'
BY DEF Typed, TypeOK, WorkSound, Does

LEMMA IdleTyped == Idle \in Jobs /\ \A p \in People : Sound(p, Idle)
<1>1. Idle \in Jobs
  BY TeamKeysAssumption DEF Idle, Jobs, Stages
<1>2. Idle.stage = "idle"
  BY DEF Idle
<1> QED BY <1>1, <1>2 DEF Sound

\* A browser goes on to the next stage, and knows what it needs for it.
LEMMA GoesTyped ==
    ASSUME Typed, NEW p \in People, NEW stage \in Stages, Goes(p, stage),
           Sound(p, [work[p] EXCEPT !.stage = stage])
    PROVE  work' \in [People -> Jobs] /\ WorkSound'
<1> DEFINE w == [work[p] EXCEPT !.stage = stage]
<1>1. work[p] \in Jobs
  BY DEF Typed, TypeOK
<1>2. w \in Jobs
  BY <1>1 DEF Jobs
<1>3. Does(p, w)
  BY DEF Goes, Does
<1> HIDE DEF w
<1> QED BY <1>2, <1>3, DoesTyped DEF w

\* The steps of a browser that only change what it does.
LEMMA PreparationTyped ==
    ASSUME Typed, NEW p \in People,
           \/ GiveUp(p) \/ CheckSeed(p) \/ CheckGrant(p) \/ CheckRelease(p) \/ StampDrop(p)
           \/ ListMembers(p) \/ ListItems(p) \/ BeginRotation(p)
           \/ \E q \in People : SealFor(p, q)
           \/ \E i \in Items : Wrap(p, i)
    PROVE  work' \in [People -> Jobs] /\ WorkSound'
<1>0. /\ work[p] \in Jobs /\ Sound(p, work[p]) /\ Idle \in Jobs
      /\ identity \in [People -> 0..MaxIdentity] /\ held[p] \in Keys \cup {None}
      /\ gen \in 0..MaxGen /\ grant \in [People -> Grants \cup {None}]
      /\ item \in [Items -> Ciphers \cup {None}]
  BY IdleTyped DEF Typed, TypeOK, WorkSound
<1>1. CASE GiveUp(p)
  BY <1>1, IdleTyped, DoesTyped DEF GiveUp
<1>2. CASE CheckSeed(p)
  <2> DEFINE w == [Idle EXCEPT !.stage = "seeding", !.key = [gen |-> 1, by |-> p],
                               !.identity = identity[p]]
  <2>1. w \in Jobs
    <3>1. [gen |-> 1, by |-> p] \in Keys
      BY TeamKeysAssumption DEF Keys
    <3> QED BY <1>0, <3>1 DEF Jobs, Stages
  <2>2. w.stage = "seeding" /\ w.key = [gen |-> 1, by |-> p] /\ w.identity = identity[p]
    BY DEF Idle
  <2>3. identity[p] # 0 /\ Does(p, w)
    BY <1>2 DEF CheckSeed
  <2> HIDE DEF w
  <2>4. Sound(p, w)
    BY <2>2, <2>3 DEF Sound
  <2> QED BY <2>1, <2>3, <2>4, DoesTyped
<1>3. ASSUME NEW q \in People, SealFor(p, q) PROVE work' \in [People -> Jobs] /\ WorkSound'
  <2> DEFINE w == [Idle EXCEPT !.stage = "sealed", !.to = q, !.key = held[p],
                               !.identity = identity[q]]
  <2>1. w \in Jobs
    BY <1>0 DEF Jobs, Stages
  <2>2. w.stage = "sealed" /\ w.to = q /\ w.key = held[p] /\ w.identity = identity[q]
    BY DEF Idle
  <2>3. identity[q] # 0 /\ held[p] \in Keys /\ Does(p, w)
    BY <1>0, <1>3 DEF SealFor, Reachable
  <2> HIDE DEF w
  <2>4. Sound(p, w)
    BY <2>2, <2>3 DEF Sound
  <2> QED BY <2>1, <2>3, <2>4, DoesTyped
<1>4. CASE CheckGrant(p)
  <2>1. At(p, "sealed") /\ Goes(p, "checked")
    BY <1>4 DEF CheckGrant
  <2>2. Sound(p, [work[p] EXCEPT !.stage = "checked"])
    BY <1>0, <2>1 DEF Sound, At, Jobs
  <2> QED BY <2>1, <2>2, GoesTyped DEF Stages
<1>5. CASE CheckRelease(p)
  <2> DEFINE w == [Idle EXCEPT !.stage = "releasing", !.key = grant[p].key,
                               !.identity = grant[p].identity]
  <2>1. grant[p] \in Grants /\ Does(p, w)
    BY <1>0, <1>5 DEF CheckRelease, Current
  <2>2. w \in Jobs
    <3>1. grant[p].key \in Keys /\ grant[p].identity \in 0..MaxIdentity
      BY <2>1, TeamKeysAssumption DEF Grants
    <3> QED BY <1>0, <3>1 DEF Jobs, Stages
  <2>3. w.stage = "releasing"
    BY DEF Idle
  <2> HIDE DEF w
  <2>4. Sound(p, w)
    BY <2>3 DEF Sound
  <2> QED BY <2>1, <2>2, <2>4, DoesTyped
<1>6. CASE StampDrop(p)
  <2> DEFINE w == [work[p] EXCEPT !.stage = "stamped", !.stamp = gen]
  <2>1. At(p, "wrapped") /\ gen >= 1 /\ Does(p, w)
    BY <1>6 DEF StampDrop, Does
  <2>2. w \in Jobs
    BY <1>0 DEF Jobs, Stages
  <2>3. /\ w.stage = "stamped" /\ w.item = work[p].item /\ w.key = work[p].key /\ w.stamp = gen
    BY <1>0 DEF Jobs
  <2> HIDE DEF w
  <2>4. Sound(p, w)
    BY <1>0, <2>1, <2>3 DEF Sound, At
  <2> QED BY <2>1, <2>2, <2>4, DoesTyped
<1>7. CASE ListMembers(p)
  <2> DEFINE seals == [q \in People |-> IF q \in members THEN identity[q] ELSE 0]
             w == [Idle EXCEPT !.stage = "listed", !.key = held[p], !.seals = seals]
  <2>1. held[p] \in Keys /\ held[p].gen < MaxGen /\ Does(p, w)
    BY <1>0, <1>7 DEF ListMembers
  <2>2. seals \in [People -> 0..MaxIdentity]
    BY <1>0, TeamKeysAssumption
  <2> HIDE DEF seals
  <2>3. w \in Jobs
    BY <1>0, <2>1, <2>2 DEF Jobs, Stages
  <2>4. w.stage = "listed" /\ w.key = held[p]
    BY DEF Idle
  <2> HIDE DEF w
  <2>5. Sound(p, w)
    BY <2>1, <2>4 DEF Sound
  <2> QED BY <2>1, <2>3, <2>5, DoesTyped
<1>8. CASE ListItems(p)
  <2> DEFINE w == [work[p] EXCEPT !.stage = "prepared", !.listed = item]
  <2>1. At(p, "listed") /\ Does(p, w)
    BY <1>8 DEF ListItems, Does
  <2>2. w \in Jobs
    BY <1>0 DEF Jobs, Stages
  <2>3. w.stage = "prepared" /\ w.key = work[p].key
    BY <1>0 DEF Jobs
  <2> HIDE DEF w
  <2>4. Sound(p, w)
    BY <1>0, <2>1, <2>3 DEF Sound, At
  <2> QED BY <2>1, <2>2, <2>4, DoesTyped
<1>9. CASE BeginRotation(p)
  <2> DEFINE snap == [outside |-> People \ members,
                      grant |-> [q \in People |-> IF work[p].seals[q] # 0 THEN grant[q] ELSE None],
                      item |-> item]
             w == [work[p] EXCEPT !.stage = "rotating", !.snap = snap]
  <2>1. At(p, "prepared") /\ Does(p, w)
    BY <1>9 DEF BeginRotation, Does
  <2>2. snap \in Snapshots
    BY <1>0 DEF Snapshots
  <2> HIDE DEF snap
  <2>3. w \in Jobs
    BY <1>0, <2>2 DEF Jobs, Stages
  <2>4. w.stage = "rotating" /\ w.key = work[p].key /\ w.snap = snap
    BY <1>0 DEF Jobs
  <2> HIDE DEF w
  <2>5. Sound(p, w)
    BY <1>0, <2>1, <2>2, <2>4 DEF Sound, At
  <2> QED BY <2>1, <2>3, <2>5, DoesTyped
<1>10. ASSUME NEW i \in Items, Wrap(p, i) PROVE work' \in [People -> Jobs] /\ WorkSound'
  <2> DEFINE text == IF item[i] = None THEN 0 ELSE item[i].text + 1
             w == [Idle EXCEPT !.stage = "wrapped", !.item = i, !.key = held[p], !.text = text]
  <2>1. held[p] \in Keys /\ Does(p, w)
    BY <1>0, <1>10 DEF Wrap
  <2>2. text \in 0..MaxText
    <3>1. CASE item[i] = None
      BY <3>1, TeamKeysAssumption
    <3>2. CASE item[i] # None
      <4>1. item[i].text \in 0..MaxText
        BY <1>0, <3>2 DEF Ciphers
      <4>2. item[i].text < MaxText
        BY <1>10, <3>2 DEF Wrap
      <4> QED BY <3>2, <4>1, <4>2, TeamKeysAssumption
    <3> QED BY <3>1, <3>2
  <2> HIDE DEF text
  <2>3. w \in Jobs
    BY <1>0, <2>1, <2>2 DEF Jobs, Stages
  <2>4. w.stage = "wrapped" /\ w.item = i /\ w.key = held[p]
    BY DEF Idle
  <2> HIDE DEF w
  <2>5. Sound(p, w)
    BY <2>1, <2>4 DEF Sound
  <2> QED BY <2>1, <2>3, <2>5, DoesTyped
<1> QED BY <1>1, <1>2, <1>3, <1>4, <1>5, <1>6, <1>7, <1>8, <1>9, <1>10
\* The steps that store something keep the variables well typed.
LEMMA StoringTyped ==
    ASSUME Typed, NEW p \in People,
           \/ Seed(p) \/ WriteGrant(p) \/ Release(p) \/ StoreLocked(p) \/ StoreDrop(p)
           \/ CommitRotation(p)
    PROVE  Typed'
<1>0. /\ work[p] \in Jobs /\ Sound(p, work[p])
      /\ grant \in [People -> Grants \cup {None}] /\ held \in [People -> Keys \cup {None}]
      /\ item \in [Items -> Ciphers \cup {None}] /\ gen \in 0..MaxGen
      /\ identity \in [People -> 0..MaxIdentity]
  BY DEF Typed, TypeOK, WorkSound
<1>1. Does(p, Idle) => work' \in [People -> Jobs] /\ WorkSound'
  BY IdleTyped, DoesTyped
<1>2. \A k \in Keys : k.gen \in 1..MaxGen
  BY DEF Keys
<1>3. ASSUME NEW k \in Keys, NEW n \in 0..MaxIdentity, n # 0
      PROVE  [key |-> k, identity |-> n] \in Grants
  BY <1>3, TeamKeysAssumption DEF Grants
<1>4. work[p].identity \in 0..MaxIdentity /\ work[p].seals \in [People -> 0..MaxIdentity]
      /\ work[p].text \in 0..MaxText /\ work[p].stamp \in 0..MaxGen
      /\ work[p].listed \in [Items -> Ciphers \cup {None}]
  BY <1>0 DEF Jobs
<1>5. CASE Seed(p)
  <2> DEFINE new == [key |-> work[p].key, identity |-> work[p].identity]
  <2>1. At(p, "seeding") /\ Establish(p, [grant EXCEPT ![p] = new])
        /\ outsiders' = People \ (members \cup {p})
        /\ UNCHANGED <<advised, members, leaving, identity, item, churn, missed>>
    BY <1>5 DEF Seed
  <2>2. work[p].key \in Keys /\ work[p].identity # 0
    BY <1>0, <2>1, TeamKeysAssumption DEF Sound, At, Keys
  <2>3. new \in Grants
    BY <1>3, <1>4, <2>2
  <2> HIDE DEF new
  <2>4. gen' \in 0..MaxGen /\ root' \in Keys /\ grant' \in [People -> Grants \cup {None}]
        /\ held' \in [People -> Keys \cup {None}]
    BY <1>0, <1>2, <2>1, <2>2, <2>3 DEF Establish
  <2>5. work' \in [People -> Jobs] /\ WorkSound'
    BY <1>1, <2>1 DEF Establish
  <2> QED BY <2>1, <2>4, <2>5 DEF Typed, TypeOK
<1>6. CASE WriteGrant(p)
  <2> DEFINE new == [key |-> work[p].key, identity |-> work[p].identity]
  <2>1. At(p, "checked") /\ grant' = [grant EXCEPT ![work[p].to] = new] /\ Does(p, Idle)
        /\ UNCHANGED <<gen, advised, members, leaving, identity, item, held, history>>
    BY <1>6 DEF WriteGrant
  <2>2. new \in Grants
    BY <1>0, <1>3, <1>4, <2>1 DEF Sound, At
  <2> HIDE DEF new
  <2>3. grant' \in [People -> Grants \cup {None}]
    BY <1>0, <2>1, <2>2
  <2> QED BY <1>1, <2>1, <2>3 DEF Typed, TypeOK, history
<1>7. CASE Release(p)
  <2>1. grant' \in [People -> Grants \cup {None}] /\ Does(p, Idle)
        /\ UNCHANGED <<gen, advised, members, leaving, identity, item, held, history>>
    BY <1>0, <1>7 DEF Release
  <2> QED BY <1>1, <2>1 DEF Typed, TypeOK, history
<1>8. ASSUME NEW stamp \in 1..MaxGen, Write(p, stamp), work[p].item \in Items, work[p].key \in Keys
      PROVE  Typed'
  <2> DEFINE c == [key |-> work[p].key, stamp |-> stamp, text |-> work[p].text]
  <2>1. /\ item' = [item EXCEPT ![work[p].item] = c] /\ Does(p, Idle)
        /\ missed' = missed \/ missed' = missed \cup {work[p].item}
        /\ UNCHANGED <<gen, advised, members, leaving, identity, grant, held, root, churn, outsiders>>
    BY <1>8 DEF Write
  <2>2. c \in Ciphers
    BY <1>4, <1>8 DEF Ciphers
  <2> HIDE DEF c
  <2>3. item' \in [Items -> Ciphers \cup {None}]
    BY <1>0, <2>1, <2>2
  <2>4. missed' \subseteq Items
    BY <1>8, <2>1 DEF Typed, TypeOK
  <2> QED BY <1>1, <2>1, <2>3, <2>4 DEF Typed, TypeOK
<1>9. CASE StoreLocked(p)
  <2>1. At(p, "wrapped") /\ gen >= 1 /\ Write(p, gen)
    BY <1>9 DEF StoreLocked, StillCurrent
  <2> QED BY <1>0, <1>8, <2>1 DEF Sound, At
<1>10. CASE StoreDrop(p)
  <2>1. At(p, "stamped") /\ Write(p, work[p].stamp)
    BY <1>10 DEF StoreDrop
  <2> QED BY <1>0, <1>4, <1>8, <2>1 DEF Sound, At
<1>11. CASE CommitRotation(p)
  <2> DEFINE w   == work[p]
             new == [gen |-> w.key.gen + 1, by |-> p]
  <2>1. /\ At(p, "rotating")
        /\ gen' = new.gen /\ root' = new /\ advised' = FALSE
        /\ grant' = [q \in People |-> IF w.seals[q] # 0
                                      THEN [key |-> new, identity |-> w.seals[q]] ELSE grant[q]]
        /\ item' = [i \in Items |-> IF w.listed[i] # None
                                    THEN Rekeyed(w.listed[i], w.key, new) ELSE item[i]]
        /\ held' = [held EXCEPT ![p] = new]
        /\ outsiders' = w.snap.outside \ members
        /\ Does(p, Idle)
        /\ UNCHANGED <<members, leaving, identity, churn, missed>>
    BY <1>11 DEF CommitRotation
  <2>2. w.key \in Keys /\ w.key.gen < MaxGen /\ w.snap \in Snapshots
    BY <1>0, <2>1 DEF Sound, At
  <2>3. new \in Keys /\ new.gen \in 1..MaxGen
    BY <1>2, <2>2, TeamKeysAssumption DEF Keys
  <2>4. \A c \in Ciphers : Rekeyed(c, w.key, new) \in Ciphers
    <3> HIDE DEF new
    <3> TAKE c \in Ciphers
    <3>1. [c EXCEPT !.key = new, !.stamp = new.gen] \in Ciphers
      BY <2>3 DEF Ciphers
    <3> QED BY <3>1 DEF Rekeyed
  <2> HIDE DEF new
  <2>5. item' \in [Items -> Ciphers \cup {None}]
    BY <1>0, <1>4, <2>1, <2>4
  <2>6. grant' \in [People -> Grants \cup {None}]
    <3>1. \A q \in People : w.seals[q] # 0 => [key |-> new, identity |-> w.seals[q]] \in Grants
      BY <1>3, <1>4, <2>3
    <3> QED BY <1>0, <2>1, <3>1
  <2>7. held' \in [People -> Keys \cup {None}]
    BY <1>0, <2>1, <2>3
  <2>8. outsiders' \subseteq People
    BY <2>1, <2>2 DEF Snapshots
  <2>9. gen' \in 0..MaxGen /\ root' \in Keys
    BY <2>1, <2>3
  <2> QED BY <1>1, <2>1, <2>5, <2>6, <2>7, <2>8, <2>9 DEF Typed, TypeOK
<1> QED BY <1>5, <1>6, <1>7, <1>9, <1>10, <1>11

\* Every variable is well typed at the start, and every step keeps it so.
LEMMA TypedInit == Init => Typed
<1> SUFFICES ASSUME Init PROVE Typed
  OBVIOUS
<1>1. work = [p \in People |-> Idle] /\ Idle \in Jobs
  BY IdleTyped DEF Init
<1>2. WorkSound /\ work \in [People -> Jobs]
  BY <1>1, IdleTyped DEF WorkSound
<1>3. 0 \in 0..MaxGen /\ 0 \in 0..MaxIdentity /\ 0 \in 0..MaxChurn
  BY TeamKeysAssumption
<1> QED BY <1>2, <1>3 DEF Init, Typed, TypeOK

LEMMA TypedStep ==
    ASSUME Typed, [Next]_vars
    PROVE  Typed'
<1>1. CASE UNCHANGED vars
  BY <1>1 DEF vars, server, history, Typed, TypeOK, WorkSound
<1>2. ASSUME NEW p \in People, PublishIdentity(p) PROVE Typed'
  <2>1. identity' \in [People -> 0..MaxIdentity] /\ grant' \in [People -> Grants \cup {None}]
        /\ churn' \in 0..MaxChurn
    BY <1>2, TeamKeysAssumption DEF PublishIdentity, Typed, TypeOK
  <2> QED BY <1>2, <2>1 DEF PublishIdentity, Typed, TypeOK, WorkSound
<1>3. ASSUME NEW p \in People, FetchKey(p) \/ DropKey(p) PROVE Typed'
  <2>1. held' \in [People -> Keys \cup {None}]
    BY <1>3 DEF FetchKey, DropKey, Current, Typed, TypeOK, Grants
  <2> QED BY <1>3, <2>1 DEF FetchKey, DropKey, server, history, Typed, TypeOK, WorkSound
<1>4. ASSUME NEW p \in People, AddMember(p) \/ RemoveMember(p) \/ RevocationFails(p) PROVE Typed'
  <2>1. members' \subseteq People /\ leaving' \subseteq People /\ outsiders' \subseteq People
        /\ churn' \in 0..MaxChurn
    BY <1>4, TeamKeysAssumption DEF AddMember, RemoveMember, RevocationFails, history, Typed, TypeOK
  <2> QED BY <1>4, <2>1 DEF AddMember, RemoveMember, RevocationFails, history, Typed, TypeOK, WorkSound
<1>5. ASSUME NEW p \in People, RevokeAccess(p) PROVE Typed'
  <2>1. work' \in [People -> Jobs] /\ WorkSound'
    BY <1>5, IdleTyped DEF RevokeAccess, Typed, TypeOK, WorkSound
  <2>2. grant' \in [People -> Grants \cup {None}] /\ leaving' \subseteq People
    BY <1>5 DEF RevokeAccess, Typed, TypeOK
  <2> QED BY <1>5, <2>1, <2>2 DEF RevokeAccess, history, Typed, TypeOK
<1>6. ASSUME NEW p \in People,
             \/ GiveUp(p) \/ CheckSeed(p) \/ CheckGrant(p) \/ CheckRelease(p) \/ StampDrop(p)
             \/ ListMembers(p) \/ ListItems(p) \/ BeginRotation(p)
             \/ \E q \in People : SealFor(p, q)
             \/ \E i \in Items : Wrap(p, i)
      PROVE  Typed'
  <2>1. UNCHANGED <<server, held, history>>
    BY <1>6 DEF GiveUp, CheckSeed, CheckGrant, CheckRelease, StampDrop, ListMembers, ListItems,
                BeginRotation, SealFor, Wrap
  <2> QED BY <1>6, <2>1, PreparationTyped DEF server, history, Typed, TypeOK
<1> QED BY <1>1, <1>2, <1>3, <1>4, <1>5, <1>6, StoringTyped DEF Next
-----------------------------------------------------------------------------
(* One key for each generation.                                            *)

Carrying == {"sealed", "checked", "listed", "prepared", "rotating", "wrapped", "stamped"}

\* A key is in use if a grant holds it, or a browser, in its memory or in what
\* it does.  A key made for a seeding that is not stored yet is not.
InUse(k) ==
    \/ \E p \in People : grant[p] # None /\ grant[p].key = k
    \/ \E p \in People : held[p] # None /\ held[p] = k
    \/ \E p \in People : work[p].stage \in Carrying /\ work[p].key = k

\* No key in use is newer than the generation of the organization, and two of
\* one generation are the same; that of the current generation is the root.
KeysAgree ==
    /\ gen >= 1 => root \in Keys /\ root.gen = gen
    /\ \A k \in Keys : InUse(k) => k.gen <= gen /\ (k.gen = gen => k = root)
    /\ \A k, l \in Keys : InUse(k) /\ InUse(l) /\ k.gen = l.gen => k = l

\* A step brings no key into use, or one that becomes the root of the next
\* generation.
KeepsKeys == UNCHANGED <<gen, root>> /\ \A k \in Keys : InUse(k)' => InUse(k)

MakesKey(new) ==
    /\ gen' = gen + 1 /\ root' = new /\ new.gen = gen'
    /\ \A k \in Keys : InUse(k)' => InUse(k) \/ k = new

\* What a browser does next carries a key that is in use, or none.
LEMMA DoesKeepsKeys ==
    ASSUME Typed, NEW p \in People, NEW w, Does(p, w), UNCHANGED <<grant, held, gen, root>>,
           w.stage \in Carrying => w.key \in Keys /\ InUse(w.key)
    PROVE  KeepsKeys
<1>1. \A q \in People : work'[q] = IF q = p THEN w ELSE work[q]
  BY DEF Does, Typed, TypeOK
<1>2. ASSUME NEW k \in Keys, NEW q \in People, work'[q].stage \in Carrying, work'[q].key = k
      PROVE  InUse(k)
  <2>1. CASE q = p
    BY <1>1, <1>2, <2>1
  <2>2. CASE q # p
    BY <1>1, <1>2, <2>2 DEF InUse
  <2> QED BY <2>1, <2>2
<1>3. ASSUME NEW k \in Keys, InUse(k)' PROVE InUse(k)
  <2>1. CASE \E q \in People : work'[q].stage \in Carrying /\ work'[q].key = k
    BY <1>2, <2>1
  <2> QED BY <1>3, <2>1 DEF InUse
<1> QED BY <1>3 DEF KeepsKeys

LEMMA IdleCarriesNothing == Idle.stage \notin Carrying
BY DEF Idle, Carrying

\* A browser whose job carries a key, or goes on with the key it held, keeps it
\* in use.
LEMMA PreparationKeepsKeys ==
    ASSUME Typed, NEW p \in People,
           \/ GiveUp(p) \/ CheckSeed(p) \/ CheckGrant(p) \/ CheckRelease(p) \/ StampDrop(p)
           \/ ListMembers(p) \/ ListItems(p) \/ BeginRotation(p)
           \/ \E q \in People : SealFor(p, q)
           \/ \E i \in Items : Wrap(p, i)
    PROVE  KeepsKeys
<1>0. /\ work[p] \in Jobs /\ Sound(p, work[p]) /\ held[p] \in Keys \cup {None}
      /\ UNCHANGED <<grant, held, gen, root>>
  <2>1. UNCHANGED <<server, held, history>>
    BY DEF GiveUp, CheckSeed, CheckGrant, CheckRelease, StampDrop, ListMembers, ListItems,
           BeginRotation, SealFor, Wrap
  <2> QED BY <2>1 DEF server, history, Typed, TypeOK, WorkSound
<1>1. CASE GiveUp(p)
  BY <1>0, <1>1, DoesKeepsKeys, IdleCarriesNothing DEF GiveUp
<1>2. CASE CheckSeed(p) \/ CheckRelease(p)
  <2>1. PICK w : Does(p, w) /\ w.stage \in {"seeding", "releasing"}
    <3>1. \A k, n : [Idle EXCEPT !.stage = "seeding", !.key = k, !.identity = n].stage = "seeding"
      BY DEF Idle
    <3>2. \A k, n : [Idle EXCEPT !.stage = "releasing", !.key = k, !.identity = n].stage = "releasing"
      BY DEF Idle
    <3>3. CASE CheckSeed(p)
      BY <3>1, <3>3 DEF CheckSeed
    <3>4. CASE CheckRelease(p)
      BY <3>2, <3>4 DEF CheckRelease
    <3> QED BY <1>2, <3>3, <3>4
  <2> QED BY <1>0, <2>1, DoesKeepsKeys DEF Carrying
<1>3. ASSUME held[p] # None,
             \E w : Does(p, w) /\ w.key = held[p]
      PROVE  KeepsKeys
  <2>1. PICK w : Does(p, w) /\ w.key = held[p]
    BY <1>3
  <2>2. held[p] \in Keys /\ InUse(held[p])
    BY <1>0, <1>3 DEF InUse
  <2> QED BY <1>0, <2>1, <2>2, DoesKeepsKeys
<1>4. ASSUME \/ \E q \in People : SealFor(p, q)
             \/ \E i \in Items : Wrap(p, i)
             \/ ListMembers(p)
      PROVE  held[p] # None /\ \E w : Does(p, w) /\ w.key = held[p]
  <2>1. ASSUME NEW q \in People, SealFor(p, q)
        PROVE  held[p] # None /\ \E w : Does(p, w) /\ w.key = held[p]
    <3> DEFINE w == [Idle EXCEPT !.stage = "sealed", !.to = q, !.key = held[p], !.identity = identity[q]]
    <3>1. held[p] # None /\ Does(p, w)
      BY <2>1 DEF SealFor
    <3>2. w.key = held[p]
      BY DEF Idle
    <3> HIDE DEF w
    <3> QED BY <3>1, <3>2
  <2>2. ASSUME NEW i \in Items, Wrap(p, i)
        PROVE  held[p] # None /\ \E w : Does(p, w) /\ w.key = held[p]
    <3> DEFINE text == IF item[i] = None THEN 0 ELSE item[i].text + 1
               w == [Idle EXCEPT !.stage = "wrapped", !.item = i, !.key = held[p], !.text = text]
    <3>1. held[p] # None /\ Does(p, w)
      BY <2>2 DEF Wrap
    <3> HIDE DEF text
    <3>2. w.key = held[p]
      BY DEF Idle
    <3> HIDE DEF w
    <3> QED BY <3>1, <3>2
  <2>3. \A k, f : [Idle EXCEPT !.stage = "listed", !.key = k, !.seals = f].key = k
    BY DEF Idle
  <2>6. CASE ListMembers(p)
    BY <2>3, <2>6 DEF ListMembers
  <2> QED BY <1>4, <2>1, <2>2, <2>6
<1>5. ASSUME At(p, "sealed") \/ At(p, "wrapped") \/ At(p, "listed") \/ At(p, "prepared"),
             \E w : Does(p, w) /\ w.key = work[p].key
      PROVE  KeepsKeys
  <2>1. PICK w : Does(p, w) /\ w.key = work[p].key
    BY <1>5
  <2>2. work[p].key \in Keys /\ work[p].stage \in Carrying
    BY <1>0, <1>5 DEF At, Sound, Carrying
  <2> QED BY <1>0, <2>1, <2>2, DoesKeepsKeys DEF InUse
<1>6. ASSUME CheckGrant(p) \/ StampDrop(p) \/ ListItems(p) \/ BeginRotation(p)
      PROVE  /\ At(p, "sealed") \/ At(p, "wrapped") \/ At(p, "listed") \/ At(p, "prepared")
             /\ \E w : Does(p, w) /\ w.key = work[p].key
  <2>1. CASE CheckGrant(p)
    <3> DEFINE w == [work[p] EXCEPT !.stage = "checked"]
    <3>1. At(p, "sealed") /\ Does(p, w)
      BY <2>1 DEF CheckGrant, Does, Goes
    <3>2. w.key = work[p].key
      BY <1>0 DEF Jobs
    <3> QED BY <3>1, <3>2
  <2>2. CASE StampDrop(p)
    <3> DEFINE w == [work[p] EXCEPT !.stage = "stamped", !.stamp = gen]
    <3>1. At(p, "wrapped") /\ Does(p, w)
      BY <2>2 DEF StampDrop, Does
    <3>2. w.key = work[p].key
      BY <1>0 DEF Jobs
    <3> QED BY <3>1, <3>2
  <2>3. CASE ListItems(p)
    <3> DEFINE w == [work[p] EXCEPT !.stage = "prepared", !.listed = item]
    <3>1. At(p, "listed") /\ Does(p, w)
      BY <2>3 DEF ListItems, Does
    <3>2. w.key = work[p].key
      BY <1>0 DEF Jobs
    <3> QED BY <3>1, <3>2
  <2>4. CASE BeginRotation(p)
    <3>1. PICK snap : work' = [work EXCEPT ![p].stage = "rotating", ![p].snap = snap]
      BY <2>4 DEF BeginRotation
    <3> DEFINE w == [work[p] EXCEPT !.stage = "rotating", !.snap = snap]
    <3>2. At(p, "prepared") /\ Does(p, w)
      BY <2>4, <3>1 DEF BeginRotation, Does
    <3>3. w.key = work[p].key
      BY <1>0 DEF Jobs
    <3> QED BY <3>2, <3>3
  <2> QED BY <1>6, <2>1, <2>2, <2>3, <2>4
<1> QED BY <1>1, <1>2, <1>3, <1>4, <1>5, <1>6

\* What a store ends, leaves nothing behind but the key it stored.
LEMMA StoreEnds ==
    ASSUME Typed, NEW p \in People, Does(p, Idle), NEW k \in Keys, InUse(k)'
    PROVE  \/ \E q \in People : grant'[q] # None /\ grant'[q].key = k
           \/ \E q \in People : held'[q] # None /\ held'[q] = k
           \/ InUse(k)
<1>1. \A q \in People : work'[q] = IF q = p THEN Idle ELSE work[q]
  BY DEF Does, Typed, TypeOK
<1>2. ASSUME NEW q \in People, work'[q].stage \in Carrying, work'[q].key = k
      PROVE  InUse(k)
  BY <1>1, <1>2, IdleCarriesNothing DEF InUse
<1> QED BY <1>2 DEF InUse

\* The steps that store something bring no key into use but the next root.
LEMMA StoringKeys ==
    ASSUME Typed, KeysAgree, NEW p \in People,
           \/ Seed(p) \/ WriteGrant(p) \/ Release(p) \/ StoreLocked(p) \/ StoreDrop(p)
           \/ CommitRotation(p)
    PROVE  KeepsKeys \/ \E new \in Keys : MakesKey(new)
<1>0. /\ work[p] \in Jobs /\ Sound(p, work[p]) /\ gen \in Nat
      /\ grant \in [People -> Grants \cup {None}] /\ held \in [People -> Keys \cup {None}]
  BY TeamKeysAssumption DEF Typed, TypeOK, WorkSound
<1>1. CASE StoreLocked(p) \/ StoreDrop(p)
  <2>1. Does(p, Idle) /\ UNCHANGED <<grant, held, gen, root>>
    BY <1>1 DEF StoreLocked, StoreDrop, Write
  <2> QED BY <2>1, DoesKeepsKeys, IdleCarriesNothing
<1>2. CASE Release(p)
  <2>1. Does(p, Idle) /\ UNCHANGED <<gen, root, held>>
    BY <1>2 DEF Release, history
  <2>2. \A q \in People : grant'[q] # None => grant'[q] = grant[q]
    BY <1>0, <1>2 DEF Release
  <2> QED BY <2>1, <2>2, StoreEnds DEF KeepsKeys, InUse
<1>3. CASE WriteGrant(p)
  <2>1. At(p, "checked") /\ Does(p, Idle) /\ UNCHANGED <<gen, root, held>>
        /\ grant' = [grant EXCEPT ![work[p].to] = [key |-> work[p].key, identity |-> work[p].identity]]
    BY <1>3 DEF WriteGrant, history
  <2>2. work[p].key \in Keys /\ InUse(work[p].key)
    BY <1>0, <2>1 DEF Sound, At, InUse, Carrying
  <2>3. \A q \in People : grant'[q] = grant[q] \/ grant'[q].key = work[p].key
    BY <1>0, <2>1
  <2> QED BY <2>1, <2>2, <2>3, StoreEnds DEF KeepsKeys, InUse
<1>4. CASE Seed(p)
  <2>1. /\ At(p, "seeding") /\ gen = 0 /\ Does(p, Idle)
        /\ gen' = work[p].key.gen /\ root' = work[p].key
        /\ grant' = [grant EXCEPT ![p] = [key |-> work[p].key, identity |-> work[p].identity]]
        /\ held' = [held EXCEPT ![p] = work[p].key]
    BY <1>4 DEF Seed, Establish
  <2>2. work[p].key = [gen |-> 1, by |-> p] /\ work[p].key \in Keys
    BY <1>0, <2>1, TeamKeysAssumption DEF Sound, At, Keys
  <2>3. \A q \in People : grant'[q] = grant[q] \/ grant'[q].key = work[p].key
    BY <1>0, <2>1
  <2>4. \A q \in People : held'[q] = held[q] \/ held'[q] = work[p].key
    BY <1>0, <2>1
  <2>5. MakesKey(work[p].key)
    BY <2>1, <2>2, <2>3, <2>4, StoreEnds DEF MakesKey, InUse
  <2> QED BY <2>2, <2>5
<1>5. CASE CommitRotation(p)
  <2> DEFINE new == [gen |-> work[p].key.gen + 1, by |-> p]
  <2>1. /\ At(p, "rotating") /\ gen = work[p].key.gen /\ Does(p, Idle)
        /\ gen' = new.gen /\ root' = new
        /\ grant' = [q \in People |-> IF work[p].seals[q] # 0
                                      THEN [key |-> new, identity |-> work[p].seals[q]] ELSE grant[q]]
        /\ held' = [held EXCEPT ![p] = new]
    BY <1>5 DEF CommitRotation, Unconflicted
  <2>2. work[p].key \in Keys /\ work[p].key.gen < MaxGen
    BY <1>0, <2>1 DEF Sound, At
  <2>3. new \in Keys /\ new.gen = gen + 1
    BY <2>1, <2>2, TeamKeysAssumption DEF Keys
  <2> HIDE DEF new
  <2>4. \A q \in People : grant'[q] = grant[q] \/ grant'[q].key = new
    BY <1>0, <2>1
  <2>5. \A q \in People : held'[q] = held[q] \/ held'[q] = new
    BY <1>0, <2>1
  <2>6. MakesKey(new)
    BY <2>1, <2>3, <2>4, <2>5, StoreEnds DEF MakesKey, InUse
  <2> QED BY <2>3, <2>6
<1> QED BY <1>1, <1>2, <1>3, <1>4, <1>5

\* So does every step.
LEMMA KeySteps ==
    ASSUME Typed, KeysAgree, [Next]_vars
    PROVE  KeepsKeys \/ \E new \in Keys : MakesKey(new)
<1>0. grant \in [People -> Grants \cup {None}] /\ held \in [People -> Keys \cup {None}]
      /\ work \in [People -> Jobs]
  BY DEF Typed, TypeOK
<1>1. CASE UNCHANGED vars
  BY <1>1 DEF vars, server, history, KeepsKeys, InUse
<1>2. ASSUME NEW p \in People, PublishIdentity(p) PROVE KeepsKeys
  <2>1. \A q \in People : grant'[q] # None => grant'[q] = grant[q]
    BY <1>0, <1>2 DEF PublishIdentity
  <2> QED BY <1>2, <2>1 DEF PublishIdentity, KeepsKeys, InUse
<1>3. ASSUME NEW p \in People, FetchKey(p) PROVE KeepsKeys
  <2>1. grant[p] # None /\ UNCHANGED <<gen, root, grant, work>>
        /\ \A q \in People : held'[q] = IF q = p THEN grant[p].key ELSE held[q]
    BY <1>0, <1>3 DEF FetchKey, Current, server, history
  <2>2. ASSUME NEW k \in Keys, NEW q \in People, held'[q] # None, held'[q] = k PROVE InUse(k)
    BY <2>1, <2>2 DEF InUse
  <2>3. ASSUME NEW k \in Keys, InUse(k)' PROVE InUse(k)
    BY <2>1, <2>2, <2>3 DEF InUse
  <2> QED BY <2>1, <2>3 DEF KeepsKeys
<1>4. ASSUME NEW p \in People, DropKey(p) PROVE KeepsKeys
  <2>1. \A q \in People : held'[q] # None => held'[q] = held[q]
    BY <1>0, <1>4 DEF DropKey
  <2> QED BY <1>4, <2>1 DEF DropKey, server, history, KeepsKeys, InUse
<1>5. ASSUME NEW p \in People, AddMember(p) \/ RemoveMember(p) \/ RevocationFails(p) PROVE KeepsKeys
  BY <1>5 DEF AddMember, RemoveMember, RevocationFails, history, KeepsKeys, InUse
<1>6. ASSUME NEW p \in People, RevokeAccess(p) PROVE KeepsKeys
  <2>1. \A q \in People : grant'[q] # None => grant'[q] = grant[q]
    BY <1>0, <1>6 DEF RevokeAccess
  <2>2. \A q \in People : work'[q].stage \in Carrying => work'[q] = work[q]
    BY <1>0, <1>6, IdleCarriesNothing DEF RevokeAccess
  <2> QED BY <1>6, <2>1, <2>2 DEF RevokeAccess, history, KeepsKeys, InUse
<1> QED BY <1>1, <1>2, <1>3, <1>4, <1>5, <1>6, PreparationKeepsKeys, StoringKeys DEF Next

\* The keys in use agree at the start, and every step keeps them so.
LEMMA KeysAgreeInit == Init => KeysAgree
<1> SUFFICES ASSUME Init PROVE KeysAgree
  OBVIOUS
<1>1. gen = 0
  BY DEF Init
<1>2. \A k \in Keys : ~InUse(k)
  BY IdleCarriesNothing DEF Init, InUse
<1> QED BY <1>1, <1>2 DEF KeysAgree

LEMMA KeysAgreeStep ==
    ASSUME Typed, KeysAgree, [Next]_vars
    PROVE  KeysAgree'
<1>0. gen \in Nat /\ \A k \in Keys : k.gen \in Nat
  BY TeamKeysAssumption DEF Typed, TypeOK, Keys
<1>1. CASE KeepsKeys
  BY <1>1 DEF KeepsKeys, KeysAgree
<1>2. ASSUME NEW new \in Keys, MakesKey(new) PROVE KeysAgree'
  <2>1. \A k \in Keys : InUse(k)' => k = new \/ (InUse(k) /\ k.gen < new.gen)
    BY <1>0, <1>2 DEF MakesKey, KeysAgree
  <2>2. gen' = new.gen /\ root' = new
    BY <1>2 DEF MakesKey
  <2>3. \A k, l \in Keys : InUse(k)' /\ InUse(l)' /\ k.gen = l.gen => k = l
    BY <1>0, <2>1 DEF KeysAgree
  <2>4. \A k \in Keys : InUse(k)' => k.gen <= gen' /\ (k.gen = gen' => k = root')
    BY <1>0, <2>1, <2>2
  <2> QED BY <2>2, <2>3, <2>4 DEF KeysAgree
<1> QED BY <1>1, <1>2, KeySteps
-----------------------------------------------------------------------------
(* What is encrypted stays readable, and rotations change no text.         *)

\* What a browser knows in each stage of what it does, when the generation is g,
\* the items are those in c, and the items in m were first written during a
\* rotation.
JobFits(w, g, c, m) ==
    /\ w.stage \in {"wrapped", "stamped"} /\ Kind[w.item] # "label" => w.text = 0
    /\ w.stage = "stamped" => Kind[w.item] = "drop" /\ g >= 1
    /\ w.stage \in {"prepared", "rotating"} =>
          \A i \in Items : w.listed[i] # None /\ Kind[i] # "label"
                           => w.listed[i].text = 0 /\ w.listed[i].key = w.key
    /\ w.stage = "rotating" =>
          \A i \in Items :
             /\ w.listed[i] # None => w.snap.item[i] # None
             /\ w.listed[i] # None /\ Kind[i] = "label" => w.snap.item[i] = w.listed[i]
             /\ i \notin m /\ w.listed[i] # None /\ Kind[i] # "drop" => w.listed[i].key = w.key
             /\ i \notin m /\ w.listed[i] = None => c[i] = None

ItemsFit ==
    /\ \A i \in Items : item[i] # None /\ Kind[i] # "label" => item[i].text = 0
    /\ gen = 0 => \A i \in Items : item[i] = None
    /\ ItemsReadable

JobsFit == \A p \in People : JobFits(work[p], gen, item, missed)

Contents == ItemsFit /\ JobsFit

Neutral == {"idle", "seeding", "sealed", "checked", "releasing", "listed"}

LEMMA NeutralFits ==
    ASSUME NEW w, w.stage \in Neutral, NEW g, NEW c, NEW m
    PROVE  JobFits(w, g, c, m)
BY DEF JobFits, Neutral

\* What a browser does still fits, if no generation is lost and whatever is first
\* written while it rotates is marked.
LEMMA JobStays ==
    ASSUME NEW w, NEW g, NEW c, NEW m, NEW g2, NEW c2, NEW m2, JobFits(w, g, c, m),
           g >= 1 => g2 >= 1, m \subseteq m2,
           w.stage = "rotating" => \A i \in Items \ m2 : c[i] = None => c2[i] = None
    PROVE  JobFits(w, g2, c2, m2)
BY DEF JobFits

\* One browser goes on to a job that fits, and no item changes.
LEMMA DoesFits ==
    ASSUME Typed, Contents, NEW p \in People, NEW w, Does(p, w), JobFits(w, gen, item, missed),
           UNCHANGED <<gen, root, item, missed>>
    PROVE  Contents'
<1>1. \A q \in People : work'[q] = IF q = p THEN w ELSE work[q]
  BY DEF Does, Typed, TypeOK
<1>2. ItemsFit'
  BY DEF Contents, ItemsFit, ItemsReadable
<1>3. \A q \in People : JobFits(work'[q], gen, item, missed)
  BY <1>1 DEF Contents, JobsFit
<1>4. JobsFit'
  BY <1>3 DEF JobsFit
<1> QED BY <1>2, <1>4 DEF Contents

\* The steps of a browser that only change what it does.
LEMMA PreparationFits ==
    ASSUME Typed, KeysAgree, Contents, NEW p \in People,
           \/ GiveUp(p) \/ CheckSeed(p) \/ CheckGrant(p) \/ CheckRelease(p) \/ StampDrop(p)
           \/ ListMembers(p) \/ ListItems(p) \/ BeginRotation(p)
           \/ \E q \in People : SealFor(p, q)
           \/ \E i \in Items : Wrap(p, i)
    PROVE  Contents'
<1>0. /\ work[p] \in Jobs /\ Sound(p, work[p]) /\ JobFits(work[p], gen, item, missed) /\ ItemsFit
      /\ UNCHANGED <<gen, root, item, missed>>
  <2>1. UNCHANGED <<server, held, history>>
    BY DEF GiveUp, CheckSeed, CheckGrant, CheckRelease, StampDrop, ListMembers, ListItems,
           BeginRotation, SealFor, Wrap
  <2> QED BY <2>1 DEF server, history, Typed, TypeOK, WorkSound, Contents, JobsFit
<1>1. ASSUME NEW w, Does(p, w), w.stage \in Neutral PROVE Contents'
  BY <1>0, <1>1, NeutralFits, DoesFits
<1>2. CASE GiveUp(p)
  BY <1>1, <1>2 DEF GiveUp, Idle, Neutral
<1>3. CASE CheckSeed(p)
  <2>1. [Idle EXCEPT !.stage = "seeding", !.key = [gen |-> 1, by |-> p], !.identity = identity[p]].stage
        = "seeding"
    BY DEF Idle
  <2> QED BY <1>1, <1>3, <2>1 DEF CheckSeed, Neutral
<1>4. CASE CheckRelease(p)
  <2>1. [Idle EXCEPT !.stage = "releasing", !.key = grant[p].key, !.identity = grant[p].identity].stage
        = "releasing"
    BY DEF Idle
  <2> QED BY <1>1, <1>4, <2>1 DEF CheckRelease, Neutral
<1>5. CASE ListMembers(p)
  <2>1. PICK seals : Does(p, [Idle EXCEPT !.stage = "listed", !.key = held[p], !.seals = seals])
    BY <1>5 DEF ListMembers
  <2>2. [Idle EXCEPT !.stage = "listed", !.key = held[p], !.seals = seals].stage = "listed"
    BY DEF Idle
  <2> QED BY <1>1, <2>1, <2>2 DEF Neutral
<1>6. ASSUME NEW q \in People, SealFor(p, q) PROVE Contents'
  <2>1. [Idle EXCEPT !.stage = "sealed", !.to = q, !.key = held[p], !.identity = identity[q]].stage
        = "sealed"
    BY DEF Idle
  <2> QED BY <1>1, <1>6, <2>1 DEF SealFor, Neutral
<1>7. CASE CheckGrant(p)
  <2>1. [work[p] EXCEPT !.stage = "checked"].stage = "checked"
    BY <1>0 DEF Jobs
  <2> QED BY <1>1, <1>7, <2>1 DEF CheckGrant, Goes, Does, Neutral
<1>8. ASSUME NEW i \in Items, Wrap(p, i) PROVE Contents'
  <2> DEFINE text == IF item[i] = None THEN 0 ELSE item[i].text + 1
             w == [Idle EXCEPT !.stage = "wrapped", !.item = i, !.key = held[p], !.text = text]
  <2>1. Does(p, w) /\ (Kind[i] # "label" => text = 0)
    BY <1>8 DEF Wrap
  <2> HIDE DEF text
  <2>2. w.stage = "wrapped" /\ w.item = i /\ w.text = text
    BY DEF Idle
  <2> HIDE DEF w
  <2>3. JobFits(w, gen, item, missed)
    BY <2>1, <2>2 DEF JobFits
  <2> QED BY <1>0, <2>1, <2>3, DoesFits
<1>9. CASE StampDrop(p)
  <2> DEFINE w == [work[p] EXCEPT !.stage = "stamped", !.stamp = gen]
  <2>1. At(p, "wrapped") /\ Kind[work[p].item] = "drop" /\ gen >= 1 /\ Does(p, w)
    BY <1>9 DEF StampDrop, Does
  <2>2. w.stage = "stamped" /\ w.item = work[p].item /\ w.text = work[p].text
    BY <1>0 DEF Jobs
  <2> HIDE DEF w
  <2>3. JobFits(w, gen, item, missed)
    BY <1>0, <2>1, <2>2 DEF JobFits, At
  <2> QED BY <1>0, <2>1, <2>3, DoesFits
<1>10. CASE ListItems(p)
  <2> DEFINE w == [work[p] EXCEPT !.stage = "prepared", !.listed = item]
  <2>1. /\ Does(p, w)
        /\ \A i \in Items : item[i] # None /\ Kind[i] # "label" => item[i].key = work[p].key
    BY <1>10 DEF ListItems, Does
  <2>2. w.stage = "prepared" /\ w.listed = item /\ w.key = work[p].key
    BY <1>0 DEF Jobs
  <2> HIDE DEF w
  <2>3. JobFits(w, gen, item, missed)
    BY <1>0, <2>1, <2>2 DEF JobFits, ItemsFit
  <2> QED BY <1>0, <2>1, <2>3, DoesFits
<1>11. CASE BeginRotation(p)
  <2>1. PICK outside, granted :
           work' = [work EXCEPT ![p].stage = "rotating",
                                ![p].snap = [outside |-> outside, grant |-> granted, item |-> item]]
    BY <1>11 DEF BeginRotation
  <2> DEFINE snap == [outside |-> outside, grant |-> granted, item |-> item]
             w == [work[p] EXCEPT !.stage = "rotating", !.snap = snap]
  <2>2. Does(p, w)
    BY <2>1 DEF Does
  <2>3. At(p, "prepared") /\ gen = work[p].key.gen /\ SameItems(work[p])
    BY <1>11 DEF BeginRotation
  <2>4. w.stage = "rotating" /\ w.listed = work[p].listed /\ w.key = work[p].key /\ w.snap.item = item
    BY <1>0 DEF Jobs
  <2> HIDE DEF w
  <2>5. work[p].key = root
    <3>1. work[p].key \in Keys /\ InUse(work[p].key)
      BY <1>0, <2>3 DEF Sound, At, InUse, Carrying
    <3> QED BY <2>3, <3>1 DEF KeysAgree
  <2>6. \A i \in Items :
           /\ w.listed[i] # None => item[i] # None
           /\ w.listed[i] # None /\ Kind[i] = "label" => item[i] = w.listed[i]
           /\ w.listed[i] = None => item[i] = None
           /\ w.listed[i] # None /\ Kind[i] # "label" => w.listed[i].text = 0 /\ w.listed[i].key = w.key
    BY <1>0, <2>3, <2>4 DEF SameItems, JobFits, At
  <2>7. \A i \in Items : i \notin missed /\ w.listed[i] # None /\ Kind[i] # "drop" => w.listed[i].key = w.key
    BY <1>0, <2>4, <2>5, <2>6 DEF ItemsFit, ItemsReadable
  <2>8. JobFits(w, gen, item, missed)
    BY <2>4, <2>6, <2>7 DEF JobFits
  <2> QED BY <1>0, <2>2, <2>8, DoesFits
<1> QED BY <1>2, <1>3, <1>4, <1>5, <1>6, <1>7, <1>8, <1>9, <1>10, <1>11
\* A store of an item leaves them fit.
LEMMA WriteFits ==
    ASSUME Typed, KeysAgree, Contents, NEW p \in People, StoreLocked(p) \/ StoreDrop(p)
    PROVE  Contents'
<1> DEFINE x == work[p].item
<1>0. /\ work[p] \in Jobs /\ Sound(p, work[p]) /\ JobFits(work[p], gen, item, missed) /\ ItemsFit
      /\ item \in [Items -> Ciphers \cup {None}] /\ work \in [People -> Jobs] /\ gen \in Nat
  BY TeamKeysAssumption DEF Typed, TypeOK, WorkSound, Contents, JobsFit
<1>1. PICK stamp : Write(p, stamp)
  BY DEF StoreLocked, StoreDrop
<1>2. work[p].stage \in {"wrapped", "stamped"}
  BY DEF StoreLocked, StoreDrop, At
<1>3. gen >= 1
  BY <1>0 DEF StoreLocked, StoreDrop, StillCurrent, JobFits, At
<1>4. Kind[x] # "drop" => work[p].key = root
  <2>1. SUFFICES ASSUME Kind[x] # "drop" PROVE work[p].key = root
    OBVIOUS
  <2>2. work[p].key.gen = gen
    BY <1>0, <2>1 DEF StoreLocked, StoreDrop, StillCurrent, JobFits, At
  <2>3. work[p].key \in Keys /\ InUse(work[p].key)
    BY <1>0, <1>2 DEF Sound, InUse, Carrying
  <2> QED BY <2>2, <2>3 DEF KeysAgree
<1>5. Kind[x] # "label" => work[p].text = 0
  BY <1>0, <1>2 DEF JobFits
<1> DEFINE c == [key |-> work[p].key, stamp |-> stamp, text |-> work[p].text]
<1>6. /\ item' = [item EXCEPT ![x] = c] /\ Does(p, Idle) /\ UNCHANGED <<gen, root>>
      /\ missed' = IF item[x] = None /\ \E q \in People : At(q, "rotating")
                   THEN missed \cup {x} ELSE missed
  BY <1>1 DEF Write
<1>7. c.key = work[p].key /\ c.text = work[p].text
  OBVIOUS
<1> HIDE DEF c, x
<1>8. \A i \in Items : item'[i] = IF i = x THEN c ELSE item[i]
  BY <1>0, <1>6
<1>9. ItemsFit'
  <2>1. missed \subseteq missed'
    BY <1>6
  <2>2. \A i \in Items : item'[i] # None /\ Kind[i] # "label" => item'[i].text = 0
    BY <1>0, <1>5, <1>7, <1>8 DEF ItemsFit
  <2>3. \A i \in Items : item'[i] # None /\ Kind[i] # "drop" /\ i \notin missed' => item'[i].key = root'
    BY <1>0, <1>4, <1>6, <1>7, <1>8, <2>1 DEF ItemsFit, ItemsReadable
  <2> QED BY <1>3, <1>6, <2>2, <2>3 DEF ItemsFit, ItemsReadable
<1>10. ASSUME NEW q \in People PROVE JobFits(work'[q], gen', item', missed')
  <2>1. CASE q = p
    <3>1. work'[q].stage \in Neutral
      BY <1>0, <1>6, <2>1 DEF Does, Idle, Neutral
    <3> QED BY <3>1, NeutralFits
  <2>2. CASE q # p
    <3>1. work'[q] = work[q] /\ JobFits(work[q], gen, item, missed)
      BY <1>0, <1>6, <2>2 DEF Does, Contents, JobsFit
    <3>2. work[q].stage = "rotating" => \A i \in Items \ missed' : item[i] = None => item'[i] = None
      BY <1>6, <1>8 DEF At
    <3>3. missed \subseteq missed'
      BY <1>6
    <3>4. JobFits(work[q], gen', item', missed')
      BY <1>6, <3>1, <3>2, <3>3, JobStays
    <3> QED BY <3>1, <3>4
  <2> QED BY <2>1, <2>2
<1> QED BY <1>9, <1>10 DEF Contents, JobsFit

\* What a rotation does to an item.
LEMMA RotatedItems ==
    ASSUME Typed, Contents, NEW p \in People, CommitRotation(p), NEW i \in Items
    PROVE  /\ item[i] = None <=> item'[i] = None
           /\ item[i] # None => item'[i].text = item[i].text
           /\ item'[i] # None /\ Kind[i] # "drop" /\ i \notin missed => item'[i].key = root'
<1> DEFINE w == work[p]
           new == [gen |-> w.key.gen + 1, by |-> p]
           l == w.listed[i]
<1>0. /\ w \in Jobs /\ Sound(p, w) /\ JobFits(w, gen, item, missed) /\ ItemsFit
      /\ item \in [Items -> Ciphers \cup {None}]
  BY DEF Typed, TypeOK, WorkSound, Contents, JobsFit
<1>1. /\ w.stage = "rotating" /\ root' = new
      /\ l # None => item[i] = w.snap.item[i]
      /\ item' = [j \in Items |-> IF w.listed[j] # None
                                  THEN Rekeyed(w.listed[j], w.key, new) ELSE item[j]]
  BY DEF CommitRotation, At, Unconflicted
<1>2. l \in Ciphers \cup {None}
  BY <1>0 DEF Jobs
<1>3. /\ l # None => w.snap.item[i] # None
      /\ l # None /\ Kind[i] # "label" => l.text = 0
      /\ l # None /\ Kind[i] = "label" => w.snap.item[i] = l
      /\ i \notin missed /\ l # None /\ Kind[i] # "drop" => l.key = w.key
      /\ i \notin missed /\ l = None => item[i] = None
  BY <1>0, <1>1 DEF JobFits
<1>4. item'[i] = IF l # None THEN Rekeyed(l, w.key, new) ELSE item[i]
  BY <1>1
<1> HIDE DEF new, l, w
<1>5. CASE l # None
  <2>1. l \in Ciphers /\ item'[i] = Rekeyed(l, w.key, new)
    BY <1>2, <1>4, <1>5
  <2>2. [l EXCEPT !.key = new, !.stamp = new.gen].text = l.text
        /\ [l EXCEPT !.key = new, !.stamp = new.gen].key = new
    BY <2>1 DEF Ciphers
  <2>3. item'[i].text = l.text /\ (l.key = w.key => item'[i].key = new)
    BY <2>1, <2>2 DEF Rekeyed
  <2>4. item[i] # None /\ item[i].text = l.text
    BY <1>0, <1>1, <1>3, <1>5 DEF ItemsFit
  <2>5. item'[i] # None
    <3>1. CASE l.key = w.key
      <4>1. new \in Keys /\ new.gen \in 1..MaxGen
        BY <1>0, <1>1, TeamKeysAssumption DEF Sound, Keys, new
      <4>2. [l EXCEPT !.key = new, !.stamp = new.gen] \in Ciphers
        BY <2>1, <4>1 DEF Ciphers
      <4> QED BY <2>1, <3>1, <4>2, TeamKeysAssumption DEF Rekeyed
    <3>2. CASE l.key # w.key
      BY <1>5, <2>1, <3>2 DEF Rekeyed
    <3> QED BY <3>1, <3>2
  <2> QED BY <1>1, <1>3, <1>5, <2>3, <2>4, <2>5
<1>6. CASE l = None
  BY <1>3, <1>4, <1>6
<1> QED BY <1>5, <1>6

\* Every step leaves the items fit.
LEMMA ContentsStep ==
    ASSUME Typed, KeysAgree, Contents, [Next]_vars
    PROVE  Contents'
<1>0. /\ work \in [People -> Jobs] /\ gen \in Nat /\ ItemsFit
      /\ \A q \in People : Sound(q, work[q]) /\ JobFits(work[q], gen, item, missed)
  BY TeamKeysAssumption DEF Typed, TypeOK, WorkSound, Contents, JobsFit
<1>1. ASSUME UNCHANGED <<gen, root, item, missed>>,
             \A q \in People : work'[q] = work[q] \/ work'[q].stage \in Neutral
      PROVE  Contents'
  <2>1. ItemsFit'
    BY <1>0, <1>1 DEF ItemsFit, ItemsReadable
  <2>2. \A q \in People : JobFits(work'[q], gen, item, missed)
    BY <1>0, <1>1, NeutralFits
  <2> QED BY <1>1, <2>1, <2>2 DEF Contents, JobsFit
<1>2. Idle.stage \in Neutral
  BY DEF Idle, Neutral
<1>3. CASE UNCHANGED vars
  BY <1>1, <1>3 DEF vars, server, history
<1>4. ASSUME NEW p \in People,
             \/ PublishIdentity(p) \/ FetchKey(p) \/ DropKey(p)
             \/ AddMember(p) \/ RemoveMember(p) \/ RevocationFails(p)
      PROVE  Contents'
  BY <1>1, <1>4 DEF PublishIdentity, FetchKey, DropKey, AddMember, RemoveMember, RevocationFails,
                    server, history
<1>5. ASSUME NEW p \in People, WriteGrant(p) \/ Release(p) PROVE Contents'
  <2>1. Does(p, Idle) /\ UNCHANGED <<gen, root, item, missed>>
    BY <1>5 DEF WriteGrant, Release, history
  <2> QED BY <1>0, <1>1, <1>2, <2>1 DEF Does
<1>6. ASSUME NEW p \in People, RevokeAccess(p) PROVE Contents'
  <2>1. UNCHANGED <<gen, root, item, missed>>
        /\ work' = [q \in People |-> IF At(q, "rotating") THEN Idle ELSE work[q]]
    BY <1>6 DEF RevokeAccess, history
  <2> QED BY <1>1, <1>2, <2>1
<1>7. ASSUME NEW p \in People, Does(p, Idle), gen' >= 1, UNCHANGED missed,
             \A i \in Items : item[i] = None => item'[i] = None,
             \A i \in Items : item'[i] # None /\ Kind[i] # "label" => item'[i].text = 0,
             ItemsReadable'
      PROVE  Contents'
  <2>1. ItemsFit'
    BY <1>7 DEF ItemsFit
  <2>2. ASSUME NEW q \in People PROVE JobFits(work'[q], gen', item', missed')
    <3>1. CASE q = p
      BY <1>0, <1>2, <1>7, <3>1, NeutralFits DEF Does
    <3>2. CASE q # p
      <4>1. work'[q] = work[q]
        BY <1>0, <1>7, <3>2 DEF Does
      <4>2. JobFits(work[q], gen', item', missed')
        BY <1>0, <1>7, JobStays
      <4> QED BY <4>1, <4>2
    <3> QED BY <3>1, <3>2
  <2> QED BY <2>1, <2>2 DEF Contents, JobsFit
<1>8. ASSUME NEW p \in People, Seed(p) PROVE Contents'
  <2>1. gen = 0 /\ At(p, "seeding") /\ gen' = work[p].key.gen /\ Does(p, Idle) /\ UNCHANGED <<item, missed>>
    BY <1>8 DEF Seed, Establish
  <2>2. gen' >= 1
    <3>1. work[p].key = [gen |-> 1, by |-> p]
      BY <1>0, <2>1 DEF Sound, At
    <3>2. gen' = 1
      BY <2>1, <3>1
    <3> QED BY <3>2
  <2>3. \A i \in Items : item'[i] = None
    BY <1>0, <2>1 DEF ItemsFit
  <2> QED BY <1>7, <2>1, <2>2, <2>3 DEF ItemsReadable
<1>9. ASSUME NEW p \in People, CommitRotation(p) PROVE Contents'
  <2>1. Does(p, Idle) /\ UNCHANGED missed /\ gen' = work[p].key.gen + 1 /\ gen = work[p].key.gen
    BY <1>9 DEF CommitRotation, Unconflicted
  <2>2. gen' >= 1
    BY <1>0, <2>1
  <2>3. \A i \in Items : item'[i] # None /\ Kind[i] # "label" => item'[i].text = 0
    BY <1>0, <1>9, RotatedItems DEF ItemsFit
  <2>4. ItemsReadable'
    BY <1>9, <2>1, RotatedItems DEF ItemsReadable
  <2>5. \A i \in Items : item[i] = None => item'[i] = None
    BY <1>9, RotatedItems
  <2> QED BY <1>7, <2>1, <2>2, <2>3, <2>4, <2>5
<1> QED BY <1>3, <1>4, <1>5, <1>6, <1>8, <1>9, PreparationFits, WriteFits DEF Next

LEMMA ContentsInit == Init => Contents
<1> SUFFICES ASSUME Init PROVE Contents
  OBVIOUS
<1>1. ItemsFit
  BY DEF Init, ItemsFit, ItemsReadable
<1>2. \A p \in People : work[p].stage \in Neutral
  BY DEF Init, Idle, Neutral
<1> QED BY <1>1, <1>2, NeutralFits DEF Contents, JobsFit
-----------------------------------------------------------------------------
(* Who is removed before a rotation has nothing of the new key.            *)

\* What a browser does gives nobody in out the key of generation g.
JobExcludes(q, w, out, g) ==
    /\ w.stage \in {"sealed", "checked"} /\ w.to \in out => w.key.gen < g
    /\ w.stage = "rotating" =>
          q \notin w.snap.outside /\ \A x \in People : w.seals[x] # 0 => x \notin w.snap.outside

Excluded ==
    /\ outsiders \cap members = {}
    /\ RotationRevokes
    /\ \A q \in People : JobExcludes(q, work[q], outsiders, gen)

\* The steps of a browser that only change what it does.
LEMMA PreparationExcludes ==
    ASSUME Typed, Excluded, NEW p \in People,
           \/ GiveUp(p) \/ CheckSeed(p) \/ CheckGrant(p) \/ CheckRelease(p) \/ StampDrop(p)
           \/ ListMembers(p) \/ ListItems(p) \/ BeginRotation(p)
           \/ \E q \in People : SealFor(p, q)
           \/ \E i \in Items : Wrap(p, i)
    PROVE  Excluded'
<1>0. /\ UNCHANGED <<outsiders, members, gen, grant, held>>
      /\ work[p] \in Jobs /\ Sound(p, work[p]) /\ work \in [People -> Jobs]
      /\ JobExcludes(p, work[p], outsiders, gen)
  <2>1. UNCHANGED <<server, held, history>>
    BY DEF GiveUp, CheckSeed, CheckGrant, CheckRelease, StampDrop, ListMembers, ListItems,
           BeginRotation, SealFor, Wrap
  <2> QED BY <2>1 DEF server, history, Typed, TypeOK, WorkSound, Excluded
<1>1. ASSUME NEW w, Does(p, w), JobExcludes(p, w, outsiders, gen) PROVE Excluded'
  <2>1. \A q \in People : work'[q] = IF q = p THEN w ELSE work[q]
    BY <1>0, <1>1 DEF Does
  <2>2. \A q \in People : JobExcludes(q, work'[q], outsiders', gen')
    BY <1>0, <1>1, <2>1 DEF Excluded
  <2> QED BY <1>0, <2>2 DEF Excluded, RotationRevokes
<1>2. ASSUME NEW w, Does(p, w), w.stage \notin {"sealed", "checked", "rotating"} PROVE Excluded'
  BY <1>1, <1>2 DEF JobExcludes
<1>3. CASE GiveUp(p)
  <2>1. Idle.stage = "idle"
    BY DEF Idle
  <2> QED BY <1>2, <1>3, <2>1 DEF GiveUp
<1>4. CASE CheckSeed(p)
  <2>1. [Idle EXCEPT !.stage = "seeding", !.key = [gen |-> 1, by |-> p], !.identity = identity[p]].stage
        = "seeding"
    BY DEF Idle
  <2> QED BY <1>2, <1>4, <2>1 DEF CheckSeed
<1>5. CASE CheckRelease(p)
  <2>1. [Idle EXCEPT !.stage = "releasing", !.key = grant[p].key, !.identity = grant[p].identity].stage
        = "releasing"
    BY DEF Idle
  <2> QED BY <1>2, <1>5, <2>1 DEF CheckRelease
<1>6. CASE ListMembers(p)
  <2>1. PICK seals : Does(p, [Idle EXCEPT !.stage = "listed", !.key = held[p], !.seals = seals])
    BY <1>6 DEF ListMembers
  <2>2. [Idle EXCEPT !.stage = "listed", !.key = held[p], !.seals = seals].stage = "listed"
    BY DEF Idle
  <2> QED BY <1>2, <2>1, <2>2
<1>7. ASSUME NEW i \in Items, Wrap(p, i) PROVE Excluded'
  <2>1. PICK text : Does(p, [Idle EXCEPT !.stage = "wrapped", !.item = i, !.key = held[p], !.text = text])
    BY <1>7 DEF Wrap
  <2>2. [Idle EXCEPT !.stage = "wrapped", !.item = i, !.key = held[p], !.text = text].stage = "wrapped"
    BY DEF Idle
  <2> QED BY <1>2, <2>1, <2>2
<1>8. CASE StampDrop(p)
  <2> DEFINE w == [work[p] EXCEPT !.stage = "stamped", !.stamp = gen]
  <2>1. Does(p, w) /\ w.stage = "stamped"
    BY <1>0, <1>8 DEF StampDrop, Does, Jobs
  <2> QED BY <1>2, <2>1
<1>9. CASE ListItems(p)
  <2> DEFINE w == [work[p] EXCEPT !.stage = "prepared", !.listed = item]
  <2>1. Does(p, w) /\ w.stage = "prepared"
    BY <1>0, <1>9 DEF ListItems, Does, Jobs
  <2> QED BY <1>2, <2>1
<1>10. ASSUME NEW q \in People, SealFor(p, q) PROVE Excluded'
  <2> DEFINE w == [Idle EXCEPT !.stage = "sealed", !.to = q, !.key = held[p], !.identity = identity[q]]
  <2>1. Does(p, w) /\ q \notin outsiders
    BY <1>10 DEF SealFor, Reachable, Excluded
  <2>2. w.stage = "sealed" /\ w.to = q
    BY DEF Idle
  <2> HIDE DEF w
  <2>3. JobExcludes(p, w, outsiders, gen)
    BY <2>1, <2>2 DEF JobExcludes
  <2> QED BY <1>1, <2>1, <2>3
<1>11. CASE CheckGrant(p)
  <2> DEFINE w == [work[p] EXCEPT !.stage = "checked"]
  <2>1. Does(p, w) /\ At(p, "sealed")
    BY <1>11 DEF CheckGrant, Goes, Does
  <2>2. w.stage = "checked" /\ w.to = work[p].to /\ w.key = work[p].key
    BY <1>0 DEF Jobs
  <2> HIDE DEF w
  <2>3. JobExcludes(p, w, outsiders, gen)
    BY <1>0, <2>1, <2>2 DEF JobExcludes, At
  <2> QED BY <1>1, <2>1, <2>3
<1>12. CASE BeginRotation(p)
  <2>1. PICK granted, items :
           work' = [work EXCEPT ![p].stage = "rotating",
                                ![p].snap = [outside |-> People \ members, grant |-> granted,
                                             item |-> items]]
    BY <1>12 DEF BeginRotation
  <2> DEFINE snap == [outside |-> People \ members, grant |-> granted, item |-> items]
             w == [work[p] EXCEPT !.stage = "rotating", !.snap = snap]
  <2>2. Does(p, w)
    BY <2>1 DEF Does
  <2>3. p \in members /\ \A x \in People : work[p].seals[x] # 0 => x \in members
    BY <1>12 DEF BeginRotation, IsManager, SameMembers, Reachable
  <2>4. w.stage = "rotating" /\ w.seals = work[p].seals /\ w.snap.outside = People \ members
    BY <1>0 DEF Jobs
  <2> HIDE DEF w
  <2>5. JobExcludes(p, w, outsiders, gen)
    BY <2>3, <2>4 DEF JobExcludes
  <2> QED BY <1>1, <2>2, <2>5
<1> QED BY <1>3, <1>4, <1>5, <1>6, <1>7, <1>8, <1>9, <1>10, <1>11, <1>12

\* A new root, and who has no part in it.
LEMMA RootExcludes ==
    ASSUME Typed, KeysAgree, Excluded, NEW p \in People, Seed(p) \/ CommitRotation(p)
    PROVE  Excluded'
<1>0. /\ work[p] \in Jobs /\ Sound(p, work[p]) /\ work \in [People -> Jobs]
      /\ grant \in [People -> Grants \cup {None}] /\ held \in [People -> Keys \cup {None}]
      /\ gen \in Nat /\ JobExcludes(p, work[p], outsiders, gen)
      /\ \A k \in Keys : k.gen \in Nat
  BY TeamKeysAssumption DEF Typed, TypeOK, WorkSound, Excluded, Keys
<1>1. Does(p, Idle) /\ UNCHANGED members
  BY DEF Seed, CommitRotation, Establish
<1>2. PICK new \in Keys : MakesKey(new)
  <2>1. KeepsKeys \/ \E new \in Keys : MakesKey(new)
    BY StoringKeys
  <2>2. gen' # gen
    <3>1. CASE Seed(p)
      <4>1. At(p, "seeding") /\ gen = 0 /\ gen' = work[p].key.gen
        BY <3>1 DEF Seed, Establish
      <4>2. work[p].key = [gen |-> 1, by |-> p]
        BY <1>0, <4>1 DEF Sound, At
      <4>3. gen' = 1
        BY <4>1, <4>2
      <4> QED BY <4>1, <4>3
    <3>2. CASE CommitRotation(p)
      <4>1. gen' = work[p].key.gen + 1 /\ gen = work[p].key.gen
        BY <3>2 DEF CommitRotation, Unconflicted
      <4> QED BY <1>0, <4>1
    <3> QED BY <3>1, <3>2
  <2> QED BY <2>1, <2>2 DEF KeepsKeys
<1>3. gen' = gen + 1
  BY <1>2 DEF MakesKey
<1>4. ASSUME NEW x \in outsiders'
      PROVE  x \notin members /\ x \in People /\ x # p /\ UNCHANGED <<grant[x], held[x]>>
  <2>1. CASE Seed(p)
    <3>1. /\ outsiders' = People \ (members \cup {p})
          /\ held' = [held EXCEPT ![p] = work[p].key]
          /\ grant' = [grant EXCEPT ![p] = [key |-> work[p].key, identity |-> work[p].identity]]
      BY <2>1 DEF Seed, Establish
    <3> QED BY <1>0, <1>4, <3>1
  <2>2. CASE CommitRotation(p)
    <3>1. PICK k : /\ At(p, "rotating") /\ outsiders' = work[p].snap.outside \ members
                   /\ held' = [held EXCEPT ![p] = k]
                   /\ grant' = [q \in People |-> IF work[p].seals[q] # 0
                                                 THEN [key |-> k, identity |-> work[p].seals[q]]
                                                 ELSE grant[q]]
      BY <2>2 DEF CommitRotation
    <3>2. work[p].snap.outside \subseteq People
      BY <1>0, <3>1 DEF Sound, At, Snapshots
    <3>3. p \notin work[p].snap.outside /\ \A q \in People : work[p].seals[q] # 0 => q \notin work[p].snap.outside
      BY <1>0, <3>1 DEF JobExcludes, At
    <3> QED BY <1>0, <1>4, <3>1, <3>2, <3>3
  <2> QED BY <2>1, <2>2
<1>5. RotationRevokes'
  <2> SUFFICES ASSUME NEW x \in outsiders'
               PROVE  /\ grant'[x] # None => grant'[x].key.gen < gen'
                      /\ held'[x] # None => held'[x].gen < gen'
    BY DEF RotationRevokes
  <2>1. x \in People /\ grant'[x] = grant[x] /\ held'[x] = held[x]
    BY <1>4
  <2>2. ASSUME grant[x] # None PROVE grant[x].key.gen <= gen /\ grant[x].key.gen \in Nat
    <3>1. grant[x].key \in Keys /\ InUse(grant[x].key)
      BY <1>0, <2>1, <2>2 DEF Grants, InUse
    <3> QED BY <1>0, <3>1 DEF KeysAgree
  <2>3. ASSUME held[x] # None PROVE held[x].gen <= gen /\ held[x].gen \in Nat
    <3>1. held[x] \in Keys /\ InUse(held[x])
      BY <1>0, <2>1, <2>3 DEF InUse
    <3> QED BY <1>0, <3>1 DEF KeysAgree
  <2> QED BY <1>0, <1>3, <2>1, <2>2, <2>3
<1>6. ASSUME NEW q \in People PROVE JobExcludes(q, work'[q], outsiders', gen')
  <2>1. CASE q = p
    <3>1. work'[q] = Idle
      BY <1>0, <1>1, <2>1 DEF Does
    <3> QED BY <3>1 DEF JobExcludes, Idle
  <2>2. CASE q # p
    <3>1. work'[q] = work[q] /\ Sound(q, work[q]) /\ JobExcludes(q, work[q], outsiders, gen)
      BY <1>0, <1>1, <2>2 DEF Does, Excluded, Typed, WorkSound
    <3>2. ASSUME work[q].stage \in {"sealed", "checked"} PROVE work[q].key.gen < gen'
      <4>1. work[q].key \in Keys /\ InUse(work[q].key)
        BY <3>1, <3>2 DEF Sound, InUse, Carrying
      <4> QED BY <1>0, <1>3, <4>1 DEF KeysAgree
    <3> QED BY <3>1, <3>2 DEF JobExcludes
  <2> QED BY <2>1, <2>2
<1>7. outsiders' \cap members' = {}
  BY <1>1, <1>4
<1> QED BY <1>5, <1>6, <1>7 DEF Excluded

\* Every step leaves the outsiders without the key.
LEMMA ExcludedStep ==
    ASSUME Typed, KeysAgree, Excluded, [Next]_vars
    PROVE  Excluded'
<1>0. /\ work \in [People -> Jobs] /\ grant \in [People -> Grants \cup {None}]
      /\ held \in [People -> Keys \cup {None}] /\ outsiders \subseteq People
      /\ \A q \in People : Sound(q, work[q]) /\ JobExcludes(q, work[q], outsiders, gen)
      /\ outsiders \cap members = {} /\ RotationRevokes
  BY DEF Typed, TypeOK, WorkSound, Excluded
<1>1. Idle.stage = "idle"
  BY DEF Idle
<1>2. ASSUME UNCHANGED gen, outsiders' \subseteq outsiders, outsiders' \cap members' = {},
             \A x \in outsiders' : grant'[x] \in {grant[x], None} /\ held'[x] \in {held[x], None},
             \A q \in People : work'[q] = work[q] \/ work'[q].stage = "idle"
      PROVE  Excluded'
  <2>1. RotationRevokes'
    BY <1>0, <1>2 DEF RotationRevokes
  <2>2. \A q \in People : JobExcludes(q, work'[q], outsiders', gen')
    BY <1>0, <1>2 DEF JobExcludes
  <2> QED BY <1>2, <2>1, <2>2 DEF Excluded
<1>3. CASE UNCHANGED vars
  BY <1>0, <1>2, <1>3 DEF vars, server, history
<1>4. ASSUME NEW p \in People, PublishIdentity(p) \/ DropKey(p) \/ RevocationFails(p) PROVE Excluded'
  <2>1. UNCHANGED <<gen, outsiders, members, work>>
    BY <1>4 DEF PublishIdentity, DropKey, RevocationFails, server, history
  <2>2. \A x \in outsiders : grant'[x] \in {grant[x], None} /\ held'[x] \in {held[x], None}
    BY <1>0, <1>4 DEF PublishIdentity, DropKey, RevocationFails, server, history
  <2> QED BY <1>0, <1>2, <2>1, <2>2
<1>5. ASSUME NEW p \in People, FetchKey(p) PROVE Excluded'
  <2>1. p \notin outsiders /\ UNCHANGED <<gen, outsiders, members, work, grant>>
    BY <1>0, <1>5 DEF FetchKey, server, history
  <2>2. \A x \in outsiders : held'[x] = held[x]
    BY <1>0, <1>5, <2>1 DEF FetchKey
  <2> QED BY <1>0, <1>2, <2>1, <2>2
<1>6. ASSUME NEW p \in People, AddMember(p) \/ RemoveMember(p) PROVE Excluded'
  <2>1. /\ UNCHANGED <<gen, work, grant, held>> /\ outsiders' \subseteq outsiders
        /\ outsiders' \cap members' = {}
    BY <1>0, <1>6 DEF AddMember, RemoveMember
  <2> QED BY <1>2, <2>1
<1>7. ASSUME NEW p \in People, RevokeAccess(p) PROVE Excluded'
  <2>1. /\ UNCHANGED <<gen, outsiders, members, held>>
        /\ \A q \in People : work'[q] = work[q] \/ work'[q] = Idle
        /\ \A x \in outsiders : grant'[x] \in {grant[x], None}
    BY <1>0, <1>7 DEF RevokeAccess, history
  <2> QED BY <1>0, <1>1, <1>2, <2>1
<1>8. ASSUME NEW p \in People, Does(p, Idle) PROVE \A q \in People : work'[q] = work[q] \/ work'[q].stage = "idle"
  BY <1>0, <1>1, <1>8 DEF Does
<1>9. ASSUME NEW p \in People, StoreLocked(p) \/ StoreDrop(p) \/ Release(p) PROVE Excluded'
  <2>1. Does(p, Idle) /\ UNCHANGED <<gen, outsiders, members, held>>
    BY <1>9 DEF StoreLocked, StoreDrop, Release, Write, history
  <2>2. \A x \in outsiders : grant'[x] \in {grant[x], None}
    BY <1>0, <1>9 DEF StoreLocked, StoreDrop, Release, Write
  <2> QED BY <1>0, <1>2, <1>8, <2>1, <2>2
<1>10. ASSUME NEW p \in People, WriteGrant(p) PROVE Excluded'
  <2>1. /\ At(p, "checked") /\ Does(p, Idle) /\ UNCHANGED <<gen, outsiders, members, held>>
        /\ grant' = [grant EXCEPT ![work[p].to] = [key |-> work[p].key, identity |-> work[p].identity]]
    BY <1>10 DEF WriteGrant, history
  <2>2. work[p].to \in outsiders => work[p].key.gen < gen
    BY <1>0, <2>1 DEF JobExcludes, At
  <2>3. RotationRevokes'
    <3> SUFFICES ASSUME NEW x \in outsiders, grant'[x] # None PROVE grant'[x].key.gen < gen
      BY <1>0, <2>1 DEF RotationRevokes
    <3>1. CASE x = work[p].to
      <4>1. grant'[x] = [key |-> work[p].key, identity |-> work[p].identity]
        BY <1>0, <2>1, <3>1
      <4> QED BY <2>2, <3>1, <4>1
    <3>2. CASE x # work[p].to
      BY <1>0, <2>1, <3>2 DEF RotationRevokes
    <3> QED BY <3>1, <3>2
  <2>4. \A q \in People : JobExcludes(q, work'[q], outsiders', gen')
    BY <1>0, <1>8, <2>1 DEF JobExcludes
  <2> QED BY <1>0, <2>1, <2>3, <2>4 DEF Excluded
<1> QED BY <1>3, <1>4, <1>5, <1>6, <1>7, <1>9, <1>10, PreparationExcludes, RootExcludes DEF Next

LEMMA ExcludedInit == Init => Excluded
BY DEF Init, Excluded, RotationRevokes, JobExcludes, Idle

-----------------------------------------------------------------------------
(* The theorems.                                                           *)

TeamInv == Typed /\ KeysAgree /\ Contents /\ Excluded

LEMMA TeamInvariant == Spec => []TeamInv
<1>1. Init => TeamInv
  BY TypedInit, KeysAgreeInit, ContentsInit, ExcludedInit DEF TeamInv
<1>2. TeamInv /\ [Next]_vars => TeamInv'
  BY TypedStep, KeysAgreeStep, ContentsStep, ExcludedStep DEF TeamInv
<1> QED BY <1>1, <1>2, PTL DEF Spec

\* The rows of the server and what the browsers hold and do keep their types.
THEOREM TypeCorrect == Spec => []TypeOK
<1>1. TeamInv => TypeOK
  BY DEF TeamInv, Typed
<1> QED BY <1>1, TeamInvariant, PTL

\* However many managers seed, grant and rotate at once, the grants of one
\* generation hold one key, and a browser with a key of the current generation
\* holds the key of the team.
THEOREM OneKeyCorrect == Spec => []OneKeyPerGeneration
<1>1. TeamInv => OneKeyPerGeneration
  <2> SUFFICES ASSUME TeamInv PROVE OneKeyPerGeneration
    OBVIOUS
  <2>1. \A p \in People : /\ grant[p] # None => grant[p].key \in Keys /\ InUse(grant[p].key)
                          /\ held[p] # None => held[p] \in Keys /\ InUse(held[p])
    BY DEF TeamInv, Typed, TypeOK, Grants, InUse
  <2> QED BY <2>1 DEF TeamInv, KeysAgree, OneKeyPerGeneration
<1> QED BY <1>1, TeamInvariant, PTL

\* Every form and label can be read with the current key, unless it was first
\* written while a rotation held an older snapshot.
THEOREM ReadableCorrect == Spec => []ItemsReadable
<1>1. TeamInv => ItemsReadable
  BY DEF TeamInv, Contents, ItemsFit
<1> QED BY <1>1, TeamInvariant, PTL

\* Who was removed before a rotation took its snapshot gets nothing of the new
\* key, not even from a grant that was checked before and is stored afterwards.
THEOREM RevocationCorrect == Spec => []RotationRevokes
<1>1. TeamInv => RotationRevokes
  BY DEF TeamInv, Excluded
<1> QED BY <1>1, TeamInvariant, PTL

\* No rotation takes an edit back: all it stores is the text it found.
THEOREM TextCorrect == Spec => RotationKeepsText
<1>1. TeamInv /\ [Next]_vars =>
         (gen' # gen => \A i \in Items : item[i] # None =>
                           item'[i] # None /\ item'[i].text = item[i].text)
  <2> SUFFICES ASSUME TeamInv, [Next]_vars, gen' # gen, NEW i \in Items, item[i] # None
               PROVE  item'[i] # None /\ item'[i].text = item[i].text
    OBVIOUS
  <2>1. CASE \E p \in People : CommitRotation(p)
    BY <2>1, RotatedItems DEF TeamInv
  <2>2. CASE \E p \in People : Seed(p)
    BY <2>2 DEF Seed
  <2>3. ASSUME NEW p \in People,
               \/ GiveUp(p) \/ CheckSeed(p) \/ CheckGrant(p) \/ CheckRelease(p) \/ StampDrop(p)
               \/ ListMembers(p) \/ ListItems(p) \/ BeginRotation(p)
               \/ \E q \in People : SealFor(p, q)
               \/ \E j \in Items : Wrap(p, j)
        PROVE  UNCHANGED gen
    BY <2>3 DEF GiveUp, CheckSeed, CheckGrant, CheckRelease, StampDrop, ListMembers, ListItems,
                BeginRotation, SealFor, Wrap, server
  <2>4. ASSUME NEW p \in People,
               \/ PublishIdentity(p) \/ FetchKey(p) \/ DropKey(p) \/ WriteGrant(p) \/ Release(p)
               \/ StoreLocked(p) \/ StoreDrop(p) \/ AddMember(p) \/ RemoveMember(p)
               \/ RevokeAccess(p) \/ RevocationFails(p)
        PROVE  UNCHANGED gen
    BY <2>4 DEF PublishIdentity, FetchKey, DropKey, WriteGrant, Release, StoreLocked, StoreDrop, Write,
                AddMember, RemoveMember, RevokeAccess, RevocationFails, server
  <2>5. CASE UNCHANGED vars
    BY <2>5 DEF vars, server
  <2> QED BY <2>1, <2>2, <2>3, <2>4, <2>5 DEF Next
<1> QED BY <1>1, TeamInvariant, PTL DEF Spec, RotationKeepsText


=============================================================================
