------------------------------ MODULE TeamKeys ------------------------------
(***************************************************************************)
(* The shared key of an organization, end to end encrypted: the server     *)
(* keeps, for each member, the key sealed to the member's identity, and    *)
(* for each drop, form and alias label a ciphertext under that key.  It    *)
(* never sees a key: what keeps every ciphertext readable is the order of  *)
(* its reads and writes (app/api/vault/org-keys, lib/vault).               *)
(*                                                                         *)
(* Browsers of the members race each other and the removal of members.     *)
(* A rotation is a serializable transaction and reads a snapshot; all      *)
(* other requests are read-committed.                                      *)
(***************************************************************************)
EXTENDS Naturals, FiniteSets

CONSTANTS
    People,         \* users who are or may become members
    Managers,       \* those with the role of owner or admin
    Items, Kind,    \* what is encrypted; Kind[i] is "drop", "form" or "label"
    MaxGen,         \* bound: generations of the key
    MaxIdentity,    \* bound: identity keys a user publishes
    MaxText,        \* bound: edits of a label
    MaxChurn,       \* bound: removals of members and replacements of identities
    None

VARIABLES
    gen,        \* organizations.org_key_generation
    advised,    \* organizations.key_rotation_recommended_at is set
    members,    \* members of the organization
    leaving,    \* removed, their access not revoked yet
    identity,   \* user_security.identity_public_key, 0 for none
    grant,      \* organization_member_keys: the key sealed to an identity
    item,       \* drop_owner_keys, form_owner_keys, encrypted labels
    held,       \* the key in a browser's memory
    work,       \* what a browser is doing
    root,       \* history: the key of the current generation
    churn,      \* history: how many members were removed, identities replaced
    outsiders,  \* history: who was no member when it was established
    missed      \* history: items first written while a rotation held a snapshot

server  == <<gen, advised, members, leaving, identity, grant, item>>
history == <<root, churn, outsiders, missed>>
vars    == <<server, held, work, history>>

-----------------------------------------------------------------------------

\* A key is known by the generation it was made for and who made it: what a
\* browser makes and cannot store is forgotten with the request.
Keys    == [gen : 1..MaxGen, by : People]
Grants  == [key : Keys, identity : 1..MaxIdentity]
Ciphers == [key : Keys, stamp : 1..MaxGen, text : 0..MaxText]

ASSUME TeamKeysAssumption ==
    /\ Managers \subseteq People
    /\ Kind \in [Items -> {"drop", "form", "label"}]
    /\ MaxGen \in Nat \ {0} /\ MaxIdentity \in Nat /\ MaxText \in Nat
    /\ MaxChurn \in Nat
    /\ None \notin Nat \cup People \cup Items \cup Ciphers

Stages == {"idle", "seeding", "sealed", "checked", "releasing", "listed", "prepared",
           "rotating", "wrapped", "stamped"}

Snapshots == [outside : SUBSET People, grant : [People -> Grants \cup {None}],
              item : [Items -> Ciphers \cup {None}]]

Jobs == [stage : Stages, to : People \cup {None}, key : Keys \cup {None},
         identity : 0..MaxIdentity, item : Items \cup {None}, stamp : 0..MaxGen, text : 0..MaxText,
         seals : [People -> 0..MaxIdentity], listed : [Items -> Ciphers \cup {None}],
         snap : Snapshots \cup {None}]

Idle == [stage |-> "idle", to |-> None, key |-> None, identity |-> 0, item |-> None,
         stamp |-> 0, text |-> 0, seals |-> [p \in People |-> 0],
         listed |-> [i \in Items |-> None], snap |-> None]

TypeOK ==
    /\ gen \in 0..MaxGen /\ advised \in BOOLEAN
    /\ members \subseteq People /\ leaving \subseteq People
    /\ identity \in [People -> 0..MaxIdentity]
    /\ grant \in [People -> Grants \cup {None}]
    /\ item \in [Items -> Ciphers \cup {None}]
    /\ held \in [People -> Keys \cup {None}]
    /\ work \in [People -> Jobs]
    /\ root \in Keys \cup {None} /\ churn \in 0..MaxChurn
    /\ outsiders \subseteq People /\ missed \subseteq Items

Init ==
    /\ gen = 0 /\ advised = FALSE
    /\ members = People /\ leaving = {}
    /\ identity = [p \in People |-> 0]
    /\ grant = [p \in People |-> None]
    /\ item = [i \in Items |-> None]
    /\ held = [p \in People |-> None]
    /\ work = [p \in People |-> Idle]
    /\ root = None /\ churn = 0 /\ outsiders = {} /\ missed = {}

-----------------------------------------------------------------------------

IsManager(p)  == p \in members /\ p \in Managers
Current(p)    == grant[p] # None /\ grant[p].key.gen = gen

\* Mutated: whoever has no identity is listed too.
M_Reachable == members

\* Members a key can be sealed to.
Reachable == {p \in members : identity[p] # 0}

At(p, stage)  == work[p].stage = stage
Does(p, w)    == work' = [work EXCEPT ![p] = w]
Goes(p, stage) == work' = [work EXCEPT ![p].stage = stage]

\* Any request may be refused, fail or be given up; nothing is stored then.
GiveUp(p) ==
    /\ ~At(p, "idle")
    /\ Does(p, Idle)
    /\ UNCHANGED <<server, held, history>>

\* Publishing an identity drops the grants that were sealed to the old one.
PublishIdentity(p) ==
    /\ identity[p] < MaxIdentity
    /\ churn' = IF identity[p] = 0 THEN churn ELSE churn + 1
    /\ churn' <= MaxChurn
    /\ identity' = [identity EXCEPT ![p] = @ + 1]
    /\ grant' = [grant EXCEPT ![p] = None]
    /\ UNCHANGED <<gen, advised, members, leaving, item, held, work, root, outsiders, missed>>

\* The browser opens its grant, if it is current and sealed to its identity.
FetchKey(p) ==
    /\ held[p] = None /\ p \in members
    /\ Current(p) /\ grant[p].identity = identity[p]
    /\ held' = [held EXCEPT ![p] = grant[p].key]
    /\ UNCHANGED <<server, work, history>>

\* Lock, sign-out, a rotation in another tab, a newer generation in an answer.
DropKey(p) ==
    /\ held[p] # None
    /\ held' = [held EXCEPT ![p] = None]
    /\ UNCHANGED <<server, work, history>>

-----------------------------------------------------------------------------
(* Seeding: the first key of the organization.                             *)

\* The browser finds no key, makes one, and the route finds no grant either.
CheckSeed(p) ==
    /\ At(p, "idle") /\ IsManager(p) /\ identity[p] # 0
    /\ gen = 0 /\ \A q \in People : grant[q] = None
    /\ Does(p, [Idle EXCEPT !.stage = "seeding", !.key = [gen |-> 1, by |-> p],
                            !.identity = identity[p]])
    /\ UNCHANGED <<server, held, history>>

\* What a seeding stores with the generation.
Establish(p, granted) ==
    /\ gen' = work[p].key.gen /\ root' = work[p].key
    /\ grant' = granted
    /\ held' = [held EXCEPT ![p] = work[p].key]
    /\ Does(p, Idle)

\* Mutated: the generation is set, whatever it was.
M_Seed(p) ==
    /\ At(p, "seeding")
    /\ Establish(p, [grant EXCEPT ![p] = [key |-> work[p].key, identity |-> work[p].identity]])
    /\ outsiders' = People \ (members \cup {p})
    /\ UNCHANGED <<advised, members, leaving, identity, item, churn, missed>>

\* The transaction: 0 -> 1 has one winner.
Seed(p) ==
    /\ At(p, "seeding") /\ gen = 0
    /\ Establish(p, [grant EXCEPT ![p] = [key |-> work[p].key, identity |-> work[p].identity]])
    /\ outsiders' = People \ (members \cup {p})
    /\ UNCHANGED <<advised, members, leaving, identity, item, churn, missed>>

-----------------------------------------------------------------------------
(* Granting the key to a member who lacks it, and releasing a grant that   *)
(* cannot be opened.                                                       *)

\* reconcileOrgGrants: a holder of the current key seals it to a pending member.
SealFor(p, q) ==
    /\ At(p, "idle") /\ IsManager(p)
    /\ held[p] # None /\ held[p].gen = gen
    /\ q \in Reachable /\ ~Current(q)
    /\ Does(p, [Idle EXCEPT !.stage = "sealed", !.to = q, !.key = held[p],
                            !.identity = identity[q]])
    /\ UNCHANGED <<server, held, history>>

\* POST org-keys: role, membership and generation are read one after the other,
\* without a lock.
CheckGrant(p) ==
    /\ At(p, "sealed") /\ IsManager(p)
    /\ work[p].to \in members /\ work[p].key.gen = gen
    /\ Goes(p, "checked")
    /\ UNCHANGED <<server, held, history>>

\* The upsert, unconditional.
WriteGrant(p) ==
    /\ At(p, "checked")
    /\ grant' = [grant EXCEPT ![work[p].to] =
                    [key |-> work[p].key, identity |-> work[p].identity]]
    /\ Does(p, Idle)
    /\ UNCHANGED <<gen, advised, members, leaving, identity, item, held, history>>

\* DELETE org-keys/own: the grant is the one that failed to open, and somebody
\* else holds the current key.
CheckRelease(p) ==
    /\ At(p, "idle") /\ p \in members /\ held[p] = None
    /\ Current(p) /\ grant[p].identity # identity[p]
    /\ \E q \in People \ {p} : Current(q)
    /\ Does(p, [Idle EXCEPT !.stage = "releasing", !.key = grant[p].key,
                            !.identity = grant[p].identity])
    /\ UNCHANGED <<server, held, history>>

\* The delete, conditional on the row that was checked.
Release(p) ==
    LET checked == [key |-> work[p].key, identity |-> work[p].identity] IN
    /\ At(p, "releasing")
    /\ grant' = IF grant[p] = checked THEN [grant EXCEPT ![p] = None] ELSE grant
    /\ Does(p, Idle)
    /\ UNCHANGED <<gen, advised, members, leaving, identity, item, held, history>>

-----------------------------------------------------------------------------
(* Writing drops, forms and labels.                                        *)

\* The browser encrypts with the key it holds, stale or not: a new drop or
\* form, or the next text of a label.
Wrap(p, i) ==
    /\ At(p, "idle") /\ p \in members /\ held[p] # None
    /\ Kind[i] # "label" => item[i] = None
    /\ item[i] # None => item[i].text < MaxText
    /\ Does(p, [Idle EXCEPT !.stage = "wrapped", !.item = i, !.key = held[p],
                            !.text = IF item[i] = None THEN 0 ELSE item[i].text + 1])
    /\ UNCHANGED <<server, held, history>>

\* Whether a generation the browser used is still the current one, read with
\* the organization locked.
\* Mutated: the organization has a key.
M_StillCurrent(p) == gen >= 1

StillCurrent(p) == gen >= 1 /\ work[p].key.gen = gen

Write(p, stamp) ==
    /\ item' = [item EXCEPT ![work[p].item] =
                   [key |-> work[p].key, stamp |-> stamp, text |-> work[p].text]]
    /\ missed' = IF item[work[p].item] = None /\ \E q \in People : At(q, "rotating")
                 THEN missed \cup {work[p].item} ELSE missed
    /\ Does(p, Idle)
    /\ UNCHANGED <<gen, advised, members, leaving, identity, grant, held, root, churn, outsiders>>

\* createForm, updateAlias: the organization is locked, its generation compared
\* with the browser's, and the ciphertext stored before the lock is released.
StoreLocked(p) ==
    /\ At(p, "wrapped") /\ p \in members
    /\ Kind[work[p].item] # "drop"
    /\ Kind[work[p].item] = "form" => item[work[p].item] = None
    /\ StillCurrent(p)
    /\ Write(p, gen)

\* createDrop: the browser's generation is ignored, and the current one read.
StampDrop(p) ==
    /\ At(p, "wrapped") /\ p \in members
    /\ Kind[work[p].item] = "drop" /\ gen >= 1
    /\ work' = [work EXCEPT ![p].stage = "stamped", ![p].stamp = gen]
    /\ UNCHANGED <<server, held, history>>

\* persistOwnedDropKey.
StoreDrop(p) ==
    /\ At(p, "stamped") /\ item[work[p].item] = None
    /\ Write(p, work[p].stamp)

-----------------------------------------------------------------------------
(* Rotation.                                                               *)

\* A holder lists the members to seal a new key to.
ListMembers(p) ==
    /\ At(p, "idle") /\ IsManager(p) /\ held[p] # None /\ held[p].gen < MaxGen
    /\ Does(p, [Idle EXCEPT !.stage = "listed", !.key = held[p],
                   !.seals = [q \in People |-> IF q \in members THEN identity[q] ELSE 0]])
    /\ UNCHANGED <<server, held, history>>

\* ... and what is encrypted.  A drop or form it cannot open ends the rotation.
ListItems(p) ==
    /\ At(p, "listed") /\ IsManager(p)
    /\ \A i \in Items : item[i] # None /\ Kind[i] # "label" => item[i].key = work[p].key
    /\ work' = [work EXCEPT ![p].stage = "prepared", ![p].listed = item]
    /\ UNCHANGED <<server, held, history>>

\* The members, drops and forms are those the browser prepared.
\* Mutated: the members are not compared.
M_SameMembers(w) == TRUE

SameMembers(w) == Reachable = {q \in People : w.seals[q] # 0}

\* ... and the labels, with the ciphertext it saw.
\* Mutated: the labels by their names only.
M_SameItems(w) == \A i \in Items : (item[i] = None) = (w.listed[i] = None)

SameItems(w) ==
    \A i \in Items :
        /\ (item[i] = None) = (w.listed[i] = None)
        /\ Kind[i] = "label" => item[i] = w.listed[i]

\* POST rekey: the role is checked and the transaction takes its snapshot, which
\* decides all it compares; its first statement may then wait for the lock of a
\* form or label being stored.
BeginRotation(p) ==
    LET w == work[p] IN
    /\ At(p, "prepared") /\ IsManager(p)
    /\ gen = w.key.gen
    /\ SameMembers(w) /\ SameItems(w)
    /\ work' = [work EXCEPT ![p].stage = "rotating",
                   ![p].snap = [outside |-> People \ members,
                                grant |-> [q \in People |-> IF w.seals[q] # 0 THEN grant[q] ELSE None],
                                item |-> item]]
    /\ UNCHANGED <<server, held, history>>

\* No row the transaction writes was changed since its snapshot; a grant deleted
\* since is inserted anew.
Unconflicted(w) ==
    /\ gen = w.key.gen
    /\ \A q \in People : w.seals[q] # 0 => grant[q] \in {None, w.snap.grant[q]}
    /\ \A i \in Items : w.listed[i] # None => item[i] = w.snap.item[i]

\* A ciphertext re-encrypted; a label under another key is left as it is.
Rekeyed(c, old, new) ==
    IF c.key = old THEN [c EXCEPT !.key = new, !.stamp = new.gen] ELSE c

CommitRotation(p) ==
    LET w   == work[p]
        new == [gen |-> w.key.gen + 1, by |-> p]
    IN
    /\ At(p, "rotating")
    /\ Unconflicted(w)
    /\ gen' = new.gen /\ root' = new
    /\ advised' = FALSE
    /\ grant' = [q \in People |-> IF w.seals[q] # 0
                                  THEN [key |-> new, identity |-> w.seals[q]] ELSE grant[q]]
    /\ item' = [i \in Items |-> IF w.listed[i] # None
                                THEN Rekeyed(w.listed[i], w.key, new) ELSE item[i]]
    /\ held' = [held EXCEPT ![p] = new]
    /\ outsiders' = w.snap.outside \ members
    /\ Does(p, Idle)
    /\ UNCHANGED <<members, leaving, identity, churn, missed>>

-----------------------------------------------------------------------------
(* Membership.                                                             *)

AddMember(p) ==
    /\ p \notin members
    /\ members' = members \cup {p}
    /\ outsiders' = outsiders \ {p}
    /\ UNCHANGED <<gen, advised, leaving, identity, grant, item, held, work, root, churn,
                   missed>>

\* remove-member or leave: the member's row goes ...
RemoveMember(p) ==
    /\ p \in members /\ Managers \cap (members \ {p}) # {}
    /\ members' = members \ {p} /\ leaving' = leaving \cup {p}
    /\ churn < MaxChurn /\ churn' = churn + 1
    /\ UNCHANGED <<gen, advised, identity, grant, item, held, work, root, outsiders, missed>>

\* ... and then the grant, in a transaction that also recommends a rotation; it
\* writes the row of the organization, and a rotation with an older snapshot fails.
RevokeAccess(p) ==
    /\ p \in leaving
    /\ leaving' = leaving \ {p}
    /\ grant' = [grant EXCEPT ![p] = None]
    /\ advised' = TRUE
    /\ work' = [q \in People |-> IF At(q, "rotating") THEN Idle ELSE work[q]]
    /\ UNCHANGED <<gen, members, identity, item, held, history>>

\* The transaction fails: the error is logged.
RevocationFails(p) ==
    /\ p \in leaving
    /\ leaving' = leaving \ {p}
    /\ UNCHANGED <<gen, advised, members, identity, grant, item, held, work, history>>

-----------------------------------------------------------------------------

Next ==
    \E p \in People :
        \/ GiveUp(p) \/ PublishIdentity(p) \/ FetchKey(p) \/ DropKey(p)
        \/ CheckSeed(p) \/ Seed(p)
        \/ \E q \in People : SealFor(p, q)
        \/ CheckGrant(p) \/ WriteGrant(p) \/ CheckRelease(p) \/ Release(p)
        \/ \E i \in Items : Wrap(p, i)
        \/ StoreLocked(p) \/ StampDrop(p) \/ StoreDrop(p)
        \/ ListMembers(p) \/ ListItems(p) \/ BeginRotation(p) \/ CommitRotation(p)
        \/ AddMember(p) \/ RemoveMember(p) \/ RevokeAccess(p) \/ RevocationFails(p)

Spec == Init /\ [][Next]_vars

-----------------------------------------------------------------------------

\* Two grants of one generation hold the same key, and a browser that holds a
\* key of the current generation holds the key: no race of two managers splits
\* the team (seed/route.ts:13-21).
OneKeyPerGeneration ==
    /\ \A p, q \in People :
          grant[p] # None /\ grant[q] # None /\ grant[p].key.gen = grant[q].key.gen
          => grant[p].key = grant[q].key
    /\ \A p \in People : held[p] # None /\ held[p].gen = gen => held[p] = root

\* Every form and label can be read with the current key, or was first written
\* in the window of a rotation's snapshot (rekey/route.ts:212-219).
ItemsReadable ==
    \A i \in Items : item[i] # None /\ Kind[i] # "drop" /\ i \notin missed => item[i].key = root

\* A drop is recorded under the generation of the key that opens it; the code
\* does not keep it (lib/vault/org-access.ts:115-119, actions/drop.ts:153-160).
DropStampsTrue ==
    \A i \in Items : item[i] # None /\ Kind[i] = "drop" => item[i].stamp = item[i].key.gen

\* A rotation changes no text: an edit stored since the browser listed the
\* labels is never taken back (rekey/route.ts:287-290).
RotationKeepsText ==
    [][gen' # gen => \A i \in Items : item[i] # None =>
          item'[i] # None /\ item'[i].text = item[i].text]_vars

\* Who was removed before a rotation has nothing of the new key, in the database
\* or in a browser, however old requests and revocations are delayed
\* (org-vault-client.ts:465-471).
RotationRevokes ==
    \A p \in outsiders :
        /\ grant[p] # None => grant[p].key.gen < gen
        /\ held[p] # None => held[p].gen < gen

=============================================================================
