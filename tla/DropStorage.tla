----------------------------- MODULE DropStorage -----------------------------
(***************************************************************************)
(* Uploading to, finalizing and deleting encrypted drops: the PostgreSQL   *)
(* rows (drops, drop_files, users/organizations.storageUsed,               *)
(* orphaned_files), the R2 multipart uploads and objects, and the request  *)
(* handlers and cron jobs that move between the two.  Sources:             *)
(* lib/services/drop.ts, drop-storage.ts, drop-cleanup.ts, erasure.ts, the *)
(* file routes and their callers.                                          *)
(*                                                                         *)
(* Every database transaction is one action, except the two that hold a    *)
(* row lock while they wait: the finalizer, which calls R2 under the lock  *)
(* of the file row, and the whole-drop claim, which waits under the lock   *)
(* of the drop row for finalizers of the drop's files.  Every call to R2   *)
(* is a step of its own, and a handler may die between any two steps.      *)
(***************************************************************************)
EXTENDS Integers, FiniteSets

CONSTANTS
    Files,        \* file ids, never reused (generateFileId)
    Drops,        \* drop ids, never reused (generateDropId)
    Owners,       \* accounts and organizations, each with a storageUsed counter
    Guest,        \* the owner of a drop that has neither
    Requests,     \* handlers and cron runs that may be running at once
    NoReq,        \* nobody: a free lock
    NoDrop,       \* the drop of an idle handler
    DropOf,       \* DropOf[f]: the drop the file id is generated for
    OwnerOf,      \* OwnerOf[d]: who is charged for the files of d
    Bytes,        \* Bytes[S]: sum of the declared sizes of a set of files
    Limit,        \* Limit[o]: encrypted storage limit of the owner's plan
    DropLimit,    \* DropLimit[d]: GUEST_ENCRYPTED_STORAGE_LIMIT of a guest drop, the
                  \* form's upload limit of a form drop, else out of reach
    MaxFiles,     \* MaxFiles[d]: maxFileCount of the drop
    MaxPending,   \* MAX_PENDING_FILES_PER_DROP
    MaxCrashes,   \* bound: how many handlers die in mid-flight
    Faults        \* which calls may fail: see FaultKinds

FaultKinds == {"abort", "delete", "orphan", "db", "timeout"}

ASSUME NamesAssumption ==
    /\ NoReq \notin Requests
    /\ NoDrop \notin Drops
    /\ Guest \notin Owners
    /\ DropOf \in [Files -> Drops]
    /\ OwnerOf \in [Drops -> Owners \cup {Guest}]
    /\ Faults \subseteq FaultKinds

ASSUME FilesAssumption == IsFiniteSet(Files)

ASSUME NumbersAssumption ==
    /\ Limit \in [Owners -> Nat]
    /\ DropLimit \in [Drops -> Nat]
    /\ MaxFiles \in [Drops -> Nat]
    /\ MaxPending \in Nat
    /\ MaxCrashes \in Nat

\* Bytes is a sum: nothing for no file, and additive over disjoint sets.
ASSUME BytesAssumption ==
    /\ Bytes \in [SUBSET Files -> Nat]
    /\ Bytes[{}] = 0
    /\ \A S, T \in SUBSET Files :
          S \cap T = {} => Bytes[S \cup T] = Bytes[S] + Bytes[T]

VARIABLES
    drop,       \* drops row: absent, uploading, complete (uploadComplete) or gone
    deleted,    \* drops."deletedAt" is set
    row,        \* drop_files row: none, pending or complete (uploadComplete)
    used,       \* storageUsed of users and organizations
    orphaned,   \* storage keys in orphaned_files
    upload,     \* R2 multipart upload: none, open or closed
    object,     \* R2 object: none, whole, or wrong (not the declared size)
    late,       \* files whose CompleteMultipartUpload outlives its transaction
    dropLock,   \* who holds the drop row FOR UPDATE across steps
    fileLock,   \* the finalizer that holds the file row FOR UPDATE
    answered,   \* locked files whose CompleteMultipartUpload has returned
    issued,     \* file ids (and upload URLs) that reached a client
    pc,         \* where each handler is
    on,         \* the drop it works on
    plan,       \* which kind of deletion it runs
    todo,       \* files it has yet to process
    claimed,    \* files whose rows it deleted and whose bytes it must remove
    failed,     \* of those, the ones R2 refused to delete
    crashes

database == <<drop, deleted, row, used>>
storage  == <<upload, object, late>>
locks    == <<dropLock, fileLock, answered>>
request  == <<pc, on, plan, todo, claimed, failed>>
vars     == <<database, orphaned, storage, locks, issued, request, crashes>>

PCs   == {"idle", "reserve", "compensate", "sign", "release", "finish",
          "failing", "claim", "clean", "sweep", "forget"}
Plans == {"none", "delete", "stale", "enqueue", "downgrade"}

TypeOK ==
    /\ drop \in [Drops -> {"absent", "uploading", "complete", "gone"}]
    /\ deleted \in [Drops -> BOOLEAN]
    /\ row \in [Files -> {"none", "pending", "complete"}]
    /\ used \in [Owners -> Nat]
    /\ orphaned \in SUBSET Files
    /\ upload \in [Files -> {"none", "open", "closed"}]
    /\ object \in [Files -> {"none", "whole", "wrong"}]
    /\ late \in SUBSET Files
    /\ dropLock \in [Drops -> Requests \cup {NoReq}]
    /\ fileLock \in [Files -> Requests \cup {NoReq}]
    /\ answered \in SUBSET Files
    /\ issued \in SUBSET Files
    /\ pc \in [Requests -> PCs]
    /\ on \in [Requests -> Drops \cup {NoDrop}]
    /\ plan \in [Requests -> Plans]
    /\ todo \in [Requests -> SUBSET Files]
    /\ claimed \in [Requests -> SUBSET Files]
    /\ failed \in [Requests -> SUBSET Files]
    /\ crashes \in 0..MaxCrashes

Init ==
    /\ drop = [d \in Drops |-> "absent"]
    /\ deleted = [d \in Drops |-> FALSE]
    /\ row = [f \in Files |-> "none"]
    /\ used = [o \in Owners |-> 0]
    /\ orphaned = {}
    /\ upload = [f \in Files |-> "none"]
    /\ object = [f \in Files |-> "none"]
    /\ late = {}
    /\ dropLock = [d \in Drops |-> NoReq]
    /\ fileLock = [f \in Files |-> NoReq]
    /\ answered = {}
    /\ issued = {}
    /\ pc = [r \in Requests |-> "idle"]
    /\ on = [r \in Requests |-> NoDrop]
    /\ plan = [r \in Requests |-> "none"]
    /\ todo = [r \in Requests |-> {}]
    /\ claimed = [r \in Requests |-> {}]
    /\ failed = [r \in Requests |-> {}]
    /\ crashes = 0

-----------------------------------------------------------------------------
(* Rows, charges and limits.                                               *)

Charged   == [f \in Files |-> OwnerOf[DropOf[f]]]
Rows(d)   == {f \in Files : DropOf[f] = d /\ row[f] # "none"}
Pending(d) == {f \in Rows(d) : row[f] = "pending"}
Live(o)   == {f \in Files : Charged[f] = o /\ row[f] # "none"}
Locks(r)  == {f \in Files : fileLock[f] = r}

\* Definitions called M_... are mutated forms of the definition they precede, by
\* which the properties are tested; nothing in this module uses them.

Exists(d) == drop[d] \in {"uploading", "complete"}
Open(d)   == drop[d] = "uploading" /\ ~deleted[d]

\* storageUsed - bytes, never below zero (GREATEST(0, ...)).
Minus(total, bytes) == IF total > bytes THEN total - bytes ELSE 0

Charge(f) ==
    used' = [o \in Owners |->
               IF Charged[f] = o THEN used[o] + Bytes[{f}] ELSE used[o]]

M_DeleteRows(S) ==         \* the bytes stay charged
    /\ row' = [f \in Files |-> IF f \in S THEN "none" ELSE row[f]]
    /\ UNCHANGED used

\* The rows of S disappear and their owners get the bytes back.
DeleteRows(S) ==
    /\ row' = [f \in Files |-> IF f \in S THEN "none" ELSE row[f]]
    /\ used' = [o \in Owners |-> Minus(used[o], Bytes[{f \in S : Charged[f] = o}])]

\* The conditions of the two reservation transactions.  Guest drops have a cap
\* of their own and no pending limit under the lock.
WithinQuota(f) ==
    LET d == DropOf[f] IN
    /\ Bytes[Rows(d) \cup {f}] <= DropLimit[d]
    /\ OwnerOf[d] # Guest =>
          /\ used[OwnerOf[d]] + Bytes[{f}] <= Limit[OwnerOf[d]]
          /\ Cardinality(Pending(d)) < MaxPending

M_Reservable(f) ==         \* a completed drop still takes files
    /\ drop[DropOf[f]] \in {"uploading", "complete"} /\ ~deleted[DropOf[f]]
    /\ Cardinality(Rows(DropOf[f])) < MaxFiles[DropOf[f]]
    /\ WithinQuota(f)

Reservable(f) ==
    /\ Open(DropOf[f])
    /\ Cardinality(Rows(DropOf[f])) < MaxFiles[DropOf[f]]
    /\ WithinQuota(f)

\* abortMultipartUpload on the files of S: best effort everywhere it is called.
AbortMultipart(S) ==
    \E A \in SUBSET S :
        /\ A # S => "abort" \in Faults
        /\ upload' = [f \in Files |-> IF f \in A THEN "closed" ELSE upload[f]]

\* The handler r returns, throws or is killed: it forgets what it had in hand.
Ends(r) ==
    /\ pc' = [pc EXCEPT ![r] = "idle"]
    /\ on' = [on EXCEPT ![r] = NoDrop]
    /\ plan' = [plan EXCEPT ![r] = "none"]
    /\ todo' = [todo EXCEPT ![r] = {}]
    /\ claimed' = [claimed EXCEPT ![r] = {}]
    /\ failed' = [failed EXCEPT ![r] = {}]

-----------------------------------------------------------------------------
(* Creating a drop and adding files to it.                                 *)

CreateDrop(d) ==
    /\ drop[d] = "absent"
    /\ drop' = [drop EXCEPT ![d] = "uploading"]
    /\ UNCHANGED <<deleted, row, used, orphaned, storage, locks, issued, request, crashes>>

\* addFile: checks without a lock, then a multipart upload for a fresh key.
AddFile(r, f) ==
    /\ pc[r] = "idle" /\ upload[f] = "none" /\ Reservable(f)
    /\ upload' = [upload EXCEPT ![f] = "open"]
    /\ pc' = [pc EXCEPT ![r] = "reserve"]
    /\ on' = [on EXCEPT ![r] = DropOf[f]]
    /\ todo' = [todo EXCEPT ![r] = {f}]
    /\ UNCHANGED <<database, orphaned, object, late, locks, issued, plan,
                   claimed, failed, crashes>>

M_Reserve(r, f) ==         \* trusts the checks addFile made without a lock
    /\ pc[r] = "reserve" /\ f \in todo[r]
    /\ dropLock[DropOf[f]] = NoReq /\ Open(DropOf[f])
    /\ row' = [row EXCEPT ![f] = "pending"]
    /\ Charge(f)
    /\ pc' = [pc EXCEPT ![r] = "sign"]
    /\ UNCHANGED <<drop, deleted, orphaned, storage, locks, issued, on, plan,
                   todo, claimed, failed, crashes>>

\* The reservation transaction: the drop row is locked, everything is checked
\* again, the counter and the row change together.
Reserve(r, f) ==
    /\ pc[r] = "reserve" /\ f \in todo[r]
    /\ dropLock[DropOf[f]] = NoReq
    /\ Reservable(f)
    /\ row' = [row EXCEPT ![f] = "pending"]
    /\ Charge(f)
    /\ \/ pc' = [pc EXCEPT ![r] = "sign"]
       \/ /\ "db" \in Faults        \* committed, but the reply was lost
          /\ pc' = [pc EXCEPT ![r] = "compensate"]
    /\ UNCHANGED <<drop, deleted, orphaned, storage, locks, issued, on, plan,
                   todo, claimed, failed, crashes>>

ReservationFails(r, f) ==
    /\ pc[r] = "reserve" /\ f \in todo[r]
    /\ dropLock[DropOf[f]] = NoReq
    /\ ~Reservable(f) \/ "db" \in Faults
    /\ pc' = [pc EXCEPT ![r] = "compensate"]
    /\ UNCHANGED <<database, orphaned, storage, locks, issued, on, plan, todo,
                   claimed, failed, crashes>>

\* addFile's catch block.
CompensateAddFile(r) ==
    /\ pc[r] = "compensate"
    /\ AbortMultipart(todo[r])
    /\ Ends(r)
    /\ UNCHANGED <<database, orphaned, object, late, locks, issued, crashes>>

\* The part URLs are signed and the client learns the file id.
ReturnUploadUrls(r) ==
    /\ pc[r] = "sign"
    /\ issued' = issued \cup todo[r]
    /\ Ends(r)
    /\ UNCHANGED <<database, orphaned, storage, locks, crashes>>

\* Signing fails: rollbackProvisionedFile aborts the upload ...
SigningFails(r) ==
    /\ pc[r] = "sign"
    /\ AbortMultipart(todo[r])
    /\ pc' = [pc EXCEPT ![r] = "release"]
    /\ UNCHANGED <<database, orphaned, object, late, locks, issued, on, plan,
                   todo, claimed, failed, crashes>>

M_RollbackProvisionedFile(r) ==   \* gives back bytes without having won the row
    /\ pc[r] = "release"
    /\ row' = [f \in Files |-> IF f \in todo[r] THEN "none" ELSE row[f]]
    /\ used' = [o \in Owners |-> used[o] - Bytes[{f \in todo[r] : Charged[f] = o}]]
    /\ Ends(r)
    /\ UNCHANGED <<drop, deleted, orphaned, storage, locks, issued, crashes>>

\* ... and deletes the row, complete or not, giving its bytes back.
RollbackProvisionedFile(r) ==
    /\ pc[r] = "release"
    /\ \/ /\ \A f \in todo[r] : fileLock[f] = NoReq
          /\ DeleteRows({f \in todo[r] : row[f] # "none"})
       \/ /\ "db" \in Faults
          /\ UNCHANGED <<row, used>>
    /\ Ends(r)
    /\ UNCHANGED <<drop, deleted, orphaned, storage, locks, issued, crashes>>

-----------------------------------------------------------------------------
(* finishDrop, completeFileUpload and completeDrop.                        *)

\* finishDrop's first transaction: the manifest must name the stored files, with
\* ETags of parts that only a client with their upload URLs can have uploaded.
FinishDrop(r, d) ==
    /\ pc[r] = "idle" /\ dropLock[d] = NoReq
    /\ Open(d) /\ Rows(d) # {} /\ Rows(d) \subseteq issued
    /\ pc' = [pc EXCEPT ![r] = "finish"]
    /\ on' = [on EXCEPT ![r] = d]
    /\ todo' = [todo EXCEPT ![r] = Pending(d)]
    /\ UNCHANGED <<database, orphaned, storage, locks, issued, plan, claimed,
                   failed, crashes>>

Finishing(r) == pc[r] \in {"finish", "failing"}

\* completeFileUpload takes the row lock of a pending file ...
LockFile(r, f) ==
    /\ Finishing(r) /\ f \in todo[r] /\ fileLock[f] = NoReq
    /\ row[f] = "pending" /\ ~deleted[DropOf[f]]
    /\ fileLock' = [fileLock EXCEPT ![f] = r]
    /\ todo' = [todo EXCEPT ![r] = @ \ {f}]
    /\ UNCHANGED <<database, orphaned, storage, dropLock, answered, issued, pc,
                   on, plan, claimed, failed, crashes>>

\* ... or has nothing to do, or fails the request.
SkipFile(r, f) ==
    /\ Finishing(r) /\ f \in todo[r] /\ fileLock[f] = NoReq
    /\ row[f] # "pending" \/ deleted[DropOf[f]]
    /\ todo' = [todo EXCEPT ![r] = @ \ {f}]
    /\ pc' = IF row[f] = "complete" /\ ~deleted[DropOf[f]]
             THEN pc ELSE [pc EXCEPT ![r] = "failing"]
    /\ UNCHANGED <<database, orphaned, storage, locks, issued, on, plan,
                   claimed, failed, crashes>>

\* R2 assembles the parts into an object, whose size may be wrong.
Assemble(f) ==
    /\ upload[f] = "open"
    /\ upload' = [upload EXCEPT ![f] = "closed"]
    /\ \E content \in {"whole", "wrong"} : object' = [object EXCEPT ![f] = content]

\* CompleteMultipartUpload returns to the holder of the lock.  An error may hide
\* a success, and is not acted upon before the HEAD request.
CompleteMultipart(r, f) ==
    /\ fileLock[f] = r /\ f \notin answered
    /\ Assemble(f) \/ UNCHANGED <<upload, object>>
    /\ answered' = answered \cup {f}
    /\ UNCHANGED <<database, orphaned, late, dropLock, fileLock, issued, request, crashes>>

Unlock(f) ==
    /\ fileLock' = [fileLock EXCEPT ![f] = NoReq]
    /\ answered' = answered \ {f}

M_StoreFile(r, f) ==       \* trusts the answer, and asks no HEAD
    /\ fileLock[f] = r /\ f \in answered
    /\ row' = [row EXCEPT ![f] = "complete"]
    /\ Unlock(f)
    /\ UNCHANGED <<drop, deleted, used, orphaned, storage, dropLock, issued,
                   request, crashes>>

\* HEAD shows the declared size: the file is complete.
StoreFile(r, f) ==
    /\ fileLock[f] = r /\ f \in answered /\ object[f] = "whole"
    /\ row' = [row EXCEPT ![f] = "complete"]
    /\ Unlock(f)
    /\ UNCHANGED <<drop, deleted, used, orphaned, storage, dropLock, issued,
                   request, crashes>>

M_RejectFile(r, f) ==      \* leaves the object behind
    /\ fileLock[f] = r /\ f \in answered /\ object[f] = "wrong"
    /\ DeleteRows({f})
    /\ Unlock(f)
    /\ pc' = [pc EXCEPT ![r] = "failing"]
    /\ UNCHANGED <<drop, deleted, orphaned, storage, dropLock, issued, on, plan,
                   todo, claimed, failed, crashes>>

\* HEAD shows another size: the row is deleted and its bytes given back, and
\* the object is this request's to remove.
RejectFile(r, f) ==
    /\ fileLock[f] = r /\ f \in answered /\ object[f] = "wrong"
    /\ DeleteRows({f})
    /\ Unlock(f)
    /\ claimed' = [claimed EXCEPT ![r] = @ \cup {f}]
    /\ pc' = [pc EXCEPT ![r] = "failing"]
    /\ UNCHANGED <<drop, deleted, orphaned, storage, dropLock, issued, on, plan,
                   todo, failed, crashes>>

\* HEAD fails or finds nothing: the transaction rolls back.
FinalizationFails(r, f) ==
    /\ fileLock[f] = r /\ f \in answered
    /\ Unlock(f)
    /\ pc' = [pc EXCEPT ![r] = "failing"]
    /\ UNCHANGED <<database, orphaned, storage, dropLock, issued, on, plan,
                   todo, claimed, failed, crashes>>

\* The transaction times out (120 s) while R2 has not answered.
FinalizationTimesOut(r, f) ==
    /\ "timeout" \in Faults
    /\ fileLock[f] = r /\ f \notin answered
    /\ Unlock(f)
    /\ late' = late \cup {f}
    /\ pc' = [pc EXCEPT ![r] = "failing"]
    /\ UNCHANGED <<database, orphaned, upload, object, dropLock, issued, on,
                   plan, todo, claimed, failed, crashes>>

\* The request that outlived its transaction reaches R2, or never does.
LateCompletion(f) ==
    /\ f \in late
    /\ late' = late \ {f}
    /\ Assemble(f) \/ UNCHANGED <<upload, object>>
    /\ UNCHANGED <<database, orphaned, locks, issued, request, crashes>>

Busy(r) == todo[r] # {} \/ Locks(r) # {} \/ claimed[r] # {} \/ failed[r] # {}

\* pMapLimit starts no further file after an error.
SkipRest(r) ==
    /\ pc[r] = "failing" /\ todo[r] # {}
    /\ todo' = [todo EXCEPT ![r] = {}]
    /\ UNCHANGED <<database, orphaned, storage, locks, issued, pc, on, plan,
                   claimed, failed, crashes>>

FinishFails(r) ==
    /\ pc[r] = "failing" /\ ~Busy(r)
    /\ Ends(r)
    /\ UNCHANGED <<database, orphaned, storage, locks, issued, crashes>>

\* completeDrop's transaction.
Completable(d) ==
    /\ dropLock[d] = NoReq
    /\ Open(d) /\ Rows(d) # {} /\ Pending(d) = {}

CompleteDrop(d) ==
    /\ Completable(d)
    /\ drop' = [drop EXCEPT ![d] = "complete"]
    /\ UNCHANGED <<deleted, row, used, orphaned, storage, locks, issued, request, crashes>>

\* finishDrop calls it last; it may find the drop completed or deleted, or a
\* file added since.
FinishCompletes(r) ==
    /\ pc[r] = "finish" /\ ~Busy(r) /\ dropLock[on[r]] = NoReq
    /\ drop' = IF Completable(on[r]) THEN [drop EXCEPT ![on[r]] = "complete"] ELSE drop
    /\ Ends(r)
    /\ UNCHANGED <<deleted, row, used, orphaned, storage, locks, issued, crashes>>

-----------------------------------------------------------------------------
(* Deleting files and drops.                                               *)

M_AbortUpload(r, f) ==     \* forgets the uploadComplete predicate
    /\ pc[r] = "idle" /\ f \in issued
    /\ fileLock[f] = NoReq /\ row[f] # "none"
    /\ DeleteRows({f})
    /\ claimed' = [claimed EXCEPT ![r] = {f}]
    /\ pc' = [pc EXCEPT ![r] = "clean"]
    /\ on' = [on EXCEPT ![r] = DropOf[f]]
    /\ UNCHANGED <<drop, deleted, orphaned, storage, locks, issued, plan, todo,
                   failed, crashes>>

\* The abort route: a pending row is deleted and its bytes given back by one
\* statement, and only the winner goes on to touch storage.
AbortUpload(r, f) ==
    /\ pc[r] = "idle" /\ f \in issued
    /\ fileLock[f] = NoReq /\ row[f] = "pending"
    /\ DeleteRows({f})
    /\ claimed' = [claimed EXCEPT ![r] = {f}]
    /\ pc' = [pc EXCEPT ![r] = "clean"]
    /\ on' = [on EXCEPT ![r] = DropOf[f]]
    /\ UNCHANGED <<drop, deleted, orphaned, storage, locks, issued, plan, todo,
                   failed, crashes>>

M_Deletable(d, p) ==       \* a claim of a drop already marked deleted is refused
    Exists(d) /\ ~deleted[d] /\ (p = "stale" => Open(d)) /\ p # "none"

\* What the claim of each kind of deletion requires of the drop row.
Deletable(d, p) ==
    /\ Exists(d)
    /\ p = "stale" => Open(d)              \* deleteStaleUploadFilesAndReleaseQuota
    /\ p = "downgrade" => ~deleted[d]      \* runDowngradeDeletion's select
    /\ p \in Plans \ {"none"}

\* claimDropFilesAndReleaseQuota: the first statement locks the drop row ...
ClaimDrop(r, d, p) ==
    /\ pc[r] = "idle" /\ dropLock[d] = NoReq /\ Deletable(d, p)
    /\ dropLock' = [dropLock EXCEPT ![d] = r]
    /\ pc' = [pc EXCEPT ![r] = "claim"]
    /\ on' = [on EXCEPT ![r] = d]
    /\ plan' = [plan EXCEPT ![r] = p]
    /\ UNCHANGED <<database, orphaned, storage, fileLock, answered, issued,
                   todo, claimed, failed, crashes>>

M_ClaimFiles(r) ==         \* deletes rows a finalizer still holds
    LET d == on[r] IN
    /\ pc[r] = "claim"
    /\ deleted' = [deleted EXCEPT ![d] = TRUE]
    /\ DeleteRows(Rows(d))
    /\ claimed' = [claimed EXCEPT ![r] = Rows(d)]
    /\ dropLock' = [dropLock EXCEPT ![d] = NoReq]
    /\ pc' = [pc EXCEPT ![r] = "clean"]
    /\ UNCHANGED <<drop, orphaned, storage, fileLock, answered, issued, on,
                   plan, todo, failed, crashes>>

\* ... the second waits for the finalizers of the drop's files, and deletes
\* every file row that is then left.
ClaimFiles(r) ==
    LET d == on[r] IN
    /\ pc[r] = "claim"
    /\ \A f \in Rows(d) : fileLock[f] = NoReq
    /\ deleted' = [deleted EXCEPT ![d] = TRUE]
    /\ DeleteRows(Rows(d))
    /\ claimed' = [claimed EXCEPT ![r] = Rows(d)]
    /\ dropLock' = [dropLock EXCEPT ![d] = NoReq]
    /\ pc' = [pc EXCEPT ![r] = "clean"]
    /\ UNCHANGED <<drop, orphaned, storage, fileLock, answered, issued, on,
                   plan, todo, failed, crashes>>

\* The claim waits too long, or the database fails.
ClaimFails(r) ==
    /\ pc[r] = "claim"
    /\ dropLock' = [dropLock EXCEPT ![on[r]] = NoReq]
    /\ Ends(r)
    /\ UNCHANGED <<database, orphaned, storage, fileLock, answered, issued, crashes>>

\* Abort the upload and delete the object of a claimed file.
DeleteClaimed(r, f) ==
    /\ f \in claimed[r] /\ plan[r] # "enqueue"
    /\ AbortMultipart({f})
    /\ claimed' = [claimed EXCEPT ![r] = @ \ {f}]
    /\ \/ /\ object' = [object EXCEPT ![f] = "none"]
          /\ UNCHANGED failed
       \/ /\ "delete" \in Faults      \* an error, which may hide a success
          /\ failed' = [failed EXCEPT ![r] = @ \cup {f}]
          /\ object' \in {object, [object EXCEPT ![f] = "none"]}
    /\ UNCHANGED <<database, orphaned, late, locks, issued, pc, on, plan, todo, crashes>>

\* A key R2 did not delete is kept for the cron job, if that insert succeeds.
RecordOrphan(r, f) ==
    /\ f \in failed[r]
    /\ failed' = [failed EXCEPT ![r] = @ \ {f}]
    /\ \/ orphaned' = orphaned \cup {f}
       \/ "orphan" \in Faults /\ UNCHANGED orphaned
    /\ UNCHANGED <<database, storage, locks, issued, pc, on, plan, todo, claimed, crashes>>

\* An administrator's deletion leaves the objects to the cron job.
EnqueueClaimed(r) ==
    /\ pc[r] = "clean" /\ plan[r] = "enqueue" /\ claimed[r] # {}
    /\ AbortMultipart(claimed[r])
    /\ \/ /\ orphaned' = orphaned \cup claimed[r]
          /\ claimed' = [claimed EXCEPT ![r] = {}]
          /\ UNCHANGED <<pc, on, plan, todo, failed>>
       \/ /\ "orphan" \in Faults        \* createMany throws
          /\ UNCHANGED orphaned
          /\ Ends(r)
    /\ UNCHANGED <<database, object, late, locks, issued, crashes>>

\* The drop row goes last, and would take any file row left with it.
HardDelete(r) ==
    LET d == on[r] IN
    /\ pc[r] = "clean" /\ ~Busy(r)
    /\ plan[r] \in {"delete", "stale", "enqueue"}
    /\ dropLock[d] = NoReq
    /\ \/ /\ drop' = IF Exists(d) THEN [drop EXCEPT ![d] = "gone"] ELSE drop
          /\ row' = [f \in Files |-> IF f \in Rows(d) THEN "none" ELSE row[f]]
       \/ "db" \in Faults /\ UNCHANGED <<drop, row>>
    /\ Ends(r)
    /\ UNCHANGED <<deleted, used, orphaned, storage, locks, issued, crashes>>

\* An abort keeps the drop, a downgrade leaves it to cleanupSoftDeletedDrops.
CleanupEnds(r) ==
    /\ pc[r] = "clean" /\ ~Busy(r)
    /\ plan[r] \in {"none", "downgrade"}
    /\ Ends(r)
    /\ UNCHANGED <<database, orphaned, storage, locks, issued, crashes>>

\* The download limit is reached: markDropLimitReached, or its cron fallback.
SoftDelete(d) ==
    /\ dropLock[d] = NoReq
    /\ drop[d] = "complete" /\ ~deleted[d]
    /\ deleted' = [deleted EXCEPT ![d] = TRUE]
    /\ UNCHANGED <<drop, row, used, orphaned, storage, locks, issued, request, crashes>>

-----------------------------------------------------------------------------
(* cleanupOrphanedFiles.                                                   *)

SweepOrphans(r) ==
    /\ pc[r] = "idle" /\ orphaned # {}
    /\ todo' = [todo EXCEPT ![r] = orphaned]
    /\ pc' = [pc EXCEPT ![r] = "sweep"]
    /\ UNCHANGED <<database, orphaned, storage, locks, issued, on, plan,
                   claimed, failed, crashes>>

\* R2 confirms the deletion of some of them; the others stay for the next run.
DeleteOrphans(r) ==
    /\ pc[r] = "sweep"
    /\ \E S \in SUBSET todo[r] : \E removed \in SUBSET todo[r] :
          /\ S \subseteq removed
          /\ S # todo[r] => "delete" \in Faults
          /\ object' = [f \in Files |-> IF f \in removed THEN "none" ELSE object[f]]
          /\ todo' = [todo EXCEPT ![r] = S]
    /\ pc' = [pc EXCEPT ![r] = "forget"]
    /\ UNCHANGED <<database, orphaned, upload, late, locks, issued, on, plan,
                   claimed, failed, crashes>>

M_ForgetOrphans(r) ==      \* also forgets the keys R2 refused to delete
    /\ pc[r] = "forget"
    /\ orphaned' = {}
    /\ Ends(r)
    /\ UNCHANGED <<database, storage, locks, issued, crashes>>

ForgetOrphans(r) ==
    /\ pc[r] = "forget"
    /\ orphaned' = orphaned \ todo[r]
    /\ Ends(r)
    /\ UNCHANGED <<database, storage, locks, issued, crashes>>

-----------------------------------------------------------------------------
\* The function instance is killed: its transactions roll back, what it had
\* claimed is forgotten, and a request it had sent to R2 may still arrive.
Crash(r) ==
    /\ pc[r] # "idle" /\ crashes < MaxCrashes
    /\ crashes' = crashes + 1
    /\ dropLock' = [d \in Drops |-> IF dropLock[d] = r THEN NoReq ELSE dropLock[d]]
    /\ fileLock' = [f \in Files |-> IF fileLock[f] = r THEN NoReq ELSE fileLock[f]]
    /\ late' = late \cup (Locks(r) \ answered)
    /\ answered' = answered \ Locks(r)
    /\ Ends(r)
    /\ UNCHANGED <<database, orphaned, upload, object, issued>>

Uploading(r) ==
    \/ \E f \in Files : AddFile(r, f) \/ Reserve(r, f) \/ ReservationFails(r, f)
    \/ CompensateAddFile(r) \/ ReturnUploadUrls(r)
    \/ SigningFails(r) \/ RollbackProvisionedFile(r)

Finalizing(r) ==
    \/ \E d \in Drops : FinishDrop(r, d)
    \/ \E f \in Files :
          \/ LockFile(r, f) \/ SkipFile(r, f) \/ CompleteMultipart(r, f)
          \/ StoreFile(r, f) \/ RejectFile(r, f)
          \/ FinalizationFails(r, f) \/ FinalizationTimesOut(r, f)
    \/ SkipRest(r) \/ FinishFails(r) \/ FinishCompletes(r)

Deleting(r) ==
    \/ \E f \in Files : AbortUpload(r, f) \/ DeleteClaimed(r, f) \/ RecordOrphan(r, f)
    \/ \E d \in Drops, p \in Plans : ClaimDrop(r, d, p)
    \/ ClaimFiles(r) \/ ClaimFails(r) \/ EnqueueClaimed(r)
    \/ HardDelete(r) \/ CleanupEnds(r)

Sweeping(r) == SweepOrphans(r) \/ DeleteOrphans(r) \/ ForgetOrphans(r)

Next ==
    \/ \E r \in Requests : Uploading(r) \/ Finalizing(r) \/ Deleting(r)
                           \/ Sweeping(r) \/ Crash(r)
    \/ \E d \in Drops : CreateDrop(d) \/ CompleteDrop(d) \/ SoftDelete(d)
    \/ \E f \in Files : LateCompletion(f)

Spec == Init /\ [][Next]_vars

-----------------------------------------------------------------------------
(* Safety.                                                                 *)

\* storageUsed of every account and organization is exactly the declared bytes
\* of its file rows, whichever reservations, finalizers, aborts and deletions
\* raced: no byte is charged without a row to reclaim it, none is given back
\* twice (drop.ts:211-215, drop-storage.ts:115-127).
QuotaExact == \A o \in Owners : used[o] = Bytes[Live(o)]

\* No interleaving of reservations oversteps a plan's storage limit, a guest's
\* or form's byte cap, the file count, or the pending uploads of a drop.
LimitsHold ==
    /\ \A o \in Owners : used[o] <= Limit[o]
    /\ \A d \in Drops :
          /\ Bytes[Rows(d)] <= DropLimit[d]
          /\ Cardinality(Rows(d)) <= MaxFiles[d]
          /\ OwnerOf[d] # Guest => Cardinality(Pending(d)) <= MaxPending

\* A completed drop has no pending file: completion and addFile exclude each
\* other on the drop row (drop.ts:1164-1167).
CompletedIsSealed == \A d \in Drops : drop[d] = "complete" => Pending(d) = {}

\* A complete file row has its object, of the declared size, in R2 for as long
\* as the row exists: nobody deletes an object before owning its row.
StoredIsIntact == \A f \in Files : row[f] = "complete" => object[f] = "whole"

InHand(r) == claimed[r] \cup failed[r]

\* A file is cleaned up by one handler only, and nothing that will be deleted
\* from R2, now or by the cron job, still has a row.
OneCleaner ==
    /\ \A f \in orphaned : row[f] = "none"
    /\ \A r \in Requests : \A f \in InHand(r) : row[f] = "none"
    /\ \A r, s \in Requests : r # s => InHand(r) \cap InHand(s) = {}
    /\ \A r \in Requests : InHand(r) \cap orphaned = {}

\* Ciphertext in R2 is always accounted for: a row points to it, a handler has
\* it in hand, or it waits in orphaned_files for the cron job.
NoLeak ==
    \A f \in Files : object[f] # "none" =>
        \/ row[f] # "none" \/ f \in orphaned
        \/ \E r \in Requests : f \in InHand(r)

\* A completed drop that is not being deleted keeps every one of its files.
CompletedKeepsFiles ==
    [][\A d \in Drops : drop[d] = "complete" /\ ~deleted'[d] => Rows(d)' = Rows(d)]_vars

\* Hard-deleting a drop never cascades to a file row, whose bytes would stay
\* charged and whose object would stay in R2 (drop-storage.ts:119-127).
HardDeleteFindsNoFile ==
    [][\A d \in Drops : Exists(d) /\ drop'[d] = "gone" => Rows(d) = {}]_vars

-----------------------------------------------------------------------------
(* Why the safety properties hold: the invariant the proofs are built on.  *)

Preparing(r) == pc[r] \in {"reserve", "compensate", "sign", "release"}
Sweeps(r)    == pc[r] \in {"sweep", "forget"}

\* A file id nobody has started an upload for appears nowhere.
NothingBeforeUpload ==
    \A f \in Files : upload[f] = "none" =>
        /\ row[f] = "none" /\ object[f] = "none"
        /\ f \notin orphaned /\ f \notin issued
        /\ \A r \in Requests : f \notin todo[r] /\ f \notin InHand(r)

\* R2 assembles an upload once.
AssembledOnce == \A f \in Files : object[f] # "none" => upload[f] = "closed"

\* A file being added is known to its handler only.
PreparedInPrivate ==
    \A r \in Requests : Preparing(r) =>
        /\ \A f, g \in todo[r] : f = g
        /\ \A f \in todo[r] : f \notin issued
        /\ \A s \in Requests : s # r /\ Preparing(s) => todo[s] \cap todo[r] = {}

\* Until it is reserved it has no row, and nobody cleans it up.
ReservedFromNothing ==
    \A r \in Requests : pc[r] = "reserve" =>
        \A f \in todo[r] :
            /\ row[f] = "none" /\ f \notin orphaned
            /\ \A s \in Requests : f \notin InHand(s) /\ (Sweeps(s) => f \notin todo[s])

\* What a sweep will delete has no row.
SweptHasNoRow ==
    \A r \in Requests : Sweeps(r) => \A f \in todo[r] : row[f] = "none"

\* Only files the client knows of are finalized, under their row's lock.
FinalizedIsIssued ==
    /\ \A f \in Files : row[f] = "complete" => f \in issued
    /\ \A r \in Requests : Finishing(r) => todo[r] \subseteq issued
    /\ \A f \in Files : fileLock[f] # NoReq =>
          row[f] = "pending" /\ f \in issued /\ Finishing(fileLock[f])

\* A claim has taken the last row of its drop, and marked the drop deleted so
\* that no reservation adds another one.
ClaimIsFinal ==
    \A r \in Requests :
        /\ pc[r] \notin {"claim", "clean"} => plan[r] = "none"
        /\ pc[r] = "claim" => on[r] \in Drops
        /\ pc[r] = "clean" /\ plan[r] # "none" =>
              on[r] \in Drops /\ deleted[on[r]] /\ Rows(on[r]) = {}

\* No key is counted twice by its cleaner.
OneHand == \A r \in Requests : claimed[r] \cap failed[r] = {}

Inv ==
    /\ TypeOK
    /\ QuotaExact /\ CompletedIsSealed /\ StoredIsIntact /\ OneCleaner
    /\ NothingBeforeUpload /\ AssembledOnce
    /\ PreparedInPrivate /\ ReservedFromNothing /\ SweptHasNoRow
    /\ FinalizedIsIssued /\ ClaimIsFinal /\ OneHand

-----------------------------------------------------------------------------
(* The ledger it implements.                                               *)

\* The id of f may still be reserved.
Fresh(f) == upload[f] = "none" \/ \E r \in Requests : pc[r] = "reserve" /\ f \in todo[r]

Status(f) ==
    CASE row[f] = "pending" -> "reserved"
      [] row[f] = "complete" -> "stored"
      [] OTHER -> IF Fresh(f) THEN "fresh" ELSE "released"

Ledger == INSTANCE FileLedger WITH status <- [f \in Files |-> Status(f)]

\* Every step of the handlers is a step of the ledger or invisible to it: the
\* bytes of a file are charged once, given back once, and never both at once.
ImplementsLedger == Ledger!Spec

-----------------------------------------------------------------------------
(* Liveness, when R2 and the database eventually answer.                   *)

\* The steps by which a running handler goes on.
Continues(r) ==
    \/ \E f \in Files :
          \/ Reserve(r, f) \/ ReservationFails(r, f) \/ LockFile(r, f) \/ SkipFile(r, f)
          \/ CompleteMultipart(r, f) \/ StoreFile(r, f) \/ RejectFile(r, f)
          \/ FinalizationFails(r, f) \/ DeleteClaimed(r, f) \/ RecordOrphan(r, f)
    \/ CompensateAddFile(r) \/ ReturnUploadUrls(r) \/ RollbackProvisionedFile(r)
    \/ FinishFails(r) \/ FinishCompletes(r) \/ EnqueueClaimed(r)
    \/ HardDelete(r) \/ CleanupEnds(r) \/ DeleteOrphans(r) \/ ForgetOrphans(r)

\* The three cleanups the daily cron job runs over these rows.
CleanupIncompleteUploads(d) == \E r \in Requests : ClaimDrop(r, d, "stale")
CleanupSoftDeletedDrops(d) == deleted[d] /\ \E r \in Requests : ClaimDrop(r, d, "delete")
CleanupOrphanedFiles == \E r \in Requests : SweepOrphans(r)

\* Handlers go on; the cron job comes back every day; a claim that is repeated
\* every day, and a deletion R2 is asked for every day, succeed some day.
Fairness ==
    /\ \A r \in Requests :
          /\ WF_vars(Continues(r))
          /\ SF_vars(ClaimFiles(r))
          /\ SF_vars(DeleteOrphans(r) /\ todo'[r] = todo[r])
    /\ \A d \in Drops : 
          /\ SF_vars(CleanupIncompleteUploads(d))
          /\ SF_vars(CleanupSoftDeletedDrops(d))
    /\ SF_vars(CleanupOrphanedFiles)

\* No client repeats a finish request that fails for ever.
ClientsGiveUp == <>[][\A r \in Requests, d \in Drops : ~FinishDrop(r, d)]_vars

LiveSpec == Spec /\ Fairness /\ ClientsGiveUp

\* A drop that is marked deleted, or whose upload is never finished, is
\* hard-deleted in the end or was completed after all, even if the handler that
\* marked it died (drop-cleanup.ts:143-145, 250-261).
UnfinishedDropsGo ==
    \A d \in Drops : deleted[d] \/ drop[d] = "uploading" ~>
        drop[d] = "gone" \/ (drop[d] = "complete" /\ ~deleted[d])

\* Every recorded orphan is deleted from R2 in the end.
OrphansDrain == \A f \in Files : f \in orphaned ~> object[f] = "none" /\ f \notin orphaned

=============================================================================
