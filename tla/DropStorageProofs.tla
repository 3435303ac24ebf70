-------------------------- MODULE DropStorageProofs --------------------------
(***************************************************************************)
(* Proofs about DropStorage, for any number of files, drops, owners and    *)
(* handlers, any sizes and limits, and any set of faults.                  *)
(*                                                                         *)
(* Inv of DropStorage is inductive.  A step is described first by what it  *)
(* does to the file rows, to R2, to the handlers' work lists and to what   *)
(* they have in hand (RowStep, ObjectStep, WorkStep, HandStep); each part  *)
(* of Inv then follows from the descriptions that concern it.              *)
(***************************************************************************)
EXTENDS DropStorage, FiniteSetTheorems, TLAPS

-----------------------------------------------------------------------------
(* Sums of declared sizes.                                                 *)

\* A sum of sizes is a number of bytes.
LEMMA BytesType ==
  ASSUME NEW S \in SUBSET Files
  PROVE  Bytes[S] \in Nat
BY BytesAssumption

\* The sizes of S are those of its files in T and those of its files outside T.
LEMMA BytesSplit ==
  ASSUME NEW S \in SUBSET Files, NEW T \in SUBSET Files
  PROVE  Bytes[S] = Bytes[S \cap T] + Bytes[S \ T]
<1>1. S = (S \cap T) \cup (S \ T) /\ (S \cap T) \cap (S \ T) = {}
  OBVIOUS
<1> QED
  BY <1>1, BytesAssumption

\* More files have more bytes.
LEMMA BytesMonotone ==
  ASSUME NEW S \in SUBSET Files, NEW T \in SUBSET Files, S \subseteq T
  PROVE  Bytes[S] <= Bytes[T]
<1>1. Bytes[T] = Bytes[T \cap S] + Bytes[T \ S]
  BY BytesSplit
<1>2. T \cap S = S
  OBVIOUS
<1>3. Bytes[S] \in Nat /\ Bytes[T \ S] \in Nat
  BY BytesType
<1> QED
  BY <1>1, <1>2, <1>3

-----------------------------------------------------------------------------
(* Types.                                                                  *)

\* Charging a file keeps the counters natural numbers.
LEMMA ChargeType ==
  ASSUME TypeOK, NEW f \in Files, Charge(f)
  PROVE  used' \in [Owners -> Nat]
<1>1. Bytes[{f}] \in Nat
  BY BytesType
<1> QED
  BY <1>1 DEF TypeOK, Charge

\* So does giving back the bytes of any set of rows, whatever was charged.
LEMMA DeleteRowsType ==
  ASSUME TypeOK, NEW S \in SUBSET Files, DeleteRows(S)
  PROVE  /\ row' \in [Files -> {"none", "pending", "complete"}]
         /\ used' \in [Owners -> Nat]
<1>1. ASSUME NEW o \in Owners
      PROVE  Minus(used[o], Bytes[{f \in S : Charged[f] = o}]) \in Nat
  <2>1. Bytes[{f \in S : Charged[f] = o}] \in Nat
    BY BytesType
  <2> QED
    BY <2>1 DEF TypeOK, Minus
<1> QED
  BY <1>1 DEF TypeOK, DeleteRows

\* Every step of every handler keeps the types.
LEMMA TypeStep ==
  ASSUME TypeOK, [Next]_vars
  PROVE  TypeOK'
<1> USE DEF TypeOK, database, storage, locks, request, PCs, Plans
<1>1. ASSUME NEW d \in Drops, CreateDrop(d)
       PROVE  TypeOK'
  BY <1>1 DEF CreateDrop
<1>2. ASSUME NEW d \in Drops, CompleteDrop(d)
       PROVE  TypeOK'
  BY <1>2 DEF CompleteDrop, Completable
<1>3. ASSUME NEW d \in Drops, SoftDelete(d)
       PROVE  TypeOK'
  BY <1>3 DEF SoftDelete
<1>4. ASSUME NEW r \in Requests, NEW f \in Files, AddFile(r, f)
       PROVE  TypeOK'
  BY <1>4, NamesAssumption DEF AddFile
<1>5. ASSUME NEW r \in Requests, NEW f \in Files, Reserve(r, f)
       PROVE  TypeOK'
  <2>1. used' \in [Owners -> Nat]
    BY <1>5, ChargeType DEF Reserve
  <2> QED
    BY <1>5, <2>1 DEF Reserve
<1>6. ASSUME NEW r \in Requests, NEW f \in Files, ReservationFails(r, f)
       PROVE  TypeOK'
  BY <1>6 DEF ReservationFails
<1>7. ASSUME NEW r \in Requests, CompensateAddFile(r)
       PROVE  TypeOK'
  BY <1>7 DEF CompensateAddFile, AbortMultipart, Ends
<1>8. ASSUME NEW r \in Requests, ReturnUploadUrls(r)
       PROVE  TypeOK'
  BY <1>8 DEF ReturnUploadUrls, Ends
<1>9. ASSUME NEW r \in Requests, SigningFails(r)
       PROVE  TypeOK'
  BY <1>9 DEF SigningFails, AbortMultipart
<1>10. ASSUME NEW r \in Requests, RollbackProvisionedFile(r)
       PROVE  TypeOK'
  <2>1. /\ row' \in [Files -> {"none", "pending", "complete"}]
        /\ used' \in [Owners -> Nat]
    <3>1. {f \in todo[r] : row[f] # "none"} \in SUBSET Files
      BY <1>10
    <3> QED
      BY <1>10, <3>1, DeleteRowsType DEF RollbackProvisionedFile
  <2> QED
    BY <1>10, <2>1 DEF RollbackProvisionedFile, Ends
<1>11. ASSUME NEW r \in Requests, NEW d \in Drops, FinishDrop(r, d)
       PROVE  TypeOK'
  BY <1>11 DEF FinishDrop, Pending, Rows
<1>12. ASSUME NEW r \in Requests, NEW f \in Files, LockFile(r, f)
       PROVE  TypeOK'
  BY <1>12 DEF LockFile
<1>13. ASSUME NEW r \in Requests, NEW f \in Files, SkipFile(r, f)
       PROVE  TypeOK'
  BY <1>13 DEF SkipFile
<1>14. ASSUME NEW r \in Requests, NEW f \in Files, CompleteMultipart(r, f)
       PROVE  TypeOK'
  BY <1>14 DEF CompleteMultipart, Assemble
<1>15. ASSUME NEW r \in Requests, NEW f \in Files, StoreFile(r, f)
       PROVE  TypeOK'
  BY <1>15 DEF StoreFile, Unlock
<1>16. ASSUME NEW r \in Requests, NEW f \in Files, RejectFile(r, f)
       PROVE  TypeOK'
  <2>1. /\ row' \in [Files -> {"none", "pending", "complete"}]
        /\ used' \in [Owners -> Nat]
    <3>1. {f} \in SUBSET Files
      BY <1>16 DEF Rows
    <3> QED
      BY <1>16, <3>1, DeleteRowsType DEF RejectFile
  <2> QED
    <3>1. claimed[r] \cup {f} \in SUBSET Files
      OBVIOUS
    <3> QED
      BY <1>16, <2>1, <3>1 DEF RejectFile, Unlock
<1>17. ASSUME NEW r \in Requests, NEW f \in Files, FinalizationFails(r, f)
       PROVE  TypeOK'
  BY <1>17 DEF FinalizationFails, Unlock
<1>18. ASSUME NEW r \in Requests, NEW f \in Files, FinalizationTimesOut(r, f)
       PROVE  TypeOK'
  BY <1>18 DEF FinalizationTimesOut, Unlock
<1>19. ASSUME NEW r \in Requests, SkipRest(r)
       PROVE  TypeOK'
  BY <1>19 DEF SkipRest
<1>20. ASSUME NEW r \in Requests, FinishFails(r)
       PROVE  TypeOK'
  BY <1>20 DEF FinishFails, Ends
<1>21. ASSUME NEW r \in Requests, FinishCompletes(r)
       PROVE  TypeOK'
  BY <1>21 DEF FinishCompletes, Ends
<1>22. ASSUME NEW r \in Requests, NEW f \in Files, AbortUpload(r, f)
       PROVE  TypeOK'
  <2>1. /\ row' \in [Files -> {"none", "pending", "complete"}]
        /\ used' \in [Owners -> Nat]
    <3>1. {f} \in SUBSET Files
      BY <1>22 DEF Rows
    <3> QED
      BY <1>22, <3>1, DeleteRowsType DEF AbortUpload
  <2> QED
    BY <1>22, <2>1, NamesAssumption DEF AbortUpload
<1>23. ASSUME NEW r \in Requests, NEW d \in Drops, NEW p \in Plans, ClaimDrop(r, d, p)
       PROVE  TypeOK'
  BY <1>23 DEF ClaimDrop
<1>24. ASSUME NEW r \in Requests, ClaimFiles(r)
       PROVE  TypeOK'
  <2>1. /\ row' \in [Files -> {"none", "pending", "complete"}]
        /\ used' \in [Owners -> Nat]
    <3>1. Rows(on[r]) \in SUBSET Files
      BY <1>24 DEF Rows
    <3> QED
      BY <1>24, <3>1, DeleteRowsType DEF ClaimFiles
  <2> QED
    BY <1>24, <2>1 DEF ClaimFiles, Rows
<1>25. ASSUME NEW r \in Requests, ClaimFails(r)
       PROVE  TypeOK'
  BY <1>25 DEF ClaimFails, Ends
<1>26. ASSUME NEW r \in Requests, NEW f \in Files, DeleteClaimed(r, f)
       PROVE  TypeOK'
  <2>1. upload' \in [Files -> {"none", "open", "closed"}]
    BY <1>26 DEF DeleteClaimed, AbortMultipart
  <2>2. object' \in [Files -> {"none", "whole", "wrong"}]
    BY <1>26 DEF DeleteClaimed
  <2>3. /\ claimed' \in [Requests -> SUBSET Files]
        /\ failed' \in [Requests -> SUBSET Files]
    BY <1>26 DEF DeleteClaimed
  <2> QED
    BY <1>26, <2>1, <2>2, <2>3 DEF DeleteClaimed
<1>27. ASSUME NEW r \in Requests, NEW f \in Files, RecordOrphan(r, f)
       PROVE  TypeOK'
  BY <1>27 DEF RecordOrphan
<1>28. ASSUME NEW r \in Requests, EnqueueClaimed(r)
       PROVE  TypeOK'
  <2>1. upload' \in [Files -> {"none", "open", "closed"}]
    BY <1>28 DEF EnqueueClaimed, AbortMultipart
  <2>2. orphaned' \in SUBSET Files
    BY <1>28 DEF EnqueueClaimed
  <2>3. claimed' \in [Requests -> SUBSET Files]
    BY <1>28 DEF EnqueueClaimed, Ends
  <2>4. /\ pc' \in [Requests -> PCs] /\ on' \in [Requests -> Drops \cup {NoDrop}]
        /\ plan' \in [Requests -> Plans]
    BY <1>28 DEF EnqueueClaimed, Ends
  <2>5. /\ todo' \in [Requests -> SUBSET Files]
        /\ failed' \in [Requests -> SUBSET Files]
    BY <1>28 DEF EnqueueClaimed, Ends
  <2> QED
    BY <1>28, <2>1, <2>2, <2>3, <2>4, <2>5 DEF EnqueueClaimed
<1>29. ASSUME NEW r \in Requests, HardDelete(r)
       PROVE  TypeOK'
  BY <1>29 DEF HardDelete, Rows, Exists, Ends
<1>30. ASSUME NEW r \in Requests, CleanupEnds(r)
       PROVE  TypeOK'
  BY <1>30 DEF CleanupEnds, Ends
<1>31. ASSUME NEW r \in Requests, SweepOrphans(r)
       PROVE  TypeOK'
  BY <1>31 DEF SweepOrphans
<1>32. ASSUME NEW r \in Requests, DeleteOrphans(r)
       PROVE  TypeOK'
  BY <1>32 DEF DeleteOrphans
<1>33. ASSUME NEW r \in Requests, ForgetOrphans(r)
       PROVE  TypeOK'
  BY <1>33 DEF ForgetOrphans, Ends
<1>34. ASSUME NEW r \in Requests, Crash(r)
       PROVE  TypeOK'
  BY <1>34, NumbersAssumption DEF Crash, Ends, Locks
<1>35. ASSUME NEW f \in Files, LateCompletion(f)
       PROVE  TypeOK'
  BY <1>35 DEF LateCompletion, Assemble
<1>36. CASE UNCHANGED vars
  BY <1>36 DEF vars
<1> QED
  BY <1>1, <1>2, <1>3, <1>4, <1>5, <1>6, <1>7, <1>8, <1>9, <1>10, <1>11, <1>12, <1>13, <1>14, <1>15, <1>16, <1>17, <1>18, <1>19, <1>20, <1>21, <1>22, <1>23, <1>24, <1>25, <1>26, <1>27, <1>28, <1>29, <1>30, <1>31, <1>32, <1>33, <1>34, <1>35, <1>36
     DEF Next, Uploading, Finalizing, Deleting, Sweeping

-----------------------------------------------------------------------------
(* What a step does to the file rows.                                      *)

\* The steps that touch a file row or a storage counter.
LEMMA RowChanges ==
  ASSUME [Next]_vars
  PROVE  \/ UNCHANGED <<row, used>>
         \/ \E r \in Requests :
               \/ \E f \in Files : \/ Reserve(r, f) \/ StoreFile(r, f)
                                   \/ RejectFile(r, f) \/ AbortUpload(r, f)
               \/ RollbackProvisionedFile(r) \/ ClaimFiles(r) \/ HardDelete(r)
<1> USE DEF database
<1>1. ASSUME NEW r \in Requests, Uploading(r),
             \A f \in Files : ~Reserve(r, f), ~RollbackProvisionedFile(r)
      PROVE  UNCHANGED <<row, used>>
  BY <1>1 DEF Uploading, AddFile, ReservationFails, CompensateAddFile,
              ReturnUploadUrls, SigningFails
<1>2. ASSUME NEW r \in Requests, Finalizing(r),
             \A f \in Files : ~StoreFile(r, f) /\ ~RejectFile(r, f)
      PROVE  UNCHANGED <<row, used>>
  BY <1>2 DEF Finalizing, FinishDrop, LockFile, SkipFile, CompleteMultipart,
              FinalizationFails, FinalizationTimesOut, SkipRest, FinishFails,
              FinishCompletes
<1>3. ASSUME NEW r \in Requests, Deleting(r), ~ClaimFiles(r), ~HardDelete(r),
             \A f \in Files : ~AbortUpload(r, f)
      PROVE  UNCHANGED <<row, used>>
  BY <1>3 DEF Deleting, DeleteClaimed, RecordOrphan, ClaimDrop, ClaimFails,
              EnqueueClaimed, CleanupEnds
<1>4. ASSUME NEW r \in Requests, Sweeping(r) \/ Crash(r)
      PROVE  UNCHANGED <<row, used>>
  BY <1>4 DEF Sweeping, SweepOrphans, DeleteOrphans, ForgetOrphans, Crash
<1>5. ASSUME NEW d \in Drops, CreateDrop(d) \/ CompleteDrop(d) \/ SoftDelete(d)
      PROVE  UNCHANGED <<row, used>>
  BY <1>5 DEF CreateDrop, CompleteDrop, SoftDelete
<1>6. ASSUME NEW f \in Files, LateCompletion(f)
      PROVE  UNCHANGED <<row, used>>
  BY <1>6 DEF LateCompletion
<1>7. CASE UNCHANGED vars
  BY <1>7 DEF vars
<1> QED
  BY <1>1, <1>2, <1>3, <1>4, <1>5, <1>6, <1>7 DEF Next

\* A row disappears only together with its charge, and only when no finalizer
\* has it locked any more.
Released(S) ==
  /\ \A f \in S : row[f] # "none" /\ fileLock'[f] = NoReq
  /\ DeleteRows(S)

\* The hard deletion of a drop finds no file row: its claim was final.
LEMMA HardDeleteKeepsRows ==
  ASSUME Inv, NEW r \in Requests, HardDelete(r)
  PROVE  UNCHANGED <<row, used>> /\ Rows(on[r]) = {}
<1>1. Rows(on[r]) = {}
  BY DEF Inv, ClaimIsFinal, HardDelete
<1> QED
  BY <1>1 DEF Inv, TypeOK, HardDelete

\* Apart from a reservation and a finalization, rows only disappear.
LEMMA RowStep ==
  ASSUME Inv, [Next]_vars
  PROVE  \/ UNCHANGED <<row, used>>
         \/ \E r \in Requests, f \in Files : Reserve(r, f) \/ StoreFile(r, f)
         \/ \E S \in SUBSET Files : Released(S)
<1>1. ASSUME NEW r \in Requests, NEW f \in Files, RejectFile(r, f)
      PROVE  Released({f})
  <2>1. row[f] = "pending"
    BY <1>1, NamesAssumption DEF Inv, FinalizedIsIssued, RejectFile
  <2>2. fileLock'[f] = NoReq
    BY <1>1 DEF RejectFile, Unlock, Inv, TypeOK
  <2> QED
    BY <1>1, <2>1, <2>2 DEF RejectFile, Released
<1>2. ASSUME NEW r \in Requests, NEW f \in Files, AbortUpload(r, f)
      PROVE  Released({f})
  BY <1>2 DEF AbortUpload, Released, locks
<1>3. ASSUME NEW r \in Requests, RollbackProvisionedFile(r)
      PROVE  \/ UNCHANGED <<row, used>>
             \/ Released({f \in todo[r] : row[f] # "none"})
  BY <1>3 DEF RollbackProvisionedFile, Released, locks
<1>4. ASSUME NEW r \in Requests, RollbackProvisionedFile(r)
      PROVE  {f \in todo[r] : row[f] # "none"} \in SUBSET Files
  BY <1>4 DEF Inv, TypeOK
<1>5. ASSUME NEW r \in Requests, ClaimFiles(r)
      PROVE  Released(Rows(on[r]))
  BY <1>5 DEF ClaimFiles, Released, Rows
<1>6. ASSUME NEW r \in Requests, HardDelete(r)
      PROVE  UNCHANGED <<row, used>>
  BY <1>6, HardDeleteKeepsRows
<1>7. ASSUME NEW r \in Requests
      PROVE  Rows(on[r]) \in SUBSET Files
  BY DEF Rows
<1>8. \A f \in Files : {f} \in SUBSET Files
  OBVIOUS
<1>9. SUFFICES ASSUME NEW r \in Requests,
                      \/ \E f \in Files : RejectFile(r, f) \/ AbortUpload(r, f)
                      \/ RollbackProvisionedFile(r) \/ ClaimFiles(r) \/ HardDelete(r)
               PROVE  \/ UNCHANGED <<row, used>>
                      \/ \E S \in SUBSET Files : Released(S)
  BY RowChanges
<1> QED
  BY <1>1, <1>2, <1>3, <1>4, <1>5, <1>6, <1>7, <1>8, <1>9

-----------------------------------------------------------------------------
(* The storage counters.                                                   *)

\* A reservation charges the bytes of the row it inserts.
LEMMA ReserveIsExact ==
  ASSUME TypeOK, QuotaExact, NEW f \in Files, row[f] = "none",
         row' = [row EXCEPT ![f] = "pending"], Charge(f)
  PROVE  QuotaExact'
<1> SUFFICES ASSUME NEW o \in Owners
             PROVE  used'[o] = Bytes[Live(o)']
  BY DEF QuotaExact
<1>1. used[o] = Bytes[Live(o)]
  BY DEF QuotaExact
<1>2. CASE Charged[f] = o
  <2>1. Live(o)' = Live(o) \cup {f} /\ Live(o) \cap {f} = {}
    BY <1>2 DEF TypeOK, Live
  <2>2. Live(o) \in SUBSET Files /\ {f} \in SUBSET Files
    BY DEF Live
  <2>3. Bytes[Live(o) \cup {f}] = Bytes[Live(o)] + Bytes[{f}]
    BY <2>1, <2>2, BytesAssumption
  <2>4. used'[o] = used[o] + Bytes[{f}]
    BY <1>2 DEF Charge
  <2> QED
    BY <1>1, <2>1, <2>3, <2>4
<1>3. CASE Charged[f] # o
  <2>1. Live(o)' = Live(o)
    BY <1>3 DEF TypeOK, Live
  <2>2. used'[o] = used[o]
    BY <1>3 DEF Charge
  <2> QED
    BY <1>1, <2>1, <2>2
<1> QED
  BY <1>2, <1>3

\* Giving back the bytes of rows that exist leaves exactly those of the others;
\* the counter's floor at zero is never needed.
LEMMA ReleaseIsExact ==
  ASSUME TypeOK, QuotaExact, NEW S \in SUBSET Files,
         \A f \in S : row[f] # "none", DeleteRows(S)
  PROVE  /\ QuotaExact'
         /\ \A o \in Owners :
               used'[o] = used[o] - Bytes[{f \in S : Charged[f] = o}]
<1> SUFFICES ASSUME NEW o \in Owners
             PROVE  /\ used'[o] = Bytes[Live(o)']
                    /\ used'[o] = used[o] - Bytes[{f \in S : Charged[f] = o}]
  BY DEF QuotaExact
<1> DEFINE R == {f \in S : Charged[f] = o}
<1>1. used[o] = Bytes[Live(o)]
  BY DEF QuotaExact
<1>2. Live(o) \in SUBSET Files /\ R = Live(o) \cap S /\ Live(o)' = Live(o) \ S
  BY DEF TypeOK, Live, DeleteRows
<1>3. Bytes[Live(o)] = Bytes[R] + Bytes[Live(o) \ S]
  BY <1>2, BytesSplit
<1>4. Bytes[R] \in Nat /\ Bytes[Live(o) \ S] \in Nat
  BY <1>2, BytesType
<1>5. used'[o] = Minus(used[o], Bytes[R])
  BY DEF DeleteRows
<1> HIDE DEF R
<1>6. Minus(used[o], Bytes[R]) = used[o] - Bytes[R] /\ used[o] - Bytes[R] = Bytes[Live(o) \ S]
  BY <1>1, <1>3, <1>4 DEF Minus
<1> QED
  BY <1>2, <1>5, <1>6 DEF R

\* Every step keeps storageUsed equal to the bytes of the rows.
LEMMA QuotaStep ==
  ASSUME Inv, [Next]_vars
  PROVE  QuotaExact'
<1>1. CASE UNCHANGED <<row, used>>
  BY <1>1 DEF Inv, QuotaExact, Live
<1>2. ASSUME NEW r \in Requests, NEW f \in Files, Reserve(r, f)
      PROVE  QuotaExact'
  <2>1. row[f] = "none"
    BY <1>2 DEF Inv, ReservedFromNothing, Reserve
  <2> QED
    BY <1>2, <2>1, ReserveIsExact DEF Inv, Reserve
<1>3. ASSUME NEW r \in Requests, NEW f \in Files, StoreFile(r, f)
      PROVE  QuotaExact'
  <2>1. row[f] = "pending"
    BY <1>3, NamesAssumption DEF Inv, FinalizedIsIssued, StoreFile
  <2>2. \A o \in Owners : Live(o)' = Live(o)
    BY <1>3, <2>1 DEF Inv, TypeOK, Live, StoreFile
  <2> QED
    BY <1>3, <2>2 DEF Inv, QuotaExact, StoreFile
<1>4. ASSUME NEW S \in SUBSET Files, Released(S)
      PROVE  QuotaExact'
  BY <1>4, ReleaseIsExact DEF Inv, Released
<1> QED
  BY <1>1, <1>2, <1>3, <1>4, RowStep

-----------------------------------------------------------------------------
(* What a step does to R2.                                                 *)

\* The upload of f does not become new, or open, again.
UploadMove(f) ==
  /\ upload[f] # "none" => upload'[f] # "none"
  /\ upload[f] = "closed" => upload'[f] = "closed"

\* Every key whose upload was started stays started; a closed upload (completed
\* or aborted) is not opened again.
LEMMA UploadStep ==
  ASSUME TypeOK, [Next]_vars, NEW f \in Files
  PROVE  UploadMove(f)
<1> USE DEF storage, UploadMove
<1>1. ASSUME NEW S \in SUBSET Files, AbortMultipart(S)
      PROVE  UploadMove(f)
  BY <1>1 DEF AbortMultipart
<1>2. ASSUME NEW r \in Requests, NEW g \in Files, AddFile(r, g)
      PROVE  UploadMove(f)
  BY <1>2 DEF AddFile, TypeOK
<1>3. ASSUME NEW g \in Files, Assemble(g) \/ UNCHANGED <<upload, object>>
      PROVE  UploadMove(f)
  BY <1>3 DEF Assemble, TypeOK
<1>4. ASSUME NEW r \in Requests, CompensateAddFile(r) \/ SigningFails(r) \/ EnqueueClaimed(r)
      PROVE  UploadMove(f)
  BY <1>1, <1>4 DEF TypeOK, CompensateAddFile, SigningFails, EnqueueClaimed
<1>5. ASSUME NEW r \in Requests, NEW g \in Files, DeleteClaimed(r, g)
      PROVE  UploadMove(f)
  <2>1. {g} \in SUBSET Files /\ AbortMultipart({g})
    BY <1>5 DEF DeleteClaimed
  <2> QED
    BY <2>1, <1>1
<1>6. ASSUME NEW g \in Files,
             LateCompletion(g) \/ \E r \in Requests : CompleteMultipart(r, g)
      PROVE  UploadMove(f)
  BY <1>3, <1>6 DEF CompleteMultipart, LateCompletion
<1>7. ASSUME NEW r \in Requests, Uploading(r), \A g \in Files : ~AddFile(r, g),
             ~CompensateAddFile(r), ~SigningFails(r)
      PROVE  upload' = upload
  BY <1>7 DEF Uploading, Reserve, ReservationFails, ReturnUploadUrls,
              RollbackProvisionedFile
<1>8. ASSUME NEW r \in Requests, Finalizing(r), \A g \in Files : ~CompleteMultipart(r, g)
      PROVE  upload' = upload
  BY <1>8 DEF Finalizing, FinishDrop, LockFile, SkipFile,
              StoreFile, RejectFile, FinalizationFails, FinalizationTimesOut,
              SkipRest, FinishFails, FinishCompletes
<1>9. ASSUME NEW r \in Requests, Deleting(r), \A g \in Files : ~DeleteClaimed(r, g),
             ~EnqueueClaimed(r)
      PROVE  upload' = upload
  BY <1>9 DEF Deleting, AbortUpload, RecordOrphan, ClaimDrop, ClaimFiles,
              ClaimFails, HardDelete, CleanupEnds
<1>10. ASSUME NEW r \in Requests, Sweeping(r) \/ Crash(r)
       PROVE  upload' = upload
  BY <1>10 DEF Sweeping, SweepOrphans, DeleteOrphans, ForgetOrphans, Crash
<1>11. ASSUME NEW d \in Drops, CreateDrop(d) \/ CompleteDrop(d) \/ SoftDelete(d)
       PROVE  upload' = upload
  BY <1>11 DEF CreateDrop, CompleteDrop, SoftDelete
<1>12. CASE UNCHANGED vars
  BY <1>12 DEF vars
<1> QED
  BY <1>2, <1>4, <1>5, <1>6, <1>7, <1>8, <1>9, <1>10, <1>11, <1>12 DEF Next

\* The object of f stays, is deleted, or is assembled.
ObjectMove(f) ==
  \/ object'[f] = object[f]
  \/ object'[f] = "none" /\ row[f] = "none"
  \/ upload[f] = "open" /\ upload'[f] = "closed"

\* Bytes in R2 disappear only from files without a row, and appear only when
\* their upload is completed.
LEMMA ObjectStep ==
  ASSUME Inv, [Next]_vars, NEW f \in Files
  PROVE  ObjectMove(f)
<1> USE DEF Inv, TypeOK, storage, ObjectMove
<1>1. ASSUME NEW r \in Requests, Uploading(r)
      PROVE  object' = object
  BY <1>1 DEF Uploading, AddFile, Reserve, ReservationFails, CompensateAddFile,
              ReturnUploadUrls, SigningFails, RollbackProvisionedFile
<1>2. ASSUME NEW r \in Requests, NEW g \in Files, CompleteMultipart(r, g)
      PROVE  ObjectMove(f)
  BY <1>2 DEF CompleteMultipart, Assemble
<1>2a. ASSUME NEW r \in Requests, Finalizing(r), \A g \in Files : ~CompleteMultipart(r, g)
       PROVE  object' = object
  BY <1>2a DEF Finalizing, FinishDrop, LockFile, SkipFile,
               StoreFile, RejectFile, FinalizationFails, FinalizationTimesOut,
               SkipRest, FinishFails, FinishCompletes
<1>3. ASSUME NEW r \in Requests, NEW g \in Files, DeleteClaimed(r, g)
      PROVE  ObjectMove(f)
  <2>1. row[g] = "none"
    BY <1>3 DEF DeleteClaimed, OneCleaner, InHand
  <2> QED
    BY <1>3, <2>1 DEF DeleteClaimed
<1>4. ASSUME NEW r \in Requests, Deleting(r),
             \A g \in Files : ~DeleteClaimed(r, g)
      PROVE  object' = object
  BY <1>4 DEF Deleting, AbortUpload, RecordOrphan, ClaimDrop,
              ClaimFiles, ClaimFails, EnqueueClaimed, HardDelete, CleanupEnds
<1>5. ASSUME NEW r \in Requests, DeleteOrphans(r)
      PROVE  ObjectMove(f)
  <2>1. \A g \in todo[r] : row[g] = "none"
    BY <1>5 DEF DeleteOrphans, SweptHasNoRow, Sweeps
  <2> QED
    BY <1>5, <2>1 DEF DeleteOrphans
<1>6. ASSUME NEW r \in Requests, SweepOrphans(r) \/ ForgetOrphans(r) \/ Crash(r)
      PROVE  object' = object
  BY <1>6 DEF SweepOrphans, ForgetOrphans, Crash
<1>7. ASSUME NEW d \in Drops, CreateDrop(d) \/ CompleteDrop(d) \/ SoftDelete(d)
      PROVE  object' = object
  BY <1>7 DEF CreateDrop, CompleteDrop, SoftDelete
<1>8. ASSUME NEW g \in Files, LateCompletion(g)
      PROVE  ObjectMove(f)
  BY <1>8 DEF LateCompletion, Assemble
<1>9. CASE UNCHANGED vars
  BY <1>9 DEF vars
<1> QED
  BY <1>1, <1>2, <1>2a, <1>3, <1>4, <1>5, <1>6, <1>7, <1>8, <1>9 DEF Next, Sweeping

\* R2 assembles an upload once.
LEMMA AssembledOnceStep ==
  ASSUME Inv, [Next]_vars
  PROVE  AssembledOnce'
<1> SUFFICES ASSUME NEW f \in Files, object'[f] # "none"
             PROVE  upload'[f] = "closed"
  BY DEF AssembledOnce
<1> QED
  BY UploadStep, ObjectStep DEF Inv, UploadMove, ObjectMove, AssembledOnce

\* A complete row keeps its object: an upload that is closed cannot be assembled
\* again, and only files without a row are deleted from R2.
LEMMA StoredIsIntactStep ==
  ASSUME Inv, [Next]_vars
  PROVE  StoredIsIntact'
<1> SUFFICES ASSUME NEW f \in Files, row'[f] = "complete"
             PROVE  object'[f] = "whole"
  BY DEF StoredIsIntact
<1>1. CASE row[f] = "complete"
  <2>1. object[f] = "whole" /\ upload[f] = "closed"
    BY <1>1 DEF Inv, StoredIsIntact, AssembledOnce
  <2> QED
    BY <1>1, <2>1, ObjectStep DEF ObjectMove
<1>2. CASE row[f] # "complete"
  <2>1. PICK r \in Requests, g \in Files : Reserve(r, g) \/ StoreFile(r, g)
    BY <1>2, RowStep DEF Inv, TypeOK, Released, DeleteRows
  <2>2. StoreFile(r, g) /\ g = f
    BY <1>2, <2>1 DEF Inv, TypeOK, Reserve, StoreFile
  <2> QED
    BY <2>2 DEF StoreFile, storage
<1> QED
  BY <1>1, <1>2

-----------------------------------------------------------------------------
(* What a step does to the drops.                                          *)

\* A drop is completed only when none of its files is pending.
LEMMA DropStep ==
  ASSUME TypeOK, [Next]_vars, NEW d \in Drops, drop'[d] = "complete"
  PROVE  drop[d] = "complete" \/ (Pending(d) = {} /\ row' = row)
<1> USE DEF TypeOK, database
<1>1. ASSUME NEW r \in Requests, Uploading(r)
      PROVE  drop' = drop
  BY <1>1 DEF Uploading, AddFile, Reserve, ReservationFails, CompensateAddFile,
              ReturnUploadUrls, SigningFails, RollbackProvisionedFile
<1>2. ASSUME NEW r \in Requests, Finalizing(r), ~FinishCompletes(r)
      PROVE  drop' = drop
  BY <1>2 DEF Finalizing, FinishDrop, LockFile, SkipFile, CompleteMultipart,
              StoreFile, RejectFile, FinalizationFails, FinalizationTimesOut,
              SkipRest, FinishFails
<1>3. ASSUME NEW r \in Requests, FinishCompletes(r)
      PROVE  drop[d] = "complete" \/ (Pending(d) = {} /\ row' = row)
  BY <1>3 DEF FinishCompletes, Completable
<1>4. ASSUME NEW r \in Requests, Deleting(r), ~HardDelete(r)
      PROVE  drop' = drop
  BY <1>4 DEF Deleting, AbortUpload, DeleteClaimed, RecordOrphan, ClaimDrop,
              ClaimFiles, ClaimFails, EnqueueClaimed, CleanupEnds
<1>5. ASSUME NEW r \in Requests, HardDelete(r)
      PROVE  drop[d] = "complete"
  BY <1>5 DEF HardDelete
<1>6. ASSUME NEW r \in Requests, Sweeping(r) \/ Crash(r)
      PROVE  drop' = drop
  BY <1>6 DEF Sweeping, SweepOrphans, DeleteOrphans, ForgetOrphans, Crash
<1>7. ASSUME NEW e \in Drops, CreateDrop(e) \/ CompleteDrop(e) \/ SoftDelete(e)
      PROVE  drop[d] = "complete" \/ (Pending(d) = {} /\ row' = row)
  BY <1>7 DEF CreateDrop, CompleteDrop, SoftDelete, Completable
<1>8. ASSUME NEW f \in Files, LateCompletion(f)
      PROVE  drop' = drop
  BY <1>8 DEF LateCompletion
<1>9. CASE UNCHANGED vars
  BY <1>9 DEF vars
<1> QED
  BY <1>1, <1>2, <1>3, <1>4, <1>5, <1>6, <1>7, <1>8, <1>9 DEF Next

\* Completing a drop and adding a file to it exclude each other.
LEMMA CompletedIsSealedStep ==
  ASSUME Inv, [Next]_vars
  PROVE  CompletedIsSealed'
<1> SUFFICES ASSUME NEW d \in Drops, drop'[d] = "complete"
             PROVE  Pending(d)' = {}
  BY DEF CompletedIsSealed
<1>1. Pending(d) = {}
  BY DropStep DEF Inv, CompletedIsSealed
<1>2. CASE row' = row
  BY <1>1, <1>2 DEF Pending, Rows
<1>3. ASSUME NEW r \in Requests, NEW f \in Files, Reserve(r, f)
      PROVE  Pending(d)' = {}
  <2>1. DropOf[f] # d
    BY <1>3 DEF Reserve, Reservable, Open
  <2> QED
    BY <1>1, <1>3, <2>1 DEF Inv, TypeOK, Reserve, Pending, Rows
<1>4. ASSUME NEW r \in Requests, NEW f \in Files, StoreFile(r, f)
      PROVE  Pending(d)' = {}
  BY <1>1, <1>4 DEF Inv, TypeOK, StoreFile, Pending, Rows
<1>5. ASSUME NEW S \in SUBSET Files, Released(S)
      PROVE  Pending(d)' = {}
  BY <1>1, <1>5 DEF Inv, TypeOK, Released, DeleteRows, Pending, Rows
<1> QED
  BY <1>2, <1>3, <1>4, <1>5, RowStep

-----------------------------------------------------------------------------
(* What a step does to the handlers' work lists.                           *)

\* The handler s stays in its mode, or leaves it, and gets no further work.
NoNewWork(s) ==
  /\ todo'[s] \subseteq todo[s]
  /\ pc'[s] = "reserve" => pc[s] = "reserve"
  /\ Preparing(s)' => Preparing(s)
  /\ Finishing(s)' => Finishing(s)
  /\ Sweeps(s)' => Sweeps(s)

\* Work lists are filled only by addFile, finishDrop and cleanupOrphanedFiles.
LEMMA WorkStep ==
  ASSUME Inv, [Next]_vars, NEW s \in Requests
  PROVE  \/ NoNewWork(s)
         \/ \E f \in Files : AddFile(s, f)
         \/ \E d \in Drops : FinishDrop(s, d)
         \/ SweepOrphans(s)
<1> USE DEF Inv, TypeOK, request, NoNewWork, Preparing, Finishing, Sweeps
<1>1. ASSUME NEW r \in Requests, Uploading(r), \A f \in Files : ~AddFile(r, f)
      PROVE  NoNewWork(s)
  BY <1>1 DEF Uploading, Reserve, ReservationFails, CompensateAddFile,
              ReturnUploadUrls, SigningFails, RollbackProvisionedFile, Ends
<1>2. ASSUME NEW r \in Requests, Finalizing(r), \A d \in Drops : ~FinishDrop(r, d)
      PROVE  NoNewWork(s)
  <2>1. ASSUME NEW f \in Files, LockFile(r, f) \/ SkipFile(r, f)
        PROVE  NoNewWork(s)
    BY <2>1 DEF LockFile, SkipFile
  <2>2. ASSUME NEW f \in Files, CompleteMultipart(r, f) \/ StoreFile(r, f)
        PROVE  NoNewWork(s)
    BY <2>2 DEF CompleteMultipart, StoreFile
  <2>3. ASSUME NEW f \in Files,
               RejectFile(r, f) \/ FinalizationFails(r, f) \/ FinalizationTimesOut(r, f)
        PROVE  NoNewWork(s)
    <3>1. Finishing(r)
      BY <2>3, NamesAssumption DEF FinalizedIsIssued, RejectFile, FinalizationFails,
                                   FinalizationTimesOut
    <3> QED
      BY <2>3, <3>1 DEF RejectFile, FinalizationFails, FinalizationTimesOut
  <2>4. CASE SkipRest(r) \/ FinishFails(r) \/ FinishCompletes(r)
    BY <2>4 DEF SkipRest, FinishFails, FinishCompletes, Ends
  <2> QED
    BY <1>2, <2>1, <2>2, <2>3, <2>4 DEF Finalizing
<1>3. ASSUME NEW r \in Requests, Deleting(r)
      PROVE  NoNewWork(s)
  <2>1. ASSUME NEW f \in Files, AbortUpload(r, f) \/ DeleteClaimed(r, f) \/ RecordOrphan(r, f)
        PROVE  NoNewWork(s)
    BY <2>1 DEF AbortUpload, DeleteClaimed, RecordOrphan
  <2>2. ASSUME NEW d \in Drops, NEW p \in Plans, ClaimDrop(r, d, p)
        PROVE  NoNewWork(s)
    BY <2>2 DEF ClaimDrop
  <2>3. CASE ClaimFiles(r) \/ ClaimFails(r)
    BY <2>3 DEF ClaimFiles, ClaimFails, Ends
  <2>4. CASE EnqueueClaimed(r)
    BY <2>4 DEF EnqueueClaimed, Ends
  <2>5. CASE HardDelete(r) \/ CleanupEnds(r)
    BY <2>5 DEF HardDelete, CleanupEnds, Ends
  <2> QED
    BY <1>3, <2>1, <2>2, <2>3, <2>4, <2>5 DEF Deleting
<1>4. ASSUME NEW r \in Requests, DeleteOrphans(r) \/ ForgetOrphans(r) \/ Crash(r)
      PROVE  NoNewWork(s)
  BY <1>4 DEF DeleteOrphans, ForgetOrphans, Crash, Ends
<1>5. ASSUME NEW d \in Drops, CreateDrop(d) \/ CompleteDrop(d) \/ SoftDelete(d)
      PROVE  NoNewWork(s)
  BY <1>5 DEF CreateDrop, CompleteDrop, SoftDelete
<1>6. ASSUME NEW f \in Files, LateCompletion(f)
      PROVE  NoNewWork(s)
  BY <1>6 DEF LateCompletion
<1>7. CASE UNCHANGED vars
  BY <1>7 DEF vars
<1>8. ASSUME NEW r \in Requests, NEW f \in Files, AddFile(r, f), r # s
      PROVE  NoNewWork(s)
  BY <1>8 DEF AddFile
<1>9. ASSUME NEW r \in Requests, NEW d \in Drops, FinishDrop(r, d), r # s
      PROVE  NoNewWork(s)
  BY <1>9 DEF FinishDrop
<1>10. ASSUME NEW r \in Requests, SweepOrphans(r), r # s
       PROVE  NoNewWork(s)
  BY <1>10 DEF SweepOrphans
<1> HIDE DEF Inv, TypeOK, request, NoNewWork, Preparing, Finishing, Sweeps
<1> QED
  BY <1>1, <1>2, <1>3, <1>4, <1>5, <1>6, <1>7, <1>8, <1>9, <1>10 DEF Next, Sweeping

\* The client learns a file id from the handler that added it.
LEMMA IssuedStep ==
  ASSUME [Next]_vars
  PROVE  issued' = issued \/ \E r \in Requests : ReturnUploadUrls(r)
<1>1. ASSUME NEW r \in Requests, Uploading(r), ~ReturnUploadUrls(r)
      PROVE  issued' = issued
  BY <1>1 DEF Uploading, AddFile, Reserve, ReservationFails, CompensateAddFile,
              SigningFails, RollbackProvisionedFile
<1>2. ASSUME NEW r \in Requests, Finalizing(r)
      PROVE  issued' = issued
  BY <1>2 DEF Finalizing, FinishDrop, LockFile, SkipFile, CompleteMultipart,
              StoreFile, RejectFile, FinalizationFails, FinalizationTimesOut,
              SkipRest, FinishFails, FinishCompletes
<1>3. ASSUME NEW r \in Requests, Deleting(r)
      PROVE  issued' = issued
  BY <1>3 DEF Deleting, AbortUpload, DeleteClaimed, RecordOrphan, ClaimDrop,
              ClaimFiles, ClaimFails, EnqueueClaimed, HardDelete, CleanupEnds
<1>4. ASSUME NEW r \in Requests, Sweeping(r) \/ Crash(r)
      PROVE  issued' = issued
  BY <1>4 DEF Sweeping, SweepOrphans, DeleteOrphans, ForgetOrphans, Crash
<1>5. ASSUME NEW d \in Drops, CreateDrop(d) \/ CompleteDrop(d) \/ SoftDelete(d)
      PROVE  issued' = issued
  BY <1>5 DEF CreateDrop, CompleteDrop, SoftDelete
<1>6. ASSUME NEW f \in Files, LateCompletion(f)
      PROVE  issued' = issued
  BY <1>6 DEF LateCompletion
<1>7. CASE UNCHANGED vars
  BY <1>7 DEF vars
<1> QED
  BY <1>1, <1>2, <1>3, <1>4, <1>5, <1>6, <1>7 DEF Next

\* A file that is being added is known to its handler only.
LEMMA PreparedInPrivateStep ==
  ASSUME Inv, [Next]_vars
  PROVE  PreparedInPrivate'
<1> SUFFICES ASSUME NEW r \in Requests, Preparing(r)'
             PROVE  /\ \A f, g \in todo'[r] : f = g
                    /\ \A f \in todo'[r] : f \notin issued'
                    /\ \A s \in Requests : s # r /\ Preparing(s)' =>
                          todo'[s] \cap todo'[r] = {}
  BY DEF PreparedInPrivate
<1>1. ASSUME NEW s \in Requests, Preparing(s)', NEW f \in todo'[s]
      PROVE  \/ Preparing(s) /\ NoNewWork(s)
             \/ todo'[s] = {f} /\ AddFile(s, f)
  BY <1>1, WorkStep DEF Inv, TypeOK, AddFile, FinishDrop, SweepOrphans, Preparing,
                        NoNewWork
<1>2. ASSUME NEW f \in todo'[r]
      PROVE  f \notin issued'
  <2>1. CASE Preparing(r) /\ NoNewWork(r)
    <3>1. f \in todo[r] /\ f \notin issued
      BY <2>1 DEF Inv, PreparedInPrivate, NoNewWork
    <3>2. ASSUME NEW s \in Requests, ReturnUploadUrls(s)
          PROVE  f \notin issued'
      <4>1. s # r /\ Preparing(s)
        BY <3>2 DEF ReturnUploadUrls, Ends, Inv, TypeOK, Preparing
      <4> QED
        BY <2>1, <3>1, <3>2, <4>1 DEF ReturnUploadUrls, Inv, PreparedInPrivate
    <3> QED
      BY <3>1, <3>2, IssuedStep
  <2>2. CASE AddFile(r, f)
    BY <2>2 DEF AddFile, Inv, NothingBeforeUpload, TypeOK
  <2> QED
    BY <1>1, <2>1, <2>2
<1>3. ASSUME NEW f \in todo'[r], NEW g \in todo'[r]
      PROVE  f = g
  BY <1>1, <1>3 DEF Inv, PreparedInPrivate, NoNewWork
<1>4. ASSUME NEW s \in Requests, s # r, Preparing(s)', NEW f \in todo'[s], f \in todo'[r]
      PROVE  FALSE
  <2>1. \A t \in Requests : todo[t] \subseteq Files
    BY DEF Inv, TypeOK
  <2>2. ASSUME NEW t \in Requests, NEW u \in Requests, AddFile(t, f), f \in todo[u]
        PROVE  FALSE
    BY <2>2, <2>1 DEF AddFile, Inv, NothingBeforeUpload
  <2>3. ASSUME AddFile(r, f), AddFile(s, f)
        PROVE  FALSE
    BY <1>4, <2>3 DEF AddFile, Inv, TypeOK
  <2>4. CASE Preparing(s) /\ NoNewWork(s) /\ Preparing(r) /\ NoNewWork(r)
    BY <1>4, <2>4 DEF Inv, PreparedInPrivate, NoNewWork
  <2> QED
    BY <1>1, <1>4, <2>2, <2>3, <2>4 DEF NoNewWork
<1> QED
  BY <1>2, <1>3, <1>4

\* What a sweep will delete has no row, and cannot get one.
LEMMA SweptHasNoRowStep ==
  ASSUME Inv, [Next]_vars
  PROVE  SweptHasNoRow'
<1> SUFFICES ASSUME NEW r \in Requests, Sweeps(r)', NEW f \in todo'[r]
             PROVE  row'[f] = "none"
  BY DEF SweptHasNoRow
<1>1. \/ Sweeps(r) /\ f \in todo[r]
      \/ SweepOrphans(r) /\ f \in orphaned
  BY WorkStep DEF Inv, TypeOK, AddFile, FinishDrop, SweepOrphans, Sweeps, NoNewWork
<1>2. row[f] = "none" /\ f \in Files
  BY <1>1 DEF Inv, TypeOK, SweptHasNoRow, OneCleaner
<1>3. ASSUME NEW s \in Requests, NEW g \in Files, Reserve(s, g)
      PROVE  g # f
  BY <1>1, <1>3 DEF Inv, ReservedFromNothing, Reserve
<1>4. ASSUME NEW s \in Requests, NEW g \in Files, StoreFile(s, g)
      PROVE  g # f
  BY <1>2, <1>4, NamesAssumption DEF Inv, FinalizedIsIssued, StoreFile
<1> QED
  BY <1>2, <1>3, <1>4, RowStep DEF Inv, TypeOK, Reserve, StoreFile, Released, DeleteRows

-----------------------------------------------------------------------------
(* What a step does to the files handlers have in hand.                    *)

\* Nobody gets a file in hand, and no key gets into two lists of its cleaner.
NothingTaken ==
  \A s \in Requests :
     /\ InHand(s)' \subseteq InHand(s)
     /\ claimed'[s] \cap failed'[s] = {}

\* r takes the files S in hand by deleting their rows.
Takes(r, S) ==
  /\ \A f \in S : row[f] # "none" /\ row'[f] = "none"
  /\ InHand(r)' \subseteq InHand(r) \cup S
  /\ claimed'[r] \cap failed'[r] = {}
  /\ \A s \in Requests : s # r => claimed'[s] = claimed[s] /\ failed'[s] = failed[s]
  /\ orphaned' = orphaned

\* A file comes to hand only by the deletion of its row.
LEMMA HandStep ==
  ASSUME Inv, [Next]_vars
  PROVE  NothingTaken \/ \E r \in Requests, S \in SUBSET Files : Takes(r, S)
<1> USE DEF Inv, TypeOK, request, OneHand, InHand, NothingTaken
<1>1. ASSUME NEW r \in Requests, Uploading(r)
      PROVE  NothingTaken
  BY <1>1 DEF Uploading, AddFile, Reserve, ReservationFails, CompensateAddFile,
              ReturnUploadUrls, SigningFails, RollbackProvisionedFile, Ends
<1>2. ASSUME NEW r \in Requests, Finalizing(r), \A f \in Files : ~RejectFile(r, f)
      PROVE  NothingTaken
  BY <1>2 DEF Finalizing, FinishDrop, LockFile, SkipFile, CompleteMultipart,
              StoreFile, FinalizationFails, FinalizationTimesOut, SkipRest,
              FinishFails, FinishCompletes, Ends
<1>3. ASSUME NEW r \in Requests, NEW f \in Files, RejectFile(r, f)
      PROVE  Takes(r, {f})
  <2>1. row[f] = "pending"
    BY <1>3, NamesAssumption DEF FinalizedIsIssued, RejectFile
  <2>2. row'[f] = "none" /\ f \notin InHand(r)
    BY <1>3, <2>1 DEF RejectFile, DeleteRows, OneCleaner
  <2> QED
    BY <1>3, <2>1, <2>2 DEF RejectFile, Takes
<1>4. ASSUME NEW r \in Requests, NEW f \in Files, AbortUpload(r, f)
      PROVE  Takes(r, {f})
  <2>1. row'[f] = "none" /\ f \notin InHand(r)
    BY <1>4 DEF AbortUpload, DeleteRows, OneCleaner
  <2> QED
    BY <1>4, <2>1 DEF AbortUpload, Takes
<1>5. ASSUME NEW r \in Requests, ClaimFiles(r)
      PROVE  Takes(r, Rows(on[r]))
  <2>1. \A f \in Rows(on[r]) : row[f] # "none" /\ row'[f] = "none" /\ f \notin InHand(r)
    BY <1>5 DEF ClaimFiles, DeleteRows, Rows, OneCleaner
  <2> QED
    BY <1>5, <2>1 DEF ClaimFiles, Rows, Takes
<1>6. ASSUME NEW r \in Requests, NEW f \in Files, DeleteClaimed(r, f) \/ RecordOrphan(r, f)
      PROVE  NothingTaken
  BY <1>6 DEF DeleteClaimed, RecordOrphan
<1>7. ASSUME NEW r \in Requests, NEW d \in Drops, NEW p \in Plans, ClaimDrop(r, d, p)
      PROVE  NothingTaken
  BY <1>7 DEF ClaimDrop
<1>8. ASSUME NEW r \in Requests, EnqueueClaimed(r)
      PROVE  NothingTaken
  BY <1>8 DEF EnqueueClaimed, Ends
<1>9. ASSUME NEW r \in Requests, ClaimFails(r) \/ HardDelete(r) \/ CleanupEnds(r)
      PROVE  NothingTaken
  BY <1>9 DEF ClaimFails, HardDelete, CleanupEnds, Ends
<1>10. ASSUME NEW r \in Requests, Sweeping(r) \/ Crash(r)
       PROVE  NothingTaken
  BY <1>10 DEF Sweeping, SweepOrphans, DeleteOrphans, ForgetOrphans, Crash, Ends
<1>11. ASSUME NEW d \in Drops, CreateDrop(d) \/ CompleteDrop(d) \/ SoftDelete(d)
       PROVE  NothingTaken
  BY <1>11 DEF CreateDrop, CompleteDrop, SoftDelete
<1>12. ASSUME NEW f \in Files, LateCompletion(f)
       PROVE  NothingTaken
  BY <1>12 DEF LateCompletion
<1>13. CASE UNCHANGED vars
  BY <1>13 DEF vars
<1> HIDE DEF Inv, TypeOK, request, OneHand, InHand, NothingTaken
<1>14. ASSUME NEW r \in Requests
       PROVE  Rows(on[r]) \in SUBSET Files /\ \A f \in Files : {f} \in SUBSET Files
  BY DEF Rows
<1> QED
  BY <1>1, <1>2, <1>3, <1>4, <1>5, <1>6, <1>7, <1>8, <1>9, <1>10, <1>11, <1>12,
     <1>13, <1>14 DEF Next, Finalizing, Deleting

\* No key gets into two lists of its cleaner.
LEMMA OneHandStep ==
  ASSUME Inv, [Next]_vars
  PROVE  OneHand'
BY HandStep DEF Inv, OneHand, NothingTaken, Takes

\* The cleaner r turns the files S it has in hand into orphans.
GivesUp(r, S) ==
  /\ S \subseteq InHand(r)
  /\ orphaned' = orphaned \cup S
  /\ InHand(r)' \cap S = {}
  /\ NothingTaken

\* Orphans are recorded by the cleaner that had them in hand.
LEMMA OrphanStep ==
  ASSUME Inv, [Next]_vars
  PROVE  \/ orphaned' \subseteq orphaned
         \/ \E r \in Requests, S \in SUBSET Files : GivesUp(r, S)
<1> USE DEF Inv, TypeOK, InHand
<1>1. ASSUME NEW r \in Requests, Uploading(r)
      PROVE  orphaned' = orphaned
  BY <1>1 DEF Uploading, AddFile, Reserve, ReservationFails, CompensateAddFile,
              ReturnUploadUrls, SigningFails, RollbackProvisionedFile
<1>2. ASSUME NEW r \in Requests, Finalizing(r)
      PROVE  orphaned' = orphaned
  BY <1>2 DEF Finalizing, FinishDrop, LockFile, SkipFile, CompleteMultipart,
              StoreFile, RejectFile, FinalizationFails, FinalizationTimesOut,
              SkipRest, FinishFails, FinishCompletes
<1>3. ASSUME NEW r \in Requests, NEW f \in Files, RecordOrphan(r, f)
      PROVE  orphaned' = orphaned \/ GivesUp(r, {f})
  <2>1. NothingTaken
    BY <1>3 DEF RecordOrphan, NothingTaken, OneHand
  <2>2. f \notin InHand(r)' /\ f \in InHand(r)
    BY <1>3 DEF RecordOrphan, OneHand
  <2> QED
    BY <1>3, <2>1, <2>2 DEF RecordOrphan, GivesUp
<1>4. ASSUME NEW r \in Requests, EnqueueClaimed(r)
      PROVE  orphaned' = orphaned \/ GivesUp(r, claimed[r])
  <2>1. NothingTaken
    BY <1>4 DEF EnqueueClaimed, NothingTaken, OneHand, Ends
  <2>2. orphaned' = orphaned
        \/ (orphaned' = orphaned \cup claimed[r] /\ InHand(r)' \cap claimed[r] = {})
    BY <1>4 DEF EnqueueClaimed, OneHand
  <2> QED
    BY <1>4, <2>1, <2>2 DEF GivesUp
<1>5. ASSUME NEW r \in Requests, Deleting(r), \A f \in Files : ~RecordOrphan(r, f),
             ~EnqueueClaimed(r)
      PROVE  orphaned' = orphaned
  BY <1>5 DEF Deleting, AbortUpload, DeleteClaimed, ClaimDrop, ClaimFiles, ClaimFails,
              HardDelete, CleanupEnds
<1>6. ASSUME NEW r \in Requests, Sweeping(r) \/ Crash(r)
      PROVE  orphaned' \subseteq orphaned
  BY <1>6 DEF Sweeping, SweepOrphans, DeleteOrphans, ForgetOrphans, Crash
<1>7. ASSUME NEW d \in Drops, CreateDrop(d) \/ CompleteDrop(d) \/ SoftDelete(d)
      PROVE  orphaned' = orphaned
  BY <1>7 DEF CreateDrop, CompleteDrop, SoftDelete
<1>8. ASSUME NEW f \in Files, LateCompletion(f)
      PROVE  orphaned' = orphaned
  BY <1>8 DEF LateCompletion
<1>9. CASE UNCHANGED vars
  BY <1>9 DEF vars
<1>10. \A r \in Requests : claimed[r] \in SUBSET Files
  OBVIOUS
<1>11. \A f \in Files : {f} \in SUBSET Files
  OBVIOUS
<1> HIDE DEF Inv, TypeOK, InHand
<1>12. ASSUME NEW r \in Requests, Deleting(r)
       PROVE  \/ orphaned' \subseteq orphaned
              \/ \E S \in SUBSET Files : GivesUp(r, S)
  BY <1>3, <1>4, <1>5, <1>10, <1>11, <1>12
<1> QED
  BY <1>1, <1>2, <1>6, <1>7, <1>8, <1>9, <1>12 DEF Next

\* Nobody cleans up a file that has a row, or one that another has in hand, or
\* one the cron job will delete.
LEMMA OneCleanerStep ==
  ASSUME Inv, [Next]_vars
  PROVE  OneCleaner'
<1>1. ASSUME NEW f \in Files, row[f] = "none", row'[f] # "none"
      PROVE  f \notin orphaned /\ \A s \in Requests : f \notin InHand(s)
  <2>1. PICK r \in Requests, g \in Files : Reserve(r, g) \/ StoreFile(r, g)
    BY <1>1, RowStep DEF Inv, TypeOK, Released, DeleteRows
  <2>2. CASE Reserve(r, g)
    <3>1. g = f
      BY <1>1, <2>2 DEF Inv, TypeOK, Reserve
    <3> QED
      BY <2>2, <3>1 DEF Reserve, Inv, ReservedFromNothing
  <2>3. CASE StoreFile(r, g)
    <3>1. row[g] = "pending" /\ g = f
      BY <1>1, <2>3, NamesAssumption DEF Inv, TypeOK, FinalizedIsIssued, StoreFile
    <3> QED
      BY <1>1, <3>1
  <2> QED
    BY <2>1, <2>2, <2>3
<1>2. orphaned \subseteq Files /\ \A s \in Requests : InHand(s) \subseteq Files
  BY DEF Inv, TypeOK, InHand
<1>3. /\ \A f \in orphaned : row'[f] = "none"
      /\ \A s \in Requests : \A f \in InHand(s) : row'[f] = "none"
  <2>1. ASSUME NEW s \in Requests, NEW f \in InHand(s)
        PROVE  row'[f] = "none"
    <3>1. row[f] = "none" /\ f \in Files
      BY <1>2, <2>1 DEF Inv, OneCleaner
    <3> QED
      BY <1>1, <2>1, <3>1
  <2>2. ASSUME NEW f \in orphaned
        PROVE  row'[f] = "none"
    <3>1. row[f] = "none" /\ f \in Files
      BY <1>2, <2>2 DEF Inv, OneCleaner
    <3> QED
      BY <1>1, <2>2, <3>1
  <2> QED
    BY <2>1, <2>2
<1>4. /\ \A r, s \in Requests : r # s => InHand(r) \cap InHand(s) = {}
      /\ \A r \in Requests : InHand(r) \cap orphaned = {}
  BY DEF Inv, OneCleaner
<1>5. CASE NothingTaken /\ orphaned' \subseteq orphaned
  BY <1>3, <1>4, <1>5 DEF OneCleaner, NothingTaken
<1>6. ASSUME NEW r \in Requests, NEW S \in SUBSET Files, GivesUp(r, S)
      PROVE  OneCleaner'
  <2>1. \A s \in Requests : InHand(s)' \subseteq InHand(s)
    BY <1>6 DEF GivesUp, NothingTaken
  <2>2. \A f \in orphaned' : row'[f] = "none"
    BY <1>3, <1>6 DEF GivesUp
  <2>3. \A s \in Requests : InHand(s)' \cap orphaned' = {}
    BY <1>4, <1>6, <2>1 DEF GivesUp
  <2> QED
    BY <1>3, <1>4, <2>1, <2>2, <2>3 DEF OneCleaner
<1>7. ASSUME NEW r \in Requests, NEW S \in SUBSET Files, Takes(r, S)
      PROVE  OneCleaner'
  <2>1. /\ orphaned' = orphaned
        /\ InHand(r)' \subseteq InHand(r) \cup S
        /\ \A s \in Requests : s # r => InHand(s)' = InHand(s)
    BY <1>7 DEF Takes, InHand
  <2>2. /\ S \cap orphaned = {}
        /\ \A s \in Requests : S \cap InHand(s) = {}
    BY <1>7 DEF Takes, Inv, OneCleaner
  <2>3. \A f \in S : row'[f] = "none"
    BY <1>7 DEF Takes
  <2>4. \A s \in Requests : \A f \in InHand(s)' \cup orphaned' : row'[f] = "none"
    BY <1>3, <2>1, <2>3
  <2>5. \A s \in Requests : InHand(s)' \cap orphaned' = {}
    BY <1>4, <2>1, <2>2
  <2>6. \A s, t \in Requests : s # t => InHand(s)' \cap InHand(t)' = {}
    BY <1>4, <2>1, <2>2
  <2> QED
    BY <2>4, <2>5, <2>6 DEF OneCleaner
<1> QED
  BY <1>5, <1>6, <1>7, HandStep, OrphanStep

-----------------------------------------------------------------------------
(* What a step does to the finalizers' locks and to the claims.            *)

\* The lock of f is free, kept or taken.
LockMove(f) ==
  \/ fileLock'[f] = NoReq
  \/ fileLock'[f] = fileLock[f] /\ Finishing(fileLock[f])'
  \/ \E r \in Requests : LockFile(r, f)

\* A row lock is held by a finalizer that still runs, and was taken on a pending
\* row of its work list.
LEMMA LockStep ==
  ASSUME Inv, [Next]_vars, NEW f \in Files
  PROVE  LockMove(f)
<1>0. /\ fileLock[f] \in Requests \cup {NoReq}
      /\ fileLock[f] # NoReq => pc[fileLock[f]] \in {"finish", "failing"}
  BY DEF Inv, TypeOK, FinalizedIsIssued, Finishing
<1> USE <1>0 DEF LockMove, Finishing, locks, request
<1>1. ASSUME NEW r \in Requests, Uploading(r)
      PROVE  LockMove(f)
  BY <1>1 DEF Uploading, AddFile, Reserve, ReservationFails, CompensateAddFile,
              ReturnUploadUrls, SigningFails, RollbackProvisionedFile, Ends,
              Inv, TypeOK
<1>2. ASSUME NEW r \in Requests, Finalizing(r)
      PROVE  LockMove(f)
  <2> USE DEF Inv, TypeOK
  <2>1. ASSUME NEW d \in Drops, FinishDrop(r, d)
        PROVE  LockMove(f)
    BY <2>1 DEF FinishDrop
  <2>2. ASSUME NEW g \in Files, LockFile(r, g)
        PROVE  LockMove(f)
    BY <2>2 DEF LockFile
  <2>3. ASSUME NEW g \in Files, SkipFile(r, g) \/ CompleteMultipart(r, g)
        PROVE  LockMove(f)
    BY <2>3 DEF SkipFile, CompleteMultipart
  <2>4. ASSUME NEW g \in Files, \/ StoreFile(r, g) \/ RejectFile(r, g)
                                \/ FinalizationFails(r, g) \/ FinalizationTimesOut(r, g)
        PROVE  LockMove(f)
    BY <2>4 DEF StoreFile, RejectFile, FinalizationFails, FinalizationTimesOut, Unlock
  <2>5. CASE SkipRest(r)
    BY <2>5 DEF SkipRest
  <2>6. CASE FinishFails(r) \/ FinishCompletes(r)
    BY <2>6 DEF FinishFails, FinishCompletes, Busy, Locks, Ends
  <2> QED
    BY <1>2, <2>1, <2>2, <2>3, <2>4, <2>5, <2>6 DEF Finalizing
<1>3. ASSUME NEW r \in Requests, Deleting(r)
      PROVE  LockMove(f)
  <2> USE DEF Inv, TypeOK
  <2>1. ASSUME NEW g \in Files,
               AbortUpload(r, g) \/ DeleteClaimed(r, g) \/ RecordOrphan(r, g)
        PROVE  LockMove(f)
    BY <2>1 DEF AbortUpload, DeleteClaimed, RecordOrphan
  <2>2. ASSUME NEW d \in Drops, NEW p \in Plans, ClaimDrop(r, d, p)
        PROVE  LockMove(f)
    BY <2>2 DEF ClaimDrop
  <2>3. CASE ClaimFiles(r) \/ ClaimFails(r)
    BY <2>3 DEF ClaimFiles, ClaimFails, Ends
  <2>4. CASE EnqueueClaimed(r)
    BY <2>4 DEF EnqueueClaimed, Ends
  <2>5. CASE HardDelete(r) \/ CleanupEnds(r)
    BY <2>5 DEF HardDelete, CleanupEnds, Ends
  <2> QED
    BY <1>3, <2>1, <2>2, <2>3, <2>4, <2>5 DEF Deleting
<1>4. ASSUME NEW r \in Requests, Sweeping(r)
      PROVE  LockMove(f)
  BY <1>4 DEF Sweeping, SweepOrphans, DeleteOrphans, ForgetOrphans, Ends, Inv, TypeOK
<1>5. ASSUME NEW r \in Requests, Crash(r)
      PROVE  LockMove(f)
  BY <1>5 DEF Crash, Ends, Inv, TypeOK
<1>6. ASSUME NEW d \in Drops, CreateDrop(d) \/ CompleteDrop(d) \/ SoftDelete(d)
      PROVE  LockMove(f)
  BY <1>6 DEF CreateDrop, CompleteDrop, SoftDelete
<1>7. ASSUME NEW g \in Files, LateCompletion(g)
      PROVE  LockMove(f)
  BY <1>7 DEF LateCompletion
<1>8. CASE UNCHANGED vars
  BY <1>8 DEF vars
<1> QED
  BY <1>1, <1>2, <1>3, <1>4, <1>5, <1>6, <1>7, <1>8 DEF Next

\* Ids that reached a client stay known.
LEMMA IssuedGrows ==
  ASSUME [Next]_vars
  PROVE  issued \subseteq issued'
BY IssuedStep DEF ReturnUploadUrls

\* Only files the client knows of are finalized, under their row's lock.
LEMMA FinalizedIsIssuedStep ==
  ASSUME Inv, [Next]_vars
  PROVE  FinalizedIsIssued'
<1> USE IssuedGrows
<1>1. ASSUME NEW f \in Files, row'[f] = "complete"
      PROVE  f \in issued'
  <2>1. CASE row[f] = "complete"
    BY <2>1 DEF Inv, FinalizedIsIssued
  <2>2. CASE row[f] # "complete"
    <3>1. \E r \in Requests : fileLock[f] = r
      BY <1>1, <2>2, RowStep
         DEF Inv, TypeOK, Reserve, StoreFile, Released, DeleteRows
    <3> QED
      BY <3>1, NamesAssumption DEF Inv, FinalizedIsIssued
  <2> QED
    BY <2>1, <2>2
<1>2. ASSUME NEW r \in Requests, Finishing(r)'
      PROVE  todo'[r] \subseteq issued'
  <2>1. CASE NoNewWork(r)
    BY <1>2, <2>1 DEF Inv, FinalizedIsIssued, NoNewWork
  <2>2. ASSUME NEW d \in Drops, FinishDrop(r, d)
        PROVE  todo'[r] \subseteq issued'
    <3>1. Pending(d) \subseteq issued /\ todo'[r] = Pending(d)
      BY <2>2 DEF FinishDrop, Pending, Inv, TypeOK
    <3> QED
      BY <3>1
  <2>3. CASE SweepOrphans(r) \/ \E f \in Files : AddFile(r, f)
    BY <1>2, <2>3 DEF SweepOrphans, AddFile, Finishing, Inv, TypeOK
  <2> QED
    BY <2>1, <2>2, <2>3, WorkStep
<1>3. ASSUME NEW f \in Files, fileLock'[f] # NoReq
      PROVE  row'[f] = "pending" /\ f \in issued' /\ Finishing(fileLock[f])'
  <2>1. ASSUME NEW r \in Requests, LockFile(r, f)
        PROVE  row'[f] = "pending" /\ f \in issued' /\ Finishing(fileLock[f])'
    <3>1. fileLock'[f] = r /\ pc' = pc /\ row' = row
      BY <2>1 DEF LockFile, database, Inv, TypeOK
    <3>2. f \in issued
      BY <2>1 DEF LockFile, Inv, FinalizedIsIssued
    <3> QED
      BY <2>1, <3>1, <3>2 DEF LockFile, Finishing
  <2>2. ASSUME fileLock'[f] = fileLock[f], Finishing(fileLock[f])'
        PROVE  row'[f] = "pending" /\ f \in issued' /\ Finishing(fileLock[f])'
    <3>1. row[f] = "pending" /\ f \in issued
      BY <1>3, <2>2 DEF Inv, FinalizedIsIssued
    <3>2. CASE UNCHANGED <<row, used>>
      BY <2>2, <3>1, <3>2 DEF Finishing
    <3>3. ASSUME NEW r \in Requests, NEW g \in Files, Reserve(r, g)
          PROVE  row'[f] = "pending"
      BY <3>1, <3>3 DEF Inv, TypeOK, Reserve
    <3>4. ASSUME NEW r \in Requests, NEW g \in Files, StoreFile(r, g)
          PROVE  row'[f] = "pending"
      BY <1>3, <3>1, <3>4 DEF Inv, TypeOK, StoreFile, Unlock
    <3>5. ASSUME NEW S \in SUBSET Files, Released(S)
          PROVE  row'[f] = "pending"
      BY <1>3, <3>1, <3>5 DEF Inv, TypeOK, Released, DeleteRows
    <3> QED
      BY <2>2, <3>1, <3>2, <3>3, <3>4, <3>5, RowStep DEF Finishing
  <2> QED
    BY <1>3, <2>1, <2>2, LockStep DEF LockMove
<1> QED
  BY <1>1, <1>2, <1>3 DEF FinalizedIsIssued

\* Where s is with its claim after a step.
ClaimMove(s) ==
  \/ pc'[s] \notin {"claim", "clean"} /\ plan'[s] = "none"
  \/ pc'[s] = pc[s] /\ plan'[s] = plan[s] /\ on'[s] = on[s]
  \/ pc'[s] = "claim" /\ on'[s] \in Drops
  \/ pc'[s] = "clean" /\ plan'[s] = "none"
  \/ ClaimFiles(s)

\* A handler claims nothing, or goes on with its claim, or begins one.
LEMMA ClaimStep ==
  ASSUME Inv, [Next]_vars, NEW s \in Requests
  PROVE  ClaimMove(s)
<1>0. pc[s] \notin {"claim", "clean"} => plan[s] = "none"
  BY DEF Inv, ClaimIsFinal
<1> USE <1>0 DEF Inv, TypeOK, ClaimMove, request
<1>1. ASSUME NEW r \in Requests, Uploading(r)
      PROVE  ClaimMove(s)
  BY <1>1 DEF Uploading, AddFile, Reserve, ReservationFails, CompensateAddFile,
              ReturnUploadUrls, SigningFails, RollbackProvisionedFile, Ends
<1>2. ASSUME NEW r \in Requests, Finalizing(r)
      PROVE  ClaimMove(s)
  <2>1. ASSUME NEW d \in Drops, FinishDrop(r, d)
        PROVE  ClaimMove(s)
    BY <2>1 DEF FinishDrop
  <2>2. ASSUME NEW g \in Files, \/ LockFile(r, g) \/ SkipFile(r, g)
                                \/ CompleteMultipart(r, g) \/ StoreFile(r, g)
        PROVE  ClaimMove(s)
    <3>1. SkipFile(r, g) => Finishing(r)
      BY DEF SkipFile
    <3> QED
      BY <2>2, <3>1 DEF LockFile, SkipFile, CompleteMultipart, StoreFile, Finishing
  <2>3. ASSUME NEW g \in Files, \/ RejectFile(r, g)
                                \/ FinalizationFails(r, g) \/ FinalizationTimesOut(r, g)
        PROVE  ClaimMove(s)
    <3>1. Finishing(r)
      BY <2>3, NamesAssumption DEF FinalizedIsIssued, RejectFile, FinalizationFails,
                                   FinalizationTimesOut
    <3> QED
      BY <2>3, <3>1 DEF RejectFile, FinalizationFails, FinalizationTimesOut, Finishing
  <2>4. CASE SkipRest(r) \/ FinishFails(r) \/ FinishCompletes(r)
    BY <2>4 DEF SkipRest, FinishFails, FinishCompletes, Ends
  <2> QED
    BY <1>2, <2>1, <2>2, <2>3, <2>4 DEF Finalizing
<1>3. ASSUME NEW r \in Requests, Deleting(r)
      PROVE  ClaimMove(s)
  <2>1. ASSUME NEW g \in Files,
               AbortUpload(r, g) \/ DeleteClaimed(r, g) \/ RecordOrphan(r, g)
        PROVE  ClaimMove(s)
    BY <2>1 DEF AbortUpload, DeleteClaimed, RecordOrphan
  <2>2. ASSUME NEW d \in Drops, NEW p \in Plans, ClaimDrop(r, d, p)
        PROVE  ClaimMove(s)
    BY <2>2 DEF ClaimDrop
  <2>3. CASE ClaimFiles(r)
    BY <2>3 DEF ClaimFiles
  <2>4. CASE ClaimFails(r)
    BY <2>4 DEF ClaimFails, Ends
  <2>5. CASE EnqueueClaimed(r)
    BY <2>5 DEF EnqueueClaimed, Ends
  <2>6. CASE HardDelete(r) \/ CleanupEnds(r)
    BY <2>6 DEF HardDelete, CleanupEnds, Ends
  <2> QED
    BY <1>3, <2>1, <2>2, <2>3, <2>4, <2>5, <2>6 DEF Deleting
<1>4. ASSUME NEW r \in Requests, Sweeping(r) \/ Crash(r)
      PROVE  ClaimMove(s)
  BY <1>4 DEF Sweeping, SweepOrphans, DeleteOrphans, ForgetOrphans, Crash, Ends
<1>5. ASSUME NEW d \in Drops, CreateDrop(d) \/ CompleteDrop(d) \/ SoftDelete(d)
      PROVE  ClaimMove(s)
  BY <1>5 DEF CreateDrop, CompleteDrop, SoftDelete
<1>6. ASSUME NEW f \in Files, LateCompletion(f)
      PROVE  ClaimMove(s)
  BY <1>6 DEF LateCompletion
<1>7. CASE UNCHANGED vars
  BY <1>7 DEF vars
<1> HIDE DEF Inv, TypeOK, ClaimMove, request
<1> QED
  BY <1>1, <1>2, <1>3, <1>4, <1>5, <1>6, <1>7 DEF Next

\* The deletion mark of a drop is never taken back.
LEMMA DeletedStep ==
  ASSUME TypeOK, [Next]_vars, NEW d \in Drops, deleted[d]
  PROVE  deleted'[d]
<1> USE DEF database
<1>1. ASSUME NEW r \in Requests, Uploading(r)
      PROVE  deleted' = deleted
  BY <1>1 DEF Uploading, AddFile, Reserve, ReservationFails, CompensateAddFile,
              ReturnUploadUrls, SigningFails, RollbackProvisionedFile
<1>2. ASSUME NEW r \in Requests, Finalizing(r)
      PROVE  deleted' = deleted
  BY <1>2 DEF Finalizing, FinishDrop, LockFile, SkipFile, CompleteMultipart,
              StoreFile, RejectFile, FinalizationFails, FinalizationTimesOut,
              SkipRest, FinishFails, FinishCompletes
<1>3. ASSUME NEW r \in Requests, Deleting(r), ~ClaimFiles(r)
      PROVE  deleted' = deleted
  BY <1>3 DEF Deleting, AbortUpload, DeleteClaimed, RecordOrphan, ClaimDrop,
              ClaimFails, EnqueueClaimed, HardDelete, CleanupEnds
<1>4. ASSUME NEW r \in Requests, ClaimFiles(r)
      PROVE  deleted'[d]
  BY <1>4 DEF ClaimFiles, TypeOK
<1>5. ASSUME NEW r \in Requests, Sweeping(r) \/ Crash(r)
      PROVE  deleted' = deleted
  BY <1>5 DEF Sweeping, SweepOrphans, DeleteOrphans, ForgetOrphans, Crash
<1>6. ASSUME NEW e \in Drops, CreateDrop(e) \/ CompleteDrop(e) \/ SoftDelete(e)
      PROVE  deleted'[d]
  BY <1>6 DEF CreateDrop, CompleteDrop, SoftDelete, TypeOK
<1>7. ASSUME NEW f \in Files, LateCompletion(f)
      PROVE  deleted' = deleted
  BY <1>7 DEF LateCompletion
<1>8. CASE UNCHANGED vars
  BY <1>8 DEF vars
<1> QED
  BY <1>1, <1>2, <1>3, <1>4, <1>5, <1>6, <1>7, <1>8 DEF Next

\* A claim took the last row of its drop: the deletion mark it set under the
\* drop's lock keeps reservations away.
LEMMA ClaimIsFinalStep ==
  ASSUME Inv, [Next]_vars
  PROVE  ClaimIsFinal'
<1>1. ASSUME NEW d \in Drops, deleted[d], Rows(d) = {}
      PROVE  deleted'[d] /\ Rows(d)' = {}
  <2>1. deleted'[d]
    BY <1>1, DeletedStep DEF Inv
  <2>2. CASE UNCHANGED <<row, used>>
    BY <1>1, <2>1, <2>2 DEF Rows
  <2>3. ASSUME NEW r \in Requests, NEW f \in Files, Reserve(r, f)
        PROVE  Rows(d)' = {}
    <3>1. DropOf[f] # d
      BY <1>1, <2>3 DEF Reserve, Reservable, Open
    <3> QED
      BY <1>1, <2>3, <3>1 DEF Inv, TypeOK, Reserve, Rows
  <2>4. ASSUME NEW r \in Requests, NEW f \in Files, StoreFile(r, f)
        PROVE  Rows(d)' = {}
    <3>1. row[f] = "pending"
      BY <2>4, NamesAssumption DEF Inv, FinalizedIsIssued, StoreFile
    <3> QED
      BY <1>1, <2>4, <3>1 DEF Inv, TypeOK, StoreFile, Rows
  <2>5. ASSUME NEW S \in SUBSET Files, Released(S)
        PROVE  Rows(d)' = {}
    BY <1>1, <2>5 DEF Inv, TypeOK, Released, DeleteRows, Rows
  <2> QED
    BY <2>1, <2>2, <2>3, <2>4, <2>5, RowStep
<1>2. ASSUME NEW r \in Requests, ClaimFiles(r)
      PROVE  /\ pc'[r] = "clean"
             /\ on'[r] \in Drops /\ deleted'[on'[r]] /\ Rows(on[r])' = {}
  <2>1. pc'[r] = "clean" /\ on' = on /\ on[r] \in Drops
    BY <1>2 DEF ClaimFiles, Inv, TypeOK, ClaimIsFinal
  <2>2. deleted'[on[r]]
    BY <1>2, <2>1 DEF ClaimFiles, Inv, TypeOK
  <2>3. Rows(on[r])' = {}
    BY <1>2, <2>1 DEF ClaimFiles, DeleteRows, Rows, Inv, TypeOK
  <2> QED
    BY <2>1, <2>2, <2>3
<1> SUFFICES ASSUME NEW r \in Requests
             PROVE  /\ pc'[r] \notin {"claim", "clean"} => plan'[r] = "none"
                    /\ pc'[r] = "claim" => on'[r] \in Drops
                    /\ pc'[r] = "clean" /\ plan'[r] # "none" =>
                          on'[r] \in Drops /\ deleted'[on'[r]] /\ Rows(on[r])' = {}
  BY DEF ClaimIsFinal
<1>3. CASE pc'[r] = pc[r] /\ plan'[r] = plan[r] /\ on'[r] = on[r]
  <2>1. CASE pc[r] = "clean" /\ plan[r] # "none"
    BY <1>1, <1>3, <2>1 DEF Inv, ClaimIsFinal
  <2>2. CASE ~(pc[r] = "clean" /\ plan[r] # "none")
    BY <1>3, <2>2 DEF Inv, ClaimIsFinal
  <2> QED
    BY <2>1, <2>2
<1> QED
  BY <1>2, <1>3, ClaimStep DEF ClaimMove

-----------------------------------------------------------------------------
(* Files nobody knows yet, and files about to be reserved.                 *)

\* A file id nobody has started an upload for appears nowhere.
LEMMA NothingBeforeUploadStep ==
  ASSUME Inv, [Next]_vars
  PROVE  NothingBeforeUpload'
<1> SUFFICES ASSUME NEW f \in Files, upload'[f] = "none"
             PROVE  /\ row'[f] = "none" /\ object'[f] = "none"
                    /\ f \notin orphaned' /\ f \notin issued'
                    /\ \A r \in Requests : f \notin todo'[r] /\ f \notin InHand(r)'
  BY DEF NothingBeforeUpload
<1>1. upload[f] = "none"
  BY UploadStep DEF Inv, UploadMove
<1>2. /\ row[f] = "none" /\ object[f] = "none"
      /\ f \notin orphaned /\ f \notin issued
      /\ \A r \in Requests : f \notin todo[r] /\ f \notin InHand(r)
  BY <1>1 DEF Inv, NothingBeforeUpload
<1>3. row'[f] = "none"
  <2>1. ASSUME NEW r \in Requests, NEW g \in Files, Reserve(r, g)
        PROVE  row'[f] = "none"
    BY <1>2, <2>1 DEF Reserve, Inv, TypeOK
  <2>2. ASSUME NEW r \in Requests, NEW g \in Files, StoreFile(r, g)
        PROVE  row'[f] = "none"
    <3>1. row[g] = "pending"
      BY <2>2, NamesAssumption DEF Inv, FinalizedIsIssued, StoreFile
    <3> QED
      BY <1>2, <2>2, <3>1 DEF StoreFile, Inv, TypeOK
  <2> QED
    BY <1>2, <2>1, <2>2, RowStep DEF Released, DeleteRows
<1>4. object'[f] = "none"
  BY <1>1, <1>2, ObjectStep DEF ObjectMove
<1>5. f \notin orphaned'
  BY <1>2, OrphanStep DEF GivesUp
<1>6. f \notin issued'
  BY <1>2, IssuedStep DEF ReturnUploadUrls
<1>7. ASSUME NEW r \in Requests
      PROVE  f \notin todo'[r]
  <2>1. ASSUME NEW g \in Files, AddFile(r, g)
        PROVE  f \notin todo'[r]
    BY <1>2, <2>1 DEF AddFile, Inv, TypeOK
  <2>2. ASSUME NEW d \in Drops, FinishDrop(r, d)
        PROVE  f \notin todo'[r]
    <3>1. todo'[r] = Pending(d)
      BY <2>2 DEF FinishDrop, Inv, TypeOK
    <3> QED
      BY <1>2, <3>1 DEF Pending, Rows
  <2>3. CASE SweepOrphans(r)
    BY <1>2, <2>3 DEF SweepOrphans, Inv, TypeOK
  <2> QED
    BY <1>2, <2>1, <2>2, <2>3, WorkStep DEF NoNewWork
<1>8. ASSUME NEW r \in Requests
      PROVE  f \notin InHand(r)'
  <2>1. CASE NothingTaken
    BY <1>2, <2>1 DEF NothingTaken
  <2>2. ASSUME NEW s \in Requests, NEW S \in SUBSET Files, Takes(s, S)
        PROVE  f \notin InHand(r)'
    BY <1>2, <2>2 DEF Takes, InHand
  <2> QED
    BY <2>1, <2>2, HandStep
<1> QED
  BY <1>3, <1>4, <1>5, <1>6, <1>7, <1>8

\* Until it is reserved, a file has no row and nobody cleans it up.
LEMMA ReservedFromNothingStep ==
  ASSUME Inv, [Next]_vars
  PROVE  ReservedFromNothing'
<1> SUFFICES ASSUME NEW r \in Requests, pc'[r] = "reserve", NEW f \in todo'[r]
             PROVE  /\ row'[f] = "none" /\ f \notin orphaned'
                    /\ \A s \in Requests : /\ f \notin InHand(s)'
                                           /\ Sweeps(s)' => f \notin todo'[s]
  BY DEF ReservedFromNothing
<1>0. f \in Files
  BY TypeStep DEF Inv, TypeOK
<1>1. CASE AddFile(r, f)
  <2>1. /\ row[f] = "none" /\ f \notin orphaned /\ f \in Files
        /\ \A s \in Requests : f \notin todo[s] /\ f \notin InHand(s)
    BY <1>0, <1>1 DEF AddFile, Inv, NothingBeforeUpload
  <2>2. \A s \in Requests : s # r => todo'[s] = todo[s]
    BY <1>1 DEF AddFile, Inv, TypeOK
  <2>3. ~Sweeps(r)' /\ row' = row /\ orphaned' = orphaned
        /\ \A s \in Requests : InHand(s)' = InHand(s)
    BY <1>1 DEF AddFile, Sweeps, Inv, TypeOK, database, InHand
  <2> QED
    BY <2>1, <2>2, <2>3
<1>2. CASE pc[r] = "reserve" /\ f \in todo[r] /\ NoNewWork(r)
  <2>1. /\ row[f] = "none" /\ f \notin orphaned /\ f \in Files
        /\ \A s \in Requests : /\ f \notin InHand(s)
                               /\ Sweeps(s) => f \notin todo[s]
    BY <1>2 DEF Inv, ReservedFromNothing, TypeOK
  <2>2. row'[f] = "none"
    <3>1. ASSUME NEW s \in Requests, NEW g \in Files, Reserve(s, g)
          PROVE  row'[f] = "none"
      <4>1. s # r
        BY <3>1 DEF Reserve, Inv, TypeOK
      <4>2. g # f
        BY <1>2, <3>1, <4>1 DEF Reserve, Inv, PreparedInPrivate, Preparing
      <4> QED
        BY <2>1, <3>1, <4>2 DEF Reserve, Inv, TypeOK
    <3>2. ASSUME NEW s \in Requests, NEW g \in Files, StoreFile(s, g)
          PROVE  row'[f] = "none"
      <4>1. row[g] = "pending"
        BY <3>2, NamesAssumption DEF Inv, FinalizedIsIssued, StoreFile
      <4> QED
        BY <2>1, <3>2, <4>1 DEF StoreFile, Inv, TypeOK
    <3> QED
      BY <2>1, <3>1, <3>2, RowStep DEF Released, DeleteRows
  <2>3. f \notin orphaned'
    BY <2>1, OrphanStep DEF GivesUp
  <2>4. ASSUME NEW s \in Requests
        PROVE  f \notin InHand(s)'
    <3>1. CASE NothingTaken
      BY <2>1, <3>1 DEF NothingTaken
    <3>2. ASSUME NEW t \in Requests, NEW S \in SUBSET Files, Takes(t, S)
          PROVE  f \notin InHand(s)'
      BY <2>1, <3>2 DEF Takes, InHand
    <3> QED
      BY <3>1, <3>2, HandStep
  <2>5. ASSUME NEW s \in Requests, Sweeps(s)'
        PROVE  f \notin todo'[s]
    BY <2>1, <2>5, WorkStep
       DEF NoNewWork, AddFile, FinishDrop, SweepOrphans, Sweeps, Inv, TypeOK
  <2> QED
    BY <2>2, <2>3, <2>4, <2>5
<1>3. AddFile(r, f) \/ (pc[r] = "reserve" /\ f \in todo[r] /\ NoNewWork(r))
  BY WorkStep DEF NoNewWork, AddFile, FinishDrop, SweepOrphans, Inv, TypeOK
<1> QED
  BY <1>1, <1>2, <1>3

-----------------------------------------------------------------------------
(* The invariant, and what follows from it.                                *)

\* Inv holds before anything has happened.
LEMMA InvInit == Init => Inv
<1> SUFFICES ASSUME Init PROVE Inv
  OBVIOUS
<1> USE DEF Init
<1>1. TypeOK
  BY NumbersAssumption DEF TypeOK, PCs, Plans
<1>2. QuotaExact
  <2>1. \A o \in Owners : Live(o) = {}
    BY DEF Live
  <2> QED
    BY <2>1, BytesAssumption DEF QuotaExact
<1>3. CompletedIsSealed /\ StoredIsIntact /\ OneCleaner
  BY DEF CompletedIsSealed, StoredIsIntact, OneCleaner, InHand
<1>4. NothingBeforeUpload /\ AssembledOnce /\ OneHand
  BY DEF NothingBeforeUpload, AssembledOnce, OneHand, InHand
<1>5. PreparedInPrivate /\ ReservedFromNothing /\ SweptHasNoRow
  BY DEF PreparedInPrivate, ReservedFromNothing, SweptHasNoRow, Preparing, Sweeps
<1>6. FinalizedIsIssued /\ ClaimIsFinal
  BY DEF FinalizedIsIssued, ClaimIsFinal, Finishing
<1> QED
  BY <1>1, <1>2, <1>3, <1>4, <1>5, <1>6 DEF Inv

\* Every step of every handler, faults and crashes included, keeps Inv.
LEMMA InvStep ==
  ASSUME Inv, [Next]_vars
  PROVE  Inv'
<1>1. TypeOK'
  BY TypeStep DEF Inv
<1> QED
  BY <1>1, QuotaStep, CompletedIsSealedStep, StoredIsIntactStep, OneCleanerStep,
     NothingBeforeUploadStep, AssembledOnceStep, PreparedInPrivateStep,
     ReservedFromNothingStep, SweptHasNoRowStep, FinalizedIsIssuedStep,
     ClaimIsFinalStep, OneHandStep
     DEF Inv

\* Inv is an invariant of the handlers and cron jobs, for any number of them.
THEOREM Invariance == Spec => []Inv
<1>1. Init => Inv
  BY InvInit
<1>2. Inv /\ [Next]_vars => Inv'
  BY InvStep
<1> QED
  BY <1>1, <1>2, PTL DEF Spec

\* Type correctness: every reachable state is one the model describes.
THEOREM TypeCorrect == Spec => []TypeOK
<1>1. Inv => TypeOK
  BY DEF Inv
<1> QED
  BY <1>1, Invariance, PTL

\* storageUsed is exact in every reachable state: no race of reservations,
\* finalizers, aborts and deletions, and no fault or crash, makes the counter
\* of an account or organization drift from its file rows.
THEOREM QuotaCorrect == Spec => []QuotaExact
<1>1. Inv => QuotaExact
  BY DEF Inv
<1> QED
  BY <1>1, Invariance, PTL

\* A completed drop never has a pending file.
THEOREM SealCorrect == Spec => []CompletedIsSealed
<1>1. Inv => CompletedIsSealed
  BY DEF Inv
<1> QED
  BY <1>1, Invariance, PTL

\* The object of a complete file row is never deleted or replaced in R2.
THEOREM StoredCorrect == Spec => []StoredIsIntact
<1>1. Inv => StoredIsIntact
  BY DEF Inv
<1> QED
  BY <1>1, Invariance, PTL

\* No two cleaners work on one file, and none on a file that has a row.
THEOREM CleanersCorrect == Spec => []OneCleaner
<1>1. Inv => OneCleaner
  BY DEF Inv
<1> QED
  BY <1>1, Invariance, PTL

\* Hard-deleting a drop never takes a file row with it.
LEMMA HardDeleteStep ==
  ASSUME Inv, [Next]_vars, NEW d \in Drops, Exists(d), drop'[d] = "gone"
  PROVE  Rows(d) = {}
<1> USE DEF Inv, TypeOK, database, Exists
<1>1. ASSUME NEW r \in Requests, Uploading(r)
      PROVE  drop' = drop
  BY <1>1 DEF Uploading, AddFile, Reserve, ReservationFails, CompensateAddFile,
              ReturnUploadUrls, SigningFails, RollbackProvisionedFile
<1>2. ASSUME NEW r \in Requests, Finalizing(r)
      PROVE  drop'[d] # "gone"
  BY <1>2 DEF Finalizing, FinishDrop, LockFile, SkipFile, CompleteMultipart,
              StoreFile, RejectFile, FinalizationFails, FinalizationTimesOut,
              SkipRest, FinishFails, FinishCompletes
<1>3. ASSUME NEW r \in Requests, Deleting(r), ~HardDelete(r)
      PROVE  drop' = drop
  BY <1>3 DEF Deleting, AbortUpload, DeleteClaimed, RecordOrphan, ClaimDrop,
              ClaimFiles, ClaimFails, EnqueueClaimed, CleanupEnds
<1>4. ASSUME NEW r \in Requests, HardDelete(r)
      PROVE  Rows(d) = {}
  <2>1. Rows(on[r]) = {}
    BY <1>4, HardDeleteKeepsRows
  <2>2. on[r] = d
    BY <1>4 DEF HardDelete
  <2> QED
    BY <2>1, <2>2
<1>5. ASSUME NEW r \in Requests, Sweeping(r) \/ Crash(r)
      PROVE  drop' = drop
  BY <1>5 DEF Sweeping, SweepOrphans, DeleteOrphans, ForgetOrphans, Crash
<1>6. ASSUME NEW e \in Drops, CreateDrop(e) \/ CompleteDrop(e) \/ SoftDelete(e)
      PROVE  drop'[d] # "gone"
  BY <1>6 DEF CreateDrop, CompleteDrop, SoftDelete
<1>7. ASSUME NEW f \in Files, LateCompletion(f)
      PROVE  drop' = drop
  BY <1>7 DEF LateCompletion
<1>8. CASE UNCHANGED vars
  BY <1>8 DEF vars
<1> QED
  BY <1>1, <1>2, <1>3, <1>4, <1>5, <1>6, <1>7, <1>8 DEF Next

\* The cascade of a hard deletion never finds a file row, whose bytes would stay
\* charged and whose object would stay in R2.
THEOREM HardDeleteCorrect == Spec => HardDeleteFindsNoFile
<1>1. Inv /\ [Next]_vars =>
        [\A d \in Drops : Exists(d) /\ drop'[d] = "gone" => Rows(d) = {}]_vars
  BY HardDeleteStep
<1> QED
  BY <1>1, Invariance, PTL DEF Spec, HardDeleteFindsNoFile

-----------------------------------------------------------------------------
(* The limits.                                                             *)

\* Sets of files that shrink have neither more bytes nor more elements.
LEMMA ShrinksWithin ==
  ASSUME NEW S \in SUBSET Files, NEW T \in SUBSET Files, S \subseteq T
  PROVE  Bytes[S] <= Bytes[T] /\ Cardinality(S) <= Cardinality(T)
         /\ Bytes[S] \in Nat /\ Bytes[T] \in Nat
         /\ Cardinality(S) \in Nat /\ Cardinality(T) \in Nat
<1>1. IsFiniteSet(T) /\ IsFiniteSet(S)
  BY FilesAssumption, FS_Subset
<1> QED
  BY <1>1, FS_Subset, FS_CardinalityType, BytesMonotone, BytesType

\* The reservation's second check, under the drop's lock, is the one that counts.
LEMMA LimitsStep ==
  ASSUME Inv, LimitsHold, [Next]_vars
  PROVE  LimitsHold'
<1>1. CASE UNCHANGED <<row, used>>
  BY <1>1 DEF LimitsHold, Rows, Pending
<1>2. ASSUME \A d \in Drops : Rows(d)' \subseteq Rows(d) /\ Pending(d)' \subseteq Pending(d),
             \A o \in Owners : used'[o] <= used[o],
             used' \in [Owners -> Nat]
      PROVE  LimitsHold'
  <2>1. ASSUME NEW o \in Owners
        PROVE  used'[o] <= Limit[o]
    <3>1. used'[o] \in Nat /\ used[o] \in Nat /\ Limit[o] \in Nat
      BY <1>2, NumbersAssumption DEF Inv, TypeOK
    <3>2. used'[o] <= used[o] /\ used[o] <= Limit[o]
      BY <1>2 DEF LimitsHold
    <3> QED
      BY <3>1, <3>2
  <2>2. ASSUME NEW d \in Drops
        PROVE  /\ Bytes[Rows(d)'] <= DropLimit[d]
               /\ Cardinality(Rows(d)') <= MaxFiles[d]
               /\ OwnerOf[d] # Guest => Cardinality(Pending(d)') <= MaxPending
    <3>1. /\ Rows(d) \in SUBSET Files /\ Rows(d)' \in SUBSET Files
          /\ Pending(d) \in SUBSET Files /\ Pending(d)' \in SUBSET Files
      BY DEF Rows, Pending
    <3>2. Rows(d)' \subseteq Rows(d) /\ Pending(d)' \subseteq Pending(d)
      BY <1>2
    <3>3. /\ Bytes[Rows(d)] <= DropLimit[d]
          /\ Cardinality(Rows(d)) <= MaxFiles[d]
          /\ OwnerOf[d] # Guest => Cardinality(Pending(d)) <= MaxPending
      BY DEF LimitsHold
    <3>4. DropLimit[d] \in Nat /\ MaxFiles[d] \in Nat /\ MaxPending \in Nat
      BY NumbersAssumption
    <3>5. /\ Bytes[Rows(d)'] <= Bytes[Rows(d)]
          /\ Cardinality(Rows(d)') <= Cardinality(Rows(d))
          /\ Bytes[Rows(d)] \in Nat /\ Bytes[Rows(d)'] \in Nat
          /\ Cardinality(Rows(d)) \in Nat /\ Cardinality(Rows(d)') \in Nat
      BY <3>1, <3>2, ShrinksWithin
    <3>6. /\ Cardinality(Pending(d)') <= Cardinality(Pending(d))
          /\ Cardinality(Pending(d)) \in Nat /\ Cardinality(Pending(d)') \in Nat
      BY <3>1, <3>2, ShrinksWithin
    <3> QED
      BY <3>3, <3>4, <3>5, <3>6
  <2> QED
    BY <2>1, <2>2 DEF LimitsHold
<1>3. ASSUME NEW r \in Requests, NEW f \in Files, StoreFile(r, f)
      PROVE  LimitsHold'
  <2>1. row[f] = "pending"
    BY <1>3, NamesAssumption DEF Inv, FinalizedIsIssued, StoreFile
  <2>2. \A d \in Drops : Rows(d)' \subseteq Rows(d) /\ Pending(d)' \subseteq Pending(d)
    BY <1>3, <2>1 DEF StoreFile, Rows, Pending, Inv, TypeOK
  <2>3. used' = used /\ used \in [Owners -> Nat]
    BY <1>3 DEF StoreFile, Inv, TypeOK
  <2> QED
    BY <2>2, <2>3, <1>2
<1>4. ASSUME NEW S \in SUBSET Files, Released(S)
      PROVE  LimitsHold'
  <2>1. \A d \in Drops : Rows(d)' \subseteq Rows(d) /\ Pending(d)' \subseteq Pending(d)
    BY <1>4 DEF Released, DeleteRows, Rows, Pending, Inv, TypeOK
  <2>2. ASSUME NEW o \in Owners
        PROVE  used'[o] <= used[o]
    <3>1. used'[o] = used[o] - Bytes[{f \in S : Charged[f] = o}]
      BY <1>4, ReleaseIsExact DEF Released, Inv
    <3>2. Bytes[{f \in S : Charged[f] = o}] \in Nat /\ used[o] \in Nat
      BY BytesType DEF Inv, TypeOK
    <3> QED
      BY <3>1, <3>2
  <2>3. used' \in [Owners -> Nat]
    BY TypeStep DEF Inv, TypeOK
  <2> QED
    BY <2>1, <2>2, <2>3, <1>2
<1>5. ASSUME NEW r \in Requests, NEW f \in Files, Reserve(r, f)
      PROVE  LimitsHold'
  <2>1. row[f] = "none"
    BY <1>5 DEF Inv, ReservedFromNothing, Reserve
  <2>2. DropOf[f] \in Drops /\ Charged[f] = OwnerOf[DropOf[f]]
    BY NamesAssumption DEF Charged
  <2>3. ASSUME NEW o \in Owners
        PROVE  used'[o] <= Limit[o]
    <3>1. CASE Charged[f] = o
      <4>1. used[o] + Bytes[{f}] <= Limit[o]
        BY <1>5, <2>2, <3>1, NamesAssumption DEF Reserve, Reservable, WithinQuota
      <4>2. used'[o] = used[o] + Bytes[{f}]
        BY <1>5, <3>1 DEF Reserve, Charge
      <4> QED
        BY <4>1, <4>2
    <3>2. CASE Charged[f] # o
      <4>1. used'[o] = used[o]
        BY <1>5, <3>2 DEF Reserve, Charge
      <4> QED
        BY <4>1 DEF LimitsHold
    <3> QED
      BY <3>1, <3>2
  <2>4. ASSUME NEW d \in Drops
        PROVE  /\ Bytes[Rows(d)'] <= DropLimit[d]
               /\ Cardinality(Rows(d)') <= MaxFiles[d]
               /\ OwnerOf[d] # Guest => Cardinality(Pending(d)') <= MaxPending
    <3>1. CASE DropOf[f] = d
      <4>1. /\ Rows(d)' = Rows(d) \cup {f} /\ f \notin Rows(d)
            /\ Pending(d)' = Pending(d) \cup {f} /\ f \notin Pending(d)
        BY <1>5, <2>1, <3>1 DEF Reserve, Rows, Pending, Inv, TypeOK
      <4>2. IsFiniteSet(Rows(d)) /\ IsFiniteSet(Pending(d))
        BY FilesAssumption, FS_Subset DEF Rows, Pending
      <4>3. /\ Cardinality(Rows(d)') = Cardinality(Rows(d)) + 1
            /\ Cardinality(Pending(d)') = Cardinality(Pending(d)) + 1
            /\ Cardinality(Rows(d)) \in Nat /\ Cardinality(Pending(d)) \in Nat
        BY <4>1, <4>2, FS_AddElement, FS_CardinalityType
      <4>4. /\ Bytes[Rows(d) \cup {f}] <= DropLimit[d]
            /\ Cardinality(Rows(d)) < MaxFiles[d]
            /\ OwnerOf[d] # Guest => Cardinality(Pending(d)) < MaxPending
        BY <1>5, <3>1 DEF Reserve, Reservable, WithinQuota
      <4> HIDE DEF Rows, Pending
      <4> QED
        BY <2>2, <3>1, <4>1, <4>3, <4>4, NumbersAssumption
    <3>2. CASE DropOf[f] # d
      <4>1. Rows(d)' = Rows(d) /\ Pending(d)' = Pending(d)
        BY <1>5, <3>2 DEF Reserve, Rows, Pending, Inv, TypeOK
      <4> QED
        BY <4>1 DEF LimitsHold
    <3> QED
      BY <3>1, <3>2
  <2> QED
    BY <2>3, <2>4 DEF LimitsHold
<1> QED
  BY <1>1, <1>3, <1>4, <1>5, RowStep

\* No limit is overstepped, however many reservations run at once.
THEOREM LimitsCorrect == Spec => []LimitsHold
<1>1. Init => LimitsHold
  <2>1. ASSUME Init, NEW d \in Drops
        PROVE  Rows(d) = {} /\ Pending(d) = {}
    BY <2>1 DEF Init, Rows, Pending
  <2>2. ASSUME Init, NEW d \in Drops
        PROVE  Bytes[Rows(d)] = 0 /\ Cardinality(Rows(d)) = 0 /\ Cardinality(Pending(d)) = 0
    BY <2>1, <2>2, FS_EmptySet, BytesAssumption
  <2>3. ASSUME Init, NEW o \in Owners
        PROVE  used[o] = 0 /\ Limit[o] \in Nat
    BY <2>3, NumbersAssumption DEF Init
  <2>4. \A d \in Drops : DropLimit[d] \in Nat /\ MaxFiles[d] \in Nat
    BY NumbersAssumption
  <2>5. MaxPending \in Nat
    BY NumbersAssumption
  <2> QED
    BY <2>2, <2>3, <2>4, <2>5 DEF LimitsHold
<1>2. Inv /\ LimitsHold /\ [Next]_vars => LimitsHold'
  BY LimitsStep
<1> QED
  BY <1>1, <1>2, Invariance, PTL DEF Spec

-----------------------------------------------------------------------------
(* A completed drop keeps its files.                                       *)

\* Only the deletion of a completed drop takes a file from it.
LEMMA CompletedKeepsFilesStep ==
  ASSUME Inv, [Next]_vars, NEW d \in Drops, drop[d] = "complete", ~deleted'[d]
  PROVE  Rows(d)' = Rows(d)
<1>1. \A f \in Files : DropOf[f] = d => row[f] # "pending"
  BY DEF Inv, CompletedIsSealed, Pending, Rows
<1>2. CASE UNCHANGED <<row, used>>
  BY <1>2 DEF Rows
<1>3. ASSUME NEW r \in Requests, NEW f \in Files, Reserve(r, f)
      PROVE  Rows(d)' = Rows(d)
  BY <1>3 DEF Reserve, Reservable, Open, Rows, Inv, TypeOK
<1>4. ASSUME NEW r \in Requests, NEW f \in Files, StoreFile(r, f)
      PROVE  Rows(d)' = Rows(d)
  <2>1. row[f] = "pending"
    BY <1>4, NamesAssumption DEF Inv, FinalizedIsIssued, StoreFile
  <2>2. \A g \in Files : row[g] # "none" <=> row'[g] # "none"
    BY <1>4, <2>1 DEF StoreFile, Inv, TypeOK
  <2> QED
    BY <2>2 DEF Rows
<1>5. ASSUME NEW r \in Requests, NEW f \in Files, RejectFile(r, f) \/ AbortUpload(r, f)
      PROVE  Rows(d)' = Rows(d)
  <2>1. row[f] = "pending" /\ DeleteRows({f})
    BY <1>5, NamesAssumption DEF Inv, FinalizedIsIssued, RejectFile, AbortUpload
  <2> QED
    BY <1>1, <2>1 DEF DeleteRows, Rows
<1>6. ASSUME NEW r \in Requests, RollbackProvisionedFile(r)
      PROVE  Rows(d)' = Rows(d)
  <2>1. \A f \in todo[r] : f \in Files /\ row[f] # "complete"
    BY <1>6 DEF RollbackProvisionedFile, Inv, TypeOK, PreparedInPrivate, Preparing,
                FinalizedIsIssued
  <2>2. \A f \in todo[r] : row[f] # "none" => DropOf[f] # d
    BY <1>1, <2>1 DEF Inv, TypeOK
  <2>3. CASE UNCHANGED <<row, used>>
    BY <1>2, <2>3
  <2>4. CASE DeleteRows({f \in todo[r] : row[f] # "none"})
    BY <2>2, <2>4 DEF DeleteRows, Rows
  <2> QED
    BY <1>6, <2>3, <2>4 DEF RollbackProvisionedFile
<1>7. ASSUME NEW r \in Requests, ClaimFiles(r)
      PROVE  Rows(d)' = Rows(d)
  <2>1. on[r] # d
    BY <1>7 DEF ClaimFiles, Inv, TypeOK
  <2> QED
    BY <1>7, <2>1 DEF ClaimFiles, DeleteRows, Rows
<1>8. ASSUME NEW r \in Requests, HardDelete(r)
      PROVE  Rows(d)' = Rows(d)
  BY <1>8, <1>2, HardDeleteKeepsRows
<1> QED
  BY <1>2, <1>3, <1>4, <1>5, <1>6, <1>7, <1>8, RowChanges

\* A completed drop keeps every file until it is deleted as a whole: neither an
\* abort, nor a rejected size, nor the rollback of a failed addFile reaches in.
THEOREM CompletedCorrect == Spec => CompletedKeepsFiles
<1>1. Inv /\ [Next]_vars =>
        [\A d \in Drops : drop[d] = "complete" /\ ~deleted'[d] => Rows(d)' = Rows(d)]_vars
  BY CompletedKeepsFilesStep
<1> QED
  BY <1>1, Invariance, PTL DEF Spec, CompletedKeepsFiles

-----------------------------------------------------------------------------
(* The handlers implement the ledger.                                      *)

\* The handler s goes on with the reservation it was about to make.
KeepsReserving(s) == pc[s] = "reserve" => pc'[s] = "reserve" /\ todo'[s] = todo[s]

\* An id stops being free to reserve when its handler reserves it, is refused,
\* or dies.
LEMMA ReserveEnds ==
  ASSUME Inv, [Next]_vars
  PROVE  \/ \A s \in Requests : KeepsReserving(s)
         \/ \E r \in Requests : pc[r] = "reserve" /\ Crash(r)
         \/ \E r \in Requests, f \in Files : Reserve(r, f) \/ ReservationFails(r, f)
<1> SUFFICES ASSUME NEW s \in Requests,
                    ~ \E r \in Requests : pc[r] = "reserve" /\ Crash(r),
                    ~ \E r \in Requests, f \in Files :
                         Reserve(r, f) \/ ReservationFails(r, f)
             PROVE  KeepsReserving(s)
  OBVIOUS
<1> USE DEF Inv, TypeOK, KeepsReserving, request
<1>1. ASSUME NEW r \in Requests, Uploading(r)
      PROVE  KeepsReserving(s)
  BY <1>1 DEF Uploading, AddFile, CompensateAddFile, ReturnUploadUrls,
              SigningFails, RollbackProvisionedFile, Ends
<1>2. ASSUME NEW r \in Requests, Finalizing(r)
      PROVE  KeepsReserving(s)
  <2>1. ASSUME NEW d \in Drops, FinishDrop(r, d)
        PROVE  KeepsReserving(s)
    BY <2>1 DEF FinishDrop
  <2>2. ASSUME NEW g \in Files, \/ LockFile(r, g) \/ SkipFile(r, g)
                                \/ CompleteMultipart(r, g) \/ StoreFile(r, g)
        PROVE  KeepsReserving(s)
    BY <2>2 DEF LockFile, SkipFile, CompleteMultipart, StoreFile, Finishing
  <2>3. ASSUME NEW g \in Files, \/ RejectFile(r, g)
                                \/ FinalizationFails(r, g) \/ FinalizationTimesOut(r, g)
        PROVE  KeepsReserving(s)
    <3>1. Finishing(r)
      BY <2>3, NamesAssumption DEF FinalizedIsIssued, RejectFile, FinalizationFails,
                                   FinalizationTimesOut
    <3> QED
      BY <2>3, <3>1 DEF RejectFile, FinalizationFails, FinalizationTimesOut, Finishing
  <2>4. CASE SkipRest(r) \/ FinishFails(r) \/ FinishCompletes(r)
    BY <2>4 DEF SkipRest, FinishFails, FinishCompletes, Ends
  <2> QED
    BY <1>2, <2>1, <2>2, <2>3, <2>4 DEF Finalizing
<1>3. ASSUME NEW r \in Requests, Deleting(r)
      PROVE  KeepsReserving(s)
  <2>1. ASSUME NEW g \in Files,
               AbortUpload(r, g) \/ DeleteClaimed(r, g) \/ RecordOrphan(r, g)
        PROVE  KeepsReserving(s)
    BY <2>1 DEF AbortUpload, DeleteClaimed, RecordOrphan
  <2>2. ASSUME NEW d \in Drops, NEW p \in Plans, ClaimDrop(r, d, p)
        PROVE  KeepsReserving(s)
    BY <2>2 DEF ClaimDrop
  <2>3. CASE ClaimFiles(r) \/ ClaimFails(r)
    BY <2>3 DEF ClaimFiles, ClaimFails, Ends
  <2>4. CASE EnqueueClaimed(r)
    BY <2>4 DEF EnqueueClaimed, Ends
  <2>5. CASE HardDelete(r) \/ CleanupEnds(r)
    BY <2>5 DEF HardDelete, CleanupEnds, Ends
  <2> QED
    BY <1>3, <2>1, <2>2, <2>3, <2>4, <2>5 DEF Deleting
<1>4. ASSUME NEW r \in Requests, Sweeping(r)
      PROVE  KeepsReserving(s)
  BY <1>4 DEF Sweeping, SweepOrphans, DeleteOrphans, ForgetOrphans, Ends
<1>5. ASSUME NEW r \in Requests, Crash(r)
      PROVE  KeepsReserving(s)
  BY <1>5 DEF Crash, Ends
<1>6. ASSUME NEW d \in Drops, CreateDrop(d) \/ CompleteDrop(d) \/ SoftDelete(d)
      PROVE  KeepsReserving(s)
  BY <1>6 DEF CreateDrop, CompleteDrop, SoftDelete
<1>7. ASSUME NEW g \in Files, LateCompletion(g)
      PROVE  KeepsReserving(s)
  BY <1>7 DEF LateCompletion
<1>8. CASE UNCHANGED vars
  BY <1>8 DEF vars
<1> HIDE DEF Inv, TypeOK, KeepsReserving, request
<1> QED
  BY <1>1, <1>2, <1>3, <1>4, <1>5, <1>6, <1>7, <1>8 DEF Next

\* An upload is started by addFile only.
LEMMA UploadOpens ==
  ASSUME Inv, [Next]_vars, NEW f \in Files, upload[f] = "none"
  PROVE  upload'[f] = "none" \/ \E r \in Requests : AddFile(r, f)
<1>1. \A r \in Requests : f \notin todo[r] /\ f \notin claimed[r]
  BY DEF Inv, NothingBeforeUpload, InHand
<1> USE DEF Inv, TypeOK, storage
<1>2. ASSUME NEW S \in SUBSET Files, f \notin S, AbortMultipart(S)
      PROVE  upload'[f] = "none"
  BY <1>2 DEF AbortMultipart
<1>3. ASSUME NEW r \in Requests, NEW g \in Files, AddFile(r, g), g # f
      PROVE  upload'[f] = "none"
  BY <1>3 DEF AddFile
<1>4. ASSUME NEW r \in Requests, CompensateAddFile(r) \/ SigningFails(r) \/ EnqueueClaimed(r)
      PROVE  upload'[f] = "none"
  BY <1>1, <1>2, <1>4 DEF CompensateAddFile, SigningFails, EnqueueClaimed
<1>5. ASSUME NEW r \in Requests, NEW g \in Files, DeleteClaimed(r, g)
      PROVE  upload'[f] = "none"
  <2>1. {g} \in SUBSET Files /\ f \notin {g} /\ AbortMultipart({g})
    BY <1>1, <1>5 DEF DeleteClaimed
  <2> QED
    BY <2>1, <1>2
<1>6. ASSUME NEW g \in Files,
             LateCompletion(g) \/ \E r \in Requests : CompleteMultipart(r, g)
      PROVE  upload'[f] = "none"
  BY <1>6 DEF CompleteMultipart, LateCompletion, Assemble
<1>7. ASSUME NEW r \in Requests, Uploading(r), \A g \in Files : ~AddFile(r, g),
             ~CompensateAddFile(r), ~SigningFails(r)
      PROVE  upload' = upload
  BY <1>7 DEF Uploading, Reserve, ReservationFails, ReturnUploadUrls,
              RollbackProvisionedFile
<1>8. ASSUME NEW r \in Requests, Finalizing(r), \A g \in Files : ~CompleteMultipart(r, g)
      PROVE  upload' = upload
  BY <1>8 DEF Finalizing, FinishDrop, LockFile, SkipFile,
              StoreFile, RejectFile, FinalizationFails, FinalizationTimesOut,
              SkipRest, FinishFails, FinishCompletes
<1>9. ASSUME NEW r \in Requests, Deleting(r), \A g \in Files : ~DeleteClaimed(r, g),
             ~EnqueueClaimed(r)
      PROVE  upload' = upload
  BY <1>9 DEF Deleting, AbortUpload, RecordOrphan, ClaimDrop, ClaimFiles,
              ClaimFails, HardDelete, CleanupEnds
<1>10. ASSUME NEW r \in Requests, Sweeping(r) \/ Crash(r)
       PROVE  upload' = upload
  BY <1>10 DEF Sweeping, SweepOrphans, DeleteOrphans, ForgetOrphans, Crash
<1>11. ASSUME NEW d \in Drops, CreateDrop(d) \/ CompleteDrop(d) \/ SoftDelete(d)
       PROVE  upload' = upload
  BY <1>11 DEF CreateDrop, CompleteDrop, SoftDelete
<1>12. CASE UNCHANGED vars
  BY <1>12 DEF vars
<1> HIDE DEF Inv, TypeOK, storage
<1> QED
  BY <1>3, <1>4, <1>5, <1>6, <1>7, <1>8, <1>9, <1>10, <1>11, <1>12 DEF Next

\* While every reserving handler goes on, no id becomes or stops being fresh.
LEMMA FreshStays ==
  ASSUME Inv, [Next]_vars, \A s \in Requests : KeepsReserving(s), NEW f \in Files
  PROVE  Fresh(f)' <=> Fresh(f)
<1>1. ASSUME Fresh(f)
      PROVE  Fresh(f)'
  <2>1. CASE upload[f] = "none"
    <3>1. ASSUME NEW r \in Requests, AddFile(r, f)
          PROVE  Fresh(f)'
      BY <3>1 DEF AddFile, Fresh, Inv, TypeOK
    <3> QED
      BY <2>1, <3>1, UploadOpens DEF Fresh
  <2>2. ASSUME NEW r \in Requests, pc[r] = "reserve", f \in todo[r]
        PROVE  Fresh(f)'
    BY <2>2 DEF KeepsReserving, Fresh
  <2> QED
    BY <1>1, <2>1, <2>2 DEF Fresh
<1>2. ASSUME Fresh(f)'
      PROVE  Fresh(f)
  <2>1. CASE upload'[f] = "none"
    BY <2>1, UploadStep DEF Fresh, Inv, UploadMove
  <2>2. ASSUME NEW r \in Requests, pc'[r] = "reserve", f \in todo'[r]
        PROVE  Fresh(f)
    <3>1. ASSUME NEW g \in Files, AddFile(r, g)
          PROVE  upload[f] = "none"
      BY <2>2, <3>1 DEF AddFile, Inv, TypeOK
    <3>2. ~SweepOrphans(r) /\ \A d \in Drops : ~FinishDrop(r, d)
      BY <2>2 DEF SweepOrphans, FinishDrop, Inv, TypeOK
    <3> QED
      BY <2>2, <3>1, <3>2, WorkStep DEF NoNewWork, Fresh
  <2> QED
    BY <1>2, <2>1, <2>2 DEF Fresh
<1> QED
  BY <1>1, <1>2

\* A handler's refusal or death makes the id it was about to reserve unusable.
LEMMA RefusalIsDiscard ==
  ASSUME Inv, NEW r \in Requests, pc[r] = "reserve",
         pc' = [pc EXCEPT ![r] = pc'[r]], pc'[r] # "reserve",
         \A s \in Requests : s # r => todo'[s] = todo[s],
         UNCHANGED <<row, used, upload>>
  PROVE  Ledger!Next \/ UNCHANGED Ledger!ledger
<1>1. ASSUME NEW f \in Files, f \notin todo[r]
      PROVE  Status(f)' = Status(f)
  <2>1. Fresh(f)' <=> Fresh(f)
    BY <1>1 DEF Fresh, Inv, TypeOK
  <2> QED
    BY <2>1 DEF Status
<1>2. CASE todo[r] = {}
  BY <1>1, <1>2 DEF Ledger!ledger
<1>3. ASSUME NEW f \in todo[r]
      PROVE  Ledger!Discard(f) /\ f \in Files
  <2>1. f \in Files /\ row[f] = "none" /\ upload[f] # "none"
    BY <1>3 DEF Inv, TypeOK, ReservedFromNothing, NothingBeforeUpload
  <2>2. \A g \in Files : g # f => g \notin todo[r]
    BY <1>3 DEF Inv, PreparedInPrivate, Preparing
  <2>3. Fresh(f) /\ ~Fresh(f)'
    <3>1. \A s \in Requests : s # r /\ pc[s] = "reserve" => f \notin todo[s]
      BY <1>3 DEF Inv, PreparedInPrivate, Preparing
    <3> QED
      BY <1>3, <2>1, <3>1 DEF Fresh, Inv, TypeOK
  <2>4. Status(f) = "fresh" /\ Status(f)' = "released"
    BY <2>1, <2>3 DEF Status
  <2>5. [g \in Files |-> Status(g)]'
          = [[g \in Files |-> Status(g)] EXCEPT ![f] = "released"]
    BY <1>1, <2>1, <2>2, <2>4
  <2> QED
    BY <2>1, <2>4, <2>5 DEF Ledger!Discard
<1> QED
  BY <1>2, <1>3 DEF Ledger!Next

\* Every step of a handler is a step of the ledger, or none.
LEMMA LedgerStep ==
  ASSUME Inv, [Next]_vars
  PROVE  Ledger!Next \/ UNCHANGED Ledger!ledger
<1>1. ASSUME NEW r \in Requests, NEW f \in Files, Reserve(r, f)
      PROVE  Ledger!Reserve(f)
  <2>1. row[f] = "none" /\ pc[r] = "reserve" /\ f \in todo[r]
    BY <1>1 DEF Reserve, Inv, ReservedFromNothing
  <2>2. Status(f) = "fresh"
    BY <2>1 DEF Status, Fresh
  <2>3. Status(f)' = "reserved"
    BY <1>1 DEF Reserve, Status, Inv, TypeOK
  <2>4. ASSUME NEW g \in Files, g # f
        PROVE  Status(g)' = Status(g)
    <3>1. row'[g] = row[g] /\ upload'[g] = upload[g]
      BY <1>1, <2>4 DEF Reserve, Inv, TypeOK, storage
    <3>2. g \notin todo[r]
      BY <2>1, <2>4 DEF Inv, PreparedInPrivate, Preparing
    <3>3. todo' = todo /\ \A s \in Requests : s # r => pc'[s] = pc[s]
      BY <1>1 DEF Reserve, Inv, TypeOK
    <3>4. Fresh(g)' <=> Fresh(g)
      BY <3>1, <3>2, <3>3 DEF Fresh
    <3> QED
      BY <3>1, <3>4 DEF Status
  <2>5. [g \in Files |-> Status(g)]'
          = [[g \in Files |-> Status(g)] EXCEPT ![f] = "reserved"]
    BY <2>3, <2>4
  <2>6. \A o \in Owners : Charged[f] = o => used[o] + Bytes[{f}] <= Limit[o]
    BY <1>1, NamesAssumption DEF Reserve, Reservable, WithinQuota, Charged
  <2> QED
    BY <1>1, <2>2, <2>5, <2>6 DEF Ledger!Reserve, Reserve, Charge
<1>2. ASSUME NEW r \in Requests, NEW f \in Files, ReservationFails(r, f)
      PROVE  Ledger!Next \/ UNCHANGED Ledger!ledger
  <2>1. /\ pc[r] = "reserve" /\ pc' = [pc EXCEPT ![r] = "compensate"]
        /\ todo' = todo /\ UNCHANGED <<row, used, upload>>
    BY <1>2 DEF ReservationFails, database, storage
  <2>2. pc' = [pc EXCEPT ![r] = pc'[r]] /\ pc'[r] # "reserve"
    BY <2>1 DEF Inv, TypeOK
  <2> QED
    BY <2>1, <2>2, RefusalIsDiscard
<1>3. ASSUME NEW r \in Requests, pc[r] = "reserve", Crash(r)
      PROVE  Ledger!Next \/ UNCHANGED Ledger!ledger
  <2>1. /\ pc' = [pc EXCEPT ![r] = "idle"]
        /\ \A s \in Requests : s # r => todo'[s] = todo[s]
        /\ UNCHANGED <<row, used, upload>>
    BY <1>3 DEF Crash, Ends, database, Inv, TypeOK
  <2>2. pc' = [pc EXCEPT ![r] = pc'[r]] /\ pc'[r] # "reserve"
    BY <2>1 DEF Inv, TypeOK
  <2> QED
    BY <1>3, <2>1, <2>2, RefusalIsDiscard
<1>4. ASSUME \A s \in Requests : KeepsReserving(s)
      PROVE  Ledger!Next \/ UNCHANGED Ledger!ledger
  <2>1. \A f \in Files : Fresh(f)' <=> Fresh(f)
    BY <1>4, FreshStays
  <2>2. ASSUME NEW f \in Files, row'[f] = row[f]
        PROVE  Status(f)' = Status(f)
    BY <2>1, <2>2 DEF Status
  <2>3. CASE UNCHANGED <<row, used>>
    BY <2>2, <2>3 DEF Ledger!ledger
  <2>4. ASSUME NEW r \in Requests, NEW f \in Files, StoreFile(r, f)
        PROVE  Ledger!Store(f)
    <3>1. row[f] = "pending" /\ row' = [row EXCEPT ![f] = "complete"] /\ used' = used
      BY <2>4, NamesAssumption DEF Inv, FinalizedIsIssued, StoreFile
    <3>2. Status(f) = "reserved" /\ Status(f)' = "stored"
      BY <3>1 DEF Status, Inv, TypeOK
    <3>3. \A g \in Files : g # f => row'[g] = row[g]
      BY <3>1 DEF Inv, TypeOK
    <3>4. [g \in Files |-> Status(g)]'
            = [[g \in Files |-> Status(g)] EXCEPT ![f] = "stored"]
      BY <2>2, <3>2, <3>3
    <3> QED
      BY <3>1, <3>2, <3>4 DEF Ledger!Store
  <2>5. ASSUME NEW S \in SUBSET Files, Released(S)
        PROVE  S = {} \/ Ledger!Release(S)
    <3>1. ASSUME NEW f \in S
          PROVE  Status(f) \in {"reserved", "stored"} /\ Status(f)' = "released"
      <4>1. row[f] \in {"pending", "complete"} /\ row'[f] = "none"
        BY <2>5 DEF Released, DeleteRows, Inv, TypeOK
      <4>2. ~Fresh(f)
        BY <4>1 DEF Fresh, Inv, NothingBeforeUpload, ReservedFromNothing
      <4> QED
        BY <2>1, <4>1, <4>2 DEF Status
    <3>2. \A g \in Files : g \notin S => Status(g)' = Status(g)
      BY <2>2, <2>5 DEF Released, DeleteRows
    <3>3. \A o \in Owners : used'[o] = used[o] - Bytes[{f \in S : Charged[f] = o}]
      BY <2>5, ReleaseIsExact DEF Released, Inv
    <3>4. used' = [o \in Owners |-> used[o] - Bytes[{f \in S : Charged[f] = o}]]
      BY <2>5, <3>3 DEF Released, DeleteRows
    <3> QED
      BY <3>1, <3>2, <3>4 DEF Ledger!Release
  <2>6. ASSUME Released({})
        PROVE  UNCHANGED Ledger!ledger
    <3>1. used' = [o \in Owners |-> used[o] - Bytes[{}]]
      <4>1. \A o \in Owners : used'[o] = used[o] - Bytes[{f \in {} : Charged[f] = o}]
        BY <2>6, ReleaseIsExact DEF Released, Inv
      <4>2. \A o \in Owners : {f \in {} : Charged[f] = o} = {}
        OBVIOUS
      <4> QED
        BY <2>6, <4>1, <4>2 DEF Released, DeleteRows
    <3>2. used' = used
      BY <3>1, BytesAssumption DEF Inv, TypeOK
    <3>3. \A g \in Files : Status(g)' = Status(g)
      BY <2>2, <2>6 DEF Released, DeleteRows
    <3> QED
      BY <3>2, <3>3 DEF Ledger!ledger
  <2> QED
    <3>1. CASE \E r \in Requests, f \in Files : Reserve(r, f)
      BY <1>1, <3>1 DEF Ledger!Next
    <3> QED
      BY <2>3, <2>4, <2>5, <2>6, <3>1, RowStep DEF Ledger!Next
<1> QED
  BY <1>1, <1>2, <1>3, <1>4, ReserveEnds DEF Ledger!Next

\* The handlers and cron jobs implement the ledger of reserved, stored and
\* released files.
THEOREM LedgerCorrect == Spec => ImplementsLedger
<1>1. Init => Ledger!Init
  <2>1. ASSUME Init, NEW f \in Files
        PROVE  Status(f) = "fresh"
    BY <2>1 DEF Init, Status, Fresh
  <2> QED
    BY <2>1 DEF Ledger!Init, Init
<1>2. Inv /\ [Next]_vars => [Ledger!Next]_(Ledger!ledger)
  BY LedgerStep
<1> QED
  BY <1>1, <1>2, Invariance, PTL DEF Spec, ImplementsLedger, Ledger!Spec
-----------------------------------------------------------------------------
(* No ciphertext is lost, unless a handler is killed.                      *)

InClaimed(f) == \E r \in Requests : f \in claimed[r]

\* A completion that outlived its transaction is of a file the client knows of,
\* which has its row or is about to be aborted by the handler that took it.
LateHeld ==
  \A f \in late :
     /\ f \in issued /\ "timeout" \in Faults
     /\ upload[f] = "open" => row[f] # "none" \/ InClaimed(f)

\* Only the client's parts make an object.
ObjectIssued == \A f \in Files : object[f] # "none" => f \in issued

\* Handlers have files in hand only while they clean up after a claim, or after
\* a finalization that failed.
HandsWhere == \A r \in Requests : InHand(r) # {} => pc[r] \in {"failing", "clean"}

\* A sweep works on nobody's files, and forgets only objects that are gone.
SweptInNoHand ==
  \A r, s \in Requests : Sweeps(r) => todo[r] \cap InHand(s) = {}
ForgottenGone ==
  \A r \in Requests : pc[r] = "forget" => \A f \in todo[r] : object[f] = "none"

LeakInv ==
  NoLeak /\ LateHeld /\ ObjectIssued /\ HandsWhere /\ SweptInNoHand /\ ForgottenGone

\* What a step does to a file that has a row, is in hand or is an orphan.
HoldMove(f) ==
  /\ row[f] # "none" =>
        \/ row'[f] # "none" \/ InClaimed(f)'
        \/ \E r \in Requests : RollbackProvisionedFile(r) /\ f \in todo[r]
  /\ \A s \in Requests : f \in claimed[s] =>
        \/ f \in claimed'[s]
        \/ DeleteClaimed(s, f)
        \/ EnqueueClaimed(s) /\ f \in orphaned'
  /\ \A s \in Requests : f \in failed[s] => f \in failed'[s] \/ f \in orphaned'
  /\ f \in orphaned =>
        \/ f \in orphaned'
        \/ \E r \in Requests : ForgetOrphans(r) /\ f \in todo[r]


\* Adding a file loses nothing but the row of a failed addFile.
LEMMA UploadingHolds ==
  ASSUME Inv, HandsWhere, NEW r \in Requests, Uploading(r), NEW f \in Files
  PROVE  HoldMove(f)
<1>0. pc[r] \notin {"failing", "clean"} => claimed[r] = {} /\ failed[r] = {}
  BY DEF HandsWhere, InHand
<1>1. ASSUME NEW g \in Files, AddFile(r, g) \/ Reserve(r, g) \/ ReservationFails(r, g)
      PROVE  HoldMove(f)
  BY <1>1 DEF AddFile, Reserve, ReservationFails, HoldMove, Inv, TypeOK, database, request
<1>2. CASE CompensateAddFile(r) \/ ReturnUploadUrls(r)
  BY <1>0, <1>2 DEF CompensateAddFile, ReturnUploadUrls, Ends, HoldMove, Inv, TypeOK, database
<1>3. CASE SigningFails(r)
  BY <1>3 DEF SigningFails, HoldMove, database
<1>4. CASE RollbackProvisionedFile(r)
  <2>1. claimed' = claimed /\ failed' = failed /\ orphaned' = orphaned
    BY <1>0, <1>4 DEF RollbackProvisionedFile, Ends, Inv, TypeOK
  <2>2. row'[f] = row[f] \/ f \in todo[r]
    BY <1>4 DEF RollbackProvisionedFile, DeleteRows, Inv, TypeOK
  <2> QED BY <1>4, <2>1, <2>2 DEF HoldMove
<1> QED BY <1>1, <1>2, <1>3, <1>4 DEF Uploading

\* Finalizing loses nothing: a rejected object is its finalizer's to remove.
LEMMA FinalizingHolds ==
  ASSUME Inv, HandsWhere, NEW r \in Requests, Finalizing(r), NEW f \in Files
  PROVE  HoldMove(f)
<1>1. ASSUME NEW d \in Drops, FinishDrop(r, d) PROVE HoldMove(f)
  BY <1>1 DEF FinishDrop, HoldMove, database
<1>2. ASSUME NEW g \in Files,
             \/ LockFile(r, g) \/ SkipFile(r, g) \/ CompleteMultipart(r, g)
             \/ FinalizationFails(r, g) \/ FinalizationTimesOut(r, g)
      PROVE  HoldMove(f)
  BY <1>2 DEF LockFile, SkipFile, CompleteMultipart, FinalizationFails, FinalizationTimesOut,
              HoldMove, database, request
<1>3. ASSUME NEW g \in Files, StoreFile(r, g) PROVE HoldMove(f)
  BY <1>3 DEF StoreFile, HoldMove, Inv, TypeOK, request
<1>4. ASSUME NEW g \in Files, RejectFile(r, g) PROVE HoldMove(f)
  <2>1. claimed' = [claimed EXCEPT ![r] = @ \cup {g}] /\ UNCHANGED <<failed, orphaned>>
    BY <1>4 DEF RejectFile
  <2>2. row'[f] = row[f] \/ f = g
    BY <1>4 DEF RejectFile, DeleteRows, Inv, TypeOK
  <2> QED BY <2>1, <2>2 DEF HoldMove, InClaimed, Inv, TypeOK
<1>5. CASE SkipRest(r)
  BY <1>5 DEF SkipRest, HoldMove, database
<1>6. CASE FinishFails(r) \/ FinishCompletes(r)
  BY <1>6 DEF FinishFails, FinishCompletes, Busy, Ends, HoldMove, Inv, TypeOK, database
<1> QED BY <1>1, <1>2, <1>3, <1>4, <1>5, <1>6 DEF Finalizing

\* Deleting moves files on: from row to hand, from hand out of R2 or to the orphans.
LEMMA DeletingHolds ==
  ASSUME Inv, HandsWhere, NEW r \in Requests, Deleting(r), NEW f \in Files, "orphan" \notin Faults
  PROVE  HoldMove(f)
<1>0. pc[r] \notin {"failing", "clean"} => claimed[r] = {} /\ failed[r] = {}
  BY DEF HandsWhere, InHand
<1>1. ASSUME NEW g \in Files, AbortUpload(r, g) PROVE HoldMove(f)
  <2>1. claimed' = [claimed EXCEPT ![r] = {g}] /\ UNCHANGED <<failed, orphaned>> /\ claimed[r] = {}
    BY <1>0, <1>1 DEF AbortUpload
  <2>2. row'[f] = row[f] \/ f = g
    BY <1>1 DEF AbortUpload, DeleteRows, Inv, TypeOK
  <2> QED BY <2>1, <2>2 DEF HoldMove, InClaimed, Inv, TypeOK
<1>2. ASSUME NEW g \in Files, DeleteClaimed(r, g) PROVE HoldMove(f)
  <2>1. /\ claimed' = [claimed EXCEPT ![r] = @ \ {g}] /\ UNCHANGED <<row, orphaned>>
        /\ \A s \in Requests : failed[s] \subseteq failed'[s]
    BY <1>2 DEF DeleteClaimed, database, Inv, TypeOK
  <2> QED BY <1>2, <2>1 DEF HoldMove, Inv, TypeOK
<1>3. ASSUME NEW g \in Files, RecordOrphan(r, g) PROVE HoldMove(f)
  BY <1>3 DEF RecordOrphan, HoldMove, Inv, TypeOK, database
<1>4. ASSUME NEW d \in Drops, NEW p \in Plans, ClaimDrop(r, d, p) PROVE HoldMove(f)
  BY <1>4 DEF ClaimDrop, HoldMove, database
<1>5. CASE ClaimFiles(r)
  <2>1. /\ claimed' = [claimed EXCEPT ![r] = Rows(on[r])] /\ UNCHANGED <<failed, orphaned>>
        /\ claimed[r] = {}
    BY <1>0, <1>5 DEF ClaimFiles
  <2>2. row'[f] = row[f] \/ f \in Rows(on[r])
    BY <1>5 DEF ClaimFiles, DeleteRows, Inv, TypeOK
  <2> QED BY <2>1, <2>2 DEF HoldMove, InClaimed, Inv, TypeOK
<1>6. CASE ClaimFails(r)
  BY <1>0, <1>6 DEF ClaimFails, Ends, HoldMove, Inv, TypeOK, database
<1>7. CASE EnqueueClaimed(r)
  BY <1>7 DEF EnqueueClaimed, HoldMove, Inv, TypeOK, database
<1>8. CASE HardDelete(r)
  <2>1. UNCHANGED <<row, orphaned>>
    BY <1>8, HardDeleteKeepsRows DEF HardDelete
  <2>2. UNCHANGED <<claimed, failed>>
    BY <1>8 DEF HardDelete, Busy, Ends, Inv, TypeOK
  <2> QED BY <2>1, <2>2 DEF HoldMove
<1>9. CASE CleanupEnds(r)
  BY <1>9 DEF CleanupEnds, Busy, Ends, HoldMove, Inv, TypeOK, database
<1> QED BY <1>1, <1>2, <1>3, <1>4, <1>5, <1>6, <1>7, <1>8, <1>9 DEF Deleting

\* Without crashes and with a working orphan table, a step moves a file only from
\* its row to a hand, from a hand to the orphans, or out of the storage.
LEMMA HoldStep ==
  ASSUME Inv, HandsWhere, [Next]_vars, NEW f \in Files,
         MaxCrashes = 0, "orphan" \notin Faults
  PROVE  HoldMove(f)
<1>1. ASSUME NEW r \in Requests, Sweeping(r) PROVE HoldMove(f)
  <2>0. pc[r] \notin {"failing", "clean"} => claimed[r] = {} /\ failed[r] = {}
    BY DEF HandsWhere, InHand
  <2>1. CASE SweepOrphans(r) \/ DeleteOrphans(r)
    BY <2>1 DEF SweepOrphans, DeleteOrphans, HoldMove, database
  <2>2. CASE ForgetOrphans(r)
    <3>1. UNCHANGED <<row, claimed, failed>>
      BY <2>0, <2>2 DEF ForgetOrphans, Ends, database, Inv, TypeOK
    <3>2. f \in orphaned => f \in orphaned' \/ f \in todo[r]
      BY <2>2 DEF ForgetOrphans
    <3> QED BY <2>2, <3>1, <3>2 DEF HoldMove
  <2> QED BY <1>1, <2>1, <2>2 DEF Sweeping
<1>2. ASSUME NEW r \in Requests PROVE ~Crash(r)
  BY DEF Crash, Inv, TypeOK
<1>3. ASSUME NEW d \in Drops, CreateDrop(d) \/ CompleteDrop(d) \/ SoftDelete(d)
      PROVE  HoldMove(f)
  BY <1>3 DEF CreateDrop, CompleteDrop, SoftDelete, HoldMove, request
<1>4. ASSUME NEW g \in Files, LateCompletion(g) PROVE HoldMove(f)
  BY <1>4 DEF LateCompletion, HoldMove, database, request
<1>5. CASE UNCHANGED vars
  BY <1>5 DEF vars, HoldMove, database, request
<1> QED
  BY <1>1, <1>2, <1>3, <1>4, <1>5, UploadingHolds, FinalizingHolds, DeletingHolds DEF Next

\* An object appears when R2 assembles the upload of a locked file, or answers a
\* request that outlived its transaction.
LEMMA ObjectAppears ==
  ASSUME Inv, [Next]_vars, NEW f \in Files, object'[f] # object[f], object'[f] # "none"
  PROVE  upload[f] = "open" /\ ((\E r \in Requests : CompleteMultipart(r, f)) \/ LateCompletion(f))
<1>1. ASSUME NEW r \in Requests, Uploading(r) PROVE FALSE
  BY <1>1 DEF Uploading, AddFile, Reserve, ReservationFails, CompensateAddFile,
              ReturnUploadUrls, SigningFails, RollbackProvisionedFile, storage
<1>2. ASSUME NEW r \in Requests, Finalizing(r) PROVE upload[f] = "open" /\ CompleteMultipart(r, f)
  <2>1. PICK g \in Files : CompleteMultipart(r, g)
    BY <1>2 DEF Finalizing, FinishDrop, LockFile, SkipFile, StoreFile, RejectFile,
                FinalizationFails, FinalizationTimesOut, SkipRest, FinishFails,
                FinishCompletes, storage
  <2>2. Assemble(g)
    BY <2>1 DEF CompleteMultipart
  <2>3. f = g
    BY <2>2 DEF Assemble, Inv, TypeOK
  <2> QED BY <2>1, <2>2, <2>3 DEF Assemble
<1>3. ASSUME NEW r \in Requests, Deleting(r) PROVE FALSE
  <2>1. ASSUME NEW g \in Files, DeleteClaimed(r, g) PROVE FALSE
    BY <2>1 DEF DeleteClaimed, Inv, TypeOK
  <2> QED
    BY <1>3, <2>1 DEF Deleting, AbortUpload, RecordOrphan, ClaimDrop, ClaimFiles, ClaimFails,
                      EnqueueClaimed, HardDelete, CleanupEnds, storage
<1>4. ASSUME NEW r \in Requests, Sweeping(r) \/ Crash(r) PROVE FALSE
  BY <1>4 DEF Sweeping, SweepOrphans, DeleteOrphans, ForgetOrphans, Crash, storage
<1>5. ASSUME NEW d \in Drops, CreateDrop(d) \/ CompleteDrop(d) \/ SoftDelete(d) PROVE FALSE
  BY <1>5 DEF CreateDrop, CompleteDrop, SoftDelete, storage
<1>6. ASSUME NEW g \in Files, LateCompletion(g) PROVE upload[f] = "open" /\ LateCompletion(f)
  <2>1. Assemble(g)
    BY <1>6 DEF LateCompletion
  <2>2. f = g
    BY <2>1 DEF Assemble, Inv, TypeOK
  <2> QED BY <1>6, <2>1, <2>2 DEF Assemble
<1>7. CASE UNCHANGED vars
  BY <1>7 DEF vars, storage
<1> QED BY <1>1, <1>2, <1>3, <1>4, <1>5, <1>6, <1>7 DEF Next

\* Whose object appears: a file of the client's that has its row, or is being
\* aborted.
LEMMA AppearsHeld ==
  ASSUME Inv, LateHeld, [Next]_vars, NEW f \in Files, object'[f] # object[f], object'[f] # "none"
  PROVE  /\ f \in issued /\ (row[f] # "none" \/ InClaimed(f))
         /\ UNCHANGED <<row, claimed, orphaned>>
<1>1. ASSUME NEW r \in Requests, CompleteMultipart(r, f)
      PROVE  f \in issued /\ row[f] # "none" /\ UNCHANGED <<row, claimed, orphaned>>
  BY <1>1, NamesAssumption
  DEF CompleteMultipart, Inv, FinalizedIsIssued, database, request
<1>2. ASSUME LateCompletion(f), upload[f] = "open"
      PROVE  /\ f \in issued /\ (row[f] # "none" \/ InClaimed(f))
             /\ UNCHANGED <<row, claimed, orphaned>>
  BY <1>2 DEF LateCompletion, LateHeld, database, request
<1> QED BY <1>1, <1>2, ObjectAppears

\* The rollback of a failed addFile takes rows no client knows of.
LEMMA RollbackUnissued ==
  ASSUME Inv, NEW r \in Requests, RollbackProvisionedFile(r), NEW f \in todo[r]
  PROVE  f \notin issued
BY DEF RollbackProvisionedFile, Inv, PreparedInPrivate, Preparing

\* Ciphertext stays accounted for.
LEMMA NoLeakStep ==
  ASSUME Inv, LeakInv, [Next]_vars, MaxCrashes = 0, "orphan" \notin Faults
  PROVE  NoLeak'
<1> SUFFICES ASSUME NEW f \in Files, object'[f] # "none"
             PROVE  row'[f] # "none" \/ f \in orphaned' \/ \E r \in Requests : f \in InHand(r)'
  BY DEF NoLeak
<1>1. CASE object'[f] # object[f]
  BY <1>1, AppearsHeld DEF LeakInv, InClaimed, InHand
<1>2. CASE object'[f] = object[f]
  <2>1. HoldMove(f)
    BY HoldStep DEF LeakInv
  <2>2. f \in issued
    BY <1>2 DEF LeakInv, ObjectIssued
  <2>3. CASE row[f] # "none"
    BY <2>1, <2>2, <2>3, RollbackUnissued DEF HoldMove, InClaimed, InHand
  <2>4. CASE f \in orphaned
    <3>1. ASSUME NEW r \in Requests, ForgetOrphans(r), f \in todo[r] PROVE FALSE
      BY <1>2, <3>1 DEF ForgetOrphans, LeakInv, ForgottenGone
    <3> QED BY <2>1, <2>4, <3>1 DEF HoldMove
  <2>5. ASSUME NEW r \in Requests, f \in claimed[r]
        PROVE  row'[f] # "none" \/ f \in orphaned' \/ \E s \in Requests : f \in InHand(s)'
    <3>1. ASSUME DeleteClaimed(r, f) PROVE f \in failed'[r]
      BY <1>2, <3>1 DEF DeleteClaimed, Inv, TypeOK
    <3> QED BY <2>1, <2>5, <3>1 DEF HoldMove, InHand
  <2>6. ASSUME NEW r \in Requests, f \in failed[r]
        PROVE  row'[f] # "none" \/ f \in orphaned' \/ \E s \in Requests : f \in InHand(s)'
    BY <2>1, <2>6 DEF HoldMove, InHand
  <2> QED BY <1>2, <2>3, <2>4, <2>5, <2>6 DEF LeakInv, NoLeak, InHand
<1> QED BY <1>1, <1>2

\* New objects are of files the client knows of.
LEMMA ObjectIssuedStep ==
  ASSUME Inv, LeakInv, [Next]_vars
  PROVE  ObjectIssued'
BY AppearsHeld, IssuedGrows DEF LeakInv, ObjectIssued

\* A completion outlives its transaction when that times out; the row is still
\* there.
LEMMA LateStep ==
  ASSUME Inv, [Next]_vars, MaxCrashes = 0, NEW f \in late', f \notin late
  PROVE  "timeout" \in Faults /\ f \in Files /\ f \in issued /\ row[f] # "none" /\ row' = row
<1>1. ASSUME NEW r \in Requests, Uploading(r) PROVE FALSE
  BY <1>1 DEF Uploading, AddFile, Reserve, ReservationFails, CompensateAddFile,
              ReturnUploadUrls, SigningFails, RollbackProvisionedFile, storage
<1>2. ASSUME NEW r \in Requests, NEW g \in Files, FinalizationTimesOut(r, g)
      PROVE  "timeout" \in Faults /\ f = g /\ f \in issued /\ row[f] # "none" /\ row' = row
  BY <1>2, NamesAssumption DEF FinalizationTimesOut, Inv, FinalizedIsIssued, database
<1>3. ASSUME NEW r \in Requests, Finalizing(r), \A g \in Files : ~FinalizationTimesOut(r, g)
      PROVE  FALSE
  BY <1>3 DEF Finalizing, FinishDrop, LockFile, SkipFile, CompleteMultipart, StoreFile,
              RejectFile, FinalizationFails, SkipRest, FinishFails, FinishCompletes, storage
<1>4. ASSUME NEW r \in Requests, Deleting(r) PROVE FALSE
  BY <1>4 DEF Deleting, AbortUpload, DeleteClaimed, RecordOrphan, ClaimDrop, ClaimFiles,
              ClaimFails, EnqueueClaimed, HardDelete, CleanupEnds, storage
<1>5. ASSUME NEW r \in Requests, Sweeping(r) \/ Crash(r) PROVE FALSE
  <2>1. ~Crash(r)
    BY DEF Crash, Inv, TypeOK
  <2> QED BY <1>5, <2>1 DEF Sweeping, SweepOrphans, DeleteOrphans, ForgetOrphans, storage
<1>6. ASSUME NEW d \in Drops, CreateDrop(d) \/ CompleteDrop(d) \/ SoftDelete(d) PROVE FALSE
  BY <1>6 DEF CreateDrop, CompleteDrop, SoftDelete, storage
<1>7. ASSUME NEW g \in Files, LateCompletion(g) PROVE FALSE
  BY <1>7 DEF LateCompletion
<1>8. CASE UNCHANGED vars
  BY <1>8 DEF vars, storage
<1> QED BY <1>1, <1>2, <1>3, <1>4, <1>5, <1>6, <1>7, <1>8 DEF Next

\* A late completion finds its row, or the handler that will abort it: whoever
\* lets go of the file has aborted the upload, unless aborts fail.
LEMMA LateHeldStep ==
  ASSUME Inv, LeakInv, [Next]_vars, MaxCrashes = 0, "orphan" \notin Faults,
         "abort" \notin Faults \/ "timeout" \notin Faults
  PROVE  LateHeld'
<1> SUFFICES ASSUME NEW f \in late'
             PROVE  /\ f \in issued' /\ "timeout" \in Faults
                    /\ upload'[f] = "open" => row'[f] # "none" \/ InClaimed(f)'
  BY DEF LateHeld
<1>1. CASE f \notin late
  BY <1>1, LateStep, IssuedGrows
<1>2. CASE f \in late
  <2>1. f \in Files /\ f \in issued /\ "timeout" \in Faults /\ "abort" \notin Faults
    BY <1>2 DEF LeakInv, LateHeld, Inv, TypeOK
  <2>2. f \in issued'
    BY <2>1, IssuedGrows
  <2>3. ASSUME upload'[f] = "open" PROVE row'[f] # "none" \/ InClaimed(f)'
    <3>1. upload[f] = "open"
      <4>1. upload[f] # "none"
        BY <2>1 DEF Inv, NothingBeforeUpload
      <4> QED BY <2>1, <2>3, <4>1, UploadStep DEF UploadMove, Inv, TypeOK
    <3>2. HoldMove(f)
      BY <2>1, HoldStep DEF LeakInv
    <3>3. CASE row[f] # "none"
      BY <2>1, <3>2, <3>3, RollbackUnissued DEF HoldMove
    <3>4. ASSUME NEW r \in Requests, f \in claimed[r] PROVE InClaimed(f)'
      <4>1. ~DeleteClaimed(r, f)
        BY <2>1, <2>3 DEF DeleteClaimed, AbortMultipart
      <4>2. ~EnqueueClaimed(r)
        BY <2>1, <2>3, <3>4 DEF EnqueueClaimed, AbortMultipart
      <4> QED BY <3>2, <3>4, <4>1, <4>2 DEF HoldMove, InClaimed
    <3> QED BY <1>2, <3>1, <3>3, <3>4 DEF LeakInv, LateHeld, InClaimed
  <2> QED BY <2>1, <2>2, <2>3
<1> QED BY <1>1, <1>2

\* A handler takes files in hand when it is cleaning up, and does not end before
\* it has put them down.
LEMMA HandsWhereStep ==
  ASSUME Inv, HandsWhere, [Next]_vars, "orphan" \notin Faults
  PROVE  HandsWhere'
<1> SUFFICES ASSUME NEW s \in Requests, InHand(s)' # {}
             PROVE  pc'[s] \in {"failing", "clean"}
  BY DEF HandsWhere
<1>0. InHand(s) # {} => pc[s] \in {"failing", "clean"}
  BY DEF HandsWhere
<1> USE <1>0 DEF Inv, TypeOK, InHand, request
<1>1. ASSUME NEW r \in Requests, Uploading(r) PROVE pc'[s] \in {"failing", "clean"}
  BY <1>1 DEF Uploading, AddFile, Reserve, ReservationFails, CompensateAddFile,
              ReturnUploadUrls, SigningFails, RollbackProvisionedFile, Ends
<1>2. ASSUME NEW r \in Requests, Finalizing(r) PROVE pc'[s] \in {"failing", "clean"}
  <2>1. ASSUME NEW f \in Files, \/ LockFile(r, f) \/ SkipFile(r, f) \/ CompleteMultipart(r, f)
                                \/ StoreFile(r, f)
        PROVE  pc'[s] \in {"failing", "clean"}
    BY <2>1 DEF LockFile, SkipFile, CompleteMultipart, StoreFile
  <2>2. ASSUME NEW f \in Files,
               RejectFile(r, f) \/ FinalizationFails(r, f) \/ FinalizationTimesOut(r, f)
        PROVE  pc'[s] \in {"failing", "clean"}
    BY <2>2 DEF RejectFile, FinalizationFails, FinalizationTimesOut
  <2>3. ASSUME NEW d \in Drops, FinishDrop(r, d) PROVE pc'[s] \in {"failing", "clean"}
    BY <2>3 DEF FinishDrop
  <2>4. CASE SkipRest(r) \/ FinishFails(r) \/ FinishCompletes(r)
    BY <2>4 DEF SkipRest, FinishFails, FinishCompletes, Busy, Ends
  <2> QED BY <1>2, <2>1, <2>2, <2>3, <2>4 DEF Finalizing
<1>3. ASSUME NEW r \in Requests, Deleting(r) PROVE pc'[s] \in {"failing", "clean"}
  <2>1. ASSUME NEW f \in Files, AbortUpload(r, f) \/ DeleteClaimed(r, f) \/ RecordOrphan(r, f)
        PROVE  pc'[s] \in {"failing", "clean"}
    BY <2>1 DEF AbortUpload, DeleteClaimed, RecordOrphan
  <2>2. ASSUME NEW d \in Drops, NEW p \in Plans, ClaimDrop(r, d, p)
        PROVE  pc'[s] \in {"failing", "clean"}
    BY <2>2 DEF ClaimDrop
  <2>3. CASE ClaimFiles(r) \/ ClaimFails(r)
    BY <2>3 DEF ClaimFiles, ClaimFails, Ends
  <2>4. CASE EnqueueClaimed(r)
    BY <2>4 DEF EnqueueClaimed
  <2>5. CASE HardDelete(r) \/ CleanupEnds(r)
    BY <2>5 DEF HardDelete, CleanupEnds, Busy, Ends
  <2> QED BY <1>3, <2>1, <2>2, <2>3, <2>4, <2>5 DEF Deleting
<1>4. ASSUME NEW r \in Requests, Sweeping(r) \/ Crash(r) PROVE pc'[s] \in {"failing", "clean"}
  BY <1>4 DEF Sweeping, SweepOrphans, DeleteOrphans, ForgetOrphans, Crash, Ends
<1>5. ASSUME NEW d \in Drops, CreateDrop(d) \/ CompleteDrop(d) \/ SoftDelete(d)
      PROVE  pc'[s] \in {"failing", "clean"}
  BY <1>5 DEF CreateDrop, CompleteDrop, SoftDelete
<1>6. ASSUME NEW f \in Files, LateCompletion(f) PROVE pc'[s] \in {"failing", "clean"}
  BY <1>6 DEF LateCompletion
<1>7. CASE UNCHANGED vars
  BY <1>7 DEF vars
<1> HIDE DEF Inv, TypeOK, InHand, request
<1> QED BY <1>1, <1>2, <1>3, <1>4, <1>5, <1>6, <1>7 DEF Next

\* Only files with a row come to hand, and orphans have none.
LEMMA SweptInNoHandStep ==
  ASSUME Inv, SweptInNoHand, [Next]_vars
  PROVE  SweptInNoHand'
<1> SUFFICES ASSUME NEW r \in Requests, NEW s \in Requests, Sweeps(r)'
             PROVE  todo'[r] \cap InHand(s)' = {}
  BY DEF SweptInNoHand
<1>1. /\ todo'[r] \cap InHand(s) = {}
      /\ \A f \in todo'[r] : row[f] = "none"
  <2>1. CASE SweepOrphans(r)
    <3>1. todo'[r] = orphaned
      BY <2>1 DEF SweepOrphans, Inv, TypeOK
    <3> QED BY <3>1 DEF Inv, OneCleaner
  <2>2. CASE NoNewWork(r)
    <3>1. Sweeps(r) /\ todo'[r] \subseteq todo[r]
      BY <2>2 DEF NoNewWork
    <3> QED BY <3>1 DEF SweptInNoHand, Inv, SweptHasNoRow
  <2>3. ASSUME NEW f \in Files, AddFile(r, f) PROVE FALSE
    BY <2>3 DEF AddFile, Sweeps, Inv, TypeOK
  <2>4. ASSUME NEW d \in Drops, FinishDrop(r, d) PROVE FALSE
    BY <2>4 DEF FinishDrop, Sweeps, Inv, TypeOK
  <2> QED BY <2>1, <2>2, <2>3, <2>4, WorkStep
<1>2. CASE NothingTaken
  BY <1>1, <1>2 DEF NothingTaken
<1>3. ASSUME NEW q \in Requests, NEW S \in SUBSET Files, Takes(q, S)
      PROVE  InHand(s)' \subseteq InHand(s) \cup S /\ \A f \in S : row[f] # "none"
  BY <1>3 DEF Takes, InHand
<1> QED BY <1>1, <1>2, <1>3, HandStep

\* A sweep forgets what it deleted: its list is the one R2 confirmed.
LEMMA ForgetStep ==
  ASSUME Inv, [Next]_vars, NEW r \in Requests, pc'[r] = "forget"
  PROVE  \/ pc[r] = "forget" /\ todo'[r] \subseteq todo[r]
         \/ \A f \in todo'[r] : object'[f] = "none"
<1> USE DEF Inv, TypeOK, request
<1>1. ASSUME NEW s \in Requests, Uploading(s) PROVE pc[r] = "forget" /\ todo'[r] \subseteq todo[r]
  BY <1>1 DEF Uploading, AddFile, Reserve, ReservationFails, CompensateAddFile,
              ReturnUploadUrls, SigningFails, RollbackProvisionedFile, Ends
<1>2. ASSUME NEW s \in Requests, Finalizing(s) PROVE pc[r] = "forget" /\ todo'[r] \subseteq todo[r]
  <2>1. ASSUME NEW f \in Files, \/ LockFile(s, f) \/ SkipFile(s, f) \/ CompleteMultipart(s, f)
                                \/ StoreFile(s, f)
        PROVE  pc[r] = "forget" /\ todo'[r] \subseteq todo[r]
    BY <2>1 DEF LockFile, SkipFile, CompleteMultipart, StoreFile
  <2>2. ASSUME NEW f \in Files,
               RejectFile(s, f) \/ FinalizationFails(s, f) \/ FinalizationTimesOut(s, f)
        PROVE  pc[r] = "forget" /\ todo'[r] \subseteq todo[r]
    BY <2>2 DEF RejectFile, FinalizationFails, FinalizationTimesOut
  <2>3. ASSUME NEW d \in Drops, FinishDrop(s, d)
        PROVE  pc[r] = "forget" /\ todo'[r] \subseteq todo[r]
    BY <2>3 DEF FinishDrop
  <2>4. CASE SkipRest(s) \/ FinishFails(s) \/ FinishCompletes(s)
    BY <2>4 DEF SkipRest, FinishFails, FinishCompletes, Ends
  <2> QED BY <1>2, <2>1, <2>2, <2>3, <2>4 DEF Finalizing
<1>3. ASSUME NEW s \in Requests, Deleting(s) PROVE pc[r] = "forget" /\ todo'[r] \subseteq todo[r]
  <2>1. ASSUME NEW f \in Files, AbortUpload(s, f) \/ DeleteClaimed(s, f) \/ RecordOrphan(s, f)
        PROVE  pc[r] = "forget" /\ todo'[r] \subseteq todo[r]
    BY <2>1 DEF AbortUpload, DeleteClaimed, RecordOrphan
  <2>2. ASSUME NEW d \in Drops, NEW p \in Plans, ClaimDrop(s, d, p)
        PROVE  pc[r] = "forget" /\ todo'[r] \subseteq todo[r]
    BY <2>2 DEF ClaimDrop
  <2>3. CASE ClaimFiles(s) \/ ClaimFails(s) \/ EnqueueClaimed(s)
    BY <2>3 DEF ClaimFiles, ClaimFails, EnqueueClaimed, Ends
  <2>4. CASE HardDelete(s) \/ CleanupEnds(s)
    BY <2>4 DEF HardDelete, CleanupEnds, Ends
  <2> QED BY <1>3, <2>1, <2>2, <2>3, <2>4 DEF Deleting
<1>4. ASSUME NEW s \in Requests, DeleteOrphans(s)
      PROVE  \/ pc[r] = "forget" /\ todo'[r] \subseteq todo[r]
             \/ \A f \in todo'[r] : object'[f] = "none"
  <2>1. CASE s = r
    BY <1>4, <2>1 DEF DeleteOrphans
  <2>2. CASE s # r
    BY <1>4, <2>2 DEF DeleteOrphans
  <2> QED BY <2>1, <2>2
<1>5. ASSUME NEW s \in Requests, SweepOrphans(s) \/ ForgetOrphans(s) \/ Crash(s)
      PROVE  pc[r] = "forget" /\ todo'[r] \subseteq todo[r]
  BY <1>5 DEF SweepOrphans, ForgetOrphans, Crash, Ends
<1>6. ASSUME NEW d \in Drops, CreateDrop(d) \/ CompleteDrop(d) \/ SoftDelete(d)
      PROVE  pc[r] = "forget" /\ todo'[r] \subseteq todo[r]
  BY <1>6 DEF CreateDrop, CompleteDrop, SoftDelete
<1>7. ASSUME NEW f \in Files, LateCompletion(f) PROVE pc[r] = "forget" /\ todo'[r] \subseteq todo[r]
  BY <1>7 DEF LateCompletion
<1>8. CASE UNCHANGED vars
  BY <1>8 DEF vars
<1> HIDE DEF Inv, TypeOK, request
<1> QED BY <1>1, <1>2, <1>3, <1>4, <1>5, <1>6, <1>7, <1>8 DEF Next, Sweeping

\* Nothing it will forget comes back meanwhile.
LEMMA ForgottenGoneStep ==
  ASSUME Inv, LeakInv, [Next]_vars
  PROVE  ForgottenGone'
<1> SUFFICES ASSUME NEW r \in Requests, pc'[r] = "forget", NEW f \in todo'[r],
                    object'[f] # "none"
             PROVE  FALSE
  BY DEF ForgottenGone
<1>1. pc[r] = "forget" /\ f \in todo[r]
  BY ForgetStep
<1>2. f \in Files /\ object[f] = "none" /\ row[f] = "none" /\ ~InClaimed(f)
  BY <1>1 DEF LeakInv, ForgottenGone, SweptInNoHand, InHand, InClaimed, Inv, TypeOK,
              SweptHasNoRow, Sweeps
<1> QED BY <1>2, AppearsHeld DEF LeakInv

\* At the start there is nothing to lose.
LEMMA LeakInit == Init => LeakInv
BY DEF Init, LeakInv, NoLeak, LateHeld, ObjectIssued, HandsWhere, SweptInNoHand, ForgottenGone,
       InHand, Sweeps

\* As long as no handler is killed and orphans can be recorded, no ciphertext is
\* ever in R2 that neither a row nor a handler nor orphaned_files knows of,
\* although R2 refuses deletions, transactions fail, and either an abort is lost
\* or a completion outlives its transaction.
THEOREM NoLeakCorrect ==
  ASSUME MaxCrashes = 0, "orphan" \notin Faults, "abort" \notin Faults \/ "timeout" \notin Faults
  PROVE  Spec => []NoLeak
<1>1. Inv /\ LeakInv /\ [Next]_vars => LeakInv'
  <2> SUFFICES ASSUME Inv, LeakInv, [Next]_vars PROVE LeakInv'
    OBVIOUS
  <2>1. NoLeak' /\ LateHeld' /\ ObjectIssued'
    BY NoLeakStep, LateHeldStep, ObjectIssuedStep
  <2>2. HandsWhere' /\ SweptInNoHand' /\ ForgottenGone'
    BY HandsWhereStep, SweptInNoHandStep, ForgottenGoneStep DEF LeakInv
  <2> QED BY <2>1, <2>2 DEF LeakInv
<1>2. LeakInv => NoLeak
  BY DEF LeakInv
<1> QED BY <1>1, <1>2, LeakInit, Invariance, PTL DEF Spec


=============================================================================
