----------------------------- MODULE FilesProofs -----------------------------
(***************************************************************************)
(* Proofs about Files for all processes, users, files, names, entities,    *)
(* allocations and proofs.  Files has constants of its own in each scene   *)
(* of MCOffice, so what is assumed of them is a hypothesis of the theorems *)
(* (NamesAssumption, KycAssumption), which MCOffice evaluates.             *)
(***************************************************************************)
EXTENDS FilesInvariant, TLAPS

----------------------------------------------------------------------------
(* Locks, rows and calls *)

Transactions == {Idle} \union UploadTx \union ReferTx \union DeleteTx

LEMMA LockKinds ==
  /\ \A x, y : RowLock(x) = RowLock(y) => x = y
  /\ \A p, f, x : ShareLock(p, f) # RowLock(x)
  /\ \A p, q, f, g : ShareLock(p, f) = ShareLock(q, g) => p = q /\ f = g
  /\ \A x \in Ids \union Allocations : RowLock(x) \in Locks
  /\ \A p \in Procs, f \in Ids : ShareLock(p, f) \in Locks
BY DEF RowLock, ShareLock, Locks

LEMMA RunningTypes ==
  ASSUME TypeOK, NEW p \in Procs
  PROVE  /\ tx[p] \in Transactions /\ held[p] \in SUBSET Locks
         /\ Uploading(tx[p]) => tx[p] \in UploadTx
         /\ Referring(tx[p]) => tx[p] \in ReferTx
         /\ Deleting(tx[p]) => tx[p] \in DeleteTx
BY DEF TypeOK, Transactions, Idle, UploadTx, ReferTx, DeleteTx, Uploading, Referring, Deleting

LEMMA FileTypes ==
  ASSUME NamesAssumption, TypeOK, NEW f \in Ids
  PROVE  /\ file[f] = Absent <=> f \notin Rows
         /\ f \in Rows => file[f] \in Row /\ file[f].owner \in Users /\ file[f].key \in StorageKeys
BY DEF NamesAssumption, TypeOK, Rows, Row, Absent

LEMMA UsedKeys ==
  ASSUME TypeOK, NEW r \in uploads
  PROVE  r = <<r[1], r[2]>> /\ r[1] \in Ids /\ r[2] \in StorageKeys
BY DEF TypeOK

\* The upload of a row that is there has ended.
LEMMA RowsSettled ==
  ASSUME NamesAssumption, IInv, NEW f \in Rows
  PROVE  f \in Ids /\ Settled(f) /\ <<f, file[f].key>> \in uploads
<1>1. f \in Ids /\ file[f] # Absent
  BY FileTypes DEF IInv, Rows
<1>2. <<f, file[f].key>> \in uploads
  BY DEF IInv, ArrivalsKnown
<1>3. \A p \in Procs : Uploading(tx[p]) => file[tx[p].id] = Absent
  BY DEF IInv, Known, UploadKnown
<1> QED BY <1>1, <1>2, <1>3 DEF Settled

----------------------------------------------------------------------------
(* What a call knows, and what the others leave alone *)

LEMMA SettledStays ==
  ASSUME uploads \subseteq uploads',
         \A q \in Procs : Uploading(tx[q])' => Uploading(tx[q]) /\ tx'[q].id = tx[q].id,
         NEW f, Settled(f)
  PROVE  Settled(f)'
BY DEF Settled

\* A call still knows what it knew if nobody has touched the row it uploads,
\* those it refers to, the proofs it counts or the row it deletes.
LEMMA OthersKnow ==
  ASSUME NEW q, NEW t, NEW L, Known(q, t, L),
         uploads \subseteq uploads',
         \A f : Settled(f) => Settled(f)',
         Uploading(t) => file'[t.id] = file[t.id],
         Uploading(t) /\ t.pc = "insert" /\ ~Collisions => object'[t.row.key] = object[t.row.key],
         Referring(t) => \A f \in t.files : f \in Rows' => f \in Rows /\ file'[f] = file[f],
         Referring(t) /\ t.pc \in {"commit", "proven"} => t.files \subseteq Rows',
         Referring(t) /\ t.pc \in {"prove", "proven"} => proofs'[t.entity] = proofs[t.entity],
         Deleting(t) /\ t.pc = "gone" => t.id \in Rows' /\ \A r \in attachment' : r[1] = t.id => r \in attachment,
         Deleting(t) /\ t.pc = "remove" => file'[t.id] = file[t.id]
  PROVE  Known(q, t, L)'
<1>1. UploadKnown(t)'
  BY DEF Known, UploadKnown
<1>2. ReferKnown(q, t, L)'
  <2> SUFFICES ASSUME Referring(t) PROVE ReferKnown(q, t, L)'
    BY DEF ReferKnown
  <2>1. ReferKnown(q, t, L)
    BY DEF Known
  <2>2. t.pc \in {"attach", "commit"} => \A f \in t.files \intersect Rows' : Fitting(f, t.entity)'
    BY <2>1 DEF ReferKnown, Fitting
  <2> QED BY <2>1, <2>2 DEF ReferKnown
<1>3. DeleteKnown(t, L)'
  BY DEF Known, DeleteKnown, Restrict
<1> QED BY <1>1, <1>2, <1>3 DEF Known

\* The locks L of p collide with nobody's.
Excludes(p, L) ==
  \A q \in Procs \ {p} :
    /\ \A x \in Ids \union Allocations : ~(RowLock(x) \in L /\ RowLock(x) \in held[q])
    /\ \A f \in Ids : ~(RowLock(f) \in L /\ ShareLock(q, f) \in held[q]) /\ ~(RowLock(f) \in held[q] /\ ShareLock(p, f) \in L)

LEMMA StillExclusive ==
  ASSUME TypeOK, LocksExclusive, NEW p \in Procs, NEW L, Excludes(p, L), held' = [held EXCEPT ![p] = L]
  PROVE  LocksExclusive'
BY DEF TypeOK, LocksExclusive, Excludes

LEMMA FewerLocks ==
  ASSUME LocksExclusive, NEW p \in Procs, NEW L \in SUBSET held[p]
  PROVE  Excludes(p, L)
BY DEF LocksExclusive, Excludes

\* A step of p that writes neither tables nor storage.
LEMMA CallKeeps ==
  ASSUME NamesAssumption, IInv, NEW p \in Procs, NEW t \in Transactions, NEW L \in SUBSET Locks,
         UNCHANGED <<tables, object, uploads>>, now' \in Millis, failed' \in BOOLEAN,
         failed => failed', At(p, "insert") \/ At(p, "remove") => failed',
         tx' = [tx EXCEPT ![p] = t], held' = [held EXCEPT ![p] = L],
         ~Uploading(t), Known(p, t, L), Excludes(p, L)
  PROVE  IInv'
<1> USE DEF tables
<1>1. TypeOK'
  BY DEF IInv, TypeOK, Transactions
<1>2. tx'[p] = t /\ held'[p] = L /\ \A q \in Procs \ {p} : tx'[q] = tx[q] /\ held'[q] = held[q]
  BY DEF IInv, TypeOK
<1>3. \A q \in Procs : Uploading(tx[q])' => q # p /\ Uploading(tx[q]) /\ tx'[q].id = tx[q].id
  BY <1>2 DEF Uploading
<1>4. \A f : Settled(f) => Settled(f)'
  BY <1>3, SettledStays
<1>5. ArrivalsKnown'
  BY <1>3 DEF IInv, ArrivalsKnown, Rows
<1>6. LocksExclusive'
  BY StillExclusive DEF IInv
<1>7. ASSUME NEW q \in Procs PROVE Known(q, tx[q], held[q])'
  <2> DEFINE u == IF q = p THEN t ELSE tx[q]
             M == IF q = p THEN L ELSE held[q]
  <2>1. Known(q, u, M)
    BY DEF IInv
  <2>2. tx'[q] = u /\ held'[q] = M
    BY <1>2
  <2> HIDE DEF u, M
  <2> SUFFICES ASSUME NEW v, NEW N, v = u, N = M PROVE Known(q, v, N)'
    BY <2>2 DEF Known, UploadKnown, ReferKnown, DeleteKnown, Settled, Restrict, Fitting
  <2>3. Rows' = Rows
    BY DEF Rows
  <2>4. Known(q, v, N)
    BY <2>1
  <2>5. Referring(v) /\ v.pc \in {"commit", "proven"} => v.files \subseteq Rows
    BY <2>4 DEF Known, ReferKnown
  <2>6. Deleting(v) /\ v.pc = "gone" => v.id \in Rows
    BY <2>4 DEF Known, DeleteKnown
  <2> QED BY <1>4, <2>3, <2>4, <2>5, <2>6, OthersKnow
<1>8. NoOrphans'
  <2> SUFFICES ASSUME ~failed', NEW k \in StorageKeys, object[k] # None
               PROVE  \/ \E f \in Rows' : file'[f].key = k
                      \/ \E q \in Procs : (At(q, "insert")' /\ tx'[q].row.key = k) \/ (At(q, "remove")' /\ tx'[q].key = k)
    BY DEF NoOrphans
  <2>1. ~failed /\ tx[p].pc # "insert" /\ tx[p].pc # "remove"
    BY DEF At
  <2>2. CASE \E f \in Rows : file[f].key = k
    BY <2>2 DEF Rows
  <2>3. CASE \E q \in Procs : (At(q, "insert") /\ tx[q].row.key = k) \/ (At(q, "remove") /\ tx[q].key = k)
    BY <2>3, <2>1, <1>2 DEF At
  <2> QED BY <2>1, <2>2, <2>3 DEF IInv, NoOrphans
<1>9. ReferencesHold' /\ AttachmentsFit' /\ RowsKeepObjects'
  BY DEF IInv, ReferencesHold, AttachmentsFit, RowsKeepObjects, RowsHaveObjects, Rows, Attached, Linked, Fitting
<1> QED BY <1>1, <1>5, <1>6, <1>7, <1>8, <1>9 DEF IInv

\* A call that stops, without having changed the storage or the table alone,
\* or with that noted.
LEMMA StopKeeps ==
  ASSUME NamesAssumption, IInv, NEW p \in Procs, Finish(p), UNCHANGED <<tables, object, uploads, now>>,
         failed' \in BOOLEAN, failed => failed', At(p, "insert") \/ At(p, "remove") => failed'
  PROVE  IInv'
<1>1. Known(p, Idle, {}) /\ ~Uploading(Idle)
  BY DEF Known, UploadKnown, ReferKnown, DeleteKnown, Uploading, Referring, Deleting, Idle
<1>2. Excludes(p, {})
  BY DEF Excludes
<1>3. tx' = [tx EXCEPT ![p] = Idle] /\ held' = [held EXCEPT ![p] = {}]
  BY DEF Finish, Leave
<1>4. now' \in Millis
  BY DEF IInv, TypeOK
<1> QED BY <1>1, <1>2, <1>3, <1>4, CallKeeps DEF Transactions

LEMMA EndKeeps ==
  ASSUME NamesAssumption, IInv, NEW p \in Procs, End(p), ~(At(p, "insert") \/ At(p, "remove"))
  PROVE  IInv'
<1>1. failed' = failed /\ failed \in BOOLEAN /\ Finish(p) /\ UNCHANGED <<tables, object, uploads, now>>
  BY DEF IInv, TypeOK, End, data
<1> QED BY <1>1, StopKeeps

\* A step without a lock.
LEMMA StepKeeps ==
  ASSUME NamesAssumption, IInv, NEW p \in Procs, NEW t \in Transactions, Step(p, t), ~(At(p, "insert") \/ At(p, "remove")),
         ~Uploading(t), Known(p, t, held[p])
  PROVE  IInv'
<1>1. tx' = [tx EXCEPT ![p] = t] /\ held' = [held EXCEPT ![p] = held[p]]
  BY DEF Step, Go, IInv, TypeOK
<1>2. UNCHANGED <<tables, object, uploads, now, failed>> /\ now' \in Millis /\ failed' \in BOOLEAN
  BY DEF Step, data, IInv, TypeOK
<1>3. Excludes(p, held[p]) /\ held[p] \in SUBSET Locks
  BY FewerLocks DEF IInv, TypeOK
<1> QED BY <1>1, <1>2, <1>3, CallKeeps

\* A step that locks more.
LEMMA LocksKeep ==
  ASSUME NamesAssumption, IInv, NEW p \in Procs, NEW t \in Transactions, NEW M \in SUBSET Locks,
         tx' = [tx EXCEPT ![p] = t], held' = [held EXCEPT ![p] = @ \union M], UNCHANGED data,
         ~(At(p, "insert") \/ At(p, "remove")), ~Uploading(t), Known(p, t, held[p] \union M), Excludes(p, M)
  PROVE  IInv'
<1>1. held' = [held EXCEPT ![p] = held[p] \union M] /\ held[p] \union M \in SUBSET Locks
  BY DEF IInv, TypeOK
<1>2. UNCHANGED <<tables, object, uploads, now, failed>> /\ now' \in Millis /\ failed' \in BOOLEAN
  BY DEF data, IInv, TypeOK
<1>3. Excludes(p, held[p] \union M)
  BY FewerLocks DEF Excludes, IInv
<1> HIDE DEF IInv
<1> QED BY <1>1, <1>2, <1>3, CallKeeps

LEMMA FailKeeps ==
  ASSUME NamesAssumption, IInv, NEW p \in Procs, Fail(p)
  PROVE  IInv'
<1>1. failed' \in BOOLEAN /\ (failed => failed')
  BY DEF Fail, IInv, TypeOK
<1>2. At(p, "insert") \/ At(p, "remove") => failed'
  BY DEF Fail, At
<1> QED BY <1>1, <1>2, StopKeeps DEF Fail

----------------------------------------------------------------------------
(* Calls that refer to files *)

LEMMA BeginAttachKeeps ==
  ASSUME NamesAssumption, IInv, NEW p \in Procs, NEW u \in Users \union {None}, NEW F \in SUBSET Rows, NEW e \in Entities,
         BeginAttach(p, u, F, e)
  PROVE  IInv'
<1> DEFINE t == [pc |-> "attach", id |-> None, files |-> F, entity |-> e]
<1>1. Step(p, t) /\ MayAttach(u, F, e) /\ ~(At(p, "insert") \/ At(p, "remove"))
  BY DEF BeginAttach, At
<1>2. \A f \in F : f \in Ids /\ Settled(f) /\ f \in Rows
  BY RowsSettled
<1>3. \A f \in F : Fitting(f, e)
  <2> SUFFICES ASSUME NEW f \in F, Kind[e] = "KYC", Parties[e] # {} PROVE file[f].owner \in Parties[e]
    BY DEF Fitting
  <2> QED BY <1>1 DEF MayAttach, Own
<1>4. t \in Transactions
  BY <1>2 DEF Transactions, ReferTx
<1>5. Known(p, t, held[p]) /\ ~Uploading(t)
  BY <1>2, <1>3 DEF Known, UploadKnown, ReferKnown, DeleteKnown, Uploading, Referring, Deleting
<1> HIDE DEF t
<1> QED BY <1>1, <1>4, <1>5, StepKeeps

\* A reference shares the rows it refers to, which nobody is deleting.
LEMMA ReferKeeps ==
  ASSUME NamesAssumption, IInv, NEW p \in Procs, Referring(tx[p]), NEW pc,
         \/ tx[p].pc = "attach" /\ pc = "commit"
         \/ tx[p].pc = "prove" /\ pc = "proven",
         ReferTo(p, tx[p].files, pc)
  PROVE  IInv'
<1> DEFINE F == tx[p].files
           t == [tx[p] EXCEPT !.pc = pc]
           M == {ShareLock(p, f) : f \in F}
<1>1. tx[p] \in ReferTx /\ F \subseteq Ids /\ ~(At(p, "insert") \/ At(p, "remove"))
  BY RunningTypes DEF IInv, ReferTx, At
<1>2. CASE ~(F \subseteq Rows)
  BY <1>1, <1>2, EndKeeps DEF ReferTo
<1>3. CASE F \subseteq Rows
  <2>1. held' = [held EXCEPT ![p] = @ \union M] /\ tx' = [tx EXCEPT ![p].pc = pc] /\ UNCHANGED data
    BY <1>3 DEF ReferTo
  <2>2. tx' = [tx EXCEPT ![p] = t]
    BY <2>1 DEF IInv, TypeOK
  <2>3. t \in Transactions /\ M \in SUBSET Locks
    BY <1>1, LockKinds DEF Transactions, ReferTx
  <2>4. Excludes(p, M)
    <3>1. \A f \in F, q \in Procs \ {p} : RowLock(f) \notin held[q]
      BY DEF ReferTo, CanLock
    <3> QED BY <3>1, LockKinds DEF Excludes
  <2>5. t.pc = pc /\ t.files = F /\ t.entity = tx[p].entity /\ t \in ReferTx
    BY <1>1 DEF ReferTx
  <2>6. ReferKnown(p, t, held[p] \union M)
    <3>1. ReferKnown(p, tx[p], held[p])
      BY DEF IInv, Known
    <3>2. \A f \in F : ShareLock(p, f) \in held[p] \union M
      OBVIOUS
    <3> HIDE DEF F, M, t
    <3> QED BY <1>3, <2>5, <3>1, <3>2 DEF ReferKnown, Referring, F
  <2>7. Known(p, t, held[p] \union M) /\ ~Uploading(t)
    BY <2>5, <2>6 DEF Known, UploadKnown, DeleteKnown, Uploading, Deleting
  <2> HIDE DEF t, M
  <2> QED BY <1>1, <2>1, <2>2, <2>3, <2>4, <2>7, LocksKeep
<1> QED BY <1>2, <1>3

LEMMA BeginProofKeeps ==
  ASSUME NamesAssumption, IInv, NEW p \in Procs, NEW a \in Allocations, NEW F \in SUBSET Rows, BeginProof(p, a, F)
  PROVE  IInv'
<1> DEFINE t == [pc |-> "prove", id |-> None, files |-> F, entity |-> a]
           M == {RowLock(a)}
<1>1. /\ held' = [held EXCEPT ![p] = @ \union M] /\ tx' = [tx EXCEPT ![p] = t] /\ UNCHANGED data
      /\ \A q \in Procs \ {p} : RowLock(a) \notin held[q]
      /\ ~(At(p, "insert") \/ At(p, "remove")) /\ proofs[a] < MaxProofs
  BY DEF BeginProof, Lock, CanLock, AllocationLock, RowLock, At
<1>2. \A f \in F : f \in Ids /\ Settled(f)
  BY RowsSettled
<1>3. t \in Transactions /\ M \in SUBSET Locks
  BY <1>2, LockKinds DEF Transactions, ReferTx
<1>4. Excludes(p, M)
  <2>1. \A f \in Ids : RowLock(f) \notin M
    BY LockKinds DEF NamesAssumption
  <2>2. \A f \in Ids : ShareLock(p, f) \notin M
    BY LockKinds
  <2> QED BY <1>1, <2>1, <2>2 DEF Excludes
<1>5. Known(p, t, held[p] \union M) /\ ~Uploading(t)
  BY <1>1, <1>2 DEF Known, UploadKnown, ReferKnown, DeleteKnown, Uploading, Referring, Deleting
<1> HIDE DEF t, M
<1> QED BY <1>1, <1>3, <1>4, <1>5, LocksKeep

----------------------------------------------------------------------------
(* Deletes, up to the commit *)

LEMMA BeginDeleteKeeps ==
  ASSUME NamesAssumption, IInv, NEW p \in Procs, NEW f, NEW u, NEW force \in BOOLEAN, BeginDelete(p, f, u, force)
  PROVE  IInv'
<1> DEFINE t == [pc |-> "clear", id |-> f, force |-> force, key |-> file[f].key, cleared |-> {}]
<1>1. Step(p, t) /\ f \in Rows /\ ~(At(p, "insert") \/ At(p, "remove"))
  BY DEF BeginDelete, At
<1>2. f \in Ids /\ Settled(f) /\ <<f, file[f].key>> \in uploads
  BY <1>1, RowsSettled
<1>3. file[f].key \in StorageKeys
  BY <1>1, <1>2, FileTypes DEF IInv
<1>4. t \in Transactions
  BY <1>2, <1>3 DEF Transactions, DeleteTx
<1>5. Known(p, t, held[p]) /\ ~Uploading(t)
  BY <1>2 DEF Known, UploadKnown, ReferKnown, DeleteKnown, Uploading, Referring, Deleting
<1> HIDE DEF t
<1> QED BY <1>1, <1>4, <1>5, StepKeeps

LEMMA ClearKeeps ==
  ASSUME NamesAssumption, IInv, NEW p \in Procs, Clear(p)
  PROVE  IInv'
<1> DEFINE C == Cleared(tx[p].id, tx[p].force)
           t == [tx[p] EXCEPT !.pc = "delete", !.cleared = C]
<1>1. Step(p, t) /\ tx[p].pc = "clear" /\ ~(At(p, "insert") \/ At(p, "remove"))
  BY DEF Clear, At
<1>2. tx[p] \in DeleteTx
  BY <1>1, RunningTypes DEF IInv, Deleting
<1>3. C \subseteq Ids \X Entities /\ \A r \in C : r[1] = tx[p].id /\ tx[p].force
  BY DEF Cleared, IInv, TypeOK
<1> HIDE DEF C
<1>4. t \in DeleteTx /\ t.pc = "delete" /\ t.id = tx[p].id /\ t.key = tx[p].key /\ t.force = tx[p].force /\ t.cleared = C
  BY <1>2, <1>3 DEF DeleteTx
<1> HIDE DEF t
<1>5. DeleteKnown(tx[p], held[p])
  BY DEF IInv, Known
<1>6. Known(p, t, held[p]) /\ ~Uploading(t)
  BY <1>1, <1>3, <1>4, <1>5 DEF Known, UploadKnown, ReferKnown, DeleteKnown, Uploading, Referring, Deleting
<1> QED BY <1>1, <1>4, <1>6, StepKeeps DEF Transactions

LEMMA LockFileKeeps ==
  ASSUME NamesAssumption, IInv, NEW p \in Procs, LockFile(p)
  PROVE  IInv'
<1> DEFINE f == tx[p].id
           t == [tx[p] EXCEPT !.pc = "gone"]
           M == {RowLock(f)}
<1>1. tx[p].pc = "delete" /\ ~(At(p, "insert") \/ At(p, "remove"))
  BY DEF LockFile, At
<1>2. tx[p] \in DeleteTx
  BY <1>1, RunningTypes DEF IInv, Deleting
<1>3. CASE f \in Rows /\ Restrict(f, tx[p].cleared)
  <2>1. held' = [held EXCEPT ![p] = @ \union M] /\ tx' = [tx EXCEPT ![p] = t] /\ UNCHANGED data
    BY <1>3 DEF LockFile, Lock
  <2>2. t \in DeleteTx /\ t.pc = "gone" /\ t.id = f /\ t.key = tx[p].key /\ t.force = tx[p].force /\ t.cleared = tx[p].cleared
    BY <1>2 DEF DeleteTx
  <2>3. f \in Ids /\ M \in SUBSET Locks
    BY <1>2, LockKinds DEF DeleteTx
  <2>4. Excludes(p, M)
    <3>1. \A q \in Procs \ {p} : RowLock(f) \notin held[q] /\ ShareLock(q, f) \notin held[q]
      BY DEF LockFile, CanLock, NoReferer
    <3>2. \A x : RowLock(x) \in M => x = f
      BY LockKinds
    <3>3. \A x : ShareLock(p, x) # RowLock(f)
      BY LockKinds
    <3>4. \A x : ShareLock(p, x) \notin M
      BY <3>3
    <3> HIDE DEF M, f
    <3> QED BY <3>1, <3>2, <3>4 DEF Excludes
  <2>5. DeleteKnown(tx[p], held[p])
    BY DEF IInv, Known
  <2>6. RowLock(f) \in held[p] \union M
    OBVIOUS
  <2> HIDE DEF t, M
  <2>7. Known(p, t, held[p] \union M) /\ ~Uploading(t)
    BY <1>1, <1>3, <2>2, <2>5, <2>6 DEF Known, UploadKnown, ReferKnown, DeleteKnown, Uploading, Referring, Deleting
  <2> QED BY <1>1, <2>1, <2>2, <2>3, <2>4, <2>7, LocksKeep DEF Transactions
<1>4. CASE ~(f \in Rows /\ Restrict(f, tx[p].cleared))
  BY <1>1, <1>4, EndKeeps DEF LockFile
<1> QED BY <1>3, <1>4

----------------------------------------------------------------------------
(* Uploads *)

LEMMA Changed ==
  ASSUME TypeOK, NEW p \in Procs, NEW t, NEW L, tx' = [tx EXCEPT ![p] = t], held' = [held EXCEPT ![p] = L]
  PROVE  tx'[p] = t /\ held'[p] = L /\ \A q \in Procs \ {p} : tx'[q] = tx[q] /\ held'[q] = held[q]
BY DEF TypeOK

LEMMA BeginUploadKeeps ==
  ASSUME NamesAssumption, IInv, NEW p \in Procs, NEW f \in Ids, NEW u \in Users, NEW n \in Names, BeginUpload(p, f, u, n)
  PROVE  IInv'
<1> DEFINE k == <<now, n>>
           row == [owner |-> u, key |-> k]
           t == [pc |-> "put", id |-> f, row |-> row]
           U == uploads \union {<<f, k>>}
<1>1. /\ uploads' = U /\ UNCHANGED <<tables, object, now, failed, held>> /\ tx' = [tx EXCEPT ![p] = t]
      /\ \A r \in uploads : r[1] # f /\ (Collisions \/ r[2] # k)
      /\ tx[p].pc = "idle"
  BY DEF BeginUpload, Arriving, Go, At
<1>2. k \in StorageKeys /\ row \in Row /\ t \in UploadTx
  BY DEF IInv, TypeOK, StorageKeys, Row, UploadTx
<1>3. t.pc = "put" /\ t.id = f /\ t.row.key = k /\ t.row = row
  OBVIOUS
<1>4. <<f, k>> \in U /\ \A r \in U \ uploads : r = <<f, k>> /\ r[1] = f /\ r[2] = k
  OBVIOUS
<1> HIDE DEF k, row, t, U
<1>5. held' = [held EXCEPT ![p] = held[p]]
  BY <1>1 DEF IInv, TypeOK
<1>6. tx'[p] = t /\ held'[p] = held[p] /\ \A q \in Procs \ {p} : tx'[q] = tx[q] /\ held'[q] = held[q]
  BY <1>1, <1>5, Changed DEF IInv
<1>7. file[f] = Absent /\ Rows' = Rows
  <2>1. f \notin Rows
    BY <1>1, RowsSettled
  <2> QED BY <2>1, <1>1, FileTypes DEF IInv, Rows, tables
<1>8. \A q \in Procs : Uploading(tx[q]) => tx[q].id # f /\ \E r \in uploads : r[1] = tx[q].id
  BY <1>1 DEF IInv, Known, UploadKnown
<1>9. \A g : Settled(g) => Settled(g)'
  <2> SUFFICES ASSUME NEW g, Settled(g) PROVE Settled(g)'
    OBVIOUS
  <2>1. PICK r \in uploads : r[1] = g
    BY DEF Settled
  <2>2. g # f /\ r \in uploads'
    BY <1>1, <2>1 DEF U
  <2>3. \A q \in Procs : Uploading(tx'[q]) => tx'[q].id # g
    BY <1>3, <1>6, <2>2 DEF Settled
  <2> QED BY <2>1, <2>2, <2>3 DEF Settled, Uploading
<1>10. TypeOK'
  <2>1. tx' \in [Procs -> {Idle} \union UploadTx \union ReferTx \union DeleteTx]
    BY <1>1, <1>2 DEF IInv, TypeOK
  <2>2. U \subseteq Ids \X StorageKeys
    BY <1>2 DEF IInv, TypeOK, U
  <2> QED BY <1>1, <2>1, <2>2 DEF IInv, TypeOK, tables
<1>11. ArrivalsKnown'
  <2>1. \A r, s \in U : r[1] = s[1] => r = s
    BY <1>1, <1>4 DEF IInv, ArrivalsKnown
  <2>2. ~Collisions => \A r, s \in U : r[2] = s[2] => r = s
    BY <1>1, <1>4 DEF IInv, ArrivalsKnown
  <2>3. \A q, s \in Procs : Uploading(tx'[q]) /\ Uploading(tx'[s]) /\ tx'[q].id = tx'[s].id => q = s
    BY <1>3, <1>6, <1>8 DEF IInv, ArrivalsKnown
  <2>4. \A g \in Rows : <<g, file[g].key>> \in U
    BY <1>4 DEF IInv, ArrivalsKnown, U
  <2> QED BY <1>1, <1>7, <2>1, <2>2, <2>3, <2>4 DEF ArrivalsKnown, Uploading, tables
<1>12. LocksExclusive'
  BY <1>1 DEF IInv, LocksExclusive
<1>13. ASSUME NEW q \in Procs PROVE Known(q, tx[q], held[q])'
  <2>1. CASE q = p
    <3>1. Uploading(t) /\ ~Referring(t) /\ ~Deleting(t)
      BY <1>3 DEF Uploading, Referring, Deleting
    <3> QED BY <1>1, <1>3, <1>4, <1>6, <1>7, <2>1, <3>1 DEF Known, UploadKnown, ReferKnown, DeleteKnown, tables
  <2>2. CASE q # p
    <3> SUFFICES ASSUME NEW v, NEW N, v = tx[q], N = held[q] PROVE Known(q, v, N)'
      BY <1>6, <2>2 DEF Known, UploadKnown, ReferKnown, DeleteKnown, Settled, Restrict, Fitting
    <3>1. Known(q, v, N)
      BY DEF IInv
    <3>2. Referring(v) /\ v.pc \in {"commit", "proven"} => v.files \subseteq Rows
      BY <3>1 DEF Known, ReferKnown
    <3>3. Deleting(v) /\ v.pc = "gone" => v.id \in Rows
      BY <3>1 DEF Known, DeleteKnown
    <3>4. uploads \subseteq uploads'
      BY <1>1 DEF U
    <3> QED BY <1>1, <1>7, <1>9, <3>1, <3>2, <3>3, <3>4, OthersKnow DEF tables
  <2> QED BY <2>1, <2>2
<1>14. NoOrphans'
  <2>1. \A q \in Procs : At(q, "insert") \/ At(q, "remove") => tx'[q] = tx[q]
    BY <1>1, <1>6 DEF At
  <2> QED BY <1>1, <1>7, <2>1 DEF IInv, NoOrphans, At, tables
<1>15. ReferencesHold' /\ AttachmentsFit' /\ RowsKeepObjects'
  BY <1>1, <1>7 DEF IInv, ReferencesHold, AttachmentsFit, RowsKeepObjects, RowsHaveObjects, Attached, Linked, Fitting, tables
<1> QED BY <1>10, <1>11, <1>12, <1>13, <1>14, <1>15 DEF IInv

LEMMA PutKeeps ==
  ASSUME NamesAssumption, IInv, NEW p \in Procs, Put(p)
  PROVE  IInv'
<1> DEFINE k == tx[p].row.key
           i == tx[p].id
           t == [tx[p] EXCEPT !.pc = "insert"]
<1>1. /\ tx[p].pc = "put" /\ tx' = [tx EXCEPT ![p] = t] /\ object' = [object EXCEPT ![k] = i]
      /\ UNCHANGED <<tables, uploads, now, failed, held>>
  BY DEF Put, At, Go
<1>2. tx[p] \in UploadTx /\ k \in StorageKeys /\ i \in Ids
  BY <1>1, RunningTypes DEF IInv, Uploading, UploadTx, Row
<1>3. t \in UploadTx /\ t.pc = "insert" /\ t.id = i /\ t.row = tx[p].row
  BY <1>2 DEF UploadTx
<1>4. <<i, k>> \in uploads /\ file[i] = Absent
  BY <1>1 DEF IInv, Known, UploadKnown, Uploading
<1> HIDE DEF t
<1>5. held' = [held EXCEPT ![p] = held[p]]
  BY <1>1 DEF IInv, TypeOK
<1>6. tx'[p] = t /\ held'[p] = held[p] /\ \A q \in Procs \ {p} : tx'[q] = tx[q] /\ held'[q] = held[q]
  BY <1>1, <1>5, Changed DEF IInv
<1>7. \A q \in Procs : (Uploading(tx'[q]) <=> Uploading(tx[q])) /\ (Uploading(tx[q]) => tx'[q].id = tx[q].id)
  BY <1>1, <1>3, <1>6 DEF Uploading
<1>8. \A g : Settled(g) => Settled(g)'
  BY <1>1, <1>7, SettledStays DEF Uploading
<1>9. Rows' = Rows /\ \A x \in StorageKeys : object'[x] = IF x = k THEN i ELSE object[x]
  BY <1>1, <1>2 DEF Rows, tables, IInv, TypeOK
<1>10. TypeOK'
  <2>1. tx' \in [Procs -> {Idle} \union UploadTx \union ReferTx \union DeleteTx]
    BY <1>1, <1>3 DEF IInv, TypeOK
  <2> QED BY <1>1, <1>2, <2>1 DEF IInv, TypeOK, tables
<1>11. ArrivalsKnown'
  <2>1. \A q, s \in Procs : Uploading(tx'[q]) /\ Uploading(tx'[s]) /\ tx'[q].id = tx'[s].id => q = s
    BY <1>7 DEF IInv, ArrivalsKnown
  <2> QED BY <1>1, <1>9, <2>1 DEF IInv, ArrivalsKnown, Uploading, tables
<1>12. LocksExclusive'
  BY <1>1 DEF IInv, LocksExclusive
\* Another file has another key, unless names collide.
<1>13. ~Collisions => \A r \in uploads : r[2] = k => r[1] = i
  <2>1. <<i, k>>[1] = i /\ <<i, k>>[2] = k
    OBVIOUS
  <2>2. ~Collisions => \A r, s \in uploads : r[2] = s[2] => r = s
    BY DEF IInv, ArrivalsKnown
  <2> HIDE DEF i, k
  <2> QED BY <1>4, <2>1, <2>2
<1>14. ASSUME NEW q \in Procs PROVE Known(q, tx[q], held[q])'
  <2>1. CASE q = p
    <3>1. Uploading(t) /\ ~Referring(t) /\ ~Deleting(t)
      BY <1>3 DEF Uploading, Referring, Deleting
    <3>2. object'[k] = i
      BY <1>2, <1>9
    <3> QED BY <1>1, <1>3, <1>4, <1>6, <2>1, <3>1, <3>2 DEF Known, UploadKnown, ReferKnown, DeleteKnown, tables
  <2>2. CASE q # p
    <3> SUFFICES ASSUME NEW v, NEW N, v = tx[q], N = held[q] PROVE Known(q, v, N)'
      BY <1>6, <2>2 DEF Known, UploadKnown, ReferKnown, DeleteKnown, Settled, Restrict, Fitting
    <3>1. Known(q, v, N)
      BY DEF IInv
    <3>2. Referring(v) /\ v.pc \in {"commit", "proven"} => v.files \subseteq Rows
      BY <3>1 DEF Known, ReferKnown
    <3>3. Deleting(v) /\ v.pc = "gone" => v.id \in Rows
      BY <3>1 DEF Known, DeleteKnown
    <3>4. ASSUME Uploading(v), ~Collisions PROVE object'[v.row.key] = object[v.row.key]
      <4>1. v.id # i
        BY <1>1, <2>2, <3>4 DEF IInv, ArrivalsKnown, Uploading
      <4>2. <<v.id, v.row.key>> \in uploads
        BY <3>1, <3>4 DEF Known, UploadKnown
      <4>3. v.row.key # k
        BY <1>13, <3>4, <4>1, <4>2
      <4>4. v.row.key \in StorageKeys
        BY <4>2 DEF IInv, TypeOK
      <4> QED BY <1>9, <4>3, <4>4
    <3> QED BY <1>1, <1>8, <1>9, <3>1, <3>2, <3>3, <3>4, OthersKnow DEF tables
  <2> QED BY <2>1, <2>2
<1>15. NoOrphans'
  <2> SUFFICES ASSUME ~failed, NEW x \in StorageKeys, object'[x] # None
               PROVE  \/ \E f \in Rows : file[f].key = x
                      \/ \E q \in Procs : (tx'[q].pc = "insert" /\ tx'[q].row.key = x) \/ (tx'[q].pc = "remove" /\ tx'[q].key = x)
    BY <1>1, <1>9 DEF NoOrphans, At, tables
  <2>1. CASE x = k
    BY <1>3, <1>6, <2>1
  <2>2. CASE x # k
    <3>1. object[x] # None
      BY <1>9, <2>2
    <3>2. \A q \in Procs : tx[q].pc \in {"insert", "remove"} => tx'[q] = tx[q]
      BY <1>1, <1>6
    <3> QED BY <3>1, <3>2 DEF IInv, NoOrphans, At
  <2> QED BY <2>1, <2>2
<1>16. RowsKeepObjects'
  <2> SUFFICES ASSUME ~Collisions, NEW f \in Rows PROVE object'[file[f].key] = f
    BY <1>1, <1>9 DEF RowsKeepObjects, RowsHaveObjects, tables
  <2>1. f \in Ids /\ <<f, file[f].key>> \in uploads /\ file[f].key \in StorageKeys
    BY RowsSettled, FileTypes DEF IInv
  <2>2. f # i
    BY <1>2, <1>4, FileTypes DEF IInv
  <2>3. file[f].key # k
    BY <1>13, <2>1, <2>2
  <2> QED BY <1>9, <2>1, <2>3 DEF IInv, RowsKeepObjects, RowsHaveObjects
<1>17. ReferencesHold' /\ AttachmentsFit'
  BY <1>1, <1>9 DEF IInv, ReferencesHold, AttachmentsFit, Attached, Linked, Fitting, tables
<1> QED BY <1>10, <1>11, <1>12, <1>14, <1>15, <1>16, <1>17 DEF IInv

LEMMA InsertKeeps ==
  ASSUME NamesAssumption, IInv, NEW p \in Procs, Insert(p)
  PROVE  IInv'
<1> DEFINE k == tx[p].row.key
           i == tx[p].id
<1>1. /\ tx[p].pc = "insert" /\ Finish(p) /\ file' = [file EXCEPT ![i] = tx[p].row]
      /\ UNCHANGED <<object, attachment, link, proofs, uploads, now, failed>>
  BY DEF Insert, At
<1>2. tx[p] \in UploadTx /\ tx[p].row \in Row /\ i \in Ids
  BY <1>1, RunningTypes DEF IInv, Uploading, UploadTx
<1>3. <<i, k>> \in uploads /\ file[i] = Absent /\ (~Collisions => object[k] = i)
  BY <1>1 DEF IInv, Known, UploadKnown, Uploading
<1>4. tx' = [tx EXCEPT ![p] = Idle] /\ held' = [held EXCEPT ![p] = {}]
  BY <1>1 DEF Finish, Leave
<1>5. tx'[p] = Idle /\ held'[p] = {} /\ \A q \in Procs \ {p} : tx'[q] = tx[q] /\ held'[q] = held[q]
  BY <1>4, Changed DEF IInv
<1>6. ~Uploading(Idle) /\ ~Referring(Idle) /\ ~Deleting(Idle)
  BY DEF Idle, Uploading, Referring, Deleting
<1>7. \A q \in Procs : Uploading(tx'[q]) => q # p /\ Uploading(tx[q]) /\ tx'[q].id = tx[q].id
  BY <1>5, <1>6
<1>8. \A g : Settled(g) => Settled(g)'
  BY <1>1, <1>7, SettledStays DEF Uploading
<1>9. \A f \in Ids : file'[f] = IF f = i THEN tx[p].row ELSE file[f]
  BY <1>1, <1>2 DEF IInv, TypeOK
<1>10. tx[p].row.owner # None /\ i \notin Rows
  BY <1>2, <1>3, FileTypes DEF NamesAssumption, Row, IInv
<1>11. Rows' = Rows \union {i} /\ \A f \in Rows : f # i /\ file'[f] = file[f]
  BY <1>2, <1>9, <1>10 DEF Rows
<1>12. TypeOK'
  <2>1. tx' \in [Procs -> {Idle} \union UploadTx \union ReferTx \union DeleteTx] /\ held' \in [Procs -> SUBSET Locks]
    BY <1>4 DEF IInv, TypeOK
  <2>2. file' \in [Ids -> Row \union {Absent}]
    BY <1>1, <1>2 DEF IInv, TypeOK
  <2> QED BY <1>1, <2>1, <2>2 DEF IInv, TypeOK
<1>13. ArrivalsKnown'
  <2>1. \A q, s \in Procs : Uploading(tx'[q]) /\ Uploading(tx'[s]) /\ tx'[q].id = tx'[s].id => q = s
    BY <1>7 DEF IInv, ArrivalsKnown
  <2>2. \A f \in Rows' : <<f, file'[f].key>> \in uploads
    BY <1>2, <1>3, <1>9, <1>11 DEF IInv, ArrivalsKnown
  <2> QED BY <1>1, <2>1, <2>2 DEF IInv, ArrivalsKnown, Uploading
<1>14. LocksExclusive'
  <2>1. Excludes(p, {})
    BY DEF Excludes
  <2> QED BY <1>4, <2>1, StillExclusive DEF IInv
<1>15. ASSUME NEW q \in Procs PROVE Known(q, tx[q], held[q])'
  <2>1. CASE q = p
    BY <1>5, <1>6, <2>1 DEF Known, UploadKnown, ReferKnown, DeleteKnown
  <2>2. CASE q # p
    <3> SUFFICES ASSUME NEW v, NEW N, v = tx[q], N = held[q] PROVE Known(q, v, N)'
      BY <1>5, <2>2 DEF Known, UploadKnown, ReferKnown, DeleteKnown, Settled, Restrict, Fitting
    <3>1. Known(q, v, N)
      BY DEF IInv
    <3>2. ~Settled(i)
      BY <1>1 DEF Settled, Uploading
    <3>3. Uploading(v) => v.id \in Ids /\ v.id # i
      BY <1>1, <2>2, RunningTypes DEF IInv, ArrivalsKnown, Uploading, UploadTx
    <3>4. Referring(v) => i \notin v.files /\ v.files \subseteq Ids /\ (v.pc \in {"commit", "proven"} => v.files \subseteq Rows)
      BY <3>1, <3>2, RunningTypes DEF IInv, Known, ReferKnown, ReferTx
    <3>5. Deleting(v) => v.id \in Ids /\ v.id # i /\ (v.pc = "gone" => v.id \in Rows)
      BY <3>1, <3>2, RunningTypes DEF IInv, Known, DeleteKnown, DeleteTx
    <3>6. Referring(v) => \A f \in v.files : f \in Rows' => f \in Rows /\ file'[f] = file[f]
      BY <1>9, <1>11, <3>4
    <3> QED BY <1>1, <1>8, <1>9, <1>11, <3>1, <3>3, <3>4, <3>5, <3>6, OthersKnow
  <2> QED BY <2>1, <2>2
<1>16. NoOrphans'
  <2> SUFFICES ASSUME ~failed, NEW x \in StorageKeys, object[x] # None
               PROVE  \/ \E f \in Rows' : file'[f].key = x
                      \/ \E q \in Procs : (tx'[q].pc = "insert" /\ tx'[q].row.key = x) \/ (tx'[q].pc = "remove" /\ tx'[q].key = x)
    BY <1>1 DEF NoOrphans, At
  <2>1. CASE \E f \in Rows : file[f].key = x
    BY <1>11, <2>1
  <2>2. CASE \E q \in Procs : (tx[q].pc = "insert" /\ tx[q].row.key = x) \/ (tx[q].pc = "remove" /\ tx[q].key = x)
    <3>1. PICK q \in Procs : (tx[q].pc = "insert" /\ tx[q].row.key = x) \/ (tx[q].pc = "remove" /\ tx[q].key = x)
      BY <2>2
    <3>2. CASE q = p
      BY <1>1, <1>2, <1>9, <1>11, <3>1, <3>2
    <3>3. CASE q # p
      BY <1>5, <3>1, <3>3
    <3> QED BY <3>2, <3>3
  <2> QED BY <2>1, <2>2 DEF IInv, NoOrphans, At
<1>17. RowsKeepObjects'
  BY <1>1, <1>2, <1>3, <1>9, <1>11 DEF IInv, RowsKeepObjects, RowsHaveObjects
<1>18. ReferencesHold'
  BY <1>1, <1>11 DEF IInv, ReferencesHold, Attached, Linked
<1>19. AttachmentsFit'
  <2>1. \A r \in attachment : r[1] \in Rows
    BY DEF IInv, ReferencesHold, Attached, TypeOK
  <2> QED BY <1>1, <1>11, <2>1 DEF IInv, AttachmentsFit, Fitting
<1> QED BY <1>12, <1>13, <1>14, <1>15, <1>16, <1>17, <1>18, <1>19 DEF IInv

----------------------------------------------------------------------------
(* The commits of references and deletes *)

\* What holds of calls when p goes on, with or without a lock, and nothing arrives.
LEMMA LeaveKeeps ==
  ASSUME IInv, NEW p \in Procs, NEW t \in Transactions, Leave(p, t), ~Uploading(t), UNCHANGED uploads
  PROVE  /\ tx' \in [Procs -> Transactions] /\ held' \in [Procs -> SUBSET Locks]
         /\ tx'[p] = t /\ held'[p] = {} /\ \A q \in Procs \ {p} : tx'[q] = tx[q] /\ held'[q] = held[q]
         /\ \A q \in Procs : Uploading(tx'[q]) => q # p /\ Uploading(tx[q]) /\ tx'[q].id = tx[q].id
         /\ \A g : Settled(g) => Settled(g)'
         /\ (\A f \in Rows' : <<f, file'[f].key>> \in uploads) => ArrivalsKnown'
         /\ LocksExclusive'
<1>1. tx' = [tx EXCEPT ![p] = t] /\ held' = [held EXCEPT ![p] = {}]
  BY DEF Leave
<1>2. tx'[p] = t /\ held'[p] = {} /\ \A q \in Procs \ {p} : tx'[q] = tx[q] /\ held'[q] = held[q]
  BY <1>1, Changed DEF IInv
<1>3. \A q \in Procs : Uploading(tx'[q]) => q # p /\ Uploading(tx[q]) /\ tx'[q].id = tx[q].id
  BY <1>2
<1>4. \A g : Settled(g) => Settled(g)'
  BY <1>3, SettledStays DEF Uploading
<1>5. (\A f \in Rows' : <<f, file'[f].key>> \in uploads) => ArrivalsKnown'
  <2>1. \A q, s \in Procs : Uploading(tx'[q]) /\ Uploading(tx'[s]) /\ tx'[q].id = tx'[s].id => q = s
    BY <1>3 DEF IInv, ArrivalsKnown
  <2> QED BY <2>1 DEF IInv, ArrivalsKnown, Uploading
<1>6. LocksExclusive'
  <2>1. Excludes(p, {})
    BY DEF Excludes
  <2> QED BY <1>1, <2>1, StillExclusive DEF IInv
<1>7. tx' \in [Procs -> Transactions] /\ held' \in [Procs -> SUBSET Locks]
  BY <1>1 DEF IInv, TypeOK, Transactions
<1> QED BY <1>2, <1>3, <1>4, <1>5, <1>6, <1>7

LEMMA IdleKnows ==
  ASSUME NEW p
  PROVE  /\ Known(p, Idle, {})' /\ Idle \in Transactions
         /\ ~Uploading(Idle) /\ ~Referring(Idle) /\ ~Deleting(Idle)
BY DEF Idle, Uploading, Referring, Deleting, Known, UploadKnown, ReferKnown, DeleteKnown, Transactions

\* Nobody who shares a row is met by the call that deletes it.
LEMMA ReferredStay ==
  ASSUME IInv, NEW p \in Procs, NEW q \in Procs, p # q, tx[p].pc \in {"commit", "proven"}, tx[q].pc = "gone"
  PROVE  tx[q].id \notin tx[p].files
<1>1. \A f \in tx[p].files : ShareLock(p, f) \in held[p]
  BY DEF IInv, Known, ReferKnown, Referring
<1>2. RowLock(tx[q].id) \in held[q]
  BY DEF IInv, Known, DeleteKnown, Deleting
<1>3. tx[q].id \in Ids
  BY RunningTypes DEF IInv, Deleting, DeleteTx
<1> QED BY <1>1, <1>2, <1>3 DEF IInv, LocksExclusive

LEMMA CommitAttachKeeps ==
  ASSUME NamesAssumption, IInv, NEW p \in Procs, CommitAttach(p)
  PROVE  IInv'
<1> DEFINE F == tx[p].files
           e == tx[p].entity
<1>1. /\ tx[p].pc = "commit" /\ Leave(p, Idle) /\ attachment' = attachment \union (F \X {e})
      /\ UNCHANGED <<file, object, link, proofs, uploads, now, failed>>
  BY DEF CommitAttach, At, Finish
<1>2. F \subseteq Rows /\ F \subseteq Ids /\ e \in Entities /\ \A f \in F : Fitting(f, e)
  <2>1. Referring(tx[p])
    BY <1>1 DEF Referring
  <2>2. F \subseteq Rows /\ e \in Entities /\ \A f \in F \intersect Rows : Fitting(f, e)
    BY <1>1, <2>1 DEF IInv, Known, ReferKnown
  <2> QED BY <2>1, <2>2, RunningTypes DEF IInv, ReferTx
<1>3. Rows' = Rows
  BY <1>1 DEF Rows
<1>4. TypeOK'
  BY <1>1, <1>2, IdleKnows, LeaveKeeps DEF IInv, TypeOK, Transactions
<1>5. ArrivalsKnown' /\ LocksExclusive'
  <2>1. \A f \in Rows' : <<f, file'[f].key>> \in uploads
    BY <1>1, <1>3 DEF IInv, ArrivalsKnown
  <2> QED BY <1>1, <2>1, IdleKnows, LeaveKeeps
<1>6. ASSUME NEW q \in Procs PROVE Known(q, tx[q], held[q])'
  <2>1. CASE q = p
    <3>1. tx'[q] = Idle /\ held'[q] = {}
      BY <1>1, <2>1, IdleKnows, LeaveKeeps
    <3> QED BY <3>1, IdleKnows DEF Known, UploadKnown, ReferKnown, DeleteKnown
  <2>2. CASE q # p
    <3>1. tx'[q] = tx[q] /\ held'[q] = held[q]
      BY <1>1, <2>2, IdleKnows, LeaveKeeps
    <3>2. tx[q].pc = "gone" => tx[q].id \notin F
      BY <1>1, <2>2, ReferredStay
    <3> SUFFICES ASSUME NEW v, NEW N, v = tx[q], N = held[q] PROVE Known(q, v, N)'
      BY <3>1 DEF Known, UploadKnown, ReferKnown, DeleteKnown, Settled, Restrict, Fitting
    <3>3. Known(q, v, N)
      BY DEF IInv
    <3>4. Referring(v) /\ v.pc \in {"commit", "proven"} => v.files \subseteq Rows
      BY <3>3 DEF Known, ReferKnown
    <3>5. Deleting(v) /\ v.pc = "gone" => v.id \in Rows
      BY <3>3 DEF Known, DeleteKnown
    <3>6. v.pc = "gone" => \A r \in attachment' : r[1] = v.id => r \in attachment
      BY <1>1, <3>2
    <3>7. \A g : Settled(g) => Settled(g)'
      BY <1>1, IdleKnows, LeaveKeeps
    <3> QED BY <1>1, <1>3, <3>3, <3>4, <3>5, <3>6, <3>7, OthersKnow
  <2> QED BY <2>1, <2>2
<1>7. NoOrphans'
  <2>1. \A q \in Procs : tx[q].pc \in {"insert", "remove"} => tx'[q] = tx[q]
    BY <1>1, IdleKnows, LeaveKeeps
  <2> QED BY <1>1, <1>3, <2>1 DEF IInv, NoOrphans, At
<1>8. ReferencesHold' /\ AttachmentsFit'
  <2>1. \A r \in attachment' : r \in attachment \/ (r[1] \in F /\ r[2] = e)
    BY <1>1
  <2> HIDE DEF F, e
  <2> QED BY <1>1, <1>2, <1>3, <2>1 DEF IInv, ReferencesHold, AttachmentsFit, Attached, Linked, Fitting
<1>9. RowsKeepObjects'
  BY <1>1, <1>3 DEF IInv, RowsKeepObjects, RowsHaveObjects
<1> QED BY <1>4, <1>5, <1>6, <1>7, <1>8, <1>9 DEF IInv

LEMMA CommitProofKeeps ==
  ASSUME NamesAssumption, IInv, NEW p \in Procs, CommitProof(p)
  PROVE  IInv'
<1> DEFINE F == tx[p].files
           a == tx[p].entity
           n == proofs[a] + 1
<1>1. /\ tx[p].pc = "proven" /\ Leave(p, Idle) /\ link' = link \union {<<f, a, n>> : f \in F}
      /\ proofs' = [proofs EXCEPT ![a] = n]
      /\ UNCHANGED <<file, object, attachment, uploads, now, failed>>
  BY DEF CommitProof, At, Finish
<1>2. Referring(tx[p])
  BY <1>1 DEF Referring
<1>3. F \subseteq Rows /\ a \in Allocations /\ proofs[a] < MaxProofs /\ RowLock(a) \in held[p]
  BY <1>1, <1>2 DEF IInv, Known, ReferKnown
<1>4. F \subseteq Ids
  BY <1>2, RunningTypes DEF IInv, ReferTx
<1>5. Rows' = Rows
  BY <1>1 DEF Rows
<1>6. TypeOK'
  <2>1. n \in 1 .. MaxProofs /\ n \in 0 .. MaxProofs
    BY <1>3 DEF NamesAssumption, IInv, TypeOK
  <2>2. link' \subseteq Ids \X Allocations \X (1 .. MaxProofs)
    BY <1>1, <1>3, <1>4, <2>1 DEF IInv, TypeOK
  <2>3. proofs' \in [Allocations -> 0 .. MaxProofs]
    BY <1>1, <1>3, <2>1 DEF IInv, TypeOK
  <2> QED BY <1>1, <2>2, <2>3, IdleKnows, LeaveKeeps DEF IInv, TypeOK, Transactions
<1>7. ArrivalsKnown' /\ LocksExclusive'
  <2>1. \A f \in Rows' : <<f, file'[f].key>> \in uploads
    BY <1>1, <1>5 DEF IInv, ArrivalsKnown
  <2> QED BY <1>1, <2>1, IdleKnows, LeaveKeeps
<1>8. ASSUME NEW q \in Procs PROVE Known(q, tx[q], held[q])'
  <2>1. CASE q = p
    <3>1. tx'[q] = Idle /\ held'[q] = {}
      BY <1>1, <2>1, IdleKnows, LeaveKeeps
    <3> QED BY <3>1, IdleKnows DEF Known, UploadKnown, ReferKnown, DeleteKnown
  <2>2. CASE q # p
    <3>1. tx'[q] = tx[q] /\ held'[q] = held[q]
      BY <1>1, <2>2, IdleKnows, LeaveKeeps
    <3> SUFFICES ASSUME NEW v, NEW N, v = tx[q], N = held[q] PROVE Known(q, v, N)'
      BY <3>1 DEF Known, UploadKnown, ReferKnown, DeleteKnown, Settled, Restrict, Fitting
    <3>2. Known(q, v, N)
      BY DEF IInv
    <3>3. Referring(v) /\ v.pc \in {"commit", "proven"} => v.files \subseteq Rows
      BY <3>2 DEF Known, ReferKnown
    <3>4. Deleting(v) /\ v.pc = "gone" => v.id \in Rows
      BY <3>2 DEF Known, DeleteKnown
\* One proof at a time counts the proofs of an allocation.
    <3>5. ASSUME Referring(v), v.pc \in {"prove", "proven"} PROVE proofs'[v.entity] = proofs[v.entity]
      <4>1. v.entity \in Allocations /\ RowLock(v.entity) \in held[q]
        BY <3>2, <3>5 DEF Known, ReferKnown
      <4>2. v.entity # a
        BY <1>3, <2>2, <4>1 DEF IInv, LocksExclusive
      <4> HIDE DEF n, a
      <4> QED BY <1>1, <4>1, <4>2 DEF IInv, TypeOK
    <3>6. \A g : Settled(g) => Settled(g)'
      BY <1>1, IdleKnows, LeaveKeeps
    <3> QED BY <1>1, <1>5, <3>2, <3>3, <3>4, <3>5, <3>6, OthersKnow
  <2> QED BY <2>1, <2>2
<1>9. NoOrphans'
  <2>1. \A q \in Procs : tx[q].pc \in {"insert", "remove"} => tx'[q] = tx[q]
    BY <1>1, IdleKnows, LeaveKeeps
  <2> QED BY <1>1, <1>5, <2>1 DEF IInv, NoOrphans, At
<1>10. ReferencesHold'
  <2>1. \A l \in link' : l \in link \/ l[1] \in F
    BY <1>1
  <2> HIDE DEF F
  <2> QED BY <1>1, <1>3, <1>5, <2>1 DEF IInv, ReferencesHold, Attached, Linked
<1>11. AttachmentsFit' /\ RowsKeepObjects'
  BY <1>1, <1>5 DEF IInv, AttachmentsFit, Fitting, RowsKeepObjects, RowsHaveObjects
<1> QED BY <1>6, <1>7, <1>8, <1>9, <1>10, <1>11 DEF IInv

LEMMA CommitDeleteKeeps ==
  ASSUME NamesAssumption, IInv, NEW p \in Procs, CommitDelete(p)
  PROVE  IInv'
<1> DEFINE f == tx[p].id
           t == [tx[p] EXCEPT !.pc = "remove"]
<1>1. /\ tx[p].pc = "gone" /\ Leave(p, t) /\ file' = [file EXCEPT ![f] = Absent]
      /\ attachment' = attachment \ tx[p].cleared /\ link' = {l \in link : l[1] # f}
      /\ UNCHANGED <<object, proofs, uploads, now, failed>>
  BY DEF CommitDelete, At
<1>2. Deleting(tx[p]) /\ tx[p] \in DeleteTx /\ f \in Ids
  <2>1. Deleting(tx[p])
    BY <1>1 DEF Deleting
  <2> QED BY <2>1, RunningTypes DEF IInv, DeleteTx
<1>3. f \in Rows /\ Settled(f) /\ <<f, tx[p].key>> \in uploads /\ RowLock(f) \in held[p] /\ Restrict(f, tx[p].cleared)
  BY <1>1, <1>2 DEF IInv, Known, DeleteKnown
<1>4. t \in DeleteTx /\ t.pc = "remove" /\ t.id = f /\ t.key = tx[p].key /\ t.cleared = tx[p].cleared /\ t.force = tx[p].force
  BY <1>2 DEF DeleteTx
<1> HIDE DEF t
<1>5. t \in Transactions /\ Deleting(t) /\ ~Uploading(t) /\ ~Referring(t)
  BY <1>4 DEF Transactions, Deleting, Uploading, Referring
<1>6. /\ \A g \in Ids : file'[g] = IF g = f THEN Absent ELSE file[g]
      /\ file'[f] = Absent
  BY <1>1, <1>2 DEF IInv, TypeOK
<1>7. Rows' = Rows \ {f} /\ \A g \in Rows' : g # f /\ file'[g] = file[g]
  BY <1>6 DEF Rows, Absent
<1>8. TypeOK'
  <2>1. file' \in [Ids -> Row \union {Absent}]
    BY <1>1, <1>2 DEF IInv, TypeOK
  <2>2. attachment' \subseteq Ids \X Entities /\ link' \subseteq Ids \X Allocations \X (1 .. MaxProofs)
    BY <1>1 DEF IInv, TypeOK
  <2> QED BY <1>1, <1>5, <2>1, <2>2, LeaveKeeps DEF IInv, TypeOK, Transactions
<1>9. ArrivalsKnown' /\ LocksExclusive'
  <2>1. \A g \in Rows' : <<g, file'[g].key>> \in uploads
    BY <1>7 DEF IInv, ArrivalsKnown
  <2> QED BY <1>1, <1>5, <2>1, LeaveKeeps
<1>10. ASSUME NEW q \in Procs PROVE Known(q, tx[q], held[q])'
  <2>1. CASE q = p
    <3> SUFFICES ASSUME NEW m, m = t, NEW g, g = f PROVE Known(q, tx[q], held[q])'
      OBVIOUS
    <3>1. tx'[q] = m /\ held'[q] = {} /\ Settled(g)'
      BY <1>1, <1>3, <1>5, <2>1, LeaveKeeps
    <3>2. \A r \in m.cleared : r[1] = g /\ m.force
      BY <1>2, <1>4 DEF IInv, Known, DeleteKnown
    <3>3. m.id = g /\ m.pc = "remove" /\ <<g, m.key>> \in uploads' /\ file'[g] = Absent
      BY <1>1, <1>3, <1>4, <1>6
    <3>4. DeleteKnown(m, {})'
      BY <3>1, <3>2, <3>3 DEF DeleteKnown
    <3>5. ~Uploading(m) /\ ~Referring(m)
      BY <1>5
    <3> QED BY <3>1, <3>4, <3>5 DEF Known, UploadKnown, ReferKnown, DeleteKnown, Restrict, Settled
  <2>2. CASE q # p
    <3>1. tx'[q] = tx[q] /\ held'[q] = held[q]
      BY <1>1, <1>5, <2>2, LeaveKeeps
    <3> SUFFICES ASSUME NEW v, NEW N, v = tx[q], N = held[q] PROVE Known(q, v, N)'
      BY <3>1 DEF Known, UploadKnown, ReferKnown, DeleteKnown, Settled, Restrict, Fitting
    <3>2. Known(q, v, N)
      BY DEF IInv
    <3>3. Uploading(v) => v.id \in Ids /\ v.id # f
      BY <1>3, RunningTypes DEF IInv, Settled, UploadTx
    <3>4. Referring(v) => v.files \subseteq Ids
      BY RunningTypes DEF IInv, ReferTx
    <3>5. Referring(v) /\ v.pc \in {"commit", "proven"} => v.files \subseteq Rows'
      <4>1. v.pc \in {"commit", "proven"} => f \notin v.files
        BY <1>1, <2>2, ReferredStay
      <4> QED BY <1>7, <3>2, <4>1 DEF Known, ReferKnown
    <3>6. Referring(v) => \A g \in v.files : g \in Rows' => g \in Rows /\ file'[g] = file[g]
      BY <1>7
    <3>7. Deleting(v) => v.id \in Ids
      BY RunningTypes DEF IInv, DeleteTx
    <3>8. Deleting(v) /\ v.pc = "gone" => v.id \in Rows'
      <4> SUFFICES ASSUME Deleting(v), v.pc = "gone" PROVE v.id \in Rows /\ v.id # f
        BY <1>7
      <4>1. v.id \in Rows /\ RowLock(v.id) \in held[q]
        BY <3>2 DEF Known, DeleteKnown
      <4>2. v.id # f
        BY <1>2, <1>3, <2>2, <4>1 DEF IInv, LocksExclusive
      <4> QED BY <4>1, <4>2
    <3>9. Deleting(v) /\ v.pc = "remove" => file'[v.id] = file[v.id]
      BY <1>6, <3>2, <3>7 DEF Known, DeleteKnown
    <3>10. \A g : Settled(g) => Settled(g)'
      BY <1>1, <1>5, LeaveKeeps
    <3>11. attachment' \subseteq attachment
      BY <1>1
    <3> QED BY <1>1, <1>6, <3>2, <3>3, <3>5, <3>6, <3>8, <3>9, <3>10, <3>11, OthersKnow
  <2> QED BY <2>1, <2>2
<1>11. NoOrphans'
  <2> SUFFICES ASSUME ~failed, NEW x \in StorageKeys, object[x] # None
               PROVE  \/ \E g \in Rows' : file'[g].key = x
                      \/ \E q \in Procs : (tx'[q].pc = "insert" /\ tx'[q].row.key = x) \/ (tx'[q].pc = "remove" /\ tx'[q].key = x)
    BY <1>1 DEF NoOrphans, At
\* The key the call has read is the key of the row that goes.
  <2>1. file[f].key = tx[p].key
    <3>1. <<f, file[f].key>> \in uploads
      BY <1>3 DEF IInv, ArrivalsKnown
    <3>2. \A r, s \in uploads : r[1] = s[1] => r = s
      BY DEF IInv, ArrivalsKnown
    <3>3. <<f, file[f].key>>[1] = <<f, tx[p].key>>[1]
      OBVIOUS
    <3>4. <<f, file[f].key>> = <<f, tx[p].key>>
      BY <1>3, <3>1, <3>2, <3>3
    <3> QED BY <3>4
  <2>2. CASE \E g \in Rows : file[g].key = x
    <3>1. PICK g \in Rows : file[g].key = x
      BY <2>2
    <3>2. CASE g = f
      BY <1>1, <1>4, <1>5, <2>1, <3>1, <3>2, LeaveKeeps
    <3>3. CASE g # f
      BY <1>7, <3>1, <3>3
    <3> QED BY <3>2, <3>3
  <2>3. CASE \E q \in Procs : (tx[q].pc = "insert" /\ tx[q].row.key = x) \/ (tx[q].pc = "remove" /\ tx[q].key = x)
    <3>1. \A q \in Procs : tx[q].pc \in {"insert", "remove"} => tx'[q] = tx[q]
      BY <1>1, <1>5, LeaveKeeps
    <3> QED BY <2>3, <3>1
  <2> QED BY <2>2, <2>3 DEF IInv, NoOrphans, At
<1>12. ReferencesHold'
  <2>1. \A r \in attachment' : r[1] # f
    BY <1>1, <1>3 DEF Restrict
  <2>2. \A l \in link' : l[1] # f
    BY <1>1
  <2> QED BY <1>1, <1>7, <2>1, <2>2 DEF IInv, ReferencesHold, Attached, Linked
<1>13. AttachmentsFit'
  <2>1. \A r \in attachment' : r \in attachment /\ r[1] \in Rows'
    BY <1>1, <1>3, <1>7 DEF Restrict, IInv, ReferencesHold, Attached, TypeOK
  <2> QED BY <1>7, <2>1 DEF IInv, AttachmentsFit, Fitting
<1>14. RowsKeepObjects'
  BY <1>1, <1>7 DEF IInv, RowsKeepObjects, RowsHaveObjects
<1> QED BY <1>8, <1>9, <1>10, <1>11, <1>12, <1>13, <1>14 DEF IInv

LEMMA RemoveKeeps ==
  ASSUME NamesAssumption, IInv, NEW p \in Procs, Remove(p)
  PROVE  IInv'
<1> DEFINE f == tx[p].id
           k == tx[p].key
<1>1. /\ tx[p].pc = "remove" /\ Leave(p, Idle) /\ object' = [object EXCEPT ![k] = None]
      /\ UNCHANGED <<tables, uploads, now, failed>>
  BY DEF Remove, Removed, At, Finish
<1>2. Deleting(tx[p]) /\ f \in Ids /\ k \in StorageKeys
  <2>1. Deleting(tx[p])
    BY <1>1 DEF Deleting
  <2> QED BY <2>1, RunningTypes DEF IInv, DeleteTx
<1>3. file[f] = Absent /\ Settled(f) /\ <<f, k>> \in uploads
  BY <1>1, <1>2 DEF IInv, Known, DeleteKnown
<1>4. f \notin Rows /\ Rows' = Rows
  BY <1>1, <1>3 DEF Rows, Absent, tables
<1>5. \A x \in StorageKeys : object'[x] = IF x = k THEN None ELSE object[x]
  BY <1>1, <1>2 DEF IInv, TypeOK
\* Another file has another key, unless names collide.
<1>6. ~Collisions => \A r \in uploads : r[2] = k => r[1] = f
  <2>1. <<f, k>>[1] = f /\ <<f, k>>[2] = k
    OBVIOUS
  <2>2. ~Collisions => \A r, s \in uploads : r[2] = s[2] => r = s
    BY DEF IInv, ArrivalsKnown
  <2> HIDE DEF f, k
  <2> QED BY <1>3, <2>1, <2>2
<1>7. TypeOK'
  <2>1. object' \in [StorageKeys -> Ids \union {None}]
    BY <1>1, <1>2 DEF IInv, TypeOK
  <2> QED BY <1>1, <2>1, IdleKnows, LeaveKeeps DEF IInv, TypeOK, Transactions, tables
<1>8. ArrivalsKnown' /\ LocksExclusive'
  <2>1. \A g \in Rows' : <<g, file'[g].key>> \in uploads
    BY <1>1, <1>4 DEF IInv, ArrivalsKnown, tables
  <2> QED BY <1>1, <2>1, IdleKnows, LeaveKeeps
<1>9. ASSUME NEW q \in Procs PROVE Known(q, tx[q], held[q])'
  <2>1. CASE q = p
    <3>1. tx'[q] = Idle /\ held'[q] = {}
      BY <1>1, <2>1, IdleKnows, LeaveKeeps
    <3> QED BY <3>1, IdleKnows DEF Known, UploadKnown, ReferKnown, DeleteKnown
  <2>2. CASE q # p
    <3>1. tx'[q] = tx[q] /\ held'[q] = held[q]
      BY <1>1, <2>2, IdleKnows, LeaveKeeps
    <3> SUFFICES ASSUME NEW v, NEW N, v = tx[q], N = held[q] PROVE Known(q, v, N)'
      BY <3>1 DEF Known, UploadKnown, ReferKnown, DeleteKnown, Settled, Restrict, Fitting
    <3>2. Known(q, v, N)
      BY DEF IInv
    <3>3. ASSUME Uploading(v), ~Collisions PROVE object'[v.row.key] = object[v.row.key]
      <4>1. v.id # f
        BY <1>3, <3>3 DEF Settled
      <4>2. <<v.id, v.row.key>> \in uploads
        BY <3>2, <3>3 DEF Known, UploadKnown
      <4>3. v.row.key # k
        BY <1>6, <3>3, <4>1, <4>2
      <4>4. v.row.key \in StorageKeys
        BY <4>2 DEF IInv, TypeOK
      <4> QED BY <1>5, <4>3, <4>4
    <3>4. Referring(v) /\ v.pc \in {"commit", "proven"} => v.files \subseteq Rows
      BY <3>2 DEF Known, ReferKnown
    <3>5. Deleting(v) /\ v.pc = "gone" => v.id \in Rows
      BY <3>2 DEF Known, DeleteKnown
    <3>6. \A g : Settled(g) => Settled(g)'
      BY <1>1, IdleKnows, LeaveKeeps
    <3> QED BY <1>1, <1>4, <3>2, <3>3, <3>4, <3>5, <3>6, OthersKnow DEF tables
  <2> QED BY <2>1, <2>2
<1>10. NoOrphans'
  <2> SUFFICES ASSUME ~failed, NEW x \in StorageKeys, object'[x] # None
               PROVE  \/ \E g \in Rows : file[g].key = x
                      \/ \E q \in Procs : (tx'[q].pc = "insert" /\ tx'[q].row.key = x) \/ (tx'[q].pc = "remove" /\ tx'[q].key = x)
    BY <1>1, <1>4 DEF NoOrphans, At, tables
  <2>1. x # k /\ object[x] # None
    BY <1>5
  <2>2. \A q \in Procs \ {p} : tx'[q] = tx[q]
    BY <1>1, IdleKnows, LeaveKeeps
  <2>3. CASE \E q \in Procs : (tx[q].pc = "insert" /\ tx[q].row.key = x) \/ (tx[q].pc = "remove" /\ tx[q].key = x)
    BY <1>1, <2>1, <2>2, <2>3
  <2> QED BY <2>1, <2>3 DEF IInv, NoOrphans, At
<1>11. RowsKeepObjects'
  <2> SUFFICES ASSUME ~Collisions, NEW g \in Rows PROVE object'[file[g].key] = g
    BY <1>1, <1>4 DEF RowsKeepObjects, RowsHaveObjects, tables
  <2>1. g \in Ids /\ <<g, file[g].key>> \in uploads /\ file[g].key \in StorageKeys
    BY RowsSettled, FileTypes DEF IInv
  <2>2. file[g].key # k
    BY <1>4, <1>6, <2>1
  <2> QED BY <1>5, <2>1, <2>2 DEF IInv, RowsKeepObjects, RowsHaveObjects
<1>12. ReferencesHold' /\ AttachmentsFit'
  BY <1>1, <1>4 DEF IInv, ReferencesHold, AttachmentsFit, Attached, Linked, Fitting, tables
<1> QED BY <1>7, <1>8, <1>9, <1>10, <1>11, <1>12 DEF IInv

----------------------------------------------------------------------------
(* The theorems *)

LEMMA TickKeeps ==
  ASSUME IInv, Tick
  PROVE  IInv'
<1>1. now' \in Millis /\ UNCHANGED <<tables, object, uploads, failed, held, tx>>
  BY DEF Tick
<1> QED BY <1>1 DEF IInv, TypeOK, ArrivalsKnown, LocksExclusive, Known, UploadKnown, ReferKnown, DeleteKnown, Settled,
                    ReferencesHold, AttachmentsFit, Fitting, RowsKeepObjects, RowsHaveObjects, NoOrphans, Rows,
                    Attached, Linked, Restrict, At, tables

LEMMA IInvInit == NamesAssumption /\ Init => IInv
<1> SUFFICES ASSUME NamesAssumption, Init PROVE IInv
  OBVIOUS
<1>1. \A p \in Procs : tx[p] = Idle /\ tx[p].pc = "idle" /\ held[p] = {}
  BY DEF Init, Idle
<1>2. Rows = {}
  BY DEF Init, Rows, Absent
<1>3. TypeOK
  <2>1. \A a \in Allocations : 0 \in 0 .. MaxProofs
    BY DEF NamesAssumption
  <2> QED BY <2>1 DEF Init, TypeOK
<1>4. ArrivalsKnown /\ LocksExclusive
  BY <1>1, <1>2 DEF Init, ArrivalsKnown, LocksExclusive, Uploading
<1>5. \A p \in Procs : Known(p, tx[p], held[p])
  BY <1>1 DEF Known, UploadKnown, ReferKnown, DeleteKnown, Uploading, Referring, Deleting
<1>6. ReferencesHold /\ AttachmentsFit /\ RowsKeepObjects /\ NoOrphans
  BY <1>2 DEF Init, ReferencesHold, AttachmentsFit, RowsKeepObjects, RowsHaveObjects, NoOrphans, Attached, Linked
<1> QED BY <1>3, <1>4, <1>5, <1>6 DEF IInv

LEMMA CallStepKeeps ==
  ASSUME NamesAssumption, IInv, NEW p \in Procs, Call(p) \/ Proceed(p) \/ Fail(p)
  PROVE  IInv'
<1>1. ASSUME NEW f \in Ids, NEW u \in Users, NEW n \in Names, BeginUpload(p, f, u, n) PROVE IInv'
  BY <1>1, BeginUploadKeeps
<1>2. ASSUME NEW F \in SUBSET Rows, NEW e \in Entities, NEW u \in Users \union {None}, BeginAttach(p, u, F, e) PROVE IInv'
  BY <1>2, BeginAttachKeeps
<1>3. ASSUME NEW a \in Allocations, NEW F \in SUBSET Rows, BeginProof(p, a, F) PROVE IInv'
  BY <1>3, BeginProofKeeps
<1>4. ASSUME NEW f \in Rows, NEW u, NEW force \in BOOLEAN, BeginDelete(p, f, u, force) PROVE IInv'
  BY <1>4, BeginDeleteKeeps
<1>5. CASE Call(p)
  BY <1>1, <1>2, <1>3, <1>4, <1>5 DEF Call
<1>6. CASE Attach(p)
  <2>1. tx[p].pc = "attach" /\ Referring(tx[p]) /\ ReferTo(p, tx[p].files, "commit")
    BY <1>6 DEF Attach, At, Referring
  <2>2. ASSUME NEW pc, pc = "commit", ReferTo(p, tx[p].files, pc) PROVE IInv'
    BY <2>1, <2>2, ReferKeeps
  <2> QED BY <2>1, <2>2
<1>7. CASE Prove(p)
  <2>1. tx[p].pc = "prove" /\ Referring(tx[p]) /\ ReferTo(p, tx[p].files, "proven")
    BY <1>7 DEF Prove, At, Referring
  <2>2. ASSUME NEW pc, pc = "proven", ReferTo(p, tx[p].files, pc) PROVE IInv'
    BY <2>1, <2>2, ReferKeeps
  <2> QED BY <2>1, <2>2
<1>8. CASE Proceed(p)
  BY <1>6, <1>7, <1>8, PutKeeps, InsertKeeps, CommitAttachKeeps, CommitProofKeeps, ClearKeeps, LockFileKeeps,
     CommitDeleteKeeps, RemoveKeeps DEF Proceed
<1> QED BY <1>5, <1>8, FailKeeps

LEMMA IInvStep == NamesAssumption /\ IInv /\ [Next]_vars => IInv'
<1> SUFFICES ASSUME NamesAssumption, IInv, [Next]_vars PROVE IInv'
  OBVIOUS
<1>1. CASE UNCHANGED vars
  BY <1>1 DEF vars, data, IInv, TypeOK, ArrivalsKnown, LocksExclusive, Known, UploadKnown, ReferKnown, DeleteKnown, Settled,
              ReferencesHold, AttachmentsFit, Fitting, RowsKeepObjects, RowsHaveObjects, NoOrphans, Rows,
              Attached, Linked, Restrict, At, tables
<1>2. CASE Next
  BY <1>2, TickKeeps, CallStepKeeps DEF Next
<1> QED BY <1>1, <1>2

\* Uploads, references, proofs and deletes, each of them stopped anywhere,
\* leave the rows, the storage and what each call has read in agreement.
THEOREM Invariant == NamesAssumption => (Spec => []IInv)
<1> SUFFICES ASSUME NamesAssumption PROVE Spec => []IInv
  OBVIOUS
<1>1. Init => IInv
  BY IInvInit
<1>2. IInv /\ [Next]_vars => IInv'
  BY IInvStep
<1> QED BY <1>1, <1>2, PTL DEF Spec

\* What is attached to an entity or linked to a proof has its row, whichever
\* of a reference and a delete comes first.
THEOREM ReferencesSafe == NamesAssumption => (Spec => []ReferencesHold)
<1> SUFFICES ASSUME NamesAssumption PROVE Spec => []ReferencesHold
  OBVIOUS
<1>1. IInv => ReferencesHold
  BY DEF IInv
<1>2. Spec => []IInv
  BY Invariant
<1> QED BY <1>1, <1>2, PTL

\* Every file that has a row can be read as it was uploaded, as long as no two
\* files of one name arrive in one millisecond.
THEOREM ObjectsSafe == NamesAssumption /\ ~Collisions => (Spec => []RowsHaveObjects)
<1> SUFFICES ASSUME NamesAssumption, ~Collisions PROVE Spec => []RowsHaveObjects
  OBVIOUS
<1>1. IInv => RowsHaveObjects
  BY DEF IInv, RowsKeepObjects
<1>2. Spec => []IInv
  BY Invariant
<1> QED BY <1>1, <1>2, PTL

\* The storage holds nothing that no row and no running call knows of, unless
\* a call has failed between the two.
THEOREM OrphansSafe == NamesAssumption => (Spec => []NoOrphans)
<1> SUFFICES ASSUME NamesAssumption PROVE Spec => []NoOrphans
  OBVIOUS
<1>1. IInv => NoOrphans
  BY DEF IInv
<1>2. Spec => []IInv
  BY Invariant
<1> QED BY <1>1, <1>2, PTL

\* Whoever may list the files of an entity may read each of them: the two
\* checks agree although getFileAuthorized does not look at KYC requests, whose
\* files are their user's own.
THEOREM ListedSafe == NamesAssumption /\ KycAssumption => (Spec => []ListedIsReadable)
<1> SUFFICES ASSUME NamesAssumption, KycAssumption PROVE Spec => []ListedIsReadable
  OBVIOUS
<1>1. IInv => ListedIsReadable
  <2> SUFFICES ASSUME IInv, NEW e \in Entities, NEW u \in Users, u \in Parties[e], NEW f \in ListOf(e, u)
               PROVE  Readable(f, u)
    BY DEF ListedIsReadable
  <2>1. PICK r \in attachment : r[1] = f /\ r[2] = e
    BY DEF ListOf
  <2>2. CASE Kind[e] # "KYC"
    BY <2>1, <2>2 DEF Readable, OwnsEntity
  <2>3. CASE Kind[e] = "KYC"
    <3>1. file[f].owner \in Parties[e]
      BY <2>1, <2>3 DEF IInv, AttachmentsFit, Fitting
    <3> QED BY <2>3, <3>1 DEF KycAssumption, Readable
  <2> QED BY <2>2, <2>3
<1>2. Spec => []IInv
  BY Invariant
<1> QED BY <1>1, <1>2, PTL

LEMMA AttachmentsStep == IInv /\ [Next]_vars => [AttachmentsStay]_vars
<1> SUFFICES ASSUME IInv, [Next]_vars, NEW r \in attachment, r \notin attachment'
             PROVE  \E p \in Procs : At(p, "gone") /\ tx[p].id = r[1] /\ tx[p].force
  BY DEF AttachmentsStay
<1>1. ASSUME NEW p \in Procs, Call(p) \/ Proceed(p) \/ Fail(p)
      PROVE  attachment' = attachment \/ CommitAttach(p) \/ CommitDelete(p)
  BY <1>1 DEF Call, Proceed, Fail, BeginUpload, BeginAttach, BeginProof, BeginDelete, Step, End, Put, Insert, Attach, Prove,
              ReferTo, CommitProof, Clear, LockFile, Remove, data, tables
<1>2. PICK p \in Procs : CommitDelete(p)
  BY <1>1 DEF Next, Tick, CommitAttach, vars, data, tables
<1>3. tx[p].pc = "gone" /\ r \in tx[p].cleared
  BY <1>2 DEF CommitDelete, At
<1> QED BY <1>3 DEF IInv, Known, DeleteKnown, Deleting, At

\* Only an admin's forced delete takes a file from its entity.
THEOREM DetachedByForce == NamesAssumption => (Spec => [][AttachmentsStay]_vars)
<1> SUFFICES ASSUME NamesAssumption PROVE Spec => [][AttachmentsStay]_vars
  OBVIOUS
<1>1. IInv /\ [Next]_vars => [AttachmentsStay]_vars
  BY AttachmentsStep
<1>2. Spec => []IInv
  BY Invariant
<1> QED BY <1>1, <1>2, PTL DEF Spec
=============================================================================
