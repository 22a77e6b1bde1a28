--------------------------------- MODULE Files ---------------------------------
(***************************************************************************)
(* FilesService over its storage provider, the attachments that deposits,  *)
(* withdrawals, trades, gold lots and KYC requests make, the links that    *)
(* P2P proofs make, and who may read a file or list the files of an        *)
(* entity.  A file is a row and an object; nothing keeps the two together. *)
(*                                                                         *)
(* A foreign key locks the file's row in share mode until the call that    *)
(* refers to it commits; the delete of the row waits for those locks.      *)
(* Then an Attachment forbids the delete (ON DELETE RESTRICT), and an      *)
(* AttachmentLink goes with the row (ON DELETE CASCADE).                   *)
(***************************************************************************)
EXTENDS RowLocks, Naturals, FiniteSets

CONSTANTS
  Users, None,
  Ids,              \* File rows
  Names,            \* sanitised file names
  Millis,           \* the times at which files arrive
  Entities,         \* what an Attachment can name
  Kind, Parties,    \* of each entity: its type, and the users it belongs to
  Allocations,      \* P2PAllocation rows
  Payer, Receiver,  \* of each allocation: owner of the deposit, of the withdrawal
  Collisions,       \* whether two files of one name may arrive in one millisecond
  MaxProofs         \* bound: proofs of one allocation

EntitiesAssumption ==
  \A e \in Entities : Kind[e] \in {"DEPOSIT", "WITHDRAW", "TRADE", "GOLD_LOT", "REMITTANCE", "KYC"}
                      /\ Parties[e] \in SUBSET Users
AllocationsAssumption == \A a \in Allocations : Payer[a] \in Users /\ Receiver[a] \in Users

VARIABLES
  file,        \* File rows
  object,      \* the storage: of each key, the file whose bytes it holds
  attachment,  \* Attachment rows: file and entity
  link,        \* AttachmentLink rows: file, allocation and the proof it came with
  proofs,      \* the proofs of an allocation that were accepted
  uploads,     \* the uploads so far: file and key
  now,         \* the clock
  failed       \* a call has stopped after it changed the storage or the table

tables == <<file, attachment, link, proofs>>
data == <<tables, object, uploads, now, failed>>
vars == <<data, held, tx>>

StorageKeys == Millis \X Names
Absent == [owner |-> None]
Rows == {f \in Ids : file[f].owner # None}
Row == [owner : Users, key : StorageKeys]

RowLock(f) == <<"row", f>>
ShareLock(p, f) == <<"share", f, p>>
Locks == {RowLock(x) : x \in Ids \union Allocations} \union {ShareLock(p, f) : p \in Procs, f \in Ids}

\* The calls that upload, refer to files (in an Attachment or with a proof) and delete.
UploadTx == [pc : {"put", "insert"}, id : Ids, row : Row]
ReferTx == [pc : {"attach", "commit", "prove", "proven"}, id : {None}, files : SUBSET Ids, entity : Entities \union Allocations]
DeleteTx == [pc : {"clear", "delete", "gone", "remove"}, id : Ids, force : BOOLEAN, key : StorageKeys,
             cleared : SUBSET (Ids \X Entities)]

TypeOK ==
  /\ file \in [Ids -> Row \union {Absent}]
  /\ object \in [StorageKeys -> Ids \union {None}]
  /\ attachment \subseteq Ids \X Entities
  /\ link \subseteq Ids \X Allocations \X (1 .. MaxProofs)
  /\ proofs \in [Allocations -> 0 .. MaxProofs]
  /\ uploads \subseteq Ids \X StorageKeys /\ now \in Millis /\ failed \in BOOLEAN
  /\ held \in [Procs -> SUBSET Locks]
  /\ tx \in [Procs -> {Idle} \union UploadTx \union ReferTx \union DeleteTx]

Init ==
  /\ file = [f \in Ids |-> Absent]
  /\ object = [k \in StorageKeys |-> None]
  /\ attachment = {} /\ link = {}
  /\ proofs = [a \in Allocations |-> 0]
  /\ uploads = {} /\ now \in Millis /\ failed = FALSE
  /\ held = [p \in Procs |-> {}]
  /\ tx = [p \in Procs |-> Idle]

Step(p, t) == Go(p, t) /\ UNCHANGED data
End(p) == Finish(p) /\ UNCHANGED data

\* The process stops, the database or the storage throws.
Fail(p) ==
  /\ ~At(p, "idle")
  /\ failed' = (failed \/ tx[p].pc \in {"insert", "remove"})
  /\ Finish(p)
  /\ UNCHANGED <<tables, object, uploads, now>>

Tick ==
  /\ now' \in {t \in Millis : t > now}
  /\ UNCHANGED <<tables, object, uploads, failed, held, tx>>

----------------------------------------------------------------------------
(* storeFile *)

Arriving(f, key) == f \notin {r[1] : r \in uploads} /\ (Collisions \/ key \notin {r[2] : r \in uploads})

BeginUpload(p, f, u, name) ==
  /\ At(p, "idle") /\ Arriving(f, <<now, name>>)
  /\ uploads' = uploads \union {<<f, <<now, name>>>>}
  /\ Go(p, [pc |-> "put", id |-> f, row |-> [owner |-> u, key |-> <<now, name>>]])
  /\ UNCHANGED <<tables, object, now, failed>>

\* Mutant: a row whose object is not there yet.
PutLater(p) ==
  /\ At(p, "put")
  /\ file' = [file EXCEPT ![tx[p].id] = tx[p].row]
  /\ object' = [object EXCEPT ![tx[p].row.key] = None]
  /\ Go(p, [tx[p] EXCEPT !.pc = "insert"])
  /\ UNCHANGED <<attachment, link, proofs, uploads, now, failed>>

\* putObject overwrites what is there.
Put(p) ==
  /\ At(p, "put")
  /\ object' = [object EXCEPT ![tx[p].row.key] = tx[p].id]
  /\ Go(p, [tx[p] EXCEPT !.pc = "insert"])
  /\ UNCHANGED <<tables, uploads, now, failed>>

Insert(p) ==
  /\ At(p, "insert")
  /\ file' = [file EXCEPT ![tx[p].id] = tx[p].row]
  /\ Finish(p)
  /\ UNCHANGED <<object, attachment, link, proofs, uploads, now, failed>>

----------------------------------------------------------------------------
(* Attachments and proofs *)

Own(u, F) == \A f \in F : file[f].owner = u

\* createAttachmentsForActor, and submitKyc: users attach their own files to
\* what they create; admins (u = None) any file to a gold lot, or to an
\* entity of their own.
MayAttach(u, F, e) ==
  IF u = None THEN Kind[e] = "GOLD_LOT" \/ Parties[e] = {}
  ELSE Own(u, F) /\ u \in Parties[e] /\ Kind[e] # "GOLD_LOT"

BeginAttach(p, u, F, e) ==
  /\ At(p, "idle")
  /\ F \subseteq Rows /\ MayAttach(u, F, e)
  /\ Step(p, [pc |-> "attach", id |-> None, files |-> F, entity |-> e])

\* Mutant: nothing keeps the rows that an uncommitted call refers to.
ReferToUnlocked(p, F, pc) ==
  IF F \subseteq Rows THEN Step(p, [tx[p] EXCEPT !.pc = pc]) ELSE End(p)

\* An insert under the foreign key waits for a delete, and fails if the file
\* is gone.
ReferTo(p, F, pc) ==
  /\ \A f \in F : CanLock(p, RowLock(f))
  /\ IF F \subseteq Rows
     THEN /\ held' = [held EXCEPT ![p] = @ \union {ShareLock(p, f) : f \in F}]
          /\ tx' = [tx EXCEPT ![p].pc = pc]
          /\ UNCHANGED data
     ELSE End(p)

Attach(p) == At(p, "attach") /\ ReferTo(p, tx[p].files, "commit")

CommitAttach(p) ==
  /\ At(p, "commit")
  /\ attachment' = attachment \union (tx[p].files \X {tx[p].entity})
  /\ Finish(p)
  /\ UNCHANGED <<file, object, link, proofs, uploads, now, failed>>

\* submitPayerProof, under the lock of the allocation.  Attempts are counted
\* in links, and a proof of two files leaves none.
AllocationLock(a) == <<"row", a>>
LinksOf(a) == {l \in link : l[2] = a}

BeginProof(p, a, F) ==
  /\ At(p, "idle")
  /\ CanLock(p, AllocationLock(a))
  /\ F # {} /\ proofs[a] < MaxProofs
  /\ Cardinality(LinksOf(a)) < 2
  /\ F \subseteq Rows /\ Own(Payer[a], F)
  /\ Lock(p, AllocationLock(a), [pc |-> "prove", id |-> None, files |-> F, entity |-> a])
  /\ UNCHANGED data

Prove(p) == At(p, "prove") /\ ReferTo(p, tx[p].files, "proven")

CommitProof(p) ==
  LET a == tx[p].entity IN
  /\ At(p, "proven")
  /\ link' = link \union {<<f, a, proofs[a] + 1>> : f \in tx[p].files}
  /\ proofs' = [proofs EXCEPT ![a] = @ + 1]
  /\ Finish(p)
  /\ UNCHANGED <<file, object, attachment, uploads, now, failed>>

----------------------------------------------------------------------------
(* deleteFileAsUser, deleteFileAsAdmin *)

Attached(f) == \E r \in attachment : r[1] = f
Linked(f) == \E l \in link : l[1] = f

\* The counts are read before the delete begins.
Deletable(f, u, force) == (u = None \/ file[f].owner = u) /\ (force \/ ~(Attached(f) \/ Linked(f)))

\* An admin (u = None) may force it.
BeginDelete(p, f, u, force) ==
  /\ At(p, "idle") /\ f \in Rows
  /\ Deletable(f, u, force)
  /\ Step(p, [pc |-> "clear", id |-> f, force |-> force, key |-> file[f].key, cleared |-> {}])

\* Mutant: attachments are always removed.
ClearedAlways(f, force) == {r \in attachment : r[1] = f}

\* deleteMany of a forced delete: the attachments that are committed.
Cleared(f, force) == IF force THEN {r \in attachment : r[1] = f} ELSE {}

Clear(p) ==
  /\ At(p, "clear")
  /\ Step(p, [tx[p] EXCEPT !.pc = "delete", !.cleared = Cleared(tx[p].id, tx[p].force)])

NoReferer(p, f) == \A q \in Procs \ {p} : ShareLock(q, f) \notin held[q]

\* ON DELETE RESTRICT; a forced delete has removed what was there before.
Restrict(f, cleared) == ~\E r \in attachment \ cleared : r[1] = f

LockFile(p) ==
  LET f == tx[p].id IN
  /\ At(p, "delete")
  /\ NoReferer(p, f) /\ CanLock(p, RowLock(f))
  /\ IF f \in Rows /\ Restrict(f, tx[p].cleared)
     THEN Lock(p, RowLock(f), [tx[p] EXCEPT !.pc = "gone"]) /\ UNCHANGED data
     ELSE End(p)

\* The row goes, and with it every link; then the object.
CommitDelete(p) ==
  LET f == tx[p].id IN
  /\ At(p, "gone")
  /\ file' = [file EXCEPT ![f] = Absent]
  /\ attachment' = attachment \ tx[p].cleared
  /\ link' = {l \in link : l[1] # f}
  /\ Leave(p, [tx[p] EXCEPT !.pc = "remove"])
  /\ UNCHANGED <<object, proofs, uploads, now, failed>>

\* Mutant: a driver that deletes nothing.
RemovedNothing(objects, k) == objects

Removed(objects, k) == [objects EXCEPT ![k] = None]

Remove(p) ==
  /\ At(p, "remove")
  /\ object' = Removed(object, tx[p].key)
  /\ Finish(p)
  /\ UNCHANGED <<tables, uploads, now, failed>>

----------------------------------------------------------------------------
(* Who reads what *)

\* Mutant: gold lots are forgotten.
OwnsEntityButGold(u, e) == Kind[e] \notin {"KYC", "GOLD_LOT"} /\ u \in Parties[e]

\* isActorOwnerOfAttachmentEntities knows no KYC.
OwnsEntity(u, e) == Kind[e] # "KYC" /\ u \in Parties[e]

\* Mutant: links are not looked at once there are none of the user's entities.
ReadableAttached(f, u) == file[f].owner = u \/ \E r \in attachment : r[1] = f /\ OwnsEntity(u, r[2])

\* getFileAuthorized, for a user.
Readable(f, u) ==
  \/ file[f].owner = u
  \/ \E r \in attachment : r[1] = f /\ OwnsEntity(u, r[2])
  \/ \E l \in link : l[1] = f /\ u \in {Payer[l[2]], Receiver[l[2]]}

\* AttachmentsService.listForEntityAuthorized; None is an error.
ListOf(e, u) == IF u \in Parties[e] THEN {r[1] : r \in {s \in attachment : s[2] = e}} ELSE None

----------------------------------------------------------------------------
Call(p) ==
  \/ \E f \in Ids, u \in Users, n \in Names : BeginUpload(p, f, u, n)
  \/ \E F \in SUBSET Rows \ {{}}, e \in Entities, u \in Users \union {None} : BeginAttach(p, u, F, e)
  \/ \E a \in Allocations, F \in SUBSET Rows : BeginProof(p, a, F)
  \/ \E f \in Rows :
       \/ \E u \in Users : BeginDelete(p, f, u, FALSE)
       \/ \E force \in BOOLEAN : BeginDelete(p, f, None, force)

Proceed(p) ==
  \/ Put(p) \/ Insert(p) \/ Attach(p) \/ CommitAttach(p) \/ Prove(p) \/ CommitProof(p)
  \/ Clear(p) \/ LockFile(p) \/ CommitDelete(p) \/ Remove(p)

Next == Tick \/ \E p \in Procs : Call(p) \/ Proceed(p) \/ Fail(p)

Spec == Init /\ [][Next]_vars

----------------------------------------------------------------------------
(* Properties *)

\* A file can be read as it was uploaded, wherever an upload or a delete
\* stops, as long as no two files of one name arrive in one millisecond.
RowsHaveObjects == \A f \in Rows : object[file[f].key] = f

\* Unless a call has failed halfway, the storage holds nothing that no file,
\* and no call that is under way, knows of.
NoOrphans ==
  \/ failed
  \/ \A k \in StorageKeys : object[k] # None =>
       \/ \E f \in Rows : file[f].key = k
       \/ \E p \in Procs : (At(p, "insert") /\ tx[p].row.key = k) \/ (At(p, "remove") /\ tx[p].key = k)

\* What is attached or linked has its row: no dangling reference, whichever
\* of an attachment and a delete commits first.
ReferencesHold == \A f \in Ids : Attached(f) \/ Linked(f) => f \in Rows

\* Only an admin's forced delete takes a file from its entity.
AttachmentsStay ==
  \A r \in attachment : r \notin attachment' => \E p \in Procs : At(p, "gone") /\ tx[p].id = r[1] /\ tx[p].force

\* Whoever may list the files of an entity may read each of them, although
\* the two checks are written apart and differ on KYC.
ListedIsReadable == \A e \in Entities, u \in Users : u \in Parties[e] => \A f \in ListOf(e, u) : Readable(f, u)

\* Payer and receiver can both read every proof of their allocation.
ProofsAreReadable == \A l \in link : Readable(l[1], Payer[l[2]]) /\ Readable(l[1], Receiver[l[2]])
=============================================================================
