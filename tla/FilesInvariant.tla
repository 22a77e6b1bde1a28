---------------------------- MODULE FilesInvariant ----------------------------
(***************************************************************************)
(* The inductive invariant of Files: what a call that uploads, refers to   *)
(* or deletes a file knows of it at each of its steps.  MCOffice checks    *)
(* it, FilesProofs proves it.                                              *)
(*                                                                         *)
(* An upload writes the object before the row, a delete removes the row    *)
(* before the object, and no lock spans both.  What makes this safe is     *)
(* that an id arrives once: from then on its row can only go, and its key  *)
(* belongs to nobody else unless files of one name collide.                *)
(*                                                                         *)
(* t is the local state of the call of p (tx[p]) and L the locks it holds  *)
(* (held[p]).                                                              *)
(***************************************************************************)
EXTENDS Files

NamesAssumption ==
  /\ None \notin Users \union Ids
  /\ Ids \intersect Allocations = {}
  /\ MaxProofs \in Nat

\* A KYC request is one user's.
KycAssumption == \A e \in Entities : Kind[e] = "KYC" => \A u, v \in Parties[e] : u = v

Uploading(t) == t.pc \in {"put", "insert"}
Referring(t) == t.pc \in {"attach", "commit", "prove", "proven"}
Deleting(t) == t.pc \in {"clear", "delete", "gone", "remove"}

\* The upload of f has ended: its row is there, or will never be again.
Settled(f) ==
  /\ \E r \in uploads : r[1] = f
  /\ \A p \in Procs : Uploading(tx[p]) => tx[p].id # f

\* An id arrives once, and so does a key unless names collide.
ArrivalsKnown ==
  /\ \A r, s \in uploads : r[1] = s[1] => r = s
  /\ ~Collisions => \A r, s \in uploads : r[2] = s[2] => r = s
  /\ \A p, q \in Procs : Uploading(tx[p]) /\ Uploading(tx[q]) /\ tx[p].id = tx[q].id => p = q
  /\ \A f \in Rows : <<f, file[f].key>> \in uploads

\* A row has one call that locks it, and then nobody who refers to it.
LocksExclusive ==
  \A p, q \in Procs : p # q =>
    /\ \A x \in Ids \union Allocations : ~(RowLock(x) \in held[p] /\ RowLock(x) \in held[q])
    /\ \A f \in Ids : ~(RowLock(f) \in held[p] /\ ShareLock(q, f) \in held[q])

\* The row is still to come; once it is put, the object is there.
UploadKnown(t) ==
  Uploading(t) =>
    /\ <<t.id, t.row.key>> \in uploads
    /\ file[t.id] = Absent
    /\ ~Collisions /\ t.pc = "insert" => object[t.row.key] = t.id

\* KYC requests take files of the user whose request it is.
Fitting(f, e) == Kind[e] = "KYC" /\ Parties[e] # {} => file[f].owner \in Parties[e]

\* The files were uploaded before; those it has referred to are there and stay.
ReferKnown(p, t, L) ==
  Referring(t) =>
    /\ \A f \in t.files : Settled(f)
    /\ t.pc \in {"attach", "commit"} => t.entity \in Entities /\ \A f \in t.files \intersect Rows : Fitting(f, t.entity)
    /\ t.pc \in {"commit", "proven"} => t.files \subseteq Rows /\ \A f \in t.files : ShareLock(p, f) \in L
    /\ t.pc \in {"prove", "proven"} => t.entity \in Allocations /\ proofs[t.entity] < MaxProofs /\ RowLock(t.entity) \in L

\* It knows the key; with the row locked it has cleared every attachment, if
\* by force; then the row is gone.
DeleteKnown(t, L) ==
  Deleting(t) =>
    /\ Settled(t.id) /\ <<t.id, t.key>> \in uploads
    /\ \A r \in t.cleared : r[1] = t.id /\ t.force
    /\ t.pc = "gone" => t.id \in Rows /\ RowLock(t.id) \in L /\ Restrict(t.id, t.cleared)
    /\ t.pc = "remove" => file[t.id] = Absent

Known(p, t, L) == UploadKnown(t) /\ ReferKnown(p, t, L) /\ DeleteKnown(t, L)

\* The owner of a file that is attached to a KYC request is whose request it is.
AttachmentsFit == \A r \in attachment : Fitting(r[1], r[2])

RowsKeepObjects == ~Collisions => RowsHaveObjects

\* The strengthening of the safety properties that the steps preserve.
IInv ==
  /\ TypeOK
  /\ ArrivalsKnown /\ LocksExclusive
  /\ \A p \in Procs : Known(p, tx[p], held[p])
  /\ ReferencesHold /\ AttachmentsFit /\ RowsKeepObjects /\ NoOrphans
=============================================================================
