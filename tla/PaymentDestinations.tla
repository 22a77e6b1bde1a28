-------------------------- MODULE PaymentDestinations --------------------------
(***************************************************************************)
(* PaymentDestinationsService: the accounts that users are paid to and     *)
(* the house collects on, and the snapshots of them that withdrawals and   *)
(* P2P allocations keep (WithdrawalsService.create and                     *)
(* P2PAllocationsService.resolveAssignmentDestinationSnapshot).            *)
(*                                                                         *)
(* A written number is a number and a way to write it; normalisation keeps *)
(* the number.  The stored value can be read only with the key it was      *)
(* encrypted with; the hash that finds duplicates has no key.  Bank and    *)
(* owner names travel with the title.                                      *)
(***************************************************************************)
EXTENDS RowLocks

CONSTANTS
  Users, System,        \* who owns destinations; System: ownerUserId is null
  Ids,                  \* PaymentDestination rows
  Types,                \* IBAN, CARD, ACCOUNT
  Numbers, Short,       \* normalised values; those under four characters
  Styles,               \* ways to write a number
  Titles, None,         \* titles; None is null
  Defaults,             \* values of isDefault that requests send
  EncryptionKeys,       \* DESTINATION_ENCRYPTION_KEY of a deployment
  Withdrawals,          \* WithdrawRequest rows
  Calls                 \* the operations that are called

OwnersAssumption == System \notin Users /\ Short \subseteq Numbers

VARIABLES
  dest,        \* PaymentDestination rows
  withdrawal,  \* WithdrawRequest rows: who, for what, to which destination
  allocation,  \* P2PAllocation of a withdrawal: the destination it shows the payer
  key          \* the encryption key of the running process

data == <<dest, withdrawal, allocation, key>>
vars == <<dest, withdrawal, allocation, key, held, tx>>

Status == {"ACTIVE", "PENDING_VERIFY", "DISABLED"}
Absent == [owner |-> None]
Rows == {d \in Ids : dest[d].owner # None}

Owned(u) == {d \in Rows : dest[d].owner = u}
RowLock(d) == <<"row", d>>
ValueLock(u, t, v) == <<"key", u, t, v>>

Row == [owner : Users \union {System}, direction : {"PAYOUT", "COLLECTION"}, type : Types, value : Numbers \ Short,
        key : EncryptionKeys, title : Titles \union {None}, isDefault : BOOLEAN, status : Status]
Snapshot == [type : Types \union {"IBAN", "CARD"}, value : Numbers, title : Titles \union {None}]

TypeOK ==
  /\ dest \in [Ids -> Row \union {Absent}]
  /\ \A w \in Withdrawals : withdrawal[w] # None =>
       withdrawal[w].user \in Users /\ withdrawal[w].snapshot \in Snapshot \union {None}
  /\ allocation \in [Withdrawals -> Snapshot \union {None}]
  /\ key \in EncryptionKeys
  /\ \A p \in Procs : tx[p] = Idle \/ tx[p].pc \in {"find", "reset", "insert", "write", "commit", "withdraw"}

Init ==
  /\ dest = [d \in Ids |-> Absent]
  /\ withdrawal = [w \in Withdrawals |-> None]
  /\ allocation = [w \in Withdrawals |-> None]
  /\ key \in EncryptionKeys
  /\ held = [p \in Procs |-> {}]
  /\ tx = [p \in Procs |-> Idle]

Step(p, t) == Go(p, t) /\ UNCHANGED data
End(p) == Finish(p) /\ UNCHANGED data

\* An exception or a crash before the commit.
Abort(p) == ~At(p, "idle") /\ End(p)

----------------------------------------------------------------------------
(* Values *)

\* Spaces, dashes and case are gone, the number stays.
Normalize(written) == written[1]

NewRow(u, t, v, title, def) ==
  [owner |-> u, direction |-> IF u = System THEN "COLLECTION" ELSE "PAYOUT", type |-> t, value |-> v,
   key |-> key, title |-> title, isDefault |-> def, status |-> "ACTIVE"]

\* decryptDestinationValue throws if the key has changed.
Readable(d) == dest[d].key = key

SnapshotOf(r) == [type |-> r.type, value |-> r.value, title |-> r.title]

\* buildLegacySnapshot: the number in the request itself, iban before card;
\* it has no title, and may be short.
LegacySnapshot(iban, card) ==
  IF iban # None THEN [type |-> "IBAN", value |-> Normalize(iban), title |-> None]
  ELSE IF card # None THEN [type |-> "CARD", value |-> Normalize(card), title |-> None]
  ELSE None

----------------------------------------------------------------------------
(* createUserPayoutDestination, createSystemCollectionDestination *)

SameValue(d, u, t, v) == dest[d].owner = u /\ dest[d].type = t /\ dest[d].value = v

\* A call is inserting the row i.
Inserting(i) == \E q \in Procs : ~At(q, "idle") /\ tx[q].id = i

Free(d) == d \notin Rows /\ ~Inserting(d)

BeginCreate(p, d, u, t, written, title, def) ==
  /\ "create" \in Calls /\ At(p, "idle") /\ Free(d)
  /\ Normalize(written) \notin Short
  /\ Step(p, [pc |-> "find", id |-> d, row |-> NewRow(u, t, Normalize(written), title, def), default |-> def, reset |-> {}])

FindExisting(p) ==
  /\ At(p, "find")
  /\ IF \E d \in Rows : SameValue(d, tx[p].row.owner, tx[p].row.type, tx[p].row.value)
     THEN End(p)
     ELSE Step(p, [tx[p] EXCEPT !.pc = IF tx[p].default THEN "reset" ELSE "insert"])

AfterReset(p) == IF dest[tx[p].id] = Absent THEN "insert" ELSE "write"

\* Mutant: the old default stays.
ResetNone(p, u) == Step(p, [tx[p] EXCEPT !.pc = AfterReset(p)])

\* updateMany of the owner's rows that are committed: it waits for each.
ResetDefaults(p, u) ==
  /\ \A d \in Owned(u) : CanLock(p, RowLock(d))
  /\ held' = [held EXCEPT ![p] = @ \union {RowLock(d) : d \in Owned(u)}]
  /\ tx' = [tx EXCEPT ![p].pc = AfterReset(p), ![p].reset = Owned(u)]
  /\ UNCHANGED data

Reset(p) == At(p, "reset") /\ ResetDefaults(p, tx[p].row.owner)

\* The unique index of owner, direction, type and hash.
Insert(p) ==
  LET r == tx[p].row IN
  /\ At(p, "insert")
  /\ CanLock(p, ValueLock(r.owner, r.type, r.value))
  /\ IF \E d \in Rows : SameValue(d, r.owner, r.type, r.value)
     THEN End(p)
     ELSE Lock(p, ValueLock(r.owner, r.type, r.value), [tx[p] EXCEPT !.pc = "commit"]) /\ UNCHANGED data

\* No owner, so nothing is unique; no other default is reset.
CreateSystem(d, t, written, title, def) ==
  /\ "createSystem" \in Calls /\ Free(d)
  /\ Normalize(written) \notin Short
  /\ dest' = [dest EXCEPT ![d] = NewRow(System, t, Normalize(written), title, def)]
  /\ UNCHANGED <<withdrawal, allocation, key, held, tx>>

----------------------------------------------------------------------------
(* updateUserPayoutDestination, makeDefault *)

\* Both read the row before their transaction begins.  A field that the
\* request leaves out is written back as it was read.
BeginUpdate(p, d, patch) ==
  LET given(f, old) == IF patch[f] # None THEN patch[f] ELSE old IN
  /\ "update" \in Calls /\ At(p, "idle") /\ d \in Rows \ Owned(System)
  /\ Step(p, [pc |-> IF patch.isDefault = TRUE THEN "reset" ELSE "write", id |-> d, default |-> FALSE, reset |-> {},
       row |-> [dest[d] EXCEPT !.title = given("title", @), !.isDefault = given("isDefault", @), !.status = given("status", @)]])

BeginMakeDefault(p, d) ==
  /\ "makeDefault" \in Calls /\ At(p, "idle") /\ d \in Rows \ Owned(System)
  /\ Step(p, [pc |-> "reset", id |-> d, default |-> TRUE, reset |-> {}, row |-> dest[d]])

Write(p) ==
  /\ At(p, "write")
  /\ Lock(p, RowLock(tx[p].id), [tx[p] EXCEPT !.pc = "commit"])
  /\ UNCHANGED data

\* Mutant: the columns that makeDefault does not name are written back too.
WrittenWhole(old, t) == t.row

\* An inserted row, the columns PATCH names, or isDefault alone.
Written(old, t) ==
  IF old = Absent THEN t.row
  ELSE IF t.default THEN [old EXCEPT !.isDefault = TRUE]
  ELSE [old EXCEPT !.title = t.row.title, !.isDefault = t.row.isDefault, !.status = t.row.status]

Commit(p) ==
  /\ At(p, "commit")
  /\ dest' = [d \in Ids |->
       IF d = tx[p].id THEN Written(dest[d], tx[p])
       ELSE IF d \in tx[p].reset THEN [dest[d] EXCEPT !.isDefault = FALSE]
       ELSE dest[d]]
  /\ Finish(p)
  /\ UNCHANGED <<withdrawal, allocation, key>>

----------------------------------------------------------------------------
(* Who uses a destination *)

\* Mutant: a destination in any state is paid to.
PayableInAnyState(u, d) == dest[d].owner = u /\ Readable(d)

\* Mutant: anybody's destination is paid to.
PayableToAnyOwner(u, d) == dest[d].status = "ACTIVE" /\ Readable(d)

\* resolvePayoutDestinationForUser
Payable(u, d) == dest[d].owner = u /\ dest[d].status = "ACTIVE" /\ Readable(d)

\* resolveCollectionDestination
Collectable(d) == dest[d].owner = System /\ dest[d].direction = "COLLECTION" /\ dest[d].status = "ACTIVE" /\ Readable(d)

Resolves(u, channel, d) == IF channel = "USER_TO_ORG" THEN Collectable(d) ELSE Payable(u, d)

\* A withdrawal names a destination, or a number of its own; P2P needs one.
Resolve(p, w, u, purpose, channel, d, iban, card) ==
  LET snapshot == IF d # None THEN SnapshotOf(dest[d]) ELSE LegacySnapshot(iban, card) IN
  /\ "withdraw" \in Calls /\ At(p, "idle") /\ withdrawal[w] = None /\ ~Inserting(w)
  /\ purpose = "P2P" => d # None
  /\ d # None => Resolves(u, channel, d)
  /\ Step(p, [pc |-> "withdraw", id |-> w,
       row |-> [user |-> u, purpose |-> purpose, channel |-> channel, dest |-> d, snapshot |-> snapshot]])

Withdraw(p) ==
  /\ At(p, "withdraw")
  /\ withdrawal' = [withdrawal EXCEPT ![tx[p].id] = tx[p].row]
  /\ Finish(p)
  /\ UNCHANGED <<dest, allocation, key>>

\* An admin's own choice of a collection account.
AssignSystem(w, d) ==
  /\ withdrawal[w] # None /\ withdrawal[w].purpose = "P2P" /\ allocation[w] = None
  /\ Collectable(d)
  /\ allocation' = [allocation EXCEPT ![w] = SnapshotOf(dest[d])]
  /\ UNCHANGED <<dest, withdrawal, key, held, tx>>

\* Mutant: the payer is shown another destination of the user.
AssignedAny(r) == IF Owned(r.user) = {} THEN r.snapshot ELSE SnapshotOf(dest[CHOOSE d \in Owned(r.user) : TRUE])

\* What the payer is shown: the snapshot, with the title of today if it has
\* none.
Assigned(r) == IF r.snapshot.title # None THEN r.snapshot ELSE [r.snapshot EXCEPT !.title = dest[r.dest].title]

\* A snapshot without a title needs its destination once more.
AssignOwn(w) ==
  LET r == withdrawal[w] IN
  /\ r # None /\ r.purpose = "P2P" /\ allocation[w] = None
  /\ r.snapshot.title = None => Resolves(r.user, r.channel, r.dest)
  /\ allocation' = [allocation EXCEPT ![w] = Assigned(r)]
  /\ UNCHANGED <<dest, withdrawal, key, held, tx>>

\* A deployment with another key.
Redeploy ==
  /\ \A p \in Procs : At(p, "idle")
  /\ key' \in EncryptionKeys \ {key}
  /\ UNCHANGED <<dest, withdrawal, allocation, held, tx>>

----------------------------------------------------------------------------
(* Lists *)

\* Mutant: disabled destinations are listed too.
PayoutListOfAll(u) == {d \in Rows : dest[d].owner = u}

\* listUserPayoutDestinations
PayoutList(u) == {d \in Rows : dest[d].owner = u /\ dest[d].direction = "PAYOUT" /\ dest[d].status = "ACTIVE"}

\* listSystemCollectionDestinations decrypts every row it lists.
CollectionList(all) ==
  {d \in Rows : dest[d].owner = System /\ dest[d].direction = "COLLECTION" /\ (all \/ dest[d].status = "ACTIVE")}
CollectionListAnswers(all) == \A d \in CollectionList(all) : Readable(d)

----------------------------------------------------------------------------
\* PENDING_VERIFY does what DISABLED does, so no request sends it.
Patch == [title : Titles \union {None}, isDefault : Defaults \union {None}, status : {"ACTIVE", "DISABLED", None}]

Call(p) ==
  \/ \E d \in Ids, u \in Users, t \in Types, n \in Numbers, s \in Styles, title \in Titles \union {None}, def \in Defaults :
       BeginCreate(p, d, u, t, <<n, s>>, title, def)
  \/ \E d \in Ids, patch \in Patch : BeginUpdate(p, d, patch)
  \/ \E d \in Ids : BeginMakeDefault(p, d)
  \/ \E w \in Withdrawals, u \in Users, purpose \in {"DIRECT", "P2P"}, d \in Rows \union {None} :
     \E channel \in IF purpose = "P2P" THEN {"USER_TO_USER", "USER_TO_ORG"} ELSE {None},
        iban, card \in IF d = None THEN (Numbers \X Styles) \union {None} ELSE {None} :
       Resolve(p, w, u, purpose, channel, d, iban, card)

Proceed(p) == FindExisting(p) \/ Reset(p) \/ Insert(p) \/ Write(p) \/ Commit(p) \/ Withdraw(p)

Next ==
  \/ \E p \in Procs : Call(p) \/ Proceed(p) \/ Abort(p)
  \/ \E d \in Ids, t \in Types, n \in Numbers, s \in Styles, title \in Titles \union {None}, def \in Defaults :
       CreateSystem(d, t, <<n, s>>, title, def)
  \/ \E w \in Withdrawals : AssignOwn(w) \/ \E d \in Rows : AssignSystem(w, d)
  \/ Redeploy

Spec == Init /\ [][Next]_vars

----------------------------------------------------------------------------
(* Properties *)

\* A user has a number once, however it is written, whoever races and
\* whatever the encryption key was.
OneRowPerValue ==
  \A d, e \in Rows : d # e /\ SameValue(d, dest[e].owner, dest[e].type, dest[e].value) => dest[d].owner = System

\* At most one default, as long as calls do not overlap: a create that is
\* not committed is not reset by another, and a PATCH writes back the
\* default it read.
OneDefault == \A d, e \in Rows : d # e /\ dest[d].isDefault /\ dest[e].isDefault /\ dest[d].owner = dest[e].owner
                                   => dest[d].owner = System

\* makeDefault leaves the title and the status that a PATCH has just written.
MakeDefaultKeepsRest ==
  \A p \in Procs : At(p, "commit") /\ tx[p].default /\ tx[p].id \in Rows /\ tx'[p] = Idle =>
       \A d \in Rows : dest'[d] # dest[d] => dest'[d] = [dest[d] EXCEPT !.isDefault = dest'[d].isDefault]

\* A withdrawal is paid to a destination of its own user, or to one of the
\* house if it is for the house, and to the number that destination still
\* has: no PATCH moves money that is on its way.
SnapshotsAreOwn ==
  \A w \in Withdrawals : withdrawal[w] # None /\ withdrawal[w].dest # None =>
    LET r == withdrawal[w] IN
    /\ dest[r.dest].owner = IF r.channel = "USER_TO_ORG" THEN System ELSE r.user
    /\ r.snapshot.value = dest[r.dest].value

\* The payer of an allocation sees the number the withdrawal was made with,
\* or one of the house's accounts.
PayersSeeTheNumber ==
  \A w \in Withdrawals : allocation[w] # None =>
    \/ allocation[w].value = withdrawal[w].snapshot.value
    \/ \E d \in Owned(System) : allocation[w].value = dest[d].value

\* A withdrawal that is accepted names a destination that its user's list,
\* or the list of collection accounts, showed when it was resolved.
ResolvedWasListed ==
  \A p \in Procs : At(p, "idle") /\ tx'[p].pc = "withdraw" /\ tx'[p].row.dest # None =>
       tx'[p].row.dest \in PayoutList(tx'[p].row.user) \union CollectionList(FALSE)

\* As long as the key has not changed, what the lists show can be paid to.
ListedIsPayable ==
  /\ \A u \in Users : \A d \in PayoutList(u) : Readable(d) => Payable(u, d)
  /\ CollectionListAnswers(FALSE) => \A d \in CollectionList(FALSE) : Collectable(d)
=============================================================================
