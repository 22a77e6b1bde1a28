-------------------------- MODULE CustodyInvariant --------------------------
(***************************************************************************)
(* The inductive invariant of Custody: what the locks of a call protect,   *)
(* and what the call knows at each of its steps.  MCCustody checks it,     *)
(* CustodyProofs proves it.                                                *)
(*                                                                         *)
(* t is the local state of a call (tx[p]) and L the locks it holds         *)
(* (held[p]).                                                              *)
(***************************************************************************)
EXTENDS Custody

Requesting == {"insert", "reserveLimit", "reserve"}
Deciding == {"releaseLimit", "unblock", "house", "consumeLimit"}
Decides(t) == t.pc \in Deciding \/ (t.pc = "commit" /\ t.call # "request")

\* A row lock has one holder, and nobody holds one before the first or after
\* the last step of a transaction.
LocksExclusive ==
  /\ \A p, q \in Procs : p # q => held[p] \intersect held[q] = {}
  /\ \A p \in Procs : tx[p].pc \in {"idle", "insert", "lockMovement"} \union AfterCommit => held[p] = {}

\* The row m is inserted by one call.
OneInserter ==
  \A p, q \in Procs : tx[p].pc # "idle" /\ tx[q].pc # "idle" /\ tx[p].call = "request" /\ tx[q].call = "request" /\ tx[p].m = tx[q].m
                        => p = q

\* Which call is at which step.
CallKnown(t) ==
  /\ t.pc \in Requesting => t.call = "request"
  /\ t.pc \in Deciding \union {"lockMovement"} \union AfterCommit => t.call # "request"
  /\ t.pc \in {"house", "consumeLimit", "findVoucher", "enqueue"} => t.call = "approve"
  /\ t.pc = "releaseLimit" => t.call # "approve"
  /\ t.pc = "findDeletion" => t.call = "cancel"
  /\ t.pc = "reserve" \/ (t.pc = "unblock" /\ t.call # "approve") => t.row.kind = "WITHDRAWAL"

\* The row a request inserts is not there yet; a decision has locked a pending
\* row and read it; after the commit the decision stays.
RowKnown(t) ==
  LET r == movement[t.m] IN
  /\ t.call = "request" =>
       r.status = "none" /\ t.row.status = "PENDING" /\ t.row.user \in Users /\ t.row.equiv \in Amounts
  /\ t.pc = "lockMovement" => r.status # "none"
  /\ Decides(t) => r.status = "PENDING" /\ t.row = r
  /\ t.pc \in {"findVoucher", "enqueue"} => r.status = "APPROVED"
  /\ t.pc = "findDeletion" => r.status = "CANCELLED"

\* The locks it holds there.
UseLock(t) == UsageLock(t.row.user, t.row.kind)
UserLock(t) == AccountLock(t.row.user)
First(t) == IF t.call # "request" THEN {MovementLock(t.m)}
            ELSE IF t.row.key = NoKey THEN {} ELSE {KeyLock(t.row.user, t.row.key)}
UsageLocked(t) == t.pc \in {"reserve", "commit"} \/ (t.pc = "unblock" /\ t.call # "approve")
UserLocked(t) ==
  \/ t.pc \in {"house", "consumeLimit"}
  \/ t.pc = "commit" /\ (t.call = "approve" \/ t.row.kind = "WITHDRAWAL")
HouseLocked(t) == t.pc = "consumeLimit" \/ (t.pc = "commit" /\ t.call = "approve")

LocksKnown(t, L) ==
  t.pc \in {"reserveLimit", "reserve", "commit"} \union Deciding =>
    L = First(t) \union (IF UsageLocked(t) THEN {UseLock(t)} ELSE {})
          \union (IF UserLocked(t) THEN {UserLock(t)} ELSE {})
          \union (IF HouseLocked(t) THEN {AccountLock(House)} ELSE {})

\* The account versions it will commit are computed from the rows as they
\* still are: a request blocks, an approval moves gold between the user and
\* the house, a rejection or a cancellation unblocks.
Moved(t) == IF t.row.kind = "DEPOSIT" THEN t.row.equiv ELSE -t.row.equiv
Freed(t) == IF t.row.kind = "DEPOSIT" THEN account[t.row.user] ELSE Unblock(account[t.row.user], t.row.equiv)

UserRow(t) ==
  LET a == account[t.row.user]
      n == t.row.equiv
  IN
  CASE t.call = "request" -> CanReserve(a, n) /\ t.rows[t.row.user] = Reserve(a, n)
    [] t.call = "approve" ->
         /\ t.row.kind = "WITHDRAWAL" => CanUnblock(a, n)
         /\ CanApply(Freed(t), Moved(t))
         /\ t.rows[t.row.user] = Apply(Freed(t), Moved(t))
    [] OTHER -> CanUnblock(a, n) /\ t.rows[t.row.user] = Unblock(a, n)

AccountsKnown(t) ==
  /\ UserLocked(t) => UserRow(t)
  /\ HouseLocked(t) => CanApply(account[House], -Moved(t)) /\ t.rows[House] = Apply(account[House], -Moved(t))

\* So is the usage version, which respects the limit.
UseRow(t) ==
  LET row == usage[<<t.row.user, t.row.kind>>] IN
  CASE t.call = "request" -> ReserveUsage(row, t.row.equiv)
    [] t.call = "approve" -> ConsumeUsage(row, t.row.equiv)
    [] OTHER -> ReleaseUsage(row, t.row.equiv)

UsageKnown(t) ==
  UsageLocked(t) => t.use = UseRow(t) /\ (Policy.value # NoLimit => t.use.used + t.use.reserved <= Policy.value)

\* A key whose index entry a request has inserted belongs to no movement yet.
KeyKnown(t) ==
  t.call = "request" /\ t.pc # "insert" => ~UsedKey(t.row.user, t.row.key)

Known(t, L) ==
  CallKnown(t) /\ RowKnown(t) /\ LocksKnown(t, L) /\ AccountsKnown(t) /\ UsageKnown(t) /\ KeyKnown(t)

\* A row that is there belongs to a user.
RowsOfUsers == \A m \in Movements : movement[m].status # "none" => movement[m].user \in Users

\* The strengthening of the safety properties that the steps preserve.
IInv ==
  /\ TypeOK
  /\ LocksExclusive /\ OneInserter /\ RowsOfUsers
  /\ \A p \in Procs : tx[p].pc # "idle" => Known(tx[p], held[p])
  /\ StatusMatchesHolds /\ NoOverdraft /\ LimitsRespected /\ OneMovementPerKey /\ NothingToDelete
=============================================================================
