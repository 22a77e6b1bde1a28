--------------------------- MODULE TradesInvariant ---------------------------
(***************************************************************************)
(* The inductive invariant of Trades: what the locks of a call protect,    *)
(* and what the call knows at each of its steps.  MCRequests checks it,    *)
(* TradesProofs proves it.                                                 *)
(*                                                                         *)
(* reverse and settle decide on a row they have not locked.  What makes    *)
(* that safe is that an approved trade is only ever reversed or settled,   *)
(* and that whoever adds entries to it holds the accounts they are on.     *)
(*                                                                         *)
(* t is the local state of a call (tx[p]) and L the locks it holds         *)
(* (held[p]).                                                              *)
(***************************************************************************)
EXTENDS Trades

Unlocked == {"idle", "insert", "lockTrade", "read", "readFunds", "findEntries"} \union AfterCommit
Creating == {"insert", "reserveLimit", "reserve"}
Approving == {"leg", "consumeLimit"}
Deciding == {"lockTrade", "releaseLimit", "unblock"} \union Approving
Locking == {"lockAccounts", "apply"}
Commits(t, calls) == t.pc = "commit" /\ t.call \in calls
Decides(t) == t.pc \in Deciding \ {"lockTrade"} \/ Commits(t, {"approve", "reject", "cancel"})
HasApplied(t) == t.pc = "update" \/ Commits(t, {"reverse", "settle"})

\* A row lock has one holder, and nobody holds one before the first or after
\* the last step of a transaction that takes any.
LocksExclusive ==
  /\ \A p, q \in Procs : p # q => held[p] \intersect held[q] = {}
  /\ \A p \in Procs : tx[p].pc \in Unlocked => held[p] = {}

\* A trade is inserted, and a lot created, by one call.
Alike(t, u) == t.call = u.call /\ (t.call = "lot" \/ (t.call = "create" /\ t.t = u.t))
OneInserter == \A p, q \in Procs : tx[p].pc # "idle" /\ tx[q].pc # "idle" /\ Alike(tx[p], tx[q]) => p = q

\* Which call is at which step, and what it has still to do there.
CallKnown(t) ==
  /\ t.pc \in Creating => t.call = "create"
  /\ t.pc \in Deciding => t.call \in {"approve", "reject", "cancel"}
  /\ t.pc \in Approving => t.call = "approve"
  /\ t.pc = "releaseLimit" => t.call # "approve"
  /\ t.pc \in {"read", "update"} => t.call \in {"reverse", "settle"}
  /\ t.pc = "findEntries" => t.call = "reverse"
  /\ t.pc = "readFunds" => t.call = "settle"
  /\ t.pc \in Locking => t.call \in {"reverse", "settle", "lot"}
  /\ t.pc \in AfterCommit => t.call \in {"approve", "settle"}
  /\ t.call = "create" => t.t \in Spot
  /\ t.call = "settle" /\ t.pc \notin {"read"} \union AfterCommit => t.t \in Forward
  /\ t.call = "settle" /\ t.pc \in {"readFunds"} \union Locking => t.pays # 0
  /\ t.call = "reverse" /\ t.pc \in {"findEntries"} \union Locking => t.t \in Spot
  /\ t.pc \in Creating \union {"lockTrade", "releaseLimit", "unblock", "read", "readFunds"} => t.new = {}
  /\ t.pc \in Locking => t.toLock \subseteq IF t.call = "reverse" THEN Accounts ELSE Moved(t.call)
  /\ t.pc = "apply" => t.toLock = {}

\* The row a create inserts is not there yet; a decision has locked a pending
\* row and read it; a trade to be reversed has been approved for good.
RowKnown(t) ==
  LET r == trade[t.t] IN
  /\ t.call = "create" => r.status = "none" /\ t.row.quantity \in Quantities /\ ~t.row.reversed
  /\ t.pc \in {"lockTrade", "read"} => r.status # "none"
  /\ Decides(t) => r.status = "PENDING" /\ t.row = r /\ t.t \in Spot
  /\ t.call = "reverse" /\ t.pc # "read" /\ t.t \in Spot => r.status = "APPROVED" \/ r.reversed
  /\ t.call = "lot" => lots < MaxLots

\* The locks it holds there.
OwnLocks(t) ==
  IF t.call = "create" THEN {KeyLock(t.row.key)} \ {KeyLock(NoKey)}
  ELSE IF t.pc \in Deciding \/ Commits(t, {"approve", "reject", "cancel", "reverse", "settle"}) THEN {TradeLock(t.t)} ELSE {}

UsageLocked(t) ==
  t.pc = "reserve" \/ (t.pc = "unblock" /\ t.call # "approve") \/ Commits(t, {"create", "approve", "reject", "cancel"})

LockedAccounts(t) ==
  CASE t.pc = "leg" -> (Accounts \ t.todo) \union {Payer(t.row)}
    [] t.pc = "consumeLimit" \/ Commits(t, {"approve"}) -> Accounts
    [] Commits(t, {"create", "reject", "cancel"}) -> {Payer(t.row)}
    [] t.pc \in Locking -> (IF t.call = "reverse" THEN Accounts ELSE Moved(t.call)) \ t.toLock
    [] HasApplied(t) /\ t.call = "reverse" -> IF t.t \in Spot THEN Accounts ELSE {}
    [] HasApplied(t) /\ t.call = "settle" -> IF t.pays # 0 THEN IRR ELSE {}
    [] Commits(t, {"lot"}) -> Gold
    [] OTHER -> {}

LocksKnown(t, L) ==
  t.pc \notin Unlocked =>
    /\ OwnLocks(t) \subseteq L
    /\ \A s \in Side : UsageLock(s) \in L <=> UsageLocked(t) /\ s = t.row.side
    /\ \A a \in Accounts : AccountLock(a) \in L <=> a \in LockedAccounts(t)

\* An approval has unblocked what the trade blocks, and has applied the legs
\* that are not to do any more.
Base(t, a) == IF a = Payer(t.row) THEN Unblock(account[a], Blocks(t.row)) ELSE account[a]

LegsKnown(t) ==
  /\ t.pc = "consumeLimit" \/ Commits(t, {"approve"}) => t.todo = {}
  /\ t.pc \in Approving \/ Commits(t, {"approve"}) =>
       /\ CanUnblock(account[Payer(t.row)], Blocks(t.row))
       /\ Payer(t.row) \in t.todo => t.rows[Payer(t.row)] = Base(t, Payer(t.row))
       /\ \A a \in Accounts \ t.todo :
            CanApply(Base(t, a), Delta(t.row, a)) /\ t.rows[a] = Apply(Base(t, a), Delta(t.row, a))
       /\ t.new = {[account |-> a, delta |-> Delta(t.row, a), reversal |-> FALSE] : a \in Accounts \ t.todo}

\* A create blocks, a rejection or a cancellation unblocks.
FundsKnown(t) ==
  LET a == Payer(t.row)
      n == Blocks(t.row)
  IN
  /\ Commits(t, {"create"}) => CanReserve(account[a], n) /\ t.rows[a] = Reserve(account[a], n) /\ t.new = {}
  /\ Commits(t, {"reject", "cancel"}) => CanUnblock(account[a], n) /\ t.rows[a] = Unblock(account[a], n) /\ t.new = {}

\* What settle and createLot move.
MoveEntries(t) == {[account |-> a, delta |-> Move(t.call, t.pays, a), reversal |-> FALSE] : a \in Moved(t.call)}

MovesKnown(t) ==
  /\ t.pc \in Locking => \A a \in LockedAccounts(t) : t.rows[a] = account[a]
  /\ HasApplied(t) /\ t.call = "settle" /\ t.pays = 0 => t.new = {}
  /\ (HasApplied(t) /\ t.call = "settle" /\ t.pays # 0) \/ Commits(t, {"lot"}) =>
       /\ t.new = MoveEntries(t)
       /\ \A a \in Moved(t.call) :
            LET n == Move(t.call, t.pays, a) IN
            /\ CanApply(account[a], n) /\ t.rows[a] = Apply(account[a], n)
            /\ t.call = "settle" => EntryFree(t.t, a, n)

\* The reversal of a spot trade has read its legs, and perhaps their reversal;
\* in the end it adds the reversal, unless another one has.
ReversalKnown(t) ==
  LET r == trade[t.t]
      legs == LegEntries(r)
  IN
  /\ t.call = "reverse" /\ t.pc \in Locking => t.new = legs \/ (r.reversed /\ t.new = legs \union Undone(legs))
  /\ HasApplied(t) /\ t.call = "reverse" =>
       IF t.t \in Forward THEN t.new = {}
       ELSE IF r.reversed THEN t.new = {} /\ \A a \in Accounts : t.rows[a] = account[a]
       ELSE /\ t.new = Undone(legs)
            /\ \A a \in Accounts : CanApply(account[a], -Delta(r, a)) /\ t.rows[a] = Apply(account[a], -Delta(r, a))

\* The usage version it will commit is computed from the row as it still is.
UsageKnown(t) ==
  UsageLocked(t) =>
    t.use = CASE t.call = "create" -> ReserveUsage(usage[t.row.side], Total(t.row))
              [] t.call = "approve" -> ConsumeUsage(usage[t.row.side], Total(t.row))
              [] OTHER -> ReleaseUsage(usage[t.row.side], Total(t.row))

\* A key whose index entry a create has inserted belongs to no trade yet.
KeyKnown(t) == t.call = "create" /\ t.pc # "insert" => ~UsedKey(t.row.key)

Known(t, L) ==
  /\ CallKnown(t) /\ RowKnown(t) /\ LocksKnown(t, L) /\ LegsKnown(t) /\ FundsKnown(t)
  /\ MovesKnown(t) /\ ReversalKnown(t) /\ UsageKnown(t) /\ KeyKnown(t)

\* A spot trade is for a quantity that was asked for; a forward trade is
\* approved, settled or cancelled, holds nothing, and has the IRR entries of
\* settlements, each with its counterpart.
RowsKnown ==
  /\ \A t \in Spot : trade[t].status # "none" => trade[t].quantity \in Quantities
  /\ \A t \in Forward :
       /\ trade[t].status \in {"APPROVED", "SETTLED", "CANCELLED_BY_ADMIN"}
       /\ hold[t] = "none" /\ limitHold[t] = "none"
       /\ \A e \in entries[t] :
            /\ e.account \in IRR /\ ~e.reversal /\ e.delta # 0
            /\ \E f \in entries[t] : f.account # e.account /\ f.delta = -e.delta

\* The strengthening of the safety properties that the steps preserve.
IInv ==
  /\ TypeOK
  /\ LocksExclusive /\ OneInserter /\ RowsKnown /\ OneEntryPerSide
  /\ \A p \in Procs : tx[p].pc # "idle" => Known(tx[p], held[p])
  /\ StatusMatchesEntries /\ NoOverdraft /\ OneTradePerKey
=============================================================================
