------------------------------- MODULE Trades -------------------------------
(***************************************************************************)
(* TradesService and GoldService.createLot over AccountsService and        *)
(* LimitsService: one client and the house, each with an IRR and a gold    *)
(* account, and concurrent calls that create, approve, reject, cancel,     *)
(* reverse and settle trades.                                              *)
(*                                                                         *)
(* approve, reject and cancelTrade lock the trade first; reverseTrade and  *)
(* settleForwardTradeInCash read it without a lock and update it WHERE id. *)
(* approve locks the accounts one by one, in the order of its entries; the *)
(* others lock theirs together, in the order of their ids.                 *)
(*                                                                         *)
(* The LimitUsage rows of TRADE_BUY are others than those of TRADE_SELL.   *)
(* The four rows of a trade (notional and weight, day and month) are       *)
(* reserved, consumed and released alike: one row of its side stands for   *)
(* them.                                                                   *)
(* Every trade has a quote that QuoteLockService has handed out, which it  *)
(* does once per quote: the quote is external here, and so is Redis.  A    *)
(* trade in Forward is a forward CASH trade that the table has as          *)
(* APPROVED: createForUser and approve let only SPOT WALLET trades         *)
(* through, settle only forward CASH ones.                                 *)
(***************************************************************************)
EXTENDS RowLocks, Ledger, Limits, FiniteSets, Functions

CONSTANTS
  Trades,          \* ids of Trade rows
  Forward,         \* those that are forward trades
  Keys, NoKey,     \* idempotency keys of the client; NoKey when none is sent
  Sides,           \* sides a client trades on
  Quantities,      \* quantities a client asks for
  Price,           \* IRR per unit
  Settlements,     \* what a client pays (or receives, if negative) at settlement
  Opening,         \* the account rows at the start
  Policy,          \* the limit that applies on each side
  MaxOpen,         \* maxOpenTrades of the client
  MaxLots          \* bound on the gold lots created

ASSUME TradesAssumption == IsFiniteSet(Trades) /\ Forward \subseteq Trades
ASSUME SidesAssumption == Sides \subseteq {"BUY", "SELL"}
ASSUME QuantitiesAssumption == Quantities \subseteq Nat \ {0} /\ Price \in Nat \ {0}
ASSUME SettlementsAssumption == Settlements \subseteq Int
ASSUME LotsAssumption == MaxLots \in Nat

Accounts == {"clientIRR", "houseIRR", "clientGold", "houseGold"}

ASSUME OpeningAssumption ==
  Opening \in [Accounts -> Account] /\ \A a \in Accounts : Opening[a].blocked >= 0 /\ UsableCapacity(Opening[a]) >= 0

TradeStatus == {"none", "PENDING", "APPROVED", "REJECTED", "CANCELLED_BY_ADMIN", "SETTLED"}
Decisions == {"approve", "reject", "cancel", "reverse", "settle"}
Side == {"BUY", "SELL"}
Entry == [account : Accounts, delta : Int, reversal : BOOLEAN]

AccountLock(a) == <<"account", a>>
TradeLock(t) == <<"row", t>>
UsageLock(s) == <<"usage", s>>
KeyLock(k) == <<"key", k>>
Locks == {AccountLock(a) : a \in Accounts} \union {TradeLock(t) : t \in Trades}
         \union {UsageLock(s) : s \in Side} \union {KeyLock(k) : k \in Keys}

VARIABLES
  trade,     \* Trade rows
  hold,      \* AccountReservation of (TRADE, t): its status
  limitHold, \* LimitReservation of (TRADE, t): its status
  account,   \* the account rows
  usage,     \* the LimitUsage row of each side
  entries,   \* AccountTx rows of (TRADE, t)
  voucher,   \* rows in TahesabOutbox with correlationId t: how many
  lots       \* gold lots created

data == <<trade, hold, limitHold, account, usage, entries, voucher, lots>>
vars == <<trade, hold, limitHold, account, usage, entries, voucher, lots, held, tx>>

TradeRow == [status : TradeStatus, side : Side, quantity : Quantities \union {0},
             key : Keys \union {NoKey}, reversed : BOOLEAN]

NoTrade == [status |-> "none", side |-> "BUY", quantity |-> 0, key |-> NoKey, reversed |-> FALSE]
NoUsage == [used |-> 0, reserved |-> 0]

Total(r) == r.quantity * Price

\* What a trade blocks: the total in IRR, or the quantity in gold.
Payer(r) == IF r.side = "BUY" THEN "clientIRR" ELSE "clientGold"
Blocks(r) == IF r.side = "BUY" THEN Total(r) ELSE r.quantity

\* What approve moves on each account: the client buys or sells gold for IRR.
Delta(r, a) ==
  LET n == IF a \in {"clientIRR", "houseIRR"} THEN Total(r) ELSE r.quantity IN
  IF (r.side = "BUY") = (a \in {"clientIRR", "houseGold"}) THEN -n ELSE n

\* lockAccounts goes by account id; approve by what the client pays, then what
\* the client gets.
LockOrder == [clientIRR |-> 1, houseIRR |-> 2, clientGold |-> 3, houseGold |-> 4]
LegOrder(r) == IF r.side = "BUY" THEN LockOrder ELSE [clientGold |-> 1, houseGold |-> 2, clientIRR |-> 3, houseIRR |-> 4]

InTransaction == {"insert", "reserveLimit", "reserve", "lockTrade", "releaseLimit", "unblock", "leg", "consumeLimit",
                  "read", "readFunds", "findEntries", "lockAccounts", "apply", "update", "commit"}
AfterCommit == {"findVoucher", "enqueue"}
Calls == Decisions \union {"create", "lot"}

\* A transaction: its arguments (row is what create inserts or a decision has
\* locked, pays what settle moves), the accounts still to lock and those still
\* to apply a leg to, the entries it adds, and the account and usage rows it
\* will commit.
TxRecord == [pc : InTransaction \union AfterCommit, call : Calls, t : Trades, row : TradeRow,
             pays : Settlements \union {0}, toLock : SUBSET Accounts, todo : SUBSET Accounts,
             new : SUBSET Entry, rows : [Accounts -> Account], use : Usage]

TypeOK ==
  /\ trade \in [Trades -> TradeRow]
  /\ hold \in [Trades -> HoldStatus]
  /\ limitHold \in [Trades -> HoldStatus]
  /\ account \in [Accounts -> Account]
  /\ usage \in [Side -> Usage]
  /\ entries \in [Trades -> SUBSET Entry]
  /\ voucher \in [Trades -> Nat]
  /\ lots \in 0..MaxLots
  /\ held \in [Procs -> SUBSET Locks]
  /\ tx \in [Procs -> TxRecord \union {Idle}]

Init ==
  /\ trade = [t \in Trades |-> IF t \in Forward THEN [NoTrade EXCEPT !.status = "APPROVED"] ELSE NoTrade]
  /\ hold = [t \in Trades |-> "none"]
  /\ limitHold = [t \in Trades |-> "none"]
  /\ account = Opening
  /\ usage = [s \in Side |-> NoUsage]
  /\ entries = [t \in Trades |-> {}]
  /\ voucher = [t \in Trades |-> 0]
  /\ lots = 0
  /\ held = [p \in Procs |-> {}]
  /\ tx = [p \in Procs |-> Idle]

----------------------------------------------------------------------------
(* The life of a transaction *)

Begun(pc, call, t, row, pays) ==
  [pc |-> pc, call |-> call, t |-> t, row |-> row, pays |-> pays, toLock |-> {}, todo |-> {}, new |-> {},
   rows |-> Opening, use |-> NoUsage]

Step(p, t) == Go(p, t) /\ UNCHANGED data
LockStep(p, l, t) == Lock(p, l, t) /\ UNCHANGED data
End(p) == Finish(p) /\ UNCHANGED data

Abort(p) == tx[p].pc \in InTransaction /\ End(p)
CrashInTail(p) == tx[p].pc \in AfterCommit /\ End(p)

\* The account row as the transaction sees it once it holds its lock: the
\* version it has written, or the committed one.
Seen(p, a) == IF AccountLock(a) \in held[p] THEN tx[p].rows[a] ELSE account[a]

----------------------------------------------------------------------------
(* createForUser *)

\* Mutant: only trades that wait for approval count.
OpenPendingOnly == Cardinality({t \in Trades : trade[t].status = "PENDING"})

\* TradeAccessGuard counts before the call begins.
Open == Cardinality({t \in Trades : trade[t].status \in {"PENDING", "APPROVED"}})

\* Another call is creating the row t.
Inserting(t) == \E q \in Procs : ~At(q, "idle") /\ tx[q].call = "create" /\ tx[q].t = t

BeginCreate(p, t, row) ==
  /\ At(p, "idle")
  /\ trade[t].status = "none" /\ ~Inserting(t)
  /\ Open < MaxOpen
  /\ Step(p, Begun("insert", "create", t, row, 0))

UsedKey(k) == k # NoKey /\ \E t \in Trades : trade[t].key = k

InsertTrade(p) ==
  LET k == tx[p].row.key
      t == [tx[p] EXCEPT !.pc = "reserveLimit"]
  IN
  /\ At(p, "insert")
  /\ CanLock(p, KeyLock(k)) \/ k = NoKey
  /\ IF UsedKey(k) THEN End(p) ELSE IF k = NoKey THEN Step(p, t) ELSE LockStep(p, KeyLock(k), t)

ReserveLimit(p) ==
  LET amount == Total(tx[p].row)
      s == tx[p].row.side
  IN
  /\ At(p, "reserveLimit")
  /\ CanLock(p, UsageLock(s))
  /\ IF WithinPolicy(usage[s], amount, Policy[s])
     THEN LockStep(p, UsageLock(s), [tx[p] EXCEPT !.pc = "reserve", !.use = ReserveUsage(usage[s], amount)])
     ELSE End(p)

ReserveFunds(p) ==
  LET a == Payer(tx[p].row)
      n == Blocks(tx[p].row)
  IN
  /\ At(p, "reserve")
  /\ CanLock(p, AccountLock(a))
  /\ IF CanReserve(account[a], n)
     THEN LockStep(p, AccountLock(a), [tx[p] EXCEPT !.pc = "commit", !.rows[a] = Reserve(account[a], n)])
     ELSE End(p)

----------------------------------------------------------------------------
(* approve, reject, cancelTrade: the trade is locked first *)

Begin(p, t, call) ==
  /\ At(p, "idle")
  /\ trade[t].status # "none"
  /\ Step(p, Begun("lockTrade", call, t, NoTrade, 0))

\* Mutant: approve goes on with a trade that is not PENDING.
GoesOnAlways(call, t) == trade[t].status \in {"PENDING", "CANCELLED_BY_ADMIN"}

\* Only a PENDING trade is decided.
GoesOn(call, t) == trade[t].status = "PENDING"

LockTrade(p) ==
  LET t == tx[p].t
      c == tx[p].call
  IN
  /\ At(p, "lockTrade")
  /\ CanLock(p, TradeLock(t))
  /\ IF GoesOn(c, t)
     THEN LockStep(p, TradeLock(t), [tx[p] EXCEPT !.pc = IF c = "approve" THEN "unblock" ELSE "releaseLimit", !.row = trade[t]])
     ELSE IF c = "approve" /\ trade[t].status = "APPROVED" /\ t \notin Forward THEN Step(p, [tx[p] EXCEPT !.pc = "findVoucher"])
     ELSE End(p)

\* limits.release of reject and cancelTrade
ReleaseLimit(p) ==
  LET t == tx[p].t
      s == tx[p].row.side
  IN
  /\ At(p, "releaseLimit")
  /\ LockStep(p, UsageLock(s), [tx[p] EXCEPT !.pc = "unblock",
       !.use = IF limitHold[t] \in LimitReleasable THEN ReleaseUsage(usage[s], Total(tx[p].row)) ELSE usage[s]])

\* consumeFunds of approve, releaseFunds of the others
UnblockFunds(p) ==
  LET r == tx[p].row
      a == Payer(r)
      row == IF hold[tx[p].t] = "RESERVED" THEN Unblock(account[a], Blocks(r)) ELSE account[a]
  IN
  /\ At(p, "unblock")
  /\ CanLock(p, AccountLock(a))
  /\ IF hold[tx[p].t] = "RESERVED" /\ ~CanUnblock(account[a], Blocks(r)) THEN End(p)
     ELSE IF tx[p].call # "approve"
     THEN LockStep(p, AccountLock(a), [tx[p] EXCEPT !.pc = "commit", !.rows[a] = row])
     ELSE IF UsableCapacity(row) >= Blocks(r)
     THEN LockStep(p, AccountLock(a), [tx[p] EXCEPT !.pc = "leg", !.rows[a] = row, !.todo = Accounts])
     ELSE End(p)

\* Mutant: AccountTx without its unique index.
EntryFreeAlways(t, a, delta) == TRUE

\* @@unique([refType, refId, accountId, entrySide])
EntryFree(t, a, delta) == \A e \in entries[t] : ~(e.account = a /\ (e.delta < 0) = (delta < 0))

\* The transaction after applyTransaction(a, delta).
Applied(p, a, delta, reversal) ==
  [tx[p] EXCEPT !.rows[a] = Apply(Seen(p, a), delta), !.new = @ \union {[account |-> a, delta |-> delta, reversal |-> reversal]}]

\* One applyTransaction of approve, which locks its account.
ApplyLeg(p) ==
  /\ At(p, "leg")
  /\ \E a \in tx[p].todo :
       LET r == tx[p].row
           rest == tx[p].todo \ {a}
       IN
       /\ \A b \in tx[p].todo : LegOrder(r)[a] <= LegOrder(r)[b]
       /\ CanLock(p, AccountLock(a))
       /\ IF CanApply(Seen(p, a), Delta(r, a)) /\ EntryFree(tx[p].t, a, Delta(r, a))
          THEN LockStep(p, AccountLock(a), [Applied(p, a, Delta(r, a), FALSE) EXCEPT !.todo = rest,
                                             !.pc = IF rest = {} THEN "consumeLimit" ELSE "leg"])
          ELSE End(p)

\* limits.consume of approve
ConsumeLimit(p) ==
  LET t == tx[p].t
      s == tx[p].row.side
  IN
  /\ At(p, "consumeLimit")
  /\ LockStep(p, UsageLock(s), [tx[p] EXCEPT !.pc = "commit",
       !.use = IF limitHold[t] \in LimitConsumable THEN ConsumeUsage(usage[s], Total(tx[p].row)) ELSE usage[s]])

----------------------------------------------------------------------------
(* reverseTrade, settleForwardTradeInCash, createLot: accounts in order *)

BeginUnlocked(p, t, call, pays) ==
  /\ At(p, "idle")
  /\ trade[t].status # "none"
  /\ Step(p, Begun("read", call, t, NoTrade, pays))

\* What settle and createLot move: the client pays the house, or is paid; one
\* unit of gold is booked to the client and the house.
IRR == {"clientIRR", "houseIRR"}
Gold == {"clientGold", "houseGold"}
Moved(call) == IF call = "lot" THEN Gold ELSE IRR
Move(call, pays, a) == IF call = "lot" THEN 1 ELSE IF a = "clientIRR" THEN -pays ELSE pays

\* The read without a lock decides.
ReadTrade(p) ==
  LET t == tx[p].t IN
  /\ At(p, "read")
  /\ IF trade[t].status # "APPROVED" \/ trade[t].reversed THEN End(p)
     ELSE IF tx[p].call = "reverse" THEN Step(p, [tx[p] EXCEPT !.pc = IF t \in Forward THEN "update" ELSE "findEntries"])
     ELSE IF t \notin Forward THEN End(p)
     ELSE Step(p, [tx[p] EXCEPT !.pc = IF tx[p].pays = 0 THEN "update" ELSE "readFunds"])

\* settle checks the account of the payer as it read it before the locks.
ReadFunds(p) ==
  LET n == tx[p].pays
      payer == IF n > 0 THEN "clientIRR" ELSE "houseIRR"
  IN
  /\ At(p, "readFunds")
  /\ IF UsableCapacity(account[payer]) + Move("settle", n, payer) < 0 THEN End(p)
     ELSE Step(p, [tx[p] EXCEPT !.pc = "lockAccounts", !.toLock = IRR])

\* The entries of the trade, read before their accounts are locked.
FindEntries(p) ==
  LET es == entries[tx[p].t] IN
  /\ At(p, "findEntries")
  /\ Step(p, [tx[p] EXCEPT !.pc = IF es = {} THEN "apply" ELSE "lockAccounts", !.new = es,
                !.toLock = {e.account : e \in es}])

\* Bound: MaxLots lots, created one at a time.
BeginLot(p) ==
  /\ At(p, "idle")
  /\ lots < MaxLots /\ ~\E q \in Procs : ~At(q, "idle") /\ tx[q].call = "lot"
  /\ \E t \in Trades : Step(p, [Begun("lockAccounts", "lot", t, NoTrade, 0) EXCEPT !.toLock = Gold])

LockAccounts(p) ==
  /\ At(p, "lockAccounts")
  /\ \E a \in tx[p].toLock :
       LET rest == tx[p].toLock \ {a} IN
       /\ \A b \in tx[p].toLock : LockOrder[a] <= LockOrder[b]
       /\ LockStep(p, AccountLock(a), [tx[p] EXCEPT !.rows[a] = account[a], !.toLock = rest,
                                         !.pc = IF rest = {} THEN "apply" ELSE "lockAccounts"])

\* The legs of settle and createLot: every account is locked.
ApplyAll(p) ==
  LET c == tx[p].call
      move(a) == Move(c, tx[p].pays, a)
  IN
  /\ At(p, "apply") /\ c \in {"settle", "lot"}
  /\ IF \A a \in Moved(c) : CanApply(tx[p].rows[a], move(a)) /\ (c = "lot" \/ EntryFree(tx[p].t, a, move(a)))
     THEN Step(p, [tx[p] EXCEPT !.pc = IF c = "lot" THEN "commit" ELSE "update",
            !.rows = [a \in Accounts |-> IF a \in Moved(c) THEN Apply(@[a], move(a)) ELSE @[a]],
            !.new = {[account |-> a, delta |-> move(a), reversal |-> FALSE] : a \in Moved(c)}])
     ELSE End(p)

\* Another call has reversed the entry meanwhile.
ReversedBefore(t, e) == \E f \in entries[t] : f.reversal /\ f.account = e.account /\ f.delta = -e.delta

\* The entries it has read are reversed one by one, under all their locks.
ReverseAll(p) ==
  LET t == tx[p].t
      todo == {e \in tx[p].new : ~ReversedBefore(t, e)}
  IN
  /\ At(p, "apply") /\ tx[p].call = "reverse"
  /\ IF \A e \in todo : EntryFree(t, e.account, -e.delta) /\ CanApply(tx[p].rows[e.account], -e.delta)
     THEN Step(p, [tx[p] EXCEPT !.pc = "update",
            !.rows = [a \in Accounts |-> IF \E e \in todo : e.account = a
                        THEN Apply(@[a], -(CHOOSE e \in todo : e.account = a).delta) ELSE @[a]],
            !.new = {[account |-> e.account, delta |-> -e.delta, reversal |-> TRUE] : e \in todo}])
     ELSE End(p)

UpdateTrade(p) ==
  /\ At(p, "update")
  /\ LockStep(p, TradeLock(tx[p].t), [tx[p] EXCEPT !.pc = "commit"])

----------------------------------------------------------------------------
(* Commit, and the outbox tail of approve and settle *)

\* Mutant: the status another table uses.
RowAfterCancelled(p) ==
  [trade[tx[p].t] EXCEPT !.status = IF tx[p].call = "cancel" THEN "CANCELLED" ELSE "PENDING"]

RowAfter(p) ==
  CASE tx[p].call = "create" -> [tx[p].row EXCEPT !.status = "PENDING"]
    [] tx[p].call = "approve" -> [trade[tx[p].t] EXCEPT !.status = "APPROVED"]
    [] tx[p].call = "reject" -> [trade[tx[p].t] EXCEPT !.status = "REJECTED"]
    [] tx[p].call = "cancel" -> [trade[tx[p].t] EXCEPT !.status = "CANCELLED_BY_ADMIN"]
    [] tx[p].call = "reverse" -> [trade[tx[p].t] EXCEPT !.status = "CANCELLED_BY_ADMIN", !.reversed = TRUE]
    [] tx[p].call = "settle" -> [trade[tx[p].t] EXCEPT !.status = "SETTLED"]
    [] tx[p].call = "lot" -> trade[tx[p].t]

\* What a hold becomes, if the call goes through it.
HoldAfter(h, call, from) ==
  CASE call = "create" -> "RESERVED"
    [] call = "approve" /\ h \in from -> "CONSUMED"
    [] call \in {"reject", "cancel"} /\ h \in from -> "RELEASED"
    [] OTHER -> h

Commit(p) ==
  LET t == tx[p].t
      c == tx[p].call
  IN
  /\ At(p, "commit")
  /\ trade' = [trade EXCEPT ![t] = RowAfter(p)]
  /\ hold' = [hold EXCEPT ![t] = HoldAfter(@, c, {"RESERVED"})]
  /\ limitHold' = [limitHold EXCEPT ![t] = HoldAfter(@, c, IF c = "approve" THEN LimitConsumable ELSE LimitReleasable)]
  /\ account' = [a \in Accounts |-> Seen(p, a)]
  /\ usage' = [s \in Side |-> IF UsageLock(s) \in held[p] THEN tx[p].use ELSE usage[s]]
  /\ entries' = IF c = "lot" THEN entries ELSE [entries EXCEPT ![t] = @ \union tx[p].new]
  /\ lots' = IF c = "lot" THEN lots + 1 ELSE lots
  /\ Leave(p, IF c = "approve" \/ (c = "settle" /\ tx[p].pays # 0) THEN Begun("findVoucher", c, t, NoTrade, 0) ELSE Idle)
  /\ UNCHANGED voucher

\* enqueueOnce
FindVoucher(p) ==
  /\ At(p, "findVoucher")
  /\ IF voucher[tx[p].t] > 0 THEN End(p) ELSE Step(p, [tx[p] EXCEPT !.pc = "enqueue"])

EnqueueVoucher(p) ==
  /\ At(p, "enqueue")
  /\ voucher' = [voucher EXCEPT ![tx[p].t] = @ + 1]
  /\ Finish(p)
  /\ UNCHANGED <<trade, hold, limitHold, account, usage, entries, lots>>

----------------------------------------------------------------------------
NewRow(side, n, k) == [status |-> "none", side |-> side, quantity |-> n, key |-> k, reversed |-> FALSE]

Call(p) ==
  \/ \E t \in Trades \ Forward, s \in Sides, n \in Quantities, k \in Keys \union {NoKey} :
       BeginCreate(p, t, NewRow(s, n, k))
  \/ \E t \in Trades, c \in {"approve", "reject", "cancel"} : Begin(p, t, c)
  \/ \E t \in Trades : BeginUnlocked(p, t, "reverse", 0)
  \/ \E t \in Trades, n \in Settlements : BeginUnlocked(p, t, "settle", n)
  \/ BeginLot(p)

Proceed(p) ==
  \/ InsertTrade(p) \/ ReserveLimit(p) \/ ReserveFunds(p)
  \/ LockTrade(p) \/ ReleaseLimit(p) \/ UnblockFunds(p) \/ ApplyLeg(p) \/ ConsumeLimit(p)
  \/ ReadTrade(p) \/ ReadFunds(p) \/ FindEntries(p) \/ LockAccounts(p) \/ ApplyAll(p) \/ ReverseAll(p) \/ UpdateTrade(p)
  \/ Commit(p) \/ FindVoucher(p) \/ EnqueueVoucher(p)

Next == \E p \in Procs : Call(p) \/ Proceed(p) \/ Abort(p) \/ CrashInTail(p)

Spec == Init /\ [][Next]_vars

\* The lock a call waits for.
Wanted(p) ==
  CASE At(p, "insert") -> IF tx[p].row.key = NoKey THEN {} ELSE {KeyLock(tx[p].row.key)}
    [] tx[p].pc \in {"reserveLimit", "releaseLimit", "consumeLimit"} -> {UsageLock(tx[p].row.side)}
    [] tx[p].pc \in {"reserve", "unblock"} -> {AccountLock(Payer(tx[p].row))}
    [] At(p, "leg") -> {AccountLock(a) : a \in {b \in tx[p].todo : \A d \in tx[p].todo : LegOrder(tx[p].row)[b] <= LegOrder(tx[p].row)[d]}}
    [] At(p, "lockAccounts") -> {AccountLock(a) : a \in {b \in tx[p].toLock : \A d \in tx[p].toLock : LockOrder[b] <= LockOrder[d]}}
    [] tx[p].pc \in {"lockTrade", "update"} -> {TradeLock(tx[p].t)}
    [] OTHER -> {}

DeadlockVictim == \E p \in Procs : Deadlocked(p, Wanted) /\ Abort(p)

----------------------------------------------------------------------------
(* Properties *)

Spot == Trades \ Forward

LegEntries(r) == {[account |-> a, delta |-> Delta(r, a), reversal |-> FALSE] : a \in Accounts}
Undone(es) == {[account |-> e.account, delta |-> -e.delta, reversal |-> TRUE] : e \in es}

Story(t) == <<hold[t], limitHold[t], entries[t]>>

\* The trade, its funds and limit reservations and its ledger entries tell
\* one story: a trade has no entries, or both legs, or both legs and the
\* reversal of each, whatever approve, reject, cancelTrade and reverseTrade
\* overlap.
StatusMatchesEntries ==
  \A t \in Spot :
    LET r == trade[t]
        legs == LegEntries(r)
    IN
    CASE r.status = "none" -> Story(t) = <<"none", "none", {}>> /\ ~r.reversed
      [] r.status = "PENDING" -> Story(t) = <<"RESERVED", "RESERVED", {}>> /\ ~r.reversed
      [] r.status = "APPROVED" -> Story(t) = <<"CONSUMED", "CONSUMED", legs>> /\ ~r.reversed
      [] r.status = "REJECTED" -> Story(t) = <<"RELEASED", "RELEASED", {}>> /\ ~r.reversed
      [] r.status = "CANCELLED_BY_ADMIN" ->
           Story(t) = IF r.reversed THEN <<"CONSUMED", "CONSUMED", legs \union Undone(legs)>> ELSE <<"RELEASED", "RELEASED", {}>>
      [] OTHER -> FALSE

\* An account has one entry of a trade per side, as the unique index demands.
OneEntryPerSide ==
  \A t \in Trades : \A e, f \in entries[t] : e.account = f.account /\ (e.delta < 0 <=> f.delta < 0) => e = f

\* What the entries of t add to the account: its debit and its credit.
Posted(t, a, side) ==
  LET es == {e \in entries[t] : e.account = a /\ (e.delta < 0) = (side = "debit")} IN
  IF es = {} THEN 0 ELSE (CHOOSE e \in es : TRUE).delta
Gain(t, a) == Posted(t, a, "debit") + Posted(t, a, "credit")

\* What it blocks there.
Blocked(t, a) == IF hold[t] = "RESERVED" /\ Payer(trade[t]) = a THEN Blocks(trade[t]) ELSE 0

\* Every account row is what its entries and open reservations leave: no
\* update is lost although approve locks accounts one by one and reverse,
\* settle and createLot all at once.
AccountsMatchEntries ==
  /\ OneEntryPerSide
  /\ \A a \in Accounts :
       /\ account[a].blocked = Opening[a].blocked + SumFunction([t \in Trades |-> Blocked(t, a)])
       /\ account[a].balance = Opening[a].balance + SumFunction([t \in Trades |-> Gain(t, a)])
            + (IF a \in Gold THEN lots ELSE 0)

\* Neither the client nor the house pays what it does not have.
NoOverdraft == \A a \in Accounts : UsableCapacity(account[a]) >= 0

\* What t counts in the usage row of the side s as a reservation of status h.
Counts(t, s, h) == IF limitHold[t] = h /\ trade[t].side = s THEN Total(trade[t]) ELSE 0

\* The usage row of each side counts its open and its approved trades; a
\* reversal does not give the limit back.
UsageMatchesTrades ==
  \A s \in Side :
    /\ usage[s].reserved = SumFunction([t \in Trades |-> Counts(t, s, "RESERVED")])
    /\ usage[s].used = SumFunction([t \in Trades |-> Counts(t, s, "CONSUMED")])

\* Calls with the same idempotency key leave one trade.
OneTradePerKey == \A t, u \in Trades : t # u /\ trade[t].key = trade[u].key => trade[t].key = NoKey

\* A rejected or cancelled trade stays so, and an approved one can only be
\* reversed, also by calls that read it before it was decided.
KeepsDecisions ==
  \A t \in Spot :
    /\ trade[t].status \in {"REJECTED", "CANCELLED_BY_ADMIN"} => trade'[t] = trade[t]
    /\ trade[t].status = "APPROVED" /\ trade'[t] # trade[t] => trade'[t].reversed
DecisionsAreFinal == [][KeepsDecisions]_vars

\* Whatever settlements overlap, client and house entries of a forward trade
\* cancel out, and its gold stays where it is.
SettlementsBalance ==
  \A t \in Forward :
    /\ Gain(t, "houseIRR") = -Gain(t, "clientIRR")
    /\ \A a \in Gold : Gain(t, a) = 0

\* One call at a time: TradeAccessGuard keeps the client within maxOpenTrades.
OpenWithinMax == Cardinality({t \in Trades : trade[t].status \in {"PENDING", "APPROVED"}}) <= MaxOpen

\* "APPROVED -> SETTLED ... (cannot settle twice)"
SettledOnce == \A t \in Forward : Cardinality(entries[t]) <= 2
=============================================================================
