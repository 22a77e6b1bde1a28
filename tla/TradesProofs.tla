---------------------------- MODULE TradesProofs ----------------------------
(***************************************************************************)
(* Proofs about Trades for all processes, trades (spot and forward), keys, *)
(* quantities, prices, settlements and opening balances, and for every     *)
(* policy.                                                                 *)
(***************************************************************************)
EXTENDS TradesInvariant, BookLemmas, TLAPS

----------------------------------------------------------------------------
(* Type correctness *)

LEMMA Products ==
  ASSUME NEW q \in Nat, NEW w \in Nat \ {0}
  PROVE  q * w \in Nat /\ (q # 0 => q * w > 0)
OBVIOUS

\* What a step reads of a row: what the trade blocks and what it moves.
LEMMA RowFacts ==
  ASSUME NEW r \in TradeRow
  PROVE  /\ r.status \in TradeStatus /\ r.side \in Side /\ r.quantity \in Nat
         /\ r.key \in Keys \union {NoKey} /\ r.reversed \in BOOLEAN
         /\ Payer(r) \in Accounts /\ Total(r) \in Nat /\ Blocks(r) \in Nat
         /\ \A a \in Accounts : Delta(r, a) \in Int /\ -Delta(r, a) \in Int
         /\ Delta(r, Payer(r)) = -Blocks(r)
         /\ r.quantity \in Quantities => \A a \in Accounts : Delta(r, a) # 0
<1>1. /\ r.status \in TradeStatus /\ r.side \in Side /\ r.quantity \in Nat
      /\ r.key \in Keys \union {NoKey} /\ r.reversed \in BOOLEAN
  <2>1. /\ r.status \in TradeStatus /\ r.side \in Side /\ r.quantity \in Quantities \union {0}
        /\ r.key \in Keys \union {NoKey}
    BY DEF TradeRow
  <2>2. r.reversed \in BOOLEAN
    BY Zenon DEF TradeRow
  <2>3. r.quantity \in Nat
    <3>1. Quantities \union {0} \subseteq Nat
      BY QuantitiesAssumption
    <3> QED BY <2>1, <3>1
  <2> QED BY <2>1, <2>2, <2>3, Zenon
<1>2. Total(r) \in Nat /\ (r.quantity # 0 => Total(r) > 0)
  BY <1>1, QuantitiesAssumption, Products DEF Total
<1>3. r.quantity \in Quantities => r.quantity # 0
  BY QuantitiesAssumption
<1>4. Payer(r) \in Accounts /\ Blocks(r) \in Nat
  BY <1>1, <1>2 DEF Payer, Blocks, Accounts
<1>5. ASSUME NEW a \in Accounts
      PROVE  Delta(r, a) \in Int /\ -Delta(r, a) \in Int /\ (r.quantity \in Quantities => Delta(r, a) # 0)
  <2> DEFINE n == IF a \in {"clientIRR", "houseIRR"} THEN Total(r) ELSE r.quantity
  <2>1. n \in Nat /\ (r.quantity \in Quantities => n # 0)
    BY <1>1, <1>2, <1>3
  <2>2. Delta(r, a) = -n \/ Delta(r, a) = n
    BY DEF Delta
  <2> QED BY <2>1, <2>2
<1>6. Delta(r, Payer(r)) = -Blocks(r)
  BY <1>1 DEF Delta, Payer, Blocks, Side
<1> QED BY <1>1, <1>2, <1>4, <1>5, <1>6

LEMMA RunningRecord ==
  ASSUME TypeOK, NEW p \in Procs, tx[p].pc # "idle"
  PROVE  /\ tx[p] \in TxRecord /\ tx[p].t \in Trades /\ tx[p].row \in TradeRow /\ tx[p].call \in Calls
         /\ tx[p].pc \in InTransaction \union AfterCommit
         /\ tx[p].rows \in [Accounts -> Account] /\ tx[p].use \in Usage /\ tx[p].new \in SUBSET Entry
         /\ tx[p].toLock \in SUBSET Accounts /\ tx[p].todo \in SUBSET Accounts
         /\ tx[p].pays \in Settlements \union {0} /\ tx[p].pays \in Int /\ trade[tx[p].t] \in TradeRow
<1>1. tx[p] \in TxRecord
  BY DEF TypeOK, Idle
<1>2. /\ tx[p].t \in Trades /\ tx[p].row \in TradeRow /\ tx[p].call \in Calls
      /\ tx[p].pc \in InTransaction \union AfterCommit
      /\ tx[p].rows \in [Accounts -> Account] /\ tx[p].use \in Usage /\ tx[p].new \in SUBSET Entry
      /\ tx[p].toLock \in SUBSET Accounts /\ tx[p].todo \in SUBSET Accounts
      /\ tx[p].pays \in Settlements \union {0}
  BY <1>1 DEF TxRecord
<1>3. tx[p].pays \in Int /\ trade[tx[p].t] \in TradeRow
  <2>1. Settlements \union {0} \subseteq Int
    BY SettlementsAssumption
  <2>2. trade \in [Trades -> TradeRow]
    BY DEF TypeOK
  <2> QED BY <1>2, <2>1, <2>2
<1> QED BY <1>1, <1>2, <1>3

LEMMA NoTradeType == NoTrade \in TradeRow /\ [NoTrade EXCEPT !.status = "APPROVED"] \in TradeRow
BY DEF NoTrade, TradeRow, TradeStatus, Side

LEMMA BegunType ==
  ASSUME NEW pc \in InTransaction \union AfterCommit, NEW call \in Calls, NEW t \in Trades, NEW row \in TradeRow,
         NEW pays \in Settlements \union {0}
  PROVE  Begun(pc, call, t, row, pays) \in TxRecord
BY OpeningAssumption DEF Begun, TxRecord, NoUsage, Usage

LEMMA BegunFields ==
  ASSUME NEW pc, NEW call, NEW t, NEW row, NEW pays
  PROVE  /\ Begun(pc, call, t, row, pays).pc = pc /\ Begun(pc, call, t, row, pays).call = call
         /\ Begun(pc, call, t, row, pays).t = t /\ Begun(pc, call, t, row, pays).row = row
         /\ Begun(pc, call, t, row, pays).pays = pays /\ Begun(pc, call, t, row, pays).toLock = {}
         /\ Begun(pc, call, t, row, pays).new = {}
BY DEF Begun

LEMMA TypeInit == Init => TypeOK
BY NoTradeType, OpeningAssumption, LotsAssumption DEF Init, TypeOK, HoldStatus, NoUsage, Usage, Idle

LEMMA LockTypes ==
  /\ \A a \in Accounts : AccountLock(a) \in Locks
  /\ \A t \in Trades : TradeLock(t) \in Locks
  /\ \A k \in Keys : KeyLock(k) \in Locks
  /\ \A s \in Side : UsageLock(s) \in Locks
BY DEF Locks

LEMMA LockKinds ==
  /\ \A a, b : AccountLock(a) = AccountLock(b) => a = b
  /\ \A k, l : KeyLock(k) = KeyLock(l) => k = l
  /\ \A t, u : TradeLock(t) = TradeLock(u) => t = u
  /\ \A a, k : AccountLock(a) # KeyLock(k)
  /\ \A a, t : AccountLock(a) # TradeLock(t)
  /\ \A t, k : TradeLock(t) # KeyLock(k)
  /\ \A s, r : UsageLock(s) = UsageLock(r) => s = r
  /\ \A x, s : AccountLock(x) # UsageLock(s) /\ KeyLock(x) # UsageLock(s) /\ TradeLock(x) # UsageLock(s)
BY DEF AccountLock, UsageLock, KeyLock, TradeLock

----------------------------------------------------------------------------
(* The inductive invariant: steps that change no row *)

\* What a call knows depends on the rows alone.
LEMMA SameKnown ==
  ASSUME UNCHANGED <<trade, account, usage, entries, lots>>, NEW t, NEW L
  PROVE  Known(t, L)' <=> Known(t, L)
<1>1. CallKnown(t)' <=> CallKnown(t)
  BY DEF CallKnown
<1>2. RowKnown(t)' <=> RowKnown(t)
  BY DEF RowKnown
<1>3. LocksKnown(t, L)' <=> LocksKnown(t, L)
  BY DEF LocksKnown
<1>4. LegsKnown(t)' <=> LegsKnown(t)
  BY DEF LegsKnown, Base
<1>5. FundsKnown(t)' <=> FundsKnown(t)
  BY DEF FundsKnown
<1>6. MovesKnown(t)' <=> MovesKnown(t)
  BY DEF MovesKnown, EntryFree
<1>7. ReversalKnown(t)' <=> ReversalKnown(t)
  BY DEF ReversalKnown
<1>8. UsageKnown(t)' <=> UsageKnown(t)
  BY DEF UsageKnown
<1>9. KeyKnown(t)' <=> KeyKnown(t)
  BY DEF KeyKnown, UsedKey
<1> QED BY <1>1, <1>2, <1>3, <1>4, <1>5, <1>6, <1>7, <1>8, <1>9 DEF Known

\* A step of p that writes no row keeps the invariant when the locks it takes
\* are free, nobody else inserts the same trade or lot, and p knows what its
\* next step needs.
LEMMA LocalStep ==
  ASSUME IInv, NEW p \in Procs, NEW t \in TxRecord \union {Idle}, NEW L \in SUBSET Locks,
         UNCHANGED data, tx' = [tx EXCEPT ![p] = t], held' = [held EXCEPT ![p] = L],
         \A q \in Procs \ {p} : L \intersect held[q] = {},
         t.pc \in Unlocked => L = {},
         t.pc # "idle" => \A q \in Procs \ {p} : tx[q].pc # "idle" => ~Alike(t, tx[q]) /\ ~Alike(tx[q], t),
         t.pc # "idle" => Known(t, L)
  PROVE  IInv'
<1>1. \A q \in Procs : /\ tx'[q] = IF q = p THEN t ELSE tx[q]
                       /\ held'[q] = IF q = p THEN L ELSE held[q]
  BY DEF IInv, TypeOK
<1>2. LocksExclusive'
  BY <1>1 DEF IInv, LocksExclusive
<1>3. OneInserter'
  <2>1. ASSUME NEW q \in Procs, NEW o \in Procs, tx'[q].pc # "idle", tx'[o].pc # "idle", Alike(tx'[q], tx'[o])
        PROVE  q = o
    <3>1. CASE q = p
      BY <1>1, <2>1, <3>1
    <3>2. CASE o = p
      BY <1>1, <2>1, <3>2
    <3>3. CASE q # p /\ o # p
      BY <1>1, <2>1, <3>3 DEF IInv, OneInserter
    <3> QED BY <3>1, <3>2, <3>3
  <2>2. \A u, w : Alike(u, w)' <=> Alike(u, w)
    BY DEF Alike
  <2> QED BY <2>1, <2>2 DEF OneInserter, Alike
<1>4. TypeOK'
  BY DEF IInv, TypeOK, data
<1>5. ASSUME NEW u, NEW M PROVE Known(u, M)' <=> Known(u, M)
  BY SameKnown DEF data
<1>6. ASSUME NEW q \in Procs, tx'[q].pc # "idle" PROVE Known(tx[q], held[q])'
  <2>1. CASE q = p
    BY <1>1, <1>5, <1>6, <2>1
  <2>2. CASE q # p
    BY <1>1, <1>5, <1>6, <2>2 DEF IInv
  <2> QED BY <2>1, <2>2
<1>7. StatusMatchesEntries'
  BY DEF IInv, data, StatusMatchesEntries, Story
<1>8. RowsKnown' /\ OneEntryPerSide' /\ NoOverdraft' /\ OneTradePerKey'
  BY DEF IInv, data, RowsKnown, OneEntryPerSide, NoOverdraft, OneTradePerKey
<1> QED BY <1>2, <1>3, <1>4, <1>6, <1>7, <1>8 DEF IInv

LEMMA EndKeeps ==
  ASSUME IInv, NEW p \in Procs, End(p)
  PROVE  IInv'
<1>1. /\ tx' = [tx EXCEPT ![p] = Idle] /\ held' = [held EXCEPT ![p] = {}] /\ UNCHANGED data
      /\ Idle \in TxRecord \union {Idle} /\ {} \in SUBSET Locks /\ Idle.pc = "idle"
  BY DEF End, Finish, Leave, Idle
<1> HIDE DEF data
<1> QED BY <1>1, LocalStep

\* A call that goes on stays the only one that inserts its trade or lot.
LEMMA StillOneInserter ==
  ASSUME IInv, NEW p \in Procs, tx[p].pc # "idle", NEW t, t.call = tx[p].call, t.t = tx[p].t,
         NEW q \in Procs \ {p}, tx[q].pc # "idle"
  PROVE  ~Alike(t, tx[q]) /\ ~Alike(tx[q], t)
<1>1. ~Alike(tx[p], tx[q]) /\ ~Alike(tx[q], tx[p])
  BY DEF IInv, OneInserter
<1> QED BY <1>1 DEF Alike

LEMMA StepKeeps ==
  ASSUME IInv, NEW p \in Procs, NEW t \in TxRecord, tx[p].pc # "idle", Step(p, t), t.call = tx[p].call, t.t = tx[p].t,
         Known(t, held[p]), t.pc \in Unlocked => held[p] = {}
  PROVE  IInv'
<1>1. held' = [held EXCEPT ![p] = held[p]] /\ held[p] \in SUBSET Locks
  BY DEF Step, Go, IInv, TypeOK
<1>2. \A q \in Procs \ {p} : held[p] \intersect held[q] = {}
  BY DEF IInv, LocksExclusive
<1>3. tx' = [tx EXCEPT ![p] = t] /\ UNCHANGED data
  BY DEF Step, Go
<1>4. t.pc # "idle" => \A q \in Procs \ {p} : tx[q].pc # "idle" => ~Alike(t, tx[q]) /\ ~Alike(tx[q], t)
  BY StillOneInserter
<1> HIDE DEF data
<1> QED BY <1>1, <1>2, <1>3, <1>4, LocalStep

LEMMA LockStepKeeps ==
  ASSUME IInv, NEW p \in Procs, NEW t \in TxRecord, NEW l \in Locks, tx[p].pc # "idle", LockStep(p, l, t),
         t.call = tx[p].call, t.t = tx[p].t, Known(t, held[p] \union {l}), t.pc \notin Unlocked
  PROVE  IInv'
<1>1. \A q \in Procs \ {p} : (held[p] \union {l}) \intersect held[q] = {}
  BY DEF IInv, LocksExclusive, LockStep, Lock, CanLock
<1>2. held[p] \union {l} \in SUBSET Locks
  BY DEF IInv, TypeOK
<1>3. tx' = [tx EXCEPT ![p] = t] /\ held' = [held EXCEPT ![p] = held[p] \union {l}] /\ UNCHANGED data
  BY DEF LockStep, Lock
<1>4. t.pc # "idle" => \A q \in Procs \ {p} : tx[q].pc # "idle" => ~Alike(t, tx[q]) /\ ~Alike(tx[q], t)
  BY StillOneInserter
<1> HIDE DEF data
<1> QED BY <1>1, <1>2, <1>3, <1>4, LocalStep

\* A call begins with no lock.
LEMMA BeginStep ==
  ASSUME IInv, NEW p \in Procs, NEW t \in TxRecord, At(p, "idle"), Step(p, t), Known(t, {}),
         \A q \in Procs \ {p} : tx[q].pc # "idle" => ~Alike(t, tx[q]) /\ ~Alike(tx[q], t)
  PROVE  IInv'
<1>1. held[p] = {}
  BY DEF IInv, LocksExclusive, At, Unlocked
<1>2. tx' = [tx EXCEPT ![p] = t] /\ held' = [held EXCEPT ![p] = {}] /\ UNCHANGED data
  BY <1>1 DEF Step, Go, IInv, TypeOK
<1>3. \A q \in Procs \ {p} : {} \intersect held[q] = {}
  OBVIOUS
<1> HIDE DEF data
<1> QED BY <1>2, <1>3, LocalStep

\* What the invariant says of a running call.
LEMMA RunningKnown ==
  ASSUME IInv, NEW p \in Procs, tx[p].pc # "idle"
  PROVE  /\ tx[p] \in TxRecord /\ tx[p].t \in Trades /\ tx[p].row \in TradeRow /\ tx[p].call \in Calls
         /\ tx[p].pc \in InTransaction \union AfterCommit
         /\ trade[tx[p].t] \in TradeRow /\ account \in [Accounts -> Account]
         /\ usage \in [Side -> Usage] /\ tx[p].row.side \in Side /\ usage[tx[p].row.side] \in Usage
         /\ CallKnown(tx[p]) /\ RowKnown(tx[p]) /\ LocksKnown(tx[p], held[p]) /\ LegsKnown(tx[p]) /\ FundsKnown(tx[p])
         /\ MovesKnown(tx[p]) /\ ReversalKnown(tx[p]) /\ UsageKnown(tx[p]) /\ KeyKnown(tx[p])
<1>1. /\ tx[p] \in TxRecord /\ tx[p].t \in Trades /\ tx[p].row \in TradeRow /\ tx[p].call \in Calls
      /\ trade[tx[p].t] \in TradeRow /\ tx[p].pc \in InTransaction \union AfterCommit
  BY RunningRecord DEF IInv
<1>2. /\ CallKnown(tx[p]) /\ RowKnown(tx[p]) /\ LocksKnown(tx[p], held[p]) /\ LegsKnown(tx[p]) /\ FundsKnown(tx[p])
      /\ MovesKnown(tx[p]) /\ ReversalKnown(tx[p]) /\ UsageKnown(tx[p]) /\ KeyKnown(tx[p])
  BY DEF IInv, Known
<1>3. usage \in [Side -> Usage] /\ account \in [Accounts -> Account]
  BY DEF IInv, TypeOK
<1>4. tx[p].row.side \in Side
  BY <1>1, RowFacts
<1> QED BY <1>1, <1>2, <1>3, <1>4

\* A pending trade has reserved funds and limits, and has no entries.
LEMMA PendingHolds ==
  ASSUME IInv, NEW t \in Trades, trade[t].status = "PENDING"
  PROVE  /\ hold[t] = "RESERVED" /\ limitHold[t] = "RESERVED" /\ entries[t] = {} /\ ~trade[t].reversed
         /\ t \in Spot
<1>1. t \in Spot
  BY DEF IInv, RowsKnown, Spot
<1> QED BY <1>1 DEF IInv, StatusMatchesEntries, Story

\* An approved trade, reversed or not, has its legs.
LEMMA ApprovedHolds ==
  ASSUME IInv, NEW t \in Spot, trade[t].status = "APPROVED" \/ trade[t].reversed
  PROVE  /\ hold[t] = "CONSUMED" /\ limitHold[t] = "CONSUMED" /\ trade[t].quantity \in Quantities
         /\ trade[t].reversed => /\ trade[t].status = "CANCELLED_BY_ADMIN"
                                 /\ entries[t] = LegEntries(trade[t]) \union Undone(LegEntries(trade[t]))
         /\ ~trade[t].reversed => trade[t].status = "APPROVED" /\ entries[t] = LegEntries(trade[t])
<1>1. t \in Trades /\ trade[t].status \in TradeStatus
  BY RowFacts DEF IInv, TypeOK, Spot
<1> QED BY <1>1 DEF IInv, StatusMatchesEntries, Story, RowsKnown, TradeStatus

\* A lock that a call takes adds what it protects to what the call holds.
LEMMA LocksGrow ==
  ASSUME NEW t, NEW u, NEW L, NEW l, LocksKnown(t, L), t.pc \notin Unlocked, OwnLocks(u) \subseteq L \union {l},
         \A s \in Side : l # UsageLock(s), UsageLocked(u) <=> UsageLocked(t), UsageLocked(u) => u.row = t.row,
         \A a \in Accounts : a \in LockedAccounts(u) <=> a \in LockedAccounts(t) \/ l = AccountLock(a)
  PROVE  LocksKnown(u, L \union {l})
BY DEF LocksKnown

\* So does the usage row of its side.
LEMMA UsageLocksGrow ==
  ASSUME NEW t, NEW u, NEW L, NEW s \in Side, LocksKnown(t, L), t.pc \notin Unlocked, OwnLocks(u) \subseteq L,
         ~UsageLocked(t), UsageLocked(u), u.row.side = s, LockedAccounts(u) = LockedAccounts(t)
  PROVE  LocksKnown(u, L \union {UsageLock(s)})
BY LockKinds DEF LocksKnown

----------------------------------------------------------------------------
(* The inductive invariant: createForUser *)

LEMMA BeginCreateKeeps ==
  ASSUME IInv, NEW p \in Procs, NEW t \in Trades \ Forward, NEW s \in Sides, NEW n \in Quantities,
         NEW k \in Keys \union {NoKey}, BeginCreate(p, t, NewRow(s, n, k))
  PROVE  IInv'
<1> DEFINE row == NewRow(s, n, k)
           u == Begun("insert", "create", t, row, 0)
<1>1. row \in TradeRow
  <2>1. s \in Side
    BY SidesAssumption DEF Side
  <2> QED BY <2>1 DEF NewRow, TradeRow, TradeStatus
<1>2. u \in TxRecord
  BY <1>1, BegunType DEF InTransaction, Calls
<1>3. u.pc = "insert" /\ u.call = "create" /\ u.t = t /\ u.row = row /\ u.new = {}
  BY BegunFields
<1>4. row.quantity \in Quantities /\ ~row.reversed
  BY DEF NewRow
<1>5. trade[t].status = "none" /\ At(p, "idle") /\ Step(p, u) /\ ~Inserting(t)
  BY DEF BeginCreate
<1> HIDE DEF row, u
<1>6. Known(u, {})
  <2>1. CallKnown(u) /\ RowKnown(u) /\ LocksKnown(u, {})
    BY <1>3, <1>4, <1>5 DEF CallKnown, RowKnown, LocksKnown, Decides, Commits, Creating, Deciding, Approving, Locking,
       AfterCommit, Unlocked, Spot
  <2>2. LegsKnown(u) /\ FundsKnown(u) /\ MovesKnown(u) /\ ReversalKnown(u) /\ UsageKnown(u) /\ KeyKnown(u)
    BY <1>3 DEF LegsKnown, FundsKnown, MovesKnown, ReversalKnown, UsageKnown, KeyKnown, Commits, HasApplied, Locking,
       Approving, UsageLocked
  <2> QED BY <2>1, <2>2 DEF Known
<1>7. \A q \in Procs \ {p} : tx[q].pc # "idle" => ~Alike(u, tx[q]) /\ ~Alike(tx[q], u)
  BY <1>3, <1>5 DEF Inserting, At, Alike
<1> QED BY <1>2, <1>5, <1>6, <1>7, BeginStep

LEMMA InsertTradeKeeps ==
  ASSUME IInv, NEW p \in Procs, InsertTrade(p)
  PROVE  IInv'
<1> DEFINE k == tx[p].row.key
           t == [tx[p] EXCEPT !.pc = "reserveLimit"]
<1>1. tx[p].pc = "insert" /\ tx[p].call = "create" /\ tx[p] \in TxRecord /\ held[p] = {} /\ tx[p].new = {}
      /\ RowKnown(tx[p]) /\ tx[p].t \in Spot /\ k \in Keys \union {NoKey}
  BY RunningKnown, RowFacts DEF InsertTrade, At, CallKnown, Creating, IInv, LocksExclusive, Unlocked
<1>2. t \in TxRecord /\ t.pc = "reserveLimit" /\ t.call = "create" /\ t.t = tx[p].t /\ t.row = tx[p].row /\ t.new = {}
  BY <1>1 DEF TxRecord, InTransaction
<1>3. CASE UsedKey(k)
  BY <1>3, EndKeeps DEF InsertTrade
<1>4. CASE ~UsedKey(k)
  <2>1. k = NoKey \/ k \in Keys
    BY <1>1
  <2>2. CASE k = NoKey
    <3>1. Step(p, t)
      BY <1>4, <2>2 DEF InsertTrade
    <3> HIDE DEF t
    <3>2. CallKnown(t) /\ RowKnown(t) /\ KeyKnown(t)
      BY <1>1, <1>2, <1>4 DEF CallKnown, RowKnown, KeyKnown, Decides, Commits, Creating, Deciding, Approving, Locking,
         AfterCommit
    <3>3. LegsKnown(t) /\ FundsKnown(t) /\ MovesKnown(t) /\ ReversalKnown(t) /\ UsageKnown(t)
      BY <1>2 DEF LegsKnown, FundsKnown, MovesKnown, ReversalKnown, UsageKnown, Commits, HasApplied, Locking,
         Approving, UsageLocked
    <3>4. LocksKnown(t, {})
      BY <1>2, <2>2 DEF LocksKnown, OwnLocks, UsageLocked, LockedAccounts, Commits, HasApplied, Locking
    <3>5. Known(t, held[p])
      BY <1>1, <3>2, <3>3, <3>4 DEF Known
    <3>6. t.pc \notin Unlocked
      BY <1>2 DEF Unlocked, AfterCommit
    <3> QED BY <1>1, <1>2, <3>1, <3>5, <3>6, StepKeeps
  <2>3. CASE k # NoKey
    <3>1. LockStep(p, KeyLock(k), t) /\ KeyLock(k) \in Locks
      BY <1>4, <2>1, <2>3, LockTypes DEF InsertTrade
    <3> HIDE DEF t
    <3>2. CallKnown(t) /\ RowKnown(t) /\ KeyKnown(t)
      BY <1>1, <1>2, <1>4 DEF CallKnown, RowKnown, KeyKnown, Decides, Commits, Creating, Deciding, Approving, Locking,
         AfterCommit
    <3>3. LegsKnown(t) /\ FundsKnown(t) /\ MovesKnown(t) /\ ReversalKnown(t) /\ UsageKnown(t)
      BY <1>2 DEF LegsKnown, FundsKnown, MovesKnown, ReversalKnown, UsageKnown, Commits, HasApplied, Locking,
         Approving, UsageLocked
    <3>4. LocksKnown(t, {KeyLock(k)})
      BY <1>2, LockKinds DEF LocksKnown, OwnLocks, UsageLocked, LockedAccounts, Commits, HasApplied, Locking
    <3>5. Known(t, held[p] \union {KeyLock(k)})
      BY <1>1, <3>2, <3>3, <3>4 DEF Known
    <3>6. t.pc \notin Unlocked
      BY <1>2 DEF Unlocked, AfterCommit
    <3> QED BY <1>1, <1>2, <3>1, <3>5, <3>6, LockStepKeeps
  <2> QED BY <2>2, <2>3
<1> QED BY <1>3, <1>4

LEMMA ReserveLimitKeeps ==
  ASSUME IInv, NEW p \in Procs, ReserveLimit(p)
  PROVE  IInv'
<1> DEFINE s == tx[p].row.side
           use == ReserveUsage(usage[s], Total(tx[p].row))
           t == [tx[p] EXCEPT !.pc = "reserve", !.use = use]
<1>1. tx[p].pc = "reserveLimit" /\ tx[p].pc # "idle" /\ tx[p].call = "create" /\ tx[p] \in TxRecord /\ tx[p].new = {}
      /\ RowKnown(tx[p]) /\ LocksKnown(tx[p], held[p]) /\ KeyKnown(tx[p]) /\ tx[p].t \in Spot
  BY RunningKnown DEF ReserveLimit, At, CallKnown, Creating
<1>2. use \in Usage
  BY <1>1, RunningKnown, RowFacts, UsageTypes
<1>3. t \in TxRecord /\ t.pc = "reserve" /\ t.call = "create" /\ t.t = tx[p].t /\ t.row = tx[p].row /\ t.new = {}
      /\ t.use = use
  BY <1>1, <1>2 DEF TxRecord, InTransaction
<1>4. CASE ~WithinPolicy(usage[s], Total(tx[p].row), Policy[s])
  BY <1>4, EndKeeps DEF ReserveLimit
<1>5. CASE WithinPolicy(usage[s], Total(tx[p].row), Policy[s])
  <2>1. LockStep(p, UsageLock(s), t)
    BY <1>5 DEF ReserveLimit
  <2>2. use = ReserveUsage(usage[s], Total(tx[p].row)) /\ s = tx[p].row.side /\ s \in Side
    BY <1>1, RunningKnown
  <2> HIDE DEF t, use, s
  <2>3. CallKnown(t) /\ RowKnown(t) /\ KeyKnown(t)
    BY <1>1, <1>3 DEF CallKnown, RowKnown, KeyKnown, Decides, Commits, Creating, Deciding, Approving, Locking,
       AfterCommit
  <2>4. LegsKnown(t) /\ FundsKnown(t) /\ MovesKnown(t) /\ ReversalKnown(t)
    BY <1>3 DEF LegsKnown, FundsKnown, MovesKnown, ReversalKnown, Commits, HasApplied, Locking, Approving
  <2>5. UsageKnown(t)
    BY <1>3, <2>2 DEF UsageKnown
  <2>6. LocksKnown(t, held[p] \union {UsageLock(s)})
    <3>1. t.pc \notin Unlocked /\ tx[p].pc \notin Unlocked
      BY <1>1, <1>3 DEF Unlocked, AfterCommit
    <3>2. OwnLocks(t) = OwnLocks(tx[p]) /\ OwnLocks(tx[p]) \subseteq held[p]
      BY <1>1, <1>3, <3>1 DEF OwnLocks, LocksKnown
    <3>3. UsageLocked(t) /\ ~UsageLocked(tx[p]) /\ LockedAccounts(t) = {} /\ LockedAccounts(tx[p]) = {}
      BY <1>1, <1>3 DEF UsageLocked, LockedAccounts, Commits, HasApplied, Locking
    <3> QED BY <1>1, <1>3, <2>2, <3>1, <3>2, <3>3, UsageLocksGrow
  <2>7. Known(t, held[p] \union {UsageLock(s)})
    BY <2>3, <2>4, <2>5, <2>6 DEF Known
  <2>8. t.pc \notin Unlocked
    BY <1>3 DEF Unlocked, AfterCommit
  <2> QED BY <1>1, <1>3, <2>1, <2>2, <2>7, <2>8, LockTypes, LockStepKeeps
<1> QED BY <1>4, <1>5

LEMMA ReserveFundsKeeps ==
  ASSUME IInv, NEW p \in Procs, ReserveFunds(p)
  PROVE  IInv'
<1> DEFINE a == Payer(tx[p].row)
           n == Blocks(tx[p].row)
           row == Reserve(account[a], n)
           t == [tx[p] EXCEPT !.pc = "commit", !.rows[a] = row]
<1>1. tx[p].pc = "reserve" /\ tx[p].pc # "idle" /\ tx[p].call = "create" /\ tx[p] \in TxRecord /\ tx[p].new = {}
      /\ RowKnown(tx[p]) /\ LocksKnown(tx[p], held[p]) /\ KeyKnown(tx[p]) /\ UsageKnown(tx[p]) /\ tx[p].t \in Spot
  BY RunningKnown DEF ReserveFunds, At, CallKnown, Creating
<1>2. a \in Accounts /\ n \in Nat /\ row \in Account
  <2>1. a \in Accounts /\ n \in Nat
    BY <1>1, RunningKnown, RowFacts
  <2>2. account[a] \in Account
    BY <1>1, <2>1, RunningKnown
  <2> QED BY <2>1, <2>2, LedgerTypes
<1>3. t \in TxRecord /\ t.pc = "commit" /\ t.call = "create" /\ t.t = tx[p].t /\ t.row = tx[p].row /\ t.new = {}
      /\ t.use = tx[p].use /\ t.rows[a] = row
  BY <1>1, <1>2 DEF TxRecord, InTransaction
<1>4. CASE ~CanReserve(account[a], n)
  BY <1>4, EndKeeps DEF ReserveFunds
<1>5. CASE CanReserve(account[a], n)
  <2>1. LockStep(p, AccountLock(a), t)
    BY <1>5 DEF ReserveFunds
  <2>2. row = Reserve(account[a], n) /\ Payer(tx[p].row) = a /\ Blocks(tx[p].row) = n
    OBVIOUS
  <2> HIDE DEF t, row, a, n
  <2>3. CallKnown(t) /\ RowKnown(t) /\ KeyKnown(t)
    BY <1>1, <1>3 DEF CallKnown, RowKnown, KeyKnown, Decides, Commits, Creating, Deciding, Approving, Locking,
       AfterCommit
  <2>4. LegsKnown(t) /\ MovesKnown(t) /\ ReversalKnown(t)
    BY <1>3 DEF LegsKnown, MovesKnown, ReversalKnown, Commits, HasApplied, Locking, Approving
  <2>5. FundsKnown(t)
    BY <1>3, <1>5, <2>2 DEF FundsKnown, Commits
  <2>6. UsageKnown(t)
    BY <1>1, <1>3 DEF UsageKnown, UsageLocked
  <2>7. LocksKnown(t, held[p] \union {AccountLock(a)})
    <3>1. t.pc \notin Unlocked /\ tx[p].pc \notin Unlocked
      BY <1>1, <1>3 DEF Unlocked, AfterCommit
    <3>2. OwnLocks(t) = OwnLocks(tx[p]) /\ OwnLocks(tx[p]) \subseteq held[p]
      BY <1>1, <1>3, <3>1 DEF OwnLocks, LocksKnown
    <3>3. UsageLocked(t) /\ UsageLocked(tx[p]) /\ LockedAccounts(t) = {a} /\ LockedAccounts(tx[p]) = {}
      BY <1>1, <1>3, <2>2 DEF UsageLocked, LockedAccounts, Commits, HasApplied, Locking
    <3>4. /\ \A s \in Side : AccountLock(a) # UsageLock(s)
          /\ \A b \in Accounts : b \in {a} <=> b \in {} \/ AccountLock(a) = AccountLock(b)
      BY LockKinds
    <3>5. OwnLocks(t) \subseteq held[p] \union {AccountLock(a)}
      BY <3>2
    <3> QED BY <1>1, <1>3, <3>1, <3>3, <3>4, <3>5, LocksGrow
  <2>8. Known(t, held[p] \union {AccountLock(a)})
    BY <2>3, <2>4, <2>5, <2>6, <2>7 DEF Known
  <2>9. t.pc \notin Unlocked
    BY <1>3 DEF Unlocked, AfterCommit
  <2> QED BY <1>1, <1>2, <1>3, <2>1, <2>8, <2>9, LockTypes, LockStepKeeps
<1> QED BY <1>4, <1>5

----------------------------------------------------------------------------
(* The inductive invariant: approve, reject and cancelTrade *)

LEMMA BeginKeeps ==
  ASSUME IInv, NEW p \in Procs, NEW t \in Trades, NEW c \in {"approve", "reject", "cancel"}, Begin(p, t, c)
  PROVE  IInv'
<1> DEFINE u == Begun("lockTrade", c, t, NoTrade, 0)
<1>1. u \in TxRecord
  BY NoTradeType, BegunType DEF InTransaction, Calls, Decisions
<1>2. u.pc = "lockTrade" /\ u.call = c /\ u.t = t /\ u.new = {}
  BY BegunFields
<1>3. trade[t].status # "none" /\ At(p, "idle") /\ Step(p, u)
  BY DEF Begin
<1> HIDE DEF u
<1>4. CallKnown(u) /\ RowKnown(u) /\ LocksKnown(u, {})
  BY <1>2, <1>3 DEF CallKnown, RowKnown, LocksKnown, Decides, Commits, Creating, Deciding, Approving, Locking,
     AfterCommit, Unlocked
<1>5. LegsKnown(u) /\ FundsKnown(u) /\ MovesKnown(u) /\ ReversalKnown(u) /\ UsageKnown(u) /\ KeyKnown(u)
  BY <1>2 DEF LegsKnown, FundsKnown, MovesKnown, ReversalKnown, UsageKnown, KeyKnown, Commits, HasApplied, Locking,
     Approving, UsageLocked
<1>6. Known(u, {})
  BY <1>4, <1>5 DEF Known
<1>7. \A q \in Procs \ {p} : tx[q].pc # "idle" => ~Alike(u, tx[q]) /\ ~Alike(tx[q], u)
  BY <1>2 DEF Alike
<1> QED BY <1>1, <1>3, <1>6, <1>7, BeginStep

LEMMA LockTradeKeeps ==
  ASSUME IInv, NEW p \in Procs, LockTrade(p)
  PROVE  IInv'
<1> DEFINE m == tx[p].t
           c == tx[p].call
<1>1. tx[p].pc = "lockTrade" /\ tx[p].pc # "idle" /\ c \in {"approve", "reject", "cancel"} /\ tx[p] \in TxRecord
      /\ held[p] = {} /\ tx[p].new = {} /\ RowKnown(tx[p]) /\ m \in Trades /\ trade[m] \in TradeRow
  BY RunningKnown DEF LockTrade, At, CallKnown, Deciding, IInv, LocksExclusive, Unlocked
<1>2. CASE GoesOn(c, m)
  <2> DEFINE pc == IF c = "approve" THEN "unblock" ELSE "releaseLimit"
             t == [tx[p] EXCEPT !.pc = pc, !.row = trade[m]]
  <2>1. LockStep(p, TradeLock(m), t)
    BY <1>2 DEF LockTrade
  <2>2. trade[m].status = "PENDING" /\ m \in Spot
    BY <1>1, <1>2, PendingHolds DEF GoesOn
  <2>3. t \in TxRecord /\ t.pc = pc /\ t.call = c /\ t.t = m /\ t.row = trade[m] /\ t.new = {}
    BY <1>1 DEF TxRecord, InTransaction
  <2>4. pc \in {"unblock", "releaseLimit"} /\ (pc = "unblock" <=> c = "approve")
    OBVIOUS
  <2> HIDE DEF t, pc
  <2>5. CallKnown(t) /\ RowKnown(t) /\ KeyKnown(t)
    BY <1>1, <2>2, <2>3, <2>4 DEF CallKnown, RowKnown, KeyKnown, Decides, Commits, Creating, Deciding, Approving, Locking,
       AfterCommit
  <2>6. LegsKnown(t) /\ FundsKnown(t) /\ MovesKnown(t) /\ ReversalKnown(t) /\ UsageKnown(t)
    BY <1>1, <2>3, <2>4 DEF LegsKnown, FundsKnown, MovesKnown, ReversalKnown, UsageKnown, Commits, HasApplied, Locking,
       Approving, UsageLocked
  <2>7. LocksKnown(t, {TradeLock(m)})
    <3>1. OwnLocks(t) = {TradeLock(m)} /\ ~UsageLocked(t) /\ LockedAccounts(t) = {}
      BY <1>1, <2>3, <2>4 DEF OwnLocks, UsageLocked, LockedAccounts, Commits, HasApplied, Locking, Deciding
    <3> QED BY <3>1, LockKinds DEF LocksKnown
  <2>8. Known(t, held[p] \union {TradeLock(m)})
    BY <1>1, <2>5, <2>6, <2>7 DEF Known
  <2>9. t.pc \notin Unlocked
    BY <2>3, <2>4 DEF Unlocked, AfterCommit
  <2> QED BY <1>1, <2>1, <2>3, <2>8, <2>9, LockTypes, LockStepKeeps
<1>3. CASE ~GoesOn(c, m) /\ c = "approve" /\ trade[m].status = "APPROVED" /\ m \notin Forward
  <2> DEFINE t == [tx[p] EXCEPT !.pc = "findVoucher"]
  <2>1. Step(p, t)
    BY <1>3 DEF LockTrade
  <2>2. t \in TxRecord /\ t.pc = "findVoucher" /\ t.call = "approve" /\ t.t = m
    BY <1>1, <1>3 DEF TxRecord, AfterCommit
  <2> HIDE DEF t
  <2>3. CallKnown(t) /\ RowKnown(t) /\ KeyKnown(t) /\ LocksKnown(t, {})
    BY <2>2 DEF CallKnown, RowKnown, KeyKnown, LocksKnown, Decides, Commits, Creating, Deciding, Approving, Locking,
       AfterCommit, Unlocked
  <2>4. LegsKnown(t) /\ FundsKnown(t) /\ MovesKnown(t) /\ ReversalKnown(t) /\ UsageKnown(t)
    BY <2>2 DEF LegsKnown, FundsKnown, MovesKnown, ReversalKnown, UsageKnown, Commits, HasApplied, Locking,
       Approving, UsageLocked
  <2>5. Known(t, held[p])
    BY <1>1, <2>3, <2>4 DEF Known
  <2> QED BY <1>1, <1>3, <2>1, <2>2, <2>5, StepKeeps
<1>4. CASE ~GoesOn(c, m) /\ ~(c = "approve" /\ trade[m].status = "APPROVED" /\ m \notin Forward)
  BY <1>4, EndKeeps DEF LockTrade
<1> QED BY <1>2, <1>3, <1>4

\* A decision has locked a pending trade.
LEMMA DecidingKnown ==
  ASSUME IInv, NEW p \in Procs, tx[p].pc \in {"releaseLimit", "unblock", "leg", "consumeLimit"}
  PROVE  /\ tx[p].pc # "idle" /\ tx[p].pc \notin Unlocked /\ tx[p].call \in {"approve", "reject", "cancel"}
         /\ Decides(tx[p]) /\ trade[tx[p].t].status = "PENDING" /\ tx[p].row = trade[tx[p].t] /\ tx[p].t \in Spot
         /\ hold[tx[p].t] = "RESERVED" /\ limitHold[tx[p].t] = "RESERVED" /\ entries[tx[p].t] = {}
         /\ OwnLocks(tx[p]) = {TradeLock(tx[p].t)} /\ OwnLocks(tx[p]) \subseteq held[p]
         /\ tx[p].row.quantity \in Quantities
         /\ Payer(tx[p].row) \in Accounts /\ Blocks(tx[p].row) \in Nat /\ account[Payer(tx[p].row)] \in Account
<1>1. /\ tx[p].pc # "idle" /\ tx[p].pc \notin Unlocked /\ Decides(tx[p]) /\ tx[p].pc \in Deciding
  BY DEF Unlocked, AfterCommit, Decides, Deciding, Approving
<1>2. /\ tx[p].call \in {"approve", "reject", "cancel"} /\ tx[p].t \in Trades
      /\ trade[tx[p].t].status = "PENDING" /\ tx[p].row = trade[tx[p].t] /\ tx[p].t \in Spot
  BY <1>1, RunningKnown DEF CallKnown, RowKnown
<1>3. hold[tx[p].t] = "RESERVED" /\ limitHold[tx[p].t] = "RESERVED" /\ entries[tx[p].t] = {}
  BY <1>2, PendingHolds
<1>4. OwnLocks(tx[p]) = {TradeLock(tx[p].t)} /\ OwnLocks(tx[p]) \subseteq held[p]
  BY <1>1, <1>2, RunningKnown DEF OwnLocks, LocksKnown
<1>5. tx[p].row.quantity \in Quantities
  BY <1>2 DEF IInv, RowsKnown
<1>6. Payer(tx[p].row) \in Accounts /\ Blocks(tx[p].row) \in Nat /\ account[Payer(tx[p].row)] \in Account
  BY <1>1, RunningKnown, RowFacts
<1> QED BY <1>1, <1>2, <1>3, <1>4, <1>5, <1>6

\* What a decision that goes on with the row it has locked knows at any step.
LEMMA DecidesOn ==
  ASSUME IInv, NEW p \in Procs, tx[p].pc \in {"releaseLimit", "unblock", "leg", "consumeLimit"},
         NEW t, t.call = tx[p].call, t.t = tx[p].t, t.row = tx[p].row,
         t.pc \in {"unblock", "leg", "consumeLimit", "commit"}, t.pc \in Approving => t.call = "approve",
         t.pc = "unblock" => t.new = {}
  PROVE  /\ CallKnown(t) /\ RowKnown(t) /\ MovesKnown(t) /\ ReversalKnown(t) /\ KeyKnown(t)
         /\ OwnLocks(t) = {TradeLock(tx[p].t)} /\ t.pc \notin Unlocked
<1>1. tx[p].call \in {"approve", "reject", "cancel"} /\ trade[tx[p].t].status = "PENDING"
      /\ tx[p].row = trade[tx[p].t] /\ tx[p].t \in Spot
  BY DecidingKnown
<1>2. CallKnown(t) /\ RowKnown(t) /\ KeyKnown(t)
  BY <1>1 DEF CallKnown, RowKnown, KeyKnown, Creating, Deciding, Approving, Locking, AfterCommit
<1>3. MovesKnown(t) /\ ReversalKnown(t)
  BY <1>1 DEF MovesKnown, ReversalKnown, Commits, HasApplied, Locking
<1>4. OwnLocks(t) = {TradeLock(tx[p].t)} /\ t.pc \notin Unlocked
  BY <1>1 DEF OwnLocks, Unlocked, AfterCommit, Deciding, Approving, Commits
<1> QED BY <1>2, <1>3, <1>4

LEMMA ReleaseLimitKeeps ==
  ASSUME IInv, NEW p \in Procs, ReleaseLimit(p)
  PROVE  IInv'
<1> DEFINE s == tx[p].row.side
           use == ReleaseUsage(usage[s], Total(tx[p].row))
           t == [tx[p] EXCEPT !.pc = "unblock", !.use = use]
<1>1. tx[p].pc = "releaseLimit" /\ tx[p].pc # "idle" /\ tx[p].call \in {"reject", "cancel"} /\ tx[p] \in TxRecord
      /\ tx[p].new = {} /\ LocksKnown(tx[p], held[p]) /\ tx[p].pc \in {"releaseLimit", "unblock", "leg", "consumeLimit"}
  BY RunningKnown DEF ReleaseLimit, At, CallKnown, Deciding
<1>2. use \in Usage
  BY <1>1, RunningKnown, RowFacts, UsageTypes
<1>3. LockStep(p, UsageLock(s), t)
  BY <1>1, DecidingKnown DEF ReleaseLimit, LimitReleasable
<1>4. t \in TxRecord /\ t.pc = "unblock" /\ t.call = tx[p].call /\ t.t = tx[p].t /\ t.row = tx[p].row /\ t.new = {}
      /\ t.use = use
  BY <1>1, <1>2 DEF TxRecord, InTransaction
<1>5. use = ReleaseUsage(usage[s], Total(tx[p].row)) /\ s = tx[p].row.side /\ s \in Side
  BY <1>1, RunningKnown
<1> HIDE DEF t, use, s
<1>6. /\ CallKnown(t) /\ RowKnown(t) /\ MovesKnown(t) /\ ReversalKnown(t) /\ KeyKnown(t)
      /\ OwnLocks(t) = {TradeLock(tx[p].t)} /\ t.pc \notin Unlocked
  BY <1>1, <1>4, DecidesOn DEF Approving
<1>7. LegsKnown(t) /\ FundsKnown(t) /\ UsageKnown(t)
  BY <1>1, <1>4, <1>5 DEF LegsKnown, FundsKnown, UsageKnown, Commits, Approving
<1>8. LocksKnown(t, held[p] \union {UsageLock(s)})
  <2>1. UsageLocked(t) /\ ~UsageLocked(tx[p]) /\ LockedAccounts(t) = {} /\ LockedAccounts(tx[p]) = {}
    BY <1>1, <1>4 DEF UsageLocked, LockedAccounts, Commits, HasApplied, Locking
  <2>2. TradeLock(tx[p].t) \in held[p] /\ tx[p].pc \notin Unlocked
    BY <1>1, DecidingKnown
  <2> QED BY <1>1, <1>4, <1>5, <1>6, <2>1, <2>2, UsageLocksGrow
<1>9. Known(t, held[p] \union {UsageLock(s)})
  BY <1>6, <1>7, <1>8 DEF Known
<1> QED BY <1>1, <1>3, <1>4, <1>5, <1>6, <1>9, LockTypes, LockStepKeeps

LEMMA UnblockFundsKeeps ==
  ASSUME IInv, NEW p \in Procs, UnblockFunds(p)
  PROVE  IInv'
<1> DEFINE a == Payer(tx[p].row)
           n == Blocks(tx[p].row)
           row == Unblock(account[a], n)
           l == AccountLock(a)
<1>1. tx[p].pc = "unblock" /\ tx[p].pc # "idle" /\ tx[p] \in TxRecord
      /\ tx[p].new = {} /\ LocksKnown(tx[p], held[p]) /\ tx[p].pc \in {"releaseLimit", "unblock", "leg", "consumeLimit"}
      /\ UsageKnown(tx[p])
  BY RunningKnown DEF UnblockFunds, At, CallKnown, Deciding
<1>2. a \in Accounts /\ n \in Nat /\ account[a] \in Account /\ hold[tx[p].t] = "RESERVED"
      /\ tx[p].call \in {"approve", "reject", "cancel"} /\ TradeLock(tx[p].t) \in held[p] /\ tx[p].pc \notin Unlocked
  BY <1>1, DecidingKnown
<1>3. row \in Account /\ l \in Locks
  BY <1>2, LedgerTypes, LockTypes
<1>4. \/ End(p)
      \/ /\ CanUnblock(account[a], n) /\ tx[p].call # "approve"
         /\ LockStep(p, l, [tx[p] EXCEPT !.pc = "commit", !.rows[a] = row])
      \/ /\ CanUnblock(account[a], n) /\ tx[p].call = "approve"
         /\ LockStep(p, l, [tx[p] EXCEPT !.pc = "leg", !.rows[a] = row, !.todo = Accounts])
  BY <1>2 DEF UnblockFunds
<1>5. row = Unblock(account[a], n) /\ a = Payer(tx[p].row) /\ n = Blocks(tx[p].row) /\ l = AccountLock(a)
  OBVIOUS
<1>6. CASE /\ CanUnblock(account[a], n) /\ tx[p].call # "approve"
           /\ LockStep(p, l, [tx[p] EXCEPT !.pc = "commit", !.rows[a] = row])
  <2> DEFINE t == [tx[p] EXCEPT !.pc = "commit", !.rows[a] = row]
  <2>1. t \in TxRecord /\ t.pc = "commit" /\ t.call = tx[p].call /\ t.t = tx[p].t /\ t.row = tx[p].row /\ t.new = {}
        /\ t.use = tx[p].use /\ t.rows[a] = row
    BY <1>1, <1>2, <1>3 DEF TxRecord, InTransaction
  <2>2. LockStep(p, l, t)
    BY <1>6
  <2> HIDE DEF t, row, a, n, l
  <2>3. /\ CallKnown(t) /\ RowKnown(t) /\ MovesKnown(t) /\ ReversalKnown(t) /\ KeyKnown(t)
        /\ OwnLocks(t) = {TradeLock(tx[p].t)} /\ t.pc \notin Unlocked
    BY <1>1, <2>1, DecidesOn DEF Approving
  <2>4. LegsKnown(t) /\ FundsKnown(t)
    BY <1>2, <1>5, <1>6, <2>1 DEF LegsKnown, FundsKnown, Commits, Approving
  <2>5. UsageKnown(t)
    BY <1>1, <1>2, <1>6, <2>1 DEF UsageKnown, UsageLocked, Commits
  <2>6. LocksKnown(t, held[p] \union {l})
    <3>1. UsageLocked(t) /\ UsageLocked(tx[p]) /\ LockedAccounts(t) = {a} /\ LockedAccounts(tx[p]) = {}
      BY <1>1, <1>2, <1>5, <1>6, <2>1 DEF UsageLocked, LockedAccounts, Commits, HasApplied, Locking
    <3>2. (\A s \in Side : l # UsageLock(s)) /\ \A b \in Accounts : b \in {a} <=> b \in {} \/ l = AccountLock(b)
      BY <1>5, LockKinds
    <3>3. OwnLocks(t) \subseteq held[p] \union {l}
      BY <1>2, <2>3
    <3> QED BY <1>1, <1>2, <2>1, <3>1, <3>2, <3>3, LocksGrow
  <2>7. Known(t, held[p] \union {l})
    BY <2>3, <2>4, <2>5, <2>6 DEF Known
  <2> QED BY <1>1, <1>3, <2>1, <2>2, <2>3, <2>7, LockStepKeeps
<1>7. CASE /\ CanUnblock(account[a], n) /\ tx[p].call = "approve"
           /\ LockStep(p, l, [tx[p] EXCEPT !.pc = "leg", !.rows[a] = row, !.todo = Accounts])
  <2> DEFINE t == [tx[p] EXCEPT !.pc = "leg", !.rows[a] = row, !.todo = Accounts]
  <2>1. t \in TxRecord /\ t.pc = "leg" /\ t.call = tx[p].call /\ t.t = tx[p].t /\ t.row = tx[p].row /\ t.new = {}
        /\ t.use = tx[p].use /\ t.rows[a] = row /\ t.todo = Accounts
    BY <1>1, <1>2, <1>3 DEF TxRecord, InTransaction
  <2>2. LockStep(p, l, t)
    BY <1>7
  <2> HIDE DEF t, row, a, n, l
  <2>3. /\ CallKnown(t) /\ RowKnown(t) /\ MovesKnown(t) /\ ReversalKnown(t) /\ KeyKnown(t)
        /\ OwnLocks(t) = {TradeLock(tx[p].t)} /\ t.pc \notin Unlocked
    BY <1>1, <1>7, <2>1, DecidesOn DEF Approving
  <2>4. FundsKnown(t) /\ UsageKnown(t)
    BY <2>1 DEF FundsKnown, UsageKnown, UsageLocked, Commits
  <2>5. LegsKnown(t)
    BY <1>2, <1>5, <1>7, <2>1 DEF LegsKnown, Commits, Approving, Base
  <2>6. LocksKnown(t, held[p] \union {l})
    <3>1. ~UsageLocked(t) /\ ~UsageLocked(tx[p]) /\ LockedAccounts(t) = {a} /\ LockedAccounts(tx[p]) = {}
      BY <1>1, <1>2, <1>5, <1>7, <2>1 DEF UsageLocked, LockedAccounts, Commits, HasApplied, Locking
    <3>2. (\A s \in Side : l # UsageLock(s)) /\ \A b \in Accounts : b \in {a} <=> b \in {} \/ l = AccountLock(b)
      BY <1>5, LockKinds
    <3>3. OwnLocks(t) \subseteq held[p] \union {l}
      BY <1>2, <2>3
    <3> QED BY <1>1, <1>2, <2>1, <3>1, <3>2, <3>3, LocksGrow
  <2>7. Known(t, held[p] \union {l})
    BY <2>3, <2>4, <2>5, <2>6 DEF Known
  <2> QED BY <1>1, <1>3, <2>1, <2>2, <2>3, <2>7, LockStepKeeps
<1> QED BY <1>4, <1>6, <1>7, EndKeeps

\* The entry that approve adds on the account a.
Leg(r, a) == [account |-> a, delta |-> Delta(r, a), reversal |-> FALSE]

LEMMA LegFacts ==
  ASSUME NEW r \in TradeRow, NEW a \in Accounts
  PROVE  /\ Leg(r, a) \in Entry /\ Leg(r, a).account = a /\ Leg(r, a).delta = Delta(r, a) /\ ~Leg(r, a).reversal
<1>1. Delta(r, a) \in Int
  BY RowFacts
<1>2. Leg(r, a).account = a /\ Leg(r, a).delta = Delta(r, a) /\ ~Leg(r, a).reversal
  BY DEF Leg
<1>3. Leg(r, a) \in Entry
  BY <1>1 DEF Leg, Entry
<1> QED BY <1>2, <1>3

\* The account row to which approve applies its next leg.
LEMMA SeenIsBase ==
  ASSUME IInv, NEW p \in Procs, tx[p].pc = "leg", NEW a \in tx[p].todo
  PROVE  Seen(p, a) = Base(tx[p], a) /\ Base(tx[p], a) \in Account /\ a \in Accounts
<1>1. /\ tx[p].pc # "idle" /\ tx[p].pc \notin Unlocked /\ tx[p].pc \in Approving
  BY DEF Unlocked, AfterCommit, Approving
<1>2. a \in Accounts /\ Payer(tx[p].row) \in Accounts /\ Blocks(tx[p].row) \in Nat /\ account[a] \in Account
  BY <1>1, RunningRecord, RowFacts DEF IInv, TypeOK
<1>3. AccountLock(a) \in held[p] <=> a \in LockedAccounts(tx[p])
  BY <1>1, <1>2, RunningKnown DEF LocksKnown
<1>4. LockedAccounts(tx[p]) = (Accounts \ tx[p].todo) \union {Payer(tx[p].row)}
  BY DEF LockedAccounts, Commits, HasApplied, Locking
<1>5. Payer(tx[p].row) \in tx[p].todo => tx[p].rows[Payer(tx[p].row)] = Base(tx[p], Payer(tx[p].row))
  BY <1>1, RunningKnown DEF LegsKnown
<1>6. Base(tx[p], a) \in Account
  BY <1>2, LedgerTypes DEF Base
<1>7. CASE a = Payer(tx[p].row)
  BY <1>2, <1>3, <1>4, <1>5, <1>6, <1>7 DEF Seen
<1>8. CASE a # Payer(tx[p].row)
  BY <1>2, <1>3, <1>4, <1>6, <1>8 DEF Seen, Base
<1> QED BY <1>7, <1>8

LEMMA ApplyLegKeeps ==
  ASSUME IInv, NEW p \in Procs, ApplyLeg(p)
  PROVE  IInv'
<1>1. /\ tx[p].pc = "leg" /\ tx[p].pc # "idle" /\ tx[p] \in TxRecord /\ tx[p].call = "approve"
      /\ LocksKnown(tx[p], held[p]) /\ tx[p].pc \in {"releaseLimit", "unblock", "leg", "consumeLimit"}
      /\ LegsKnown(tx[p]) /\ tx[p].row \in TradeRow /\ tx[p].rows \in [Accounts -> Account]
      /\ tx[p].todo \subseteq Accounts /\ tx[p].new \in SUBSET Entry /\ Payer(tx[p].row) \in Accounts
  BY RunningKnown, RunningRecord, RowFacts DEF ApplyLeg, At, CallKnown, Approving, IInv
<1>2. TradeLock(tx[p].t) \in held[p] /\ tx[p].pc \notin Unlocked
  BY <1>1, DecidingKnown
<1>3. PICK a \in tx[p].todo :
        LET r == tx[p].row
            rest == tx[p].todo \ {a}
        IN  IF CanApply(Seen(p, a), Delta(r, a)) /\ EntryFree(tx[p].t, a, Delta(r, a))
            THEN LockStep(p, AccountLock(a), [Applied(p, a, Delta(r, a), FALSE) EXCEPT !.todo = rest,
                                               !.pc = IF rest = {} THEN "consumeLimit" ELSE "leg"])
            ELSE End(p)
  BY DEF ApplyLeg
<1> DEFINE r == tx[p].row
           rest == tx[p].todo \ {a}
           d == Delta(r, a)
           pc == IF rest = {} THEN "consumeLimit" ELSE "leg"
           base == Base(tx[p], a)
           l == AccountLock(a)
           t == [Applied(p, a, d, FALSE) EXCEPT !.todo = rest, !.pc = pc]
<1>4. Seen(p, a) = base /\ base \in Account /\ a \in Accounts /\ d \in Int /\ l \in Locks /\ Leg(r, a) \in Entry
  BY <1>1, SeenIsBase, RowFacts, LockTypes, LegFacts
<1>5. CASE ~(CanApply(Seen(p, a), d) /\ EntryFree(tx[p].t, a, d))
  BY <1>3, <1>5, EndKeeps
<1>6. CASE CanApply(base, d) /\ LockStep(p, l, t)
  <2>1. Apply(base, d) \in Account
    BY <1>4, LedgerTypes
  <2>2. t = [tx[p] EXCEPT !.rows[a] = Apply(base, d), !.new = tx[p].new \union {Leg(r, a)}, !.todo = rest, !.pc = pc]
    BY <1>1, <1>4 DEF Applied, Leg, TxRecord
  <2>3. pc \in InTransaction
    BY DEF InTransaction
  <2>4. /\ t \in TxRecord /\ t.pc = pc /\ t.call = "approve" /\ t.t = tx[p].t /\ t.row = r /\ t.todo = rest
        /\ t.rows = [tx[p].rows EXCEPT ![a] = Apply(base, d)] /\ t.new = tx[p].new \union {Leg(r, a)}
    <3>1. tx[p].new \union {Leg(r, a)} \in SUBSET Entry /\ rest \in SUBSET Accounts
          /\ [tx[p].rows EXCEPT ![a] = Apply(base, d)] \in [Accounts -> Account]
      BY <1>1, <1>4, <2>1
    <3> HIDE DEF pc, rest, base, d
    <3> QED BY <1>1, <2>2, <2>3, <3>1 DEF TxRecord
  <2>5. LockStep(p, l, t)
    BY <1>6
  <2>6. /\ pc \in {"leg", "consumeLimit"} /\ (pc = "consumeLimit" <=> rest = {}) /\ rest = tx[p].todo \ {a}
        /\ d = Delta(r, a) /\ base = Base(tx[p], a) /\ l = AccountLock(a)
    OBVIOUS
  <2> HIDE DEF t, l, base, pc, d
  <2>7. /\ CallKnown(t) /\ RowKnown(t) /\ MovesKnown(t) /\ ReversalKnown(t) /\ KeyKnown(t)
        /\ OwnLocks(t) = {TradeLock(tx[p].t)} /\ t.pc \notin Unlocked
    BY <1>1, <2>4, <2>6, DecidesOn DEF Approving
  <2>8. FundsKnown(t) /\ UsageKnown(t)
    BY <2>4, <2>6 DEF FundsKnown, UsageKnown, UsageLocked, Commits
  <2>9. \A b : Base(t, b) = Base(tx[p], b)
    BY <2>4 DEF Base
  <2>10. /\ CanUnblock(account[Payer(r)], Blocks(r))
         /\ Payer(r) \in tx[p].todo => tx[p].rows[Payer(r)] = Base(tx[p], Payer(r))
         /\ \A b \in Accounts \ tx[p].todo :
              CanApply(Base(tx[p], b), Delta(r, b)) /\ tx[p].rows[b] = Apply(Base(tx[p], b), Delta(r, b))
         /\ tx[p].new = {Leg(r, b) : b \in Accounts \ tx[p].todo}
    BY <1>1 DEF LegsKnown, Approving, Leg
  <2>11. LegsKnown(t)
    <3>1. t.new = {Leg(r, b) : b \in Accounts \ rest}
      BY <1>4, <2>4, <2>6, <2>10
    <3>2. \A b \in Accounts : t.rows[b] = IF b = a THEN Apply(base, d) ELSE tx[p].rows[b]
      BY <1>1, <1>4, <2>4
    <3>3. \A b \in Accounts \ rest : CanApply(Base(t, b), Delta(r, b)) /\ t.rows[b] = Apply(Base(t, b), Delta(r, b))
      <4> SUFFICES ASSUME NEW b \in Accounts \ rest
                   PROVE  CanApply(Base(t, b), Delta(r, b)) /\ t.rows[b] = Apply(Base(t, b), Delta(r, b))
        OBVIOUS
      <4>1. CASE b = a
        BY <1>6, <2>6, <2>9, <3>2, <4>1
      <4>2. CASE b # a
        BY <2>6, <2>9, <2>10, <3>2, <4>2
      <4> QED BY <4>1, <4>2
    <3>4. Payer(r) \in rest => t.rows[Payer(r)] = Base(t, Payer(r))
      BY <1>1, <2>6, <2>9, <2>10, <3>2
    <3>5. t.pc = "consumeLimit" \/ Commits(t, {"approve"}) => t.todo = {}
      BY <2>4, <2>6 DEF Commits
    <3> QED BY <2>4, <2>10, <3>1, <3>3, <3>4, <3>5 DEF LegsKnown, Leg
  <2>12. LocksKnown(t, held[p] \union {l})
    <3>1. ~UsageLocked(t) /\ ~UsageLocked(tx[p])
      BY <1>1, <2>4, <2>6 DEF UsageLocked, Commits
    <3>2. LockedAccounts(tx[p]) = (Accounts \ tx[p].todo) \union {Payer(r)}
      BY <1>1 DEF LockedAccounts, Commits, HasApplied, Locking
    <3>3. LockedAccounts(t) = (Accounts \ rest) \union {Payer(r)}
      <4>1. CASE pc = "leg"
        BY <2>4, <4>1 DEF LockedAccounts, Commits, HasApplied, Locking
      <4>2. CASE pc = "consumeLimit"
        BY <1>1, <2>4, <2>6, <4>2 DEF LockedAccounts, Commits, HasApplied, Locking
      <4> QED BY <2>6, <4>1, <4>2
    <3>4. (\A s \in Side : l # UsageLock(s)) /\ \A b \in Accounts : b \in LockedAccounts(t) <=> b \in LockedAccounts(tx[p]) \/ l = AccountLock(b)
      BY <1>4, <2>6, <3>2, <3>3, LockKinds
    <3>5. OwnLocks(t) \subseteq held[p] \union {l}
      BY <1>2, <2>7
    <3> QED BY <1>1, <1>2, <3>1, <3>4, <3>5, LocksGrow
  <2>13. Known(t, held[p] \union {l})
    BY <2>7, <2>8, <2>11, <2>12 DEF Known
  <2> QED BY <1>1, <1>4, <2>4, <2>5, <2>7, <2>13, LockStepKeeps
<1> QED BY <1>3, <1>4, <1>5, <1>6

LEMMA ConsumeLimitKeeps ==
  ASSUME IInv, NEW p \in Procs, ConsumeLimit(p)
  PROVE  IInv'
<1> DEFINE s == tx[p].row.side
           use == ConsumeUsage(usage[s], Total(tx[p].row))
           t == [tx[p] EXCEPT !.pc = "commit", !.use = use]
<1>1. tx[p].pc = "consumeLimit" /\ tx[p].pc # "idle" /\ tx[p].call = "approve" /\ tx[p] \in TxRecord
      /\ LocksKnown(tx[p], held[p]) /\ tx[p].pc \in {"releaseLimit", "unblock", "leg", "consumeLimit"} /\ LegsKnown(tx[p])
  BY RunningKnown DEF ConsumeLimit, At, CallKnown, Approving
<1>2. use \in Usage
  BY <1>1, RunningKnown, RowFacts, UsageTypes
<1>3. LockStep(p, UsageLock(s), t)
  BY <1>1, DecidingKnown DEF ConsumeLimit, LimitConsumable
<1>4. t \in TxRecord /\ t.pc = "commit" /\ t.call = "approve" /\ t.t = tx[p].t /\ t.row = tx[p].row /\ t.new = tx[p].new
      /\ t.use = use /\ t.todo = tx[p].todo /\ t.rows = tx[p].rows
  BY <1>1, <1>2 DEF TxRecord, InTransaction
<1>5. use = ConsumeUsage(usage[s], Total(tx[p].row)) /\ s = tx[p].row.side /\ s \in Side
  BY <1>1, RunningKnown
<1> HIDE DEF t, use, s
<1>6. /\ CallKnown(t) /\ RowKnown(t) /\ MovesKnown(t) /\ ReversalKnown(t) /\ KeyKnown(t)
      /\ OwnLocks(t) = {TradeLock(tx[p].t)} /\ t.pc \notin Unlocked
  BY <1>1, <1>4, DecidesOn DEF Approving
<1>7. FundsKnown(t) /\ UsageKnown(t)
  BY <1>1, <1>4, <1>5 DEF FundsKnown, UsageKnown, Commits
<1>8. LegsKnown(t)
  <2>1. \A b : Base(t, b) = Base(tx[p], b)
    BY <1>4 DEF Base
  <2> QED BY <1>1, <1>4, <2>1 DEF LegsKnown, Approving
<1>9. LocksKnown(t, held[p] \union {UsageLock(s)})
  <2>1. UsageLocked(t) /\ ~UsageLocked(tx[p]) /\ LockedAccounts(t) = Accounts /\ LockedAccounts(tx[p]) = Accounts
    BY <1>1, <1>4 DEF UsageLocked, LockedAccounts, Commits, HasApplied, Locking
  <2>2. TradeLock(tx[p].t) \in held[p] /\ tx[p].pc \notin Unlocked
    BY <1>1, DecidingKnown
  <2> QED BY <1>1, <1>4, <1>5, <1>6, <2>1, <2>2, UsageLocksGrow
<1>10. Known(t, held[p] \union {UsageLock(s)})
  BY <1>6, <1>7, <1>8, <1>9 DEF Known
<1> QED BY <1>1, <1>3, <1>4, <1>5, <1>6, <1>10, LockTypes, LockStepKeeps

----------------------------------------------------------------------------
(* The inductive invariant: reverseTrade, settleForwardTradeInCash, createLot *)

\* These calls reserve nothing.
LEMMA MovingKnown ==
  ASSUME NEW t, t.call \in {"reverse", "settle", "lot"}, t.pc \in {"read", "readFunds", "findEntries", "lockAccounts", "apply", "update", "commit"}
  PROVE  /\ LegsKnown(t) /\ FundsKnown(t) /\ UsageKnown(t) /\ KeyKnown(t) /\ ~UsageLocked(t) /\ ~Decides(t)
BY DEF LegsKnown, FundsKnown, UsageKnown, KeyKnown, UsageLocked, Decides, Commits, Approving, Deciding

LEMMA BeginUnlockedKeeps ==
  ASSUME IInv, NEW p \in Procs, NEW t \in Trades, NEW c \in {"reverse", "settle"}, NEW n \in Settlements \union {0},
         BeginUnlocked(p, t, c, n)
  PROVE  IInv'
<1> DEFINE u == Begun("read", c, t, NoTrade, n)
<1>1. u \in TxRecord
  BY NoTradeType, BegunType DEF InTransaction, Calls, Decisions
<1>2. u.pc = "read" /\ u.call = c /\ u.t = t /\ u.new = {}
  BY BegunFields
<1>3. trade[t].status # "none" /\ At(p, "idle") /\ Step(p, u)
  BY DEF BeginUnlocked
<1> HIDE DEF u
<1>4. /\ LegsKnown(u) /\ FundsKnown(u) /\ UsageKnown(u) /\ KeyKnown(u) /\ ~UsageLocked(u) /\ ~Decides(u)
  BY <1>2, MovingKnown
<1>5. CallKnown(u) /\ RowKnown(u) /\ LocksKnown(u, {}) /\ MovesKnown(u) /\ ReversalKnown(u)
  BY <1>2, <1>3, <1>4 DEF CallKnown, RowKnown, LocksKnown, MovesKnown, ReversalKnown, Commits, Creating, Deciding,
     Approving, Locking, AfterCommit, Unlocked, HasApplied
<1>6. Known(u, {})
  BY <1>4, <1>5 DEF Known
<1>7. \A q \in Procs \ {p} : tx[q].pc # "idle" => ~Alike(u, tx[q]) /\ ~Alike(tx[q], u)
  BY <1>2 DEF Alike
<1> QED BY <1>1, <1>3, <1>6, <1>7, BeginStep

LEMMA ReadTradeKeeps ==
  ASSUME IInv, NEW p \in Procs, ReadTrade(p)
  PROVE  IInv'
<1> DEFINE m == tx[p].t
           c == tx[p].call
           n == tx[p].pays
<1>1. /\ tx[p].pc = "read" /\ tx[p].pc # "idle" /\ c \in {"reverse", "settle"} /\ tx[p] \in TxRecord
      /\ held[p] = {} /\ tx[p].new = {} /\ m \in Trades
  BY RunningKnown DEF ReadTrade, At, CallKnown, IInv, LocksExclusive, Unlocked
<1>2. \/ End(p)
      \/ trade[m].status = "APPROVED" /\ c = "reverse" /\ m \in Forward /\ Step(p, [tx[p] EXCEPT !.pc = "update"])
      \/ trade[m].status = "APPROVED" /\ c = "reverse" /\ m \notin Forward /\ Step(p, [tx[p] EXCEPT !.pc = "findEntries"])
      \/ c = "settle" /\ m \in Forward /\ n = 0 /\ Step(p, [tx[p] EXCEPT !.pc = "update"])
      \/ c = "settle" /\ m \in Forward /\ n # 0 /\ Step(p, [tx[p] EXCEPT !.pc = "readFunds"])
  BY <1>1, Zenon DEF ReadTrade
<1>3. ASSUME trade[m].status = "APPROVED", c = "reverse", m \in Forward, Step(p, [tx[p] EXCEPT !.pc = "update"])
      PROVE  IInv'
  <2> DEFINE t == [tx[p] EXCEPT !.pc = "update"]
  <2>1. /\ t \in TxRecord /\ t.pc = "update" /\ t.call = "reverse" /\ t.t = m /\ t.new = {} /\ Step(p, t)
    BY <1>1, <1>3 DEF TxRecord, InTransaction
  <2> HIDE DEF t
  <2>2. /\ LegsKnown(t) /\ FundsKnown(t) /\ UsageKnown(t) /\ KeyKnown(t) /\ ~UsageLocked(t) /\ ~Decides(t)
    BY <2>1, MovingKnown
  <2>3. CallKnown(t) /\ RowKnown(t) /\ MovesKnown(t) /\ ReversalKnown(t)
    BY <1>3, <2>1, <2>2 DEF CallKnown, RowKnown, MovesKnown, ReversalKnown, Commits, Creating, Deciding,
       Approving, Locking, AfterCommit, HasApplied, Spot
  <2>4. LocksKnown(t, {})
    <3>1. OwnLocks(t) = {} /\ LockedAccounts(t) = {}
      BY <1>3, <2>1 DEF OwnLocks, LockedAccounts, Commits, HasApplied, Locking, Deciding, Approving, Spot
    <3> QED BY <2>2, <3>1 DEF LocksKnown
  <2>5. Known(t, held[p])
    BY <1>1, <2>2, <2>3, <2>4 DEF Known
  <2> QED BY <1>1, <1>3, <2>1, <2>5, StepKeeps
<1>4. ASSUME trade[m].status = "APPROVED", c = "reverse", m \notin Forward, Step(p, [tx[p] EXCEPT !.pc = "findEntries"])
      PROVE  IInv'
  <2> DEFINE t == [tx[p] EXCEPT !.pc = "findEntries"]
  <2>1. /\ t \in TxRecord /\ t.pc = "findEntries" /\ t.call = "reverse" /\ t.t = m /\ t.new = {} /\ Step(p, t)
    BY <1>1, <1>4 DEF TxRecord, InTransaction
  <2> HIDE DEF t
  <2>2. /\ LegsKnown(t) /\ FundsKnown(t) /\ UsageKnown(t) /\ KeyKnown(t) /\ ~UsageLocked(t) /\ ~Decides(t)
    BY <2>1, MovingKnown
  <2>3. CallKnown(t) /\ RowKnown(t) /\ MovesKnown(t) /\ ReversalKnown(t) /\ LocksKnown(t, {})
    BY <1>1, <1>4, <2>1, <2>2 DEF CallKnown, RowKnown, MovesKnown, ReversalKnown, LocksKnown, Commits, Creating, Deciding,
       Approving, Locking, AfterCommit, HasApplied, Spot, Unlocked
  <2>4. Known(t, held[p])
    BY <1>1, <2>2, <2>3 DEF Known
  <2> QED BY <1>1, <1>4, <2>1, <2>4, StepKeeps
<1>5. ASSUME c = "settle", m \in Forward, n = 0, Step(p, [tx[p] EXCEPT !.pc = "update"])
      PROVE  IInv'
  <2> DEFINE t == [tx[p] EXCEPT !.pc = "update"]
  <2>1. /\ t \in TxRecord /\ t.pc = "update" /\ t.call = "settle" /\ t.t = m /\ t.new = {} /\ Step(p, t) /\ t.pays = 0
    BY <1>1, <1>5 DEF TxRecord, InTransaction
  <2> HIDE DEF t
  <2>2. /\ LegsKnown(t) /\ FundsKnown(t) /\ UsageKnown(t) /\ KeyKnown(t) /\ ~UsageLocked(t) /\ ~Decides(t)
    BY <2>1, MovingKnown
  <2>3. CallKnown(t) /\ RowKnown(t) /\ MovesKnown(t) /\ ReversalKnown(t)
    BY <1>5, <2>1, <2>2 DEF CallKnown, RowKnown, MovesKnown, ReversalKnown, Commits, Creating, Deciding,
       Approving, Locking, AfterCommit, HasApplied, Spot
  <2>4. LocksKnown(t, {})
    <3>1. OwnLocks(t) = {} /\ LockedAccounts(t) = {}
      BY <1>5, <2>1 DEF OwnLocks, LockedAccounts, Commits, HasApplied, Locking, Deciding, Approving, Spot
    <3> QED BY <2>2, <3>1 DEF LocksKnown
  <2>5. Known(t, held[p])
    BY <1>1, <2>2, <2>3, <2>4 DEF Known
  <2>6. t.pc \notin Unlocked
    BY <2>1 DEF Unlocked, AfterCommit
  <2> QED BY <1>1, <1>5, <2>1, <2>5, <2>6, StepKeeps
<1>6. ASSUME c = "settle", m \in Forward, n # 0, Step(p, [tx[p] EXCEPT !.pc = "readFunds"])
      PROVE  IInv'
  <2> DEFINE t == [tx[p] EXCEPT !.pc = "readFunds"]
  <2>1. /\ t \in TxRecord /\ t.pc = "readFunds" /\ t.call = "settle" /\ t.t = m /\ t.new = {} /\ Step(p, t) /\ t.pays = n
    BY <1>1, <1>6 DEF TxRecord, InTransaction
  <2> HIDE DEF t
  <2>2. /\ LegsKnown(t) /\ FundsKnown(t) /\ UsageKnown(t) /\ KeyKnown(t) /\ ~UsageLocked(t) /\ ~Decides(t)
    BY <2>1, MovingKnown
  <2>3. CallKnown(t) /\ RowKnown(t) /\ MovesKnown(t) /\ ReversalKnown(t) /\ LocksKnown(t, {})
    BY <1>1, <1>6, <2>1, <2>2 DEF CallKnown, RowKnown, MovesKnown, ReversalKnown, LocksKnown, Commits, Creating, Deciding,
       Approving, Locking, AfterCommit, HasApplied, Unlocked
  <2>4. Known(t, held[p])
    BY <1>1, <2>2, <2>3 DEF Known
  <2> QED BY <1>1, <1>6, <2>1, <2>4, StepKeeps
<1> QED BY <1>2, <1>3, <1>4, <1>5, <1>6, EndKeeps

LEMMA ReadFundsKeeps ==
  ASSUME IInv, NEW p \in Procs, ReadFunds(p)
  PROVE  IInv'
<1> DEFINE t == [tx[p] EXCEPT !.pc = "lockAccounts", !.toLock = IRR]
<1>1. /\ tx[p].pc = "readFunds" /\ tx[p].pc # "idle" /\ tx[p].call = "settle" /\ tx[p] \in TxRecord
      /\ held[p] = {} /\ tx[p].new = {} /\ tx[p].t \in Forward /\ tx[p].pays # 0
  BY RunningKnown DEF ReadFunds, At, CallKnown, IInv, LocksExclusive, Unlocked, AfterCommit
<1>2. CASE End(p)
  BY <1>2, EndKeeps
<1>3. CASE Step(p, t)
  <2>1. /\ t \in TxRecord /\ t.pc = "lockAccounts" /\ t.call = "settle" /\ t.t = tx[p].t /\ t.new = {} /\ Step(p, t)
        /\ t.pays = tx[p].pays /\ t.toLock = IRR
    BY <1>1, <1>3 DEF TxRecord, InTransaction, IRR, Accounts
  <2> HIDE DEF t
  <2>2. /\ LegsKnown(t) /\ FundsKnown(t) /\ UsageKnown(t) /\ KeyKnown(t) /\ ~UsageLocked(t) /\ ~Decides(t)
    BY <2>1, MovingKnown
  <2>3. OwnLocks(t) = {} /\ LockedAccounts(t) = {}
    BY <2>1 DEF OwnLocks, LockedAccounts, Commits, HasApplied, Locking, Deciding, Approving, Moved
  <2>4. CallKnown(t) /\ RowKnown(t) /\ MovesKnown(t) /\ ReversalKnown(t)
    BY <1>1, <2>1, <2>2, <2>3 DEF CallKnown, RowKnown, MovesKnown, ReversalKnown, Commits, Creating, Deciding,
       Approving, Locking, AfterCommit, HasApplied, Moved
  <2>5. LocksKnown(t, {})
    BY <2>2, <2>3 DEF LocksKnown
  <2>6. Known(t, held[p])
    BY <1>1, <2>2, <2>4, <2>5 DEF Known
  <2>7. t.pc \notin Unlocked
    BY <2>1 DEF Unlocked, AfterCommit
  <2> QED BY <1>1, <2>1, <2>6, <2>7, StepKeeps
<1> QED BY <1>2, <1>3 DEF ReadFunds

\* The entry that reverseTrade adds on the account a.
UndoneLeg(r, a) == [account |-> a, delta |-> -Delta(r, a), reversal |-> TRUE]

LEMMA UndoneFacts ==
  ASSUME NEW r \in TradeRow, NEW a \in Accounts
  PROVE  /\ UndoneLeg(r, a) \in Entry /\ UndoneLeg(r, a).account = a /\ UndoneLeg(r, a).delta = -Delta(r, a)
         /\ UndoneLeg(r, a).reversal
<1>1. -Delta(r, a) \in Int
  BY RowFacts
<1>2. UndoneLeg(r, a).account = a /\ UndoneLeg(r, a).delta = -Delta(r, a) /\ UndoneLeg(r, a).reversal
  BY DEF UndoneLeg
<1>3. UndoneLeg(r, a) \in Entry
  BY <1>1 DEF UndoneLeg, Entry
<1> QED BY <1>2, <1>3

\* The legs of a trade and their reversals, as sets.
LEMMA LegSets ==
  ASSUME NEW r \in TradeRow
  PROVE  /\ LegEntries(r) = {Leg(r, a) : a \in Accounts} /\ LegEntries(r) \in SUBSET Entry
         /\ Undone(LegEntries(r)) = {UndoneLeg(r, a) : a \in Accounts} /\ Undone(LegEntries(r)) \in SUBSET Entry
         /\ LegEntries(r) # {} /\ {e.account : e \in LegEntries(r)} = Accounts
         /\ {e.account : e \in LegEntries(r) \union Undone(LegEntries(r))} = Accounts
<1>1. LegEntries(r) = {Leg(r, a) : a \in Accounts}
  BY DEF LegEntries, Leg
<1>2. Undone(LegEntries(r)) = {UndoneLeg(r, a) : a \in Accounts}
  <2>1. \A e : [account |-> e.account, delta |-> -e.delta, reversal |-> TRUE] \in Undone({e})
    BY DEF Undone
  <2>2. Undone(LegEntries(r)) = {[account |-> e.account, delta |-> -e.delta, reversal |-> TRUE] : e \in {Leg(r, a) : a \in Accounts}}
    BY <1>1 DEF Undone
  <2>3. \A a \in Accounts : [account |-> Leg(r, a).account, delta |-> -Leg(r, a).delta, reversal |-> TRUE] = UndoneLeg(r, a)
    BY LegFacts DEF UndoneLeg
  <2> QED BY <2>2, <2>3
<1>3. \A a \in Accounts : Leg(r, a) \in Entry /\ Leg(r, a).account = a /\ UndoneLeg(r, a) \in Entry /\ UndoneLeg(r, a).account = a
  BY LegFacts, UndoneFacts
<1>4. Accounts # {}
  BY DEF Accounts
<1>5. LegEntries(r) # {} /\ {e.account : e \in LegEntries(r)} = Accounts
  BY <1>1, <1>3, <1>4
<1>6. {e.account : e \in Undone(LegEntries(r))} = Accounts
  BY <1>2, <1>3
<1>7. {e.account : e \in LegEntries(r) \union Undone(LegEntries(r))} = Accounts
  BY <1>5, <1>6
<1> QED BY <1>1, <1>2, <1>3, <1>5, <1>7

LEMMA FindEntriesKeeps ==
  ASSUME IInv, NEW p \in Procs, FindEntries(p)
  PROVE  IInv'
<1> DEFINE m == tx[p].t
           es == entries[m]
           t == [tx[p] EXCEPT !.pc = "lockAccounts", !.new = es, !.toLock = Accounts]
<1>1. /\ tx[p].pc = "findEntries" /\ tx[p].pc # "idle" /\ tx[p].call = "reverse" /\ tx[p] \in TxRecord
      /\ held[p] = {} /\ m \in Trades /\ m \in Spot /\ RowKnown(tx[p]) /\ trade[m] \in TradeRow
  BY RunningKnown DEF FindEntries, At, CallKnown, IInv, LocksExclusive, Unlocked
<1>2. trade[m].status = "APPROVED" \/ trade[m].reversed
  BY <1>1 DEF RowKnown
<1>3. es = LegEntries(trade[m]) \/ (trade[m].reversed /\ es = LegEntries(trade[m]) \union Undone(LegEntries(trade[m])))
  BY <1>1, <1>2, ApprovedHolds
<1>4. es # {} /\ {e.account : e \in es} = Accounts /\ es \in SUBSET Entry
  BY <1>1, <1>3, LegSets
<1>5. Step(p, t)
  BY <1>4 DEF FindEntries
<1>6. /\ t \in TxRecord /\ t.pc = "lockAccounts" /\ t.call = "reverse" /\ t.t = m /\ t.new = es /\ t.toLock = Accounts
  BY <1>1, <1>4 DEF TxRecord, InTransaction
<1> HIDE DEF t, es
<1>7. /\ LegsKnown(t) /\ FundsKnown(t) /\ UsageKnown(t) /\ KeyKnown(t) /\ ~UsageLocked(t) /\ ~Decides(t)
  BY <1>6, MovingKnown
<1>8. OwnLocks(t) = {} /\ LockedAccounts(t) = {}
  BY <1>6 DEF OwnLocks, LockedAccounts, Commits, HasApplied, Locking, Deciding, Approving
<1>9. CallKnown(t) /\ RowKnown(t) /\ MovesKnown(t)
  BY <1>1, <1>2, <1>6, <1>7, <1>8 DEF CallKnown, RowKnown, MovesKnown, Commits, Creating, Deciding,
     Approving, Locking, AfterCommit, HasApplied
<1>10. ReversalKnown(t)
  BY <1>3, <1>6 DEF ReversalKnown, Locking, HasApplied, Commits
<1>11. LocksKnown(t, {})
  BY <1>7, <1>8 DEF LocksKnown
<1>12. Known(t, held[p])
  BY <1>1, <1>7, <1>9, <1>10, <1>11 DEF Known
<1>13. t.pc \notin Unlocked
  BY <1>6 DEF Unlocked, AfterCommit
<1> QED BY <1>1, <1>5, <1>6, <1>12, <1>13, StepKeeps

LEMMA BeginLotKeeps ==
  ASSUME IInv, NEW p \in Procs, BeginLot(p)
  PROVE  IInv'
<1>1. PICK m \in Trades : Step(p, [Begun("lockAccounts", "lot", m, NoTrade, 0) EXCEPT !.toLock = Gold])
  BY DEF BeginLot
<1> DEFINE b == Begun("lockAccounts", "lot", m, NoTrade, 0)
           u == [b EXCEPT !.toLock = Gold]
<1>2. b \in TxRecord
  BY NoTradeType, BegunType DEF InTransaction, Calls
<1>3. b.pc = "lockAccounts" /\ b.call = "lot" /\ b.t = m
  BY BegunFields
<1> HIDE DEF b
<1>4. u \in TxRecord /\ u.pc = "lockAccounts" /\ u.call = "lot" /\ u.t = m /\ u.toLock = Gold
  BY <1>2, <1>3 DEF TxRecord, Gold, Accounts
<1>5. Step(p, u) /\ At(p, "idle") /\ lots < MaxLots /\ \A q \in Procs : tx[q].pc # "idle" => tx[q].call # "lot"
  BY <1>1 DEF BeginLot, At, b
<1> HIDE DEF u
<1>6. /\ LegsKnown(u) /\ FundsKnown(u) /\ UsageKnown(u) /\ KeyKnown(u) /\ ~UsageLocked(u) /\ ~Decides(u)
  BY <1>4, MovingKnown
<1>7. OwnLocks(u) = {} /\ LockedAccounts(u) = {}
  BY <1>4 DEF OwnLocks, LockedAccounts, Commits, HasApplied, Locking, Deciding, Approving, Moved
<1>8. CallKnown(u) /\ RowKnown(u) /\ MovesKnown(u) /\ ReversalKnown(u)
  BY <1>4, <1>5, <1>6, <1>7 DEF CallKnown, RowKnown, MovesKnown, ReversalKnown, Commits, Creating, Deciding,
     Approving, Locking, AfterCommit, HasApplied, Moved
<1>9. LocksKnown(u, {})
  BY <1>6, <1>7 DEF LocksKnown
<1>10. Known(u, {})
  BY <1>6, <1>8, <1>9 DEF Known
<1>11. \A q \in Procs \ {p} : tx[q].pc # "idle" => ~Alike(u, tx[q]) /\ ~Alike(tx[q], u)
  BY <1>4, <1>5 DEF Alike
<1> QED BY <1>4, <1>5, <1>10, <1>11, BeginStep

LEMMA LockAccountsKeeps ==
  ASSUME IInv, NEW p \in Procs, LockAccounts(p)
  PROVE  IInv'
<1>1. PICK a \in tx[p].toLock :
        LET rest == tx[p].toLock \ {a} IN
        LockStep(p, AccountLock(a), [tx[p] EXCEPT !.rows[a] = account[a], !.toLock = rest,
                                      !.pc = IF rest = {} THEN "apply" ELSE "lockAccounts"])
  BY DEF LockAccounts
<1> DEFINE rest == tx[p].toLock \ {a}
           pc == IF rest = {} THEN "apply" ELSE "lockAccounts"
           l == AccountLock(a)
           all == IF tx[p].call = "reverse" THEN Accounts ELSE Moved(tx[p].call)
           t == [tx[p] EXCEPT !.rows[a] = account[a], !.toLock = rest, !.pc = pc]
<1>2. /\ tx[p].pc = "lockAccounts" /\ tx[p].pc # "idle" /\ tx[p] \in TxRecord /\ tx[p].pc \notin Unlocked
      /\ tx[p].pc \in Locking /\ tx[p].call \in {"reverse", "settle", "lot"}
      /\ CallKnown(tx[p]) /\ RowKnown(tx[p]) /\ LocksKnown(tx[p], held[p]) /\ MovesKnown(tx[p]) /\ ReversalKnown(tx[p])
      /\ tx[p].toLock \subseteq Accounts /\ tx[p].toLock \subseteq all /\ tx[p].rows \in [Accounts -> Account]
      /\ account \in [Accounts -> Account]
  BY RunningKnown, RunningRecord DEF LockAccounts, At, CallKnown, Locking, IInv, Unlocked, AfterCommit
<1>3. a \in Accounts /\ a \in all /\ l \in Locks /\ account[a] \in Account /\ pc \in {"lockAccounts", "apply"}
  BY <1>2, LockTypes
<1>4. LockStep(p, l, t)
  BY <1>1
<1>5. /\ t \in TxRecord /\ t.pc = pc /\ t.call = tx[p].call /\ t.t = tx[p].t /\ t.toLock = rest /\ t.new = tx[p].new
      /\ t.rows = [tx[p].rows EXCEPT ![a] = account[a]] /\ t.pays = tx[p].pays
  <2>1. [tx[p].rows EXCEPT ![a] = account[a]] \in [Accounts -> Account] /\ rest \in SUBSET Accounts /\ pc \in InTransaction
    BY <1>2, <1>3 DEF InTransaction
  <2> HIDE DEF pc, rest
  <2> QED BY <1>2, <2>1 DEF TxRecord
<1>6. rest = tx[p].toLock \ {a} /\ (pc = "apply" => rest = {}) /\ l = AccountLock(a)
      /\ all = IF tx[p].call = "reverse" THEN Accounts ELSE Moved(tx[p].call)
  OBVIOUS
<1> HIDE DEF t, rest, pc, l, all
<1>7. /\ LegsKnown(t) /\ FundsKnown(t) /\ UsageKnown(t) /\ KeyKnown(t) /\ ~UsageLocked(t) /\ ~Decides(t)
      /\ ~UsageLocked(tx[p]) /\ ~Decides(tx[p])
  BY <1>2, <1>3, <1>5, MovingKnown
<1>8. t.pc \in Locking /\ t.pc \notin Unlocked /\ ~HasApplied(t) /\ ~Commits(t, {"lot"})
  BY <1>3, <1>5 DEF Locking, Unlocked, AfterCommit, HasApplied, Commits
<1>9. CallKnown(t)
  <2>1. t.toLock \subseteq all
    BY <1>2, <1>5, <1>6
  <2> QED BY <1>2, <1>3, <1>5, <1>6, <2>1 DEF CallKnown, Locking, Creating, Deciding, Approving, AfterCommit
<1>10. RowKnown(t)
  BY <1>2, <1>3, <1>5, <1>7 DEF RowKnown
<1>11. ReversalKnown(t)
  BY <1>2, <1>5, <1>8 DEF ReversalKnown
<1>12. LockedAccounts(t) = all \ rest /\ LockedAccounts(tx[p]) = all \ tx[p].toLock
  BY <1>2, <1>3, <1>5, <1>6, <1>8 DEF LockedAccounts, Commits, HasApplied, Locking
<1>13. MovesKnown(t)
  <2>1. \A b \in LockedAccounts(tx[p]) : tx[p].rows[b] = account[b]
    BY <1>2 DEF MovesKnown
  <2>2. \A b \in LockedAccounts(t) : b = a \/ b \in LockedAccounts(tx[p])
    BY <1>6, <1>12
  <2>3. \A b \in LockedAccounts(t) : t.rows[b] = account[b]
    BY <1>2, <1>3, <1>5, <2>1, <2>2
  <2> QED BY <1>8, <2>3 DEF MovesKnown
<1>14. LocksKnown(t, held[p] \union {l})
  <2>1. OwnLocks(t) = {}
    BY <1>2, <1>3, <1>5 DEF OwnLocks, Deciding, Approving, Commits
  <2>2. (\A s \in Side : l # UsageLock(s)) /\ \A b \in Accounts : b \in LockedAccounts(t) <=> b \in LockedAccounts(tx[p]) \/ l = AccountLock(b)
    BY <1>3, <1>6, <1>12, LockKinds
  <2> QED BY <1>2, <1>7, <2>1, <2>2, LocksGrow
<1>15. Known(t, held[p] \union {l})
  BY <1>7, <1>9, <1>10, <1>11, <1>13, <1>14 DEF Known
<1> QED BY <1>2, <1>3, <1>4, <1>5, <1>8, <1>15, LockStepKeeps

\* A move is a number, and is there for the accounts it concerns.
LEMMA MoveFacts ==
  ASSUME NEW c, NEW n \in Int
  PROVE  /\ Moved(c) \subseteq Accounts /\ \A a \in Accounts : Move(c, n, a) \in Int
         /\ {[account |-> a, delta |-> Move(c, n, a), reversal |-> FALSE] : a \in Moved(c)} \in SUBSET Entry
<1>1. Moved(c) \subseteq Accounts
  BY DEF Moved, Gold, IRR, Accounts
<1>2. \A a \in Accounts : Move(c, n, a) \in Int
  BY DEF Move
<1>3. \A a \in Accounts : [account |-> a, delta |-> Move(c, n, a), reversal |-> FALSE] \in Entry
  BY <1>2 DEF Entry
<1> QED BY <1>1, <1>2, <1>3

LEMMA ApplyAllKeeps ==
  ASSUME IInv, NEW p \in Procs, ApplyAll(p)
  PROVE  IInv'
<1> DEFINE c == tx[p].call
           n == tx[p].pays
           pc == IF c = "lot" THEN "commit" ELSE "update"
           new == {[account |-> a, delta |-> Move(c, n, a), reversal |-> FALSE] : a \in Moved(c)}
           rows == [a \in Accounts |-> IF a \in Moved(c) THEN Apply(tx[p].rows[a], Move(c, n, a)) ELSE tx[p].rows[a]]
           t == [tx[p] EXCEPT !.pc = pc, !.rows = rows, !.new = new]
           can == \A a \in Moved(c) : CanApply(tx[p].rows[a], Move(c, n, a)) /\ (c = "lot" \/ EntryFree(tx[p].t, a, Move(c, n, a)))
<1>1. /\ tx[p].pc = "apply" /\ tx[p].pc # "idle" /\ tx[p] \in TxRecord /\ tx[p].pc \notin Unlocked
      /\ tx[p].pc \in Locking /\ c \in {"settle", "lot"} /\ tx[p].toLock = {} /\ n \in Int
      /\ CallKnown(tx[p]) /\ RowKnown(tx[p]) /\ LocksKnown(tx[p], held[p]) /\ MovesKnown(tx[p])
      /\ tx[p].rows \in [Accounts -> Account]
  BY RunningKnown, RunningRecord DEF ApplyAll, At, CallKnown, Locking, IInv, Unlocked, AfterCommit
<1>2. Moved(c) \subseteq Accounts /\ new \in SUBSET Entry /\ \A a \in Accounts : Move(c, n, a) \in Int
  BY <1>1, MoveFacts
<1>3. CASE ~can
  BY <1>3, EndKeeps DEF ApplyAll
<1>4. CASE can
  <2>1. Step(p, t)
    BY <1>4 DEF ApplyAll
  <2>2. rows \in [Accounts -> Account] /\ pc \in InTransaction
    <3>1. \A a \in Accounts : rows[a] \in Account
      BY <1>1, <1>2, LedgerTypes
    <3> QED BY <3>1 DEF InTransaction
  <2>3. \A a \in Moved(c) : rows[a] = Apply(tx[p].rows[a], Move(c, n, a))
    BY <1>2
  <2>4. can /\ new = {[account |-> a, delta |-> Move(c, n, a), reversal |-> FALSE] : a \in Moved(c)}
        /\ pc = IF c = "lot" THEN "commit" ELSE "update"
    BY <1>4
  <2>5. /\ t \in TxRecord /\ t.pc = pc /\ t.call = c /\ t.t = tx[p].t /\ t.new = new /\ t.rows = rows /\ t.pays = n
        /\ t.toLock = {}
    <3> HIDE DEF rows, new, pc
    <3> QED BY <1>1, <1>2, <2>2 DEF TxRecord
  <2> HIDE DEF t, rows, new, pc
  <2>6. /\ LegsKnown(t) /\ FundsKnown(t) /\ UsageKnown(t) /\ KeyKnown(t) /\ ~UsageLocked(t) /\ ~Decides(t)
        /\ ~UsageLocked(tx[p]) /\ ~Decides(tx[p])
    BY <1>1, <2>4, <2>5, MovingKnown
  <2>7. CallKnown(t) /\ RowKnown(t) /\ ReversalKnown(t)
    BY <1>1, <2>4, <2>5, <2>6 DEF CallKnown, RowKnown, ReversalKnown, Locking, Creating, Deciding, Approving, AfterCommit
  <2>8. MovesKnown(t)
    <3>1. LockedAccounts(tx[p]) = Moved(c)
      BY <1>1 DEF LockedAccounts, Commits, HasApplied, Locking
    <3>2. \A a \in Moved(c) : tx[p].rows[a] = account[a]
      BY <1>1, <3>1 DEF MovesKnown
    <3>3. \A a \in Moved(c) : /\ CanApply(account[a], Move(c, n, a)) /\ t.rows[a] = Apply(account[a], Move(c, n, a))
                              /\ c = "settle" => EntryFree(tx[p].t, a, Move(c, n, a))
      BY <2>3, <2>4, <2>5, <3>2
    <3>4. t.pc \notin Locking /\ t.pays = n /\ (c = "settle" => n # 0)
      BY <1>1, <2>4, <2>5 DEF Locking, CallKnown
    <3>5. t.new = MoveEntries(t)
      BY <2>4, <2>5 DEF MoveEntries
    <3> QED BY <1>1, <2>4, <2>5, <3>3, <3>4, <3>5 DEF MovesKnown, HasApplied, Commits
  <2>9. LocksKnown(t, held[p])
    <3>1. LockedAccounts(tx[p]) = Moved(c)
      BY <1>1 DEF LockedAccounts, Commits, HasApplied, Locking
    <3>2. LockedAccounts(t) = Moved(c) /\ OwnLocks(t) = {}
      <4>1. CASE c = "lot"
        BY <2>4, <2>5, <4>1 DEF LockedAccounts, Commits, HasApplied, Locking, Moved, OwnLocks, Deciding, Approving
      <4>2. CASE c = "settle"
        BY <1>1, <2>4, <2>5, <4>2 DEF LockedAccounts, Commits, HasApplied, Locking, Moved, OwnLocks, Deciding, Approving, CallKnown
      <4> QED BY <1>1, <4>1, <4>2
    <3> QED BY <1>1, <2>6, <3>1, <3>2 DEF LocksKnown
  <2>10. Known(t, held[p])
    BY <2>6, <2>7, <2>8, <2>9 DEF Known
  <2>11. t.pc \notin Unlocked
    BY <1>1, <2>4, <2>5 DEF Unlocked, AfterCommit
  <2> QED BY <1>1, <2>1, <2>5, <2>10, <2>11, StepKeeps
<1> QED BY <1>3, <1>4

LEMMA UpdateTradeKeeps ==
  ASSUME IInv, NEW p \in Procs, UpdateTrade(p)
  PROVE  IInv'
<1> DEFINE t == [tx[p] EXCEPT !.pc = "commit"]
           l == TradeLock(tx[p].t)
<1>1. /\ tx[p].pc = "update" /\ tx[p].pc # "idle" /\ tx[p] \in TxRecord /\ tx[p].pc \notin Unlocked
      /\ tx[p].call \in {"reverse", "settle"} /\ tx[p].t \in Trades
      /\ CallKnown(tx[p]) /\ RowKnown(tx[p]) /\ LocksKnown(tx[p], held[p]) /\ MovesKnown(tx[p]) /\ ReversalKnown(tx[p])
  BY RunningKnown DEF UpdateTrade, At, CallKnown, Unlocked, AfterCommit
<1>2. LockStep(p, l, t) /\ l \in Locks /\ l = TradeLock(tx[p].t)
  BY <1>1, LockTypes DEF UpdateTrade
<1>3. /\ t \in TxRecord /\ t.pc = "commit" /\ t.call = tx[p].call /\ t.t = tx[p].t /\ t.new = tx[p].new
      /\ t.rows = tx[p].rows /\ t.pays = tx[p].pays
  BY <1>1 DEF TxRecord, InTransaction
<1> HIDE DEF t, l
<1>4. /\ LegsKnown(t) /\ FundsKnown(t) /\ UsageKnown(t) /\ KeyKnown(t) /\ ~UsageLocked(t) /\ ~Decides(t)
      /\ ~UsageLocked(tx[p]) /\ ~Decides(tx[p])
  BY <1>1, <1>3, MovingKnown
<1>5. CallKnown(t) /\ RowKnown(t)
  BY <1>1, <1>3, <1>4 DEF CallKnown, RowKnown, Locking, Creating, Deciding, Approving, AfterCommit
<1>6. HasApplied(t) /\ HasApplied(tx[p]) /\ t.pc \notin Locking /\ ~Commits(t, {"lot"}) /\ ~Commits(tx[p], {"lot"})
  BY <1>1, <1>3 DEF HasApplied, Commits, Locking
<1>7. MovesKnown(t)
  <2>1. MoveEntries(t) = MoveEntries(tx[p])
    BY <1>3 DEF MoveEntries
  <2> QED BY <1>1, <1>3, <1>6, <2>1 DEF MovesKnown
<1>8. ReversalKnown(t)
  <2>1. /\ t.call = "reverse" /\ t.pc \in Locking =>
             t.new = LegEntries(trade[t.t]) \/ (trade[t.t].reversed /\ t.new = LegEntries(trade[t.t]) \union Undone(LegEntries(trade[t.t])))
    BY <1>6
  <2> QED BY <1>1, <1>3, <1>6, <2>1 DEF ReversalKnown
<1>9. LockedAccounts(t) = LockedAccounts(tx[p])
  <2>1. ~Commits(t, {"approve"}) /\ ~Commits(t, {"create", "reject", "cancel"}) /\ t.pc \notin {"leg", "consumeLimit"}
        /\ ~Commits(tx[p], {"approve"}) /\ ~Commits(tx[p], {"create", "reject", "cancel"})
        /\ tx[p].pc \notin {"leg", "consumeLimit"} /\ tx[p].pc \notin Locking
    BY <1>1, <1>3 DEF Commits, Locking
  <2> QED BY <1>1, <1>3, <1>6, <2>1 DEF LockedAccounts
<1>10. LocksKnown(t, held[p] \union {l})
  <2>1. OwnLocks(t) = {l}
    BY <1>1, <1>2, <1>3 DEF OwnLocks, Commits
  <2>2. (\A s \in Side : l # UsageLock(s)) /\ \A b \in Accounts : l # AccountLock(b)
    BY <1>2, LockKinds
  <2> QED BY <1>1, <1>4, <1>9, <2>1, <2>2, LocksGrow
<1>11. Known(t, held[p] \union {l})
  BY <1>4, <1>5, <1>7, <1>8, <1>10 DEF Known
<1>12. t.pc \notin Unlocked
  BY <1>3 DEF Unlocked, AfterCommit
<1> QED BY <1>1, <1>2, <1>3, <1>11, <1>12, LockStepKeeps

LEMMA FindVoucherKeeps ==
  ASSUME IInv, NEW p \in Procs, FindVoucher(p)
  PROVE  IInv'
<1> DEFINE t == [tx[p] EXCEPT !.pc = "enqueue"]
<1>1. /\ tx[p].pc = "findVoucher" /\ tx[p].pc # "idle" /\ tx[p].call \in {"approve", "settle"} /\ tx[p] \in TxRecord
      /\ held[p] = {}
  BY RunningKnown DEF FindVoucher, At, CallKnown, IInv, LocksExclusive, AfterCommit, Unlocked
<1>2. /\ t \in TxRecord /\ t.pc = "enqueue" /\ t.call = tx[p].call /\ t.t = tx[p].t
  BY <1>1 DEF TxRecord, AfterCommit
<1>3. End(p) \/ Step(p, t)
  BY DEF FindVoucher
<1> HIDE DEF t
<1>4. CallKnown(t) /\ RowKnown(t) /\ LocksKnown(t, {}) /\ LegsKnown(t) /\ FundsKnown(t)
  BY <1>1, <1>2 DEF CallKnown, RowKnown, LocksKnown, LegsKnown, FundsKnown, Decides, Commits, Creating, Deciding, Approving,
     Locking, AfterCommit, Unlocked
<1>5. MovesKnown(t) /\ ReversalKnown(t) /\ UsageKnown(t) /\ KeyKnown(t)
  BY <1>1, <1>2 DEF MovesKnown, ReversalKnown, UsageKnown, KeyKnown, Commits, HasApplied, Locking, UsageLocked
<1>6. Known(t, held[p])
  BY <1>1, <1>4, <1>5 DEF Known
<1> QED BY <1>1, <1>2, <1>3, <1>6, EndKeeps, StepKeeps

LEMMA EnqueueVoucherKeeps ==
  ASSUME IInv, NEW p \in Procs, EnqueueVoucher(p)
  PROVE  IInv'
<1>1. /\ tx[p].pc = "enqueue" /\ tx[p].pc # "idle" /\ tx[p].t \in Trades
  BY RunningKnown DEF EnqueueVoucher, At
<1>2. \A q \in Procs : /\ tx'[q] = IF q = p THEN Idle ELSE tx[q]
                       /\ held'[q] = IF q = p THEN {} ELSE held[q]
  BY DEF EnqueueVoucher, Finish, Leave, IInv, TypeOK
<1>3. UNCHANGED <<trade, hold, limitHold, account, usage, entries, lots>>
  BY DEF EnqueueVoucher
<1>4. LocksExclusive' /\ OneInserter'
  BY <1>2 DEF IInv, LocksExclusive, OneInserter, Idle
<1>5. TypeOK'
  <2>1. voucher' \in [Trades -> Nat]
    BY <1>1 DEF EnqueueVoucher, IInv, TypeOK
  <2>2. tx' \in [Procs -> TxRecord \union {Idle}] /\ held' \in [Procs -> SUBSET Locks]
    BY DEF EnqueueVoucher, Finish, Leave, IInv, TypeOK
  <2> QED BY <1>3, <2>1, <2>2 DEF IInv, TypeOK
<1>6. ASSUME NEW q \in Procs, tx'[q].pc # "idle" PROVE Known(tx[q], held[q])'
  <2>1. q # p /\ tx'[q] = tx[q] /\ held'[q] = held[q]
    BY <1>2, <1>6 DEF Idle
  <2>2. Known(tx[q], held[q])
    BY <1>6, <2>1 DEF IInv
  <2>3. ASSUME NEW t, NEW L PROVE Known(t, L)' <=> Known(t, L)
    BY <1>3, SameKnown
  <2> QED BY <2>1, <2>2, <2>3
<1>7. StatusMatchesEntries'
  BY <1>3 DEF IInv, StatusMatchesEntries, Story
<1>8. RowsKnown' /\ OneEntryPerSide' /\ NoOverdraft' /\ OneTradePerKey'
  BY <1>3 DEF IInv, RowsKnown, OneEntryPerSide, NoOverdraft, OneTradePerKey
<1> QED BY <1>4, <1>5, <1>6, <1>7, <1>8 DEF IInv

\* Of the entries it has read, a reversal undoes the legs, unless they have
\* been undone; that of an undone leg would break the unique index.
LEMMA ToReverse ==
  ASSUME IInv, NEW p \in Procs, tx[p].pc = "apply", tx[p].call = "reverse",
         NEW todo, todo = {e \in tx[p].new : ~ReversedBefore(tx[p].t, e)}
  PROVE  LET r == trade[tx[p].t] IN
         /\ tx[p].t \in Spot /\ r \in TradeRow
         /\ IF ~r.reversed THEN todo = LegEntries(r)
            ELSE todo = {} \/ (todo # {} /\ \A e \in todo : ~EntryFree(tx[p].t, e.account, -e.delta))
<1> DEFINE m == tx[p].t
           r == trade[m]
           legs == LegEntries(r)
<1>1. /\ tx[p].pc # "idle" /\ tx[p].pc \in Locking /\ m \in Spot /\ r \in TradeRow /\ m \in Trades
      /\ r.status = "APPROVED" \/ r.reversed
      /\ tx[p].new = legs \/ (r.reversed /\ tx[p].new = legs \union Undone(legs))
  BY RunningKnown DEF CallKnown, RowKnown, ReversalKnown, Locking
<1>2. /\ r.quantity \in Quantities
      /\ r.reversed => entries[m] = legs \union Undone(legs)
      /\ ~r.reversed => entries[m] = legs
  BY <1>1, ApprovedHolds
<1>3. legs = {Leg(r, a) : a \in Accounts} /\ Undone(legs) = {UndoneLeg(r, a) : a \in Accounts}
  BY <1>1, LegSets
<1>4. \A a \in Accounts : /\ Leg(r, a).account = a /\ Leg(r, a).delta = Delta(r, a) /\ ~Leg(r, a).reversal
                          /\ UndoneLeg(r, a).account = a /\ UndoneLeg(r, a).delta = -Delta(r, a) /\ UndoneLeg(r, a).reversal
                          /\ Delta(r, a) \in Int /\ Delta(r, a) # 0
  BY <1>1, <1>2, LegFacts, UndoneFacts, RowFacts
<1> HIDE DEF legs
<1>5. CASE ~r.reversed
  <2>1. \A f \in entries[m] : ~f.reversal
    BY <1>2, <1>3, <1>4, <1>5
  <2>2. todo = legs
    BY <1>1, <1>5, <2>1 DEF ReversedBefore
  <2> QED BY <1>1, <1>5, <2>2 DEF legs
<1>6. CASE r.reversed
  <2>1. ASSUME NEW a \in Accounts PROVE ReversedBefore(m, Leg(r, a))
    <3>1. UndoneLeg(r, a) \in entries[m]
      BY <1>2, <1>3, <1>6
    <3> QED BY <1>4, <3>1 DEF ReversedBefore
  <2>2. todo \subseteq Undone(legs)
    BY <1>1, <1>3, <2>1
  <2>3. ASSUME NEW e \in todo PROVE ~EntryFree(m, e.account, -e.delta)
    <3>1. PICK a \in Accounts : e = UndoneLeg(r, a)
      BY <1>3, <2>2
    <3>2. e.account = a /\ -e.delta = Delta(r, a)
      BY <1>4, <3>1
    <3>3. Leg(r, a) \in entries[m]
      BY <1>2, <1>3, <1>6
    <3>4. ~EntryFree(m, a, Delta(r, a))
      BY <1>4, <3>3 DEF EntryFree
    <3> QED BY <3>2, <3>4
  <2> QED BY <1>1, <1>6, <2>3
<1> QED BY <1>5, <1>6

LEMMA ReverseAllKeeps ==
  ASSUME IInv, NEW p \in Procs, ReverseAll(p)
  PROVE  IInv'
<1> DEFINE m == tx[p].t
           r == trade[m]
           todo == {e \in tx[p].new : ~ReversedBefore(m, e)}
           can == \A e \in todo : EntryFree(m, e.account, -e.delta) /\ CanApply(tx[p].rows[e.account], -e.delta)
           rows == [a \in Accounts |-> IF \E e \in todo : e.account = a
                      THEN Apply(tx[p].rows[a], -(CHOOSE e \in todo : e.account = a).delta) ELSE tx[p].rows[a]]
           new == {[account |-> e.account, delta |-> -e.delta, reversal |-> TRUE] : e \in todo}
           t == [tx[p] EXCEPT !.pc = "update", !.rows = rows, !.new = new]
<1>1. /\ tx[p].pc = "apply" /\ tx[p].pc # "idle" /\ tx[p] \in TxRecord /\ tx[p].pc \notin Unlocked
      /\ tx[p].pc \in Locking /\ tx[p].call = "reverse" /\ tx[p].toLock = {} /\ m \in Trades
      /\ CallKnown(tx[p]) /\ RowKnown(tx[p]) /\ LocksKnown(tx[p], held[p]) /\ MovesKnown(tx[p])
      /\ tx[p].rows \in [Accounts -> Account] /\ account \in [Accounts -> Account]
  BY RunningKnown, RunningRecord DEF ReverseAll, At, CallKnown, Locking, IInv, Unlocked, AfterCommit
<1>2. /\ m \in Spot /\ r \in TradeRow
      /\ IF ~r.reversed THEN todo = LegEntries(r)
         ELSE todo = {} \/ (todo # {} /\ \A e \in todo : ~EntryFree(m, e.account, -e.delta))
  BY <1>1, ToReverse
<1>3. CASE ~can
  BY <1>3, EndKeeps DEF ReverseAll
<1>4. CASE can
  <2>1. Step(p, t)
    BY <1>4 DEF ReverseAll
  <2>2. IF ~r.reversed THEN todo = LegEntries(r) ELSE todo = {}
    BY <1>2, <1>4
  <2>3. LockedAccounts(tx[p]) = Accounts
    BY <1>1 DEF LockedAccounts, Commits, HasApplied, Locking
  <2>4. \A a \in Accounts : tx[p].rows[a] = account[a]
    BY <1>1, <2>3 DEF MovesKnown
  <2>5. \A a \in Accounts : /\ Leg(r, a).account = a /\ Leg(r, a).delta = Delta(r, a)
                            /\ Delta(r, a) \in Int /\ -Delta(r, a) \in Int
    BY <1>2, LegFacts, RowFacts
  <2>6. ASSUME ~r.reversed, NEW a \in Accounts
        PROVE  CanApply(account[a], -Delta(r, a)) /\ rows[a] = Apply(account[a], -Delta(r, a))
    <3>1. todo = {Leg(r, b) : b \in Accounts}
      BY <1>2, <2>2, <2>6, LegSets
    <3>2. Leg(r, a) \in todo
      BY <3>1
    <3>3. \A e \in todo : e.account = a => e = Leg(r, a)
      BY <2>5, <3>1
    <3>4. (CHOOSE e \in todo : e.account = a) = Leg(r, a)
      <4> HIDE DEF todo
      <4> QED BY <2>5, <3>2, <3>3
    <3>5. CanApply(tx[p].rows[Leg(r, a).account], -Leg(r, a).delta)
      BY <1>4, <3>2
    <3>6. CanApply(account[a], -Delta(r, a))
      BY <2>4, <2>5, <3>5
    <3>7. rows[a] = Apply(tx[p].rows[a], -Leg(r, a).delta)
      <4>1. \E e \in todo : e.account = a
        BY <2>5, <3>2
      <4> HIDE DEF todo
      <4> QED BY <3>4, <4>1
    <3> QED BY <2>4, <2>5, <3>6, <3>7
  <2>7. ASSUME r.reversed, NEW a \in Accounts PROVE rows[a] = account[a]
    BY <2>2, <2>4, <2>7
  <2>8. rows \in [Accounts -> Account]
    <3>1. ASSUME NEW a \in Accounts PROVE rows[a] \in Account
      <4>1. account[a] \in Account
        BY <1>1
      <4>2. Apply(account[a], -Delta(r, a)) \in Account
        BY <2>5, <4>1, LedgerTypes
      <4> HIDE DEF rows
      <4> QED BY <2>6, <2>7, <4>1, <4>2
    <3> QED BY <3>1
  <2>9. new = Undone(todo)
    BY DEF Undone
  <2>10. new \in SUBSET Entry /\ new = IF r.reversed THEN {} ELSE Undone(LegEntries(r))
    <3>1. Undone({}) = {}
      BY DEF Undone
    <3> HIDE DEF new, todo
    <3> QED BY <1>2, <2>2, <2>9, <3>1, LegSets
  <2>11. /\ t \in TxRecord /\ t.pc = "update" /\ t.call = "reverse" /\ t.t = m /\ t.new = new /\ t.rows = rows
    <3>1. "update" \in InTransaction
      BY DEF InTransaction
    <3> HIDE DEF rows, new
    <3> QED BY <1>1, <2>8, <2>10, <3>1 DEF TxRecord
  <2> HIDE DEF t, rows, new, todo
  <2>12. /\ LegsKnown(t) /\ FundsKnown(t) /\ UsageKnown(t) /\ KeyKnown(t) /\ ~UsageLocked(t) /\ ~Decides(t)
         /\ ~UsageLocked(tx[p])
    BY <1>1, <2>11, MovingKnown
  <2>13. CallKnown(t) /\ RowKnown(t) /\ MovesKnown(t)
    BY <1>1, <2>11, <2>12 DEF CallKnown, RowKnown, MovesKnown, Locking, Creating, Deciding, Approving, AfterCommit,
       HasApplied, Commits
  <2>14. ReversalKnown(t)
    BY <1>2, <2>6, <2>7, <2>10, <2>11 DEF ReversalKnown, Locking, Spot
  <2>15. LocksKnown(t, held[p])
    <3>1. LockedAccounts(t) = Accounts /\ OwnLocks(t) = {}
      BY <1>2, <2>11 DEF LockedAccounts, Commits, HasApplied, Locking, OwnLocks, Deciding, Approving
    <3> QED BY <1>1, <2>3, <2>12, <3>1 DEF LocksKnown
  <2>16. Known(t, held[p])
    BY <2>12, <2>13, <2>14, <2>15 DEF Known
  <2>17. t.pc \notin Unlocked
    BY <2>11 DEF Unlocked, AfterCommit
  <2> QED BY <1>1, <2>1, <2>11, <2>16, <2>17, StepKeeps
<1> QED BY <1>3, <1>4

----------------------------------------------------------------------------
(* The inductive invariant: commits *)

Decision == {"approve", "reject", "cancel"}

\* Who commits.
LEMMA CommitKnown ==
  ASSUME IInv, NEW p \in Procs, Commit(p)
  PROVE  /\ tx[p].pc = "commit" /\ tx[p].pc # "idle" /\ tx[p].pc \notin Unlocked /\ tx[p].t \in Trades
         /\ tx[p].call \in {"create", "approve", "reject", "cancel", "reverse", "settle", "lot"}
         /\ trade[tx[p].t] \in TradeRow /\ tx[p].row \in TradeRow /\ tx[p].pays \in Int /\ account \in [Accounts -> Account]
         /\ tx[p].call = "create" =>
              /\ tx[p].t \in Spot /\ trade[tx[p].t].status = "none" /\ tx[p].row.quantity \in Quantities
              /\ ~tx[p].row.reversed /\ ~UsedKey(tx[p].row.key)
         /\ tx[p].call \in Decision =>
              /\ tx[p].t \in Spot /\ trade[tx[p].t].status = "PENDING" /\ tx[p].row = trade[tx[p].t]
              /\ TradeLock(tx[p].t) \in held[p]
         /\ tx[p].call = "reverse" /\ tx[p].t \in Spot => trade[tx[p].t].status = "APPROVED" \/ trade[tx[p].t].reversed
         /\ tx[p].call = "settle" => tx[p].t \in Forward
         /\ tx[p].call = "lot" => lots < MaxLots
<1>1. tx[p].pc = "commit" /\ tx[p].pc # "idle" /\ tx[p].pc \notin Unlocked
  BY DEF Commit, At, Unlocked, AfterCommit
<1>2. /\ tx[p].t \in Trades /\ trade[tx[p].t] \in TradeRow /\ tx[p].row \in TradeRow /\ tx[p].pays \in Int
      /\ tx[p].call \in {"create", "approve", "reject", "cancel", "reverse", "settle", "lot"}
      /\ account \in [Accounts -> Account]
  BY <1>1, RunningKnown, RunningRecord DEF IInv, Calls, Decisions
<1>3. tx[p].call = "create" =>
        /\ tx[p].t \in Spot /\ trade[tx[p].t].status = "none" /\ tx[p].row.quantity \in Quantities
        /\ ~tx[p].row.reversed /\ ~UsedKey(tx[p].row.key)
  BY <1>1, RunningKnown DEF CallKnown, RowKnown, KeyKnown
<1>4. tx[p].call \in Decision =>
        /\ tx[p].t \in Spot /\ trade[tx[p].t].status = "PENDING" /\ tx[p].row = trade[tx[p].t]
        /\ TradeLock(tx[p].t) \in held[p]
  <2>1. tx[p].call \in Decision => Decides(tx[p]) /\ OwnLocks(tx[p]) = {TradeLock(tx[p].t)}
    BY <1>1 DEF Decision, Decides, Commits, OwnLocks
  <2> QED BY <1>1, <2>1, RunningKnown DEF RowKnown, LocksKnown
<1>5. tx[p].call = "reverse" /\ tx[p].t \in Spot => trade[tx[p].t].status = "APPROVED" \/ trade[tx[p].t].reversed
  BY <1>1, RunningKnown DEF RowKnown
<1>6. tx[p].call = "settle" => tx[p].t \in Forward
  BY <1>1, RunningKnown DEF CallKnown, AfterCommit
<1>7. tx[p].call = "lot" => lots < MaxLots
  BY <1>1, RunningKnown DEF RowKnown
<1> QED BY <1>1, <1>2, <1>3, <1>4, <1>5, <1>6, <1>7

\* The entries it adds.
LEMMA CommitNew ==
  ASSUME IInv, NEW p \in Procs, Commit(p)
  PROVE  /\ tx[p].new \in SUBSET Entry
         /\ tx[p].call \in {"create", "reject", "cancel"} => tx[p].new = {}
         /\ tx[p].call = "approve" => tx[p].new = LegEntries(trade[tx[p].t])
         /\ tx[p].call = "reverse" /\ tx[p].t \in Spot =>
              tx[p].new = IF trade[tx[p].t].reversed THEN {} ELSE Undone(LegEntries(trade[tx[p].t]))
         /\ tx[p].call = "reverse" /\ tx[p].t \in Forward => tx[p].new = {}
         /\ tx[p].call = "settle" => /\ tx[p].pays = 0 => tx[p].new = {}
                                     /\ tx[p].pays # 0 => /\ tx[p].new = MoveEntries(tx[p])
                                                          /\ \A a \in IRR : EntryFree(tx[p].t, a, Move("settle", tx[p].pays, a))
<1>1. /\ tx[p].pc = "commit" /\ tx[p].pc # "idle" /\ tx[p].t \in Trades
      /\ tx[p].call \in Decision => tx[p].row = trade[tx[p].t]
  BY CommitKnown
<1>2. /\ LegsKnown(tx[p]) /\ FundsKnown(tx[p]) /\ MovesKnown(tx[p]) /\ ReversalKnown(tx[p]) /\ tx[p].new \in SUBSET Entry
  BY <1>1, RunningKnown, RunningRecord DEF IInv
<1>3. tx[p].call \in {"create", "reject", "cancel"} => tx[p].new = {}
  BY <1>1, <1>2 DEF FundsKnown, Commits
<1>4. tx[p].call = "approve" => tx[p].new = LegEntries(trade[tx[p].t])
  <2>1. tx[p].call = "approve" => tx[p].todo = {} /\ tx[p].row = trade[tx[p].t]
    BY <1>1, <1>2 DEF LegsKnown, Commits, Decision
  <2>2. tx[p].call = "approve" =>
          tx[p].new = {[account |-> a, delta |-> Delta(tx[p].row, a), reversal |-> FALSE] : a \in Accounts \ tx[p].todo}
    BY <1>1, <1>2 DEF LegsKnown, Commits
  <2> QED BY <2>1, <2>2 DEF LegEntries
<1>5. HasApplied(tx[p]) <=> tx[p].call \in {"reverse", "settle"}
  BY <1>1 DEF HasApplied, Commits
<1>6. tx[p].call = "reverse" /\ tx[p].t \in Spot =>
        tx[p].new = IF trade[tx[p].t].reversed THEN {} ELSE Undone(LegEntries(trade[tx[p].t]))
  BY <1>2, <1>5 DEF ReversalKnown, Spot
<1>7. tx[p].call = "reverse" /\ tx[p].t \in Forward => tx[p].new = {}
  BY <1>2, <1>5 DEF ReversalKnown
<1>8. tx[p].call = "settle" => /\ tx[p].pays = 0 => tx[p].new = {}
                               /\ tx[p].pays # 0 => /\ tx[p].new = MoveEntries(tx[p])
                                                    /\ \A a \in IRR : EntryFree(tx[p].t, a, Move("settle", tx[p].pays, a))
  BY <1>2, <1>5 DEF MovesKnown, Moved
<1> QED BY <1>2, <1>3, <1>4, <1>6, <1>7, <1>8

\* The accounts it has locked.
LEMMA CommitLocks ==
  ASSUME IInv, NEW p \in Procs, Commit(p)
  PROVE  /\ \A a \in Accounts : AccountLock(a) \in held[p] <=>
              CASE tx[p].call = "approve" -> TRUE
                [] tx[p].call \in {"create", "reject", "cancel"} -> a = Payer(tx[p].row)
                [] tx[p].call = "reverse" -> tx[p].t \in Spot
                [] tx[p].call = "settle" -> tx[p].pays # 0 /\ a \in IRR
                [] tx[p].call = "lot" -> a \in Gold
         /\ \A s \in Side : UsageLock(s) \in held[p] <=> tx[p].call \in {"create"} \union Decision /\ s = tx[p].row.side
         /\ tx[p].call = "create" /\ tx[p].row.key # NoKey => KeyLock(tx[p].row.key) \in held[p]
<1>1. /\ tx[p].pc = "commit" /\ tx[p].pc # "idle" /\ tx[p].pc \notin Unlocked /\ LocksKnown(tx[p], held[p])
      /\ tx[p].call \in {"create", "approve", "reject", "cancel", "reverse", "settle", "lot"}
  BY CommitKnown, RunningKnown
<1>2. UsageLocked(tx[p]) <=> tx[p].call \in {"create"} \union Decision
  BY <1>1 DEF UsageLocked, Commits, Decision
<1>3. LockedAccounts(tx[p]) =
        IF tx[p].call = "approve" THEN Accounts
        ELSE IF tx[p].call \in {"create", "reject", "cancel"} THEN {Payer(tx[p].row)}
        ELSE IF tx[p].call = "reverse" THEN (IF tx[p].t \in Spot THEN Accounts ELSE {})
        ELSE IF tx[p].call = "settle" THEN (IF tx[p].pays # 0 THEN IRR ELSE {})
        ELSE Gold
  BY <1>1 DEF LockedAccounts, Commits, HasApplied, Locking
<1>4. \A a \in Accounts : AccountLock(a) \in held[p] <=> a \in LockedAccounts(tx[p])
  BY <1>1 DEF LocksKnown
<1>5. \A s \in Side : UsageLock(s) \in held[p] <=> UsageLocked(tx[p]) /\ s = tx[p].row.side
  BY <1>1 DEF LocksKnown
<1>6. tx[p].call = "create" /\ tx[p].row.key # NoKey => KeyLock(tx[p].row.key) \in held[p]
  <2>1. OwnLocks(tx[p]) \subseteq held[p]
    BY <1>1 DEF LocksKnown
  <2> QED BY <2>1, LockKinds DEF OwnLocks
<1>7. ASSUME NEW a \in Accounts
      PROVE  AccountLock(a) \in held[p] <=>
              CASE tx[p].call = "approve" -> TRUE
                [] tx[p].call \in {"create", "reject", "cancel"} -> a = Payer(tx[p].row)
                [] tx[p].call = "reverse" -> tx[p].t \in Spot
                [] tx[p].call = "settle" -> tx[p].pays # 0 /\ a \in IRR
                [] tx[p].call = "lot" -> a \in Gold
  <2>1. CASE tx[p].call = "approve"
    BY <1>3, <1>4, <2>1
  <2>2. CASE tx[p].call \in {"create", "reject", "cancel"}
    BY <1>3, <1>4, <2>2
  <2>3. CASE tx[p].call = "reverse"
    BY <1>3, <1>4, <2>3
  <2>4. CASE tx[p].call = "settle"
    BY <1>3, <1>4, <2>4
  <2>5. CASE tx[p].call = "lot"
    BY <1>3, <1>4, <2>5
  <2> QED BY <1>1, <2>1, <2>2, <2>3, <2>4, <2>5
<1> QED BY <1>2, <1>5, <1>6, <1>7

\* What the commit of t brings to the balance of the account a, and what it
\* adds to what is blocked there.
Gained(t, a) ==
  CASE t.call = "approve" -> Delta(t.row, a)
    [] t.call = "reverse" -> IF t.t \in Spot /\ ~trade[t.t].reversed THEN -Delta(trade[t.t], a) ELSE 0
    [] t.call = "settle" -> IF t.pays # 0 /\ a \in IRR THEN Move("settle", t.pays, a) ELSE 0
    [] t.call = "lot" -> IF a \in Gold THEN 1 ELSE 0
    [] OTHER -> 0
Blocking(t, a) ==
  IF a # Payer(t.row) THEN 0 ELSE IF t.call = "create" THEN Blocks(t.row) ELSE IF t.call \in Decision THEN -Blocks(t.row) ELSE 0

\* The accounts it commits.
LEMMA CommitAccount ==
  ASSUME IInv, NEW p \in Procs, Commit(p), NEW a \in Accounts
  PROVE  /\ account'[a] \in Account /\ UsableCapacity(account'[a]) >= 0
         /\ AccountLock(a) \notin held[p] => account'[a] = account[a]
         /\ Gained(tx[p], a) \in Int /\ Blocking(tx[p], a) \in Int
         /\ account'[a].balance = account[a].balance + Gained(tx[p], a)
         /\ account'[a].blocked = account[a].blocked + Blocking(tx[p], a)
<1> DEFINE c == tx[p].call
           n == Blocks(tx[p].row)
           row == account[a]
<1>1. /\ tx[p].pc = "commit" /\ tx[p].pc # "idle" /\ tx[p].pays \in Int /\ row \in Account
      /\ trade[tx[p].t] \in TradeRow /\ tx[p].row \in TradeRow
      /\ c \in {"create", "approve", "reject", "cancel", "reverse", "settle", "lot"}
  BY CommitKnown
<1>2. /\ LegsKnown(tx[p]) /\ FundsKnown(tx[p]) /\ MovesKnown(tx[p]) /\ ReversalKnown(tx[p]) /\ CallKnown(tx[p])
  BY <1>1, RunningKnown
<1>3. account'[a] = IF AccountLock(a) \in held[p] THEN tx[p].rows[a] ELSE row
  BY DEF Commit, Seen
<1>4. /\ AccountLock(a) \in held[p] <=>
              CASE c = "approve" -> TRUE
                [] c \in {"create", "reject", "cancel"} -> a = Payer(tx[p].row)
                [] c = "reverse" -> tx[p].t \in Spot
                [] c = "settle" -> tx[p].pays # 0 /\ a \in IRR
                [] c = "lot" -> a \in Gold
  BY CommitLocks
<1>5. /\ Delta(tx[p].row, a) \in Int /\ -Delta(trade[tx[p].t], a) \in Int /\ n \in Nat /\ n \in Int /\ -n \in Int
      /\ Payer(tx[p].row) \in Accounts /\ Delta(tx[p].row, Payer(tx[p].row)) = -n
  BY <1>1, RowFacts
<1>6. row.balance \in Int /\ row.blocked \in Int /\ UsableCapacity(row) \in Int /\ UsableCapacity(row) >= 0
  BY <1>1, LedgerFacts DEF IInv, NoOverdraft
<1>7. ASSUME account'[a] = row, Gained(tx[p], a) = 0, Blocking(tx[p], a) = 0
      PROVE  /\ account'[a] \in Account /\ UsableCapacity(account'[a]) >= 0
             /\ Gained(tx[p], a) \in Int /\ Blocking(tx[p], a) \in Int
             /\ account'[a].balance = row.balance + Gained(tx[p], a)
             /\ account'[a].blocked = row.blocked + Blocking(tx[p], a)
  BY <1>1, <1>6, <1>7
<1>8. ASSUME NEW d \in Int, account'[a] = Apply(row, d), CanApply(row, d), Gained(tx[p], a) = d, Blocking(tx[p], a) = 0
      PROVE  /\ account'[a] \in Account /\ UsableCapacity(account'[a]) >= 0
             /\ Gained(tx[p], a) \in Int /\ Blocking(tx[p], a) \in Int
             /\ account'[a].balance = row.balance + Gained(tx[p], a)
             /\ account'[a].blocked = row.blocked + Blocking(tx[p], a)
  <2>1. /\ Apply(row, d).balance = row.balance + d /\ Apply(row, d).blocked = row.blocked /\ Apply(row, d) \in Account
        /\ UsableCapacity(Apply(row, d)) = UsableCapacity(row) + d /\ UsableCapacity(row) + d >= 0
    BY <1>1, <1>8, LedgerFacts, LedgerTypes
  <2> QED BY <1>6, <1>8, <2>1
<1>9. CASE c = "create"
  <2>1. CASE a = Payer(tx[p].row)
    <3>1. account'[a] = Reserve(row, n) /\ CanReserve(row, n) /\ Gained(tx[p], a) = 0 /\ Blocking(tx[p], a) = n
      BY <1>1, <1>2, <1>3, <1>4, <1>9, <2>1 DEF FundsKnown, Commits, Gained, Blocking
    <3>2. /\ Reserve(row, n).balance = row.balance /\ Reserve(row, n).blocked = row.blocked + n
          /\ UsableCapacity(Reserve(row, n)) = UsableCapacity(row) - n /\ UsableCapacity(row) >= n /\ Reserve(row, n) \in Account
      BY <1>1, <1>5, <3>1, LedgerFacts, LedgerTypes
    <3>3. AccountLock(a) \in held[p]
      BY <1>4, <1>9, <2>1
    <3> QED BY <1>5, <1>6, <3>1, <3>2, <3>3
  <2>2. CASE a # Payer(tx[p].row)
    <3>1. account'[a] = row /\ Gained(tx[p], a) = 0 /\ Blocking(tx[p], a) = 0
      BY <1>3, <1>4, <1>9, <2>2 DEF Gained, Blocking
    <3> QED BY <1>7, <3>1
  <2> QED BY <2>1, <2>2
<1>10. CASE c \in {"reject", "cancel"}
  <2>1. CASE a = Payer(tx[p].row)
    <3>1. account'[a] = Unblock(row, n) /\ Gained(tx[p], a) = 0 /\ Blocking(tx[p], a) = -n
      BY <1>1, <1>2, <1>3, <1>4, <1>10, <2>1 DEF FundsKnown, Commits, Gained, Blocking, Decision
    <3>2. /\ Unblock(row, n).balance = row.balance /\ Unblock(row, n).blocked = row.blocked - n
          /\ UsableCapacity(Unblock(row, n)) = UsableCapacity(row) + n /\ Unblock(row, n) \in Account
      BY <1>1, <1>5, LedgerFacts, LedgerTypes
    <3>3. AccountLock(a) \in held[p]
      BY <1>4, <1>10, <2>1
    <3> QED BY <1>5, <1>6, <3>1, <3>2, <3>3
  <2>2. CASE a # Payer(tx[p].row)
    <3>1. account'[a] = row /\ Gained(tx[p], a) = 0 /\ Blocking(tx[p], a) = 0
      BY <1>3, <1>4, <1>10, <2>2 DEF Gained, Blocking
    <3> QED BY <1>7, <3>1
  <2> QED BY <2>1, <2>2
<1>11. CASE c = "approve"
  <2>1. /\ account'[a] = tx[p].rows[a] /\ AccountLock(a) \in held[p] /\ Gained(tx[p], a) = Delta(tx[p].row, a)
        /\ Commits(tx[p], {"approve"})
    BY <1>1, <1>3, <1>4, <1>11 DEF Gained, Commits
  <2>2. CanApply(Base(tx[p], a), Delta(tx[p].row, a)) /\ tx[p].rows[a] = Apply(Base(tx[p], a), Delta(tx[p].row, a))
    <3>1. tx[p].todo = {}
      BY <1>2, <2>1 DEF LegsKnown
    <3> QED BY <1>2, <2>1, <3>1 DEF LegsKnown
  <2>3. CASE a = Payer(tx[p].row)
    <3>1. account'[a] = Apply(Unblock(row, n), -n) /\ Gained(tx[p], a) = -n /\ Blocking(tx[p], a) = -n
      BY <1>5, <1>11, <2>1, <2>2, <2>3 DEF Base, Blocking, Decision
    <3>2. /\ Apply(Unblock(row, n), -n) \in Account /\ Apply(Unblock(row, n), -n).balance = row.balance - n
          /\ Apply(Unblock(row, n), -n).blocked = row.blocked - n
          /\ UsableCapacity(Apply(Unblock(row, n), -n)) = UsableCapacity(row)
      BY <1>1, <1>5, PaidFacts
    <3> QED BY <1>5, <1>6, <2>1, <3>1, <3>2
  <2>4. CASE a # Payer(tx[p].row)
    <3>1. /\ account'[a] = Apply(row, Delta(tx[p].row, a)) /\ CanApply(row, Delta(tx[p].row, a)) /\ Blocking(tx[p], a) = 0
      BY <2>1, <2>2, <2>4 DEF Base, Blocking
    <3> QED BY <1>5, <1>8, <2>1, <3>1
  <2> QED BY <2>3, <2>4
<1>12. CASE c = "reverse"
  <2>1. Blocking(tx[p], a) = 0 /\ HasApplied(tx[p])
    BY <1>1, <1>12 DEF Blocking, HasApplied, Commits, Decision
  <2>2. CASE tx[p].t \in Spot /\ ~trade[tx[p].t].reversed
    <3>1. Gained(tx[p], a) = -Delta(trade[tx[p].t], a) /\ account'[a] = tx[p].rows[a] /\ AccountLock(a) \in held[p]
      BY <1>3, <1>4, <1>12, <2>2 DEF Gained
    <3>2. CanApply(row, -Delta(trade[tx[p].t], a)) /\ tx[p].rows[a] = Apply(row, -Delta(trade[tx[p].t], a))
      BY <1>2, <1>12, <2>1, <2>2 DEF ReversalKnown, Spot
    <3> QED BY <1>5, <1>8, <2>1, <3>1, <3>2
  <2>3. CASE tx[p].t \in Spot /\ trade[tx[p].t].reversed
    <3>1. Gained(tx[p], a) = 0 /\ account'[a] = tx[p].rows[a] /\ AccountLock(a) \in held[p]
      BY <1>3, <1>4, <1>12, <2>3 DEF Gained
    <3>2. tx[p].rows[a] = row
      BY <1>2, <1>12, <2>1, <2>3 DEF ReversalKnown, Spot
    <3> QED BY <1>7, <2>1, <3>1, <3>2
  <2>4. CASE tx[p].t \notin Spot
    <3>1. Gained(tx[p], a) = 0 /\ account'[a] = row
      BY <1>3, <1>4, <1>12, <2>4 DEF Gained
    <3> QED BY <1>7, <2>1, <3>1
  <2> QED BY <2>2, <2>3, <2>4
<1>13. CASE c = "settle"
  <2>1. Blocking(tx[p], a) = 0 /\ HasApplied(tx[p])
    BY <1>1, <1>13 DEF Blocking, HasApplied, Commits, Decision
  <2>2. CASE tx[p].pays # 0 /\ a \in IRR
    <3> DEFINE d == Move("settle", tx[p].pays, a)
    <3>1. d \in Int
      BY <1>1, MoveFacts
    <3>2. Gained(tx[p], a) = d /\ account'[a] = tx[p].rows[a] /\ AccountLock(a) \in held[p]
      BY <1>3, <1>4, <1>13, <2>2 DEF Gained
    <3>3. CanApply(row, d) /\ tx[p].rows[a] = Apply(row, d)
      BY <1>2, <1>13, <2>1, <2>2 DEF MovesKnown, Moved
    <3> HIDE DEF d
    <3> QED BY <1>8, <2>1, <3>1, <3>2, <3>3
  <2>3. CASE ~(tx[p].pays # 0 /\ a \in IRR)
    <3>1. Gained(tx[p], a) = 0 /\ account'[a] = row
      BY <1>3, <1>4, <1>13, <2>3 DEF Gained
    <3> QED BY <1>7, <2>1, <3>1
  <2> QED BY <2>2, <2>3
<1>14. CASE c = "lot"
  <2>1. Blocking(tx[p], a) = 0 /\ Commits(tx[p], {"lot"})
    BY <1>1, <1>14 DEF Blocking, Commits, Decision
  <2>2. CASE a \in Gold
    <3>1. Gained(tx[p], a) = 1 /\ account'[a] = tx[p].rows[a] /\ AccountLock(a) \in held[p]
      BY <1>3, <1>4, <1>14, <2>2 DEF Gained
    <3>2. CanApply(row, 1) /\ tx[p].rows[a] = Apply(row, 1)
      BY <1>2, <1>14, <2>1, <2>2 DEF MovesKnown, Moved, Move
    <3> QED BY <1>8, <2>1, <3>1, <3>2
  <2>3. CASE a \notin Gold
    <3>1. Gained(tx[p], a) = 0 /\ account'[a] = row
      BY <1>3, <1>4, <1>14, <2>3 DEF Gained
    <3> QED BY <1>7, <2>1, <3>1
  <2> QED BY <2>2, <2>3
<1> QED BY <1>1, <1>3, <1>9, <1>10, <1>11, <1>12, <1>13, <1>14

\* A row with another status.
LEMMA StatusChange ==
  ASSUME NEW r \in TradeRow, NEW s \in TradeStatus, NEW q, q = [r EXCEPT !.status = s]
  PROVE  /\ q \in TradeRow /\ q.status = s /\ q.side = r.side /\ q.quantity = r.quantity /\ q.key = r.key
         /\ (q.reversed <=> r.reversed)
<1>1. q.status = s /\ q.side = r.side /\ q.quantity = r.quantity /\ q.key = r.key /\ q.reversed = r.reversed
  BY Zenon DEF TradeRow
<1>2. q \in TradeRow
  BY Zenon DEF TradeRow
<1>3. q.reversed <=> r.reversed
  BY <1>1, Zenon
<1> QED BY <1>1, <1>2, <1>3, Zenon

\* A reversed row.
ReversedRow(r) == [r EXCEPT !.status = "CANCELLED_BY_ADMIN", !.reversed = TRUE]

LEMMA RowReversed ==
  ASSUME NEW r \in TradeRow, NEW q, q = ReversedRow(r)
  PROVE  /\ q \in TradeRow /\ q.status = "CANCELLED_BY_ADMIN" /\ q.side = r.side /\ q.quantity = r.quantity
         /\ q.key = r.key /\ q.reversed
         /\ r.status = "CANCELLED_BY_ADMIN" /\ r.reversed => q = r
<1>1. q.status = "CANCELLED_BY_ADMIN" /\ q.side = r.side /\ q.quantity = r.quantity /\ q.key = r.key
  BY Zenon DEF TradeRow, ReversedRow
<1>2. q.reversed = TRUE
  BY Zenon DEF TradeRow, ReversedRow
<1>3. "CANCELLED_BY_ADMIN" \in TradeStatus /\ TRUE \in BOOLEAN
  BY DEF TradeStatus
<1>4. q \in TradeRow
  BY <1>3, Zenon DEF TradeRow, ReversedRow
<1>5. ASSUME r.status = "CANCELLED_BY_ADMIN", r.reversed PROVE q = r
  <2>1. r.reversed \in BOOLEAN
    BY Zenon DEF TradeRow, ReversedRow
  <2>2. r.reversed = TRUE
    BY <1>5, <2>1, Zenon
  <2>3. /\ r = [status |-> r.status, side |-> r.side, quantity |-> r.quantity, key |-> r.key, reversed |-> r.reversed]
        /\ q = [status |-> q.status, side |-> q.side, quantity |-> q.quantity, key |-> q.key, reversed |-> q.reversed]
    BY <1>4, Zenon DEF TradeRow
  <2> QED BY <1>1, <1>2, <1>5, <2>2, <2>3, Zenon
<1> QED BY <1>1, <1>2, <1>4, <1>5, Zenon

\* The status a call leaves.
StatusAfter(c) ==
  CASE c = "create" -> "PENDING" [] c = "approve" -> "APPROVED" [] c = "reject" -> "REJECTED"
    [] c = "settle" -> "SETTLED" [] OTHER -> "CANCELLED_BY_ADMIN"

\* The trade it commits.
LEMMA CommitTrade ==
  ASSUME IInv, NEW p \in Procs, Commit(p)
  PROVE  /\ trade' \in [Trades -> TradeRow]
         /\ \A n \in Trades : n # tx[p].t => trade'[n] = trade[n]
         /\ tx[p].call = "lot" => trade'[tx[p].t] = trade[tx[p].t]
         /\ tx[p].call # "lot" => trade'[tx[p].t].status = StatusAfter(tx[p].call)
         /\ tx[p].call = "create" =>
              /\ trade'[tx[p].t].side = tx[p].row.side /\ trade'[tx[p].t].quantity = tx[p].row.quantity
              /\ trade'[tx[p].t].key = tx[p].row.key /\ ~trade'[tx[p].t].reversed
         /\ tx[p].call # "create" =>
              /\ trade'[tx[p].t].side = trade[tx[p].t].side /\ trade'[tx[p].t].quantity = trade[tx[p].t].quantity
              /\ trade'[tx[p].t].key = trade[tx[p].t].key
         /\ tx[p].call = "reverse" => /\ trade'[tx[p].t].reversed
                                      /\ trade[tx[p].t].status = "CANCELLED_BY_ADMIN" /\ trade[tx[p].t].reversed
                                           => trade'[tx[p].t] = trade[tx[p].t]
         /\ tx[p].call \notin {"create", "reverse"} => (trade'[tx[p].t].reversed <=> trade[tx[p].t].reversed)
<1> DEFINE m == tx[p].t
           c == tx[p].call
           r == tx[p].row
           s == StatusAfter(c)
           q == RowAfter(p)
<1>1. /\ m \in Trades /\ trade[m] \in TradeRow /\ r \in TradeRow /\ trade \in [Trades -> TradeRow]
      /\ c \in {"create", "approve", "reject", "cancel", "reverse", "settle", "lot"}
      /\ c = "create" => ~r.reversed
  BY CommitKnown DEF IInv, TypeOK
<1>2. trade' = [trade EXCEPT ![m] = q]
  BY DEF Commit
<1>3. s \in TradeStatus
  BY DEF StatusAfter, TradeStatus
<1>4. CASE c = "create"
  <2>1. q = [r EXCEPT !.status = s]
    BY <1>4 DEF RowAfter, StatusAfter
  <2> HIDE DEF q, s, m, r, c
  <2>2. q \in TradeRow /\ q.status = s /\ q.side = r.side /\ q.quantity = r.quantity /\ q.key = r.key /\ (q.reversed <=> r.reversed)
    BY <1>1, <1>3, <2>1, StatusChange
  <2>3. trade' \in [Trades -> TradeRow] /\ trade'[m] = q /\ \A n \in Trades : n # m => trade'[n] = trade[n]
    BY <1>1, <1>2, <2>2
  <2> QED BY <1>1, <1>4, <2>2, <2>3 DEF s, m, r, c
<1>5. CASE c \in {"approve", "reject", "cancel", "settle"}
  <2>1. q = [trade[m] EXCEPT !.status = s]
    BY <1>5 DEF RowAfter, StatusAfter
  <2> HIDE DEF q, s, m, r, c
  <2>2. q \in TradeRow /\ q.status = s /\ q.side = trade[m].side /\ q.quantity = trade[m].quantity /\ q.key = trade[m].key
        /\ (q.reversed <=> trade[m].reversed)
    BY <1>1, <1>3, <2>1, StatusChange
  <2>3. trade' \in [Trades -> TradeRow] /\ trade'[m] = q /\ \A n \in Trades : n # m => trade'[n] = trade[n]
    BY <1>1, <1>2, <2>2
  <2> QED BY <1>1, <1>5, <2>2, <2>3 DEF s, m, r, c
<1>6. CASE c = "reverse"
  <2>1. q = ReversedRow(trade[m])
    BY <1>6, Zenon DEF RowAfter, ReversedRow
  <2>2. s = "CANCELLED_BY_ADMIN"
    BY <1>6 DEF StatusAfter
  <2> HIDE DEF q, s, m, r, c
  <2>3. q \in TradeRow /\ q.status = s /\ q.side = trade[m].side /\ q.quantity = trade[m].quantity /\ q.key = trade[m].key
        /\ q.reversed /\ (trade[m].status = "CANCELLED_BY_ADMIN" /\ trade[m].reversed => q = trade[m])
    <3>1. trade[m] \in TradeRow
      BY <1>1
    <3>2. /\ q \in TradeRow /\ q.status = "CANCELLED_BY_ADMIN" /\ q.side = trade[m].side /\ q.quantity = trade[m].quantity
          /\ q.key = trade[m].key /\ q.reversed
          /\ trade[m].status = "CANCELLED_BY_ADMIN" /\ trade[m].reversed => q = trade[m]
      BY <2>1, <3>1, RowReversed
    <3> QED BY <2>2, <3>2
  <2>4. trade' \in [Trades -> TradeRow] /\ trade'[m] = q /\ \A n \in Trades : n # m => trade'[n] = trade[n]
    BY <1>1, <1>2, <2>3
  <2> QED BY <1>1, <1>6, <2>3, <2>4 DEF s, m, r, c
<1>7. CASE c = "lot"
  <2>1. q = trade[m]
    BY <1>7 DEF RowAfter
  <2> QED BY <1>1, <1>2, <1>7, <2>1
<1> QED BY <1>1, <1>4, <1>5, <1>6, <1>7

\* Its reservations.
LEMMA CommitHolds ==
  ASSUME IInv, NEW p \in Procs, Commit(p)
  PROVE  /\ hold' \in [Trades -> HoldStatus] /\ limitHold' \in [Trades -> HoldStatus]
         /\ \A n \in Trades : n # tx[p].t => hold'[n] = hold[n] /\ limitHold'[n] = limitHold[n]
         /\ tx[p].call = "create" => hold'[tx[p].t] = "RESERVED" /\ limitHold'[tx[p].t] = "RESERVED"
         /\ tx[p].call = "approve" => hold'[tx[p].t] = "CONSUMED" /\ limitHold'[tx[p].t] = "CONSUMED"
         /\ tx[p].call \in {"reject", "cancel"} => hold'[tx[p].t] = "RELEASED" /\ limitHold'[tx[p].t] = "RELEASED"
         /\ tx[p].call \in {"reverse", "settle", "lot"} =>
              hold'[tx[p].t] = hold[tx[p].t] /\ limitHold'[tx[p].t] = limitHold[tx[p].t]
<1> DEFINE m == tx[p].t
           c == tx[p].call
           h == HoldAfter(hold[m], c, {"RESERVED"})
           g == HoldAfter(limitHold[m], c, IF c = "approve" THEN LimitConsumable ELSE LimitReleasable)
<1>1. /\ m \in Trades /\ hold \in [Trades -> HoldStatus] /\ limitHold \in [Trades -> HoldStatus]
      /\ c \in {"create", "approve", "reject", "cancel", "reverse", "settle", "lot"}
      /\ c \in Decision => hold[m] = "RESERVED" /\ limitHold[m] = "RESERVED"
  BY CommitKnown, PendingHolds DEF IInv, TypeOK
<1>2. hold' = [hold EXCEPT ![m] = h] /\ limitHold' = [limitHold EXCEPT ![m] = g]
  BY DEF Commit
<1>3. /\ c = "create" => h = "RESERVED" /\ g = "RESERVED"
      /\ c = "approve" => h = "CONSUMED" /\ g = "CONSUMED"
      /\ c \in {"reject", "cancel"} => h = "RELEASED" /\ g = "RELEASED"
      /\ c \in {"reverse", "settle", "lot"} => h = hold[m] /\ g = limitHold[m]
  BY <1>1 DEF HoldAfter, LimitConsumable, LimitReleasable, Decision
<1>4. h \in HoldStatus /\ g \in HoldStatus
  BY <1>1, <1>3 DEF HoldStatus
<1> HIDE DEF h, g
<1> QED BY <1>1, <1>2, <1>3, <1>4

\* Its entries, and the rest.
LEMMA CommitEntries ==
  ASSUME IInv, NEW p \in Procs, Commit(p)
  PROVE  /\ entries' \in [Trades -> SUBSET Entry]
         /\ \A n \in Trades : n # tx[p].t => entries'[n] = entries[n]
         /\ tx[p].call = "lot" => entries' = entries /\ lots' = lots + 1
         /\ tx[p].call # "lot" => entries'[tx[p].t] = entries[tx[p].t] \union tx[p].new /\ lots' = lots
         /\ lots' \in 0..MaxLots /\ usage' \in [Side -> Usage]
         /\ \A s \in Side : UsageLock(s) \notin held[p] => usage'[s] = usage[s]
<1>1. /\ tx[p].t \in Trades /\ entries \in [Trades -> SUBSET Entry] /\ tx[p].new \in SUBSET Entry /\ lots \in 0..MaxLots
      /\ tx[p].call = "lot" => lots < MaxLots
      /\ usage \in [Side -> Usage] /\ tx[p].use \in Usage /\ MaxLots \in Nat
  BY CommitKnown, CommitNew, RunningRecord, LotsAssumption DEF IInv, TypeOK
<1>2. entries' = IF tx[p].call = "lot" THEN entries ELSE [entries EXCEPT ![tx[p].t] = entries[tx[p].t] \union tx[p].new]
  BY DEF Commit
<1>3. lots' = IF tx[p].call = "lot" THEN lots + 1 ELSE lots
  BY DEF Commit
<1>4. usage' = [s \in Side |-> IF UsageLock(s) \in held[p] THEN tx[p].use ELSE usage[s]]
  BY DEF Commit
<1>5. entries[tx[p].t] \union tx[p].new \in SUBSET Entry
  BY <1>1
<1>6. entries' \in [Trades -> SUBSET Entry] /\ \A n \in Trades : n # tx[p].t => entries'[n] = entries[n]
  BY <1>1, <1>2, <1>5
<1>7. tx[p].call # "lot" => entries'[tx[p].t] = entries[tx[p].t] \union tx[p].new
  BY <1>1, <1>2
<1>8. lots' \in 0..MaxLots
  BY <1>1, <1>3
<1> QED BY <1>1, <1>2, <1>3, <1>4, <1>6, <1>7, <1>8

\* What a commit leaves of the row of a trade: there it stays, and a trade
\* that is approved or reversed keeps its side, its quantity and its legs.
LEMMA CommitOldRow ==
  ASSUME IInv, NEW p \in Procs, Commit(p), NEW n \in Trades
  PROVE  /\ trade[n].status # "none" => trade'[n].status # "none"
         /\ n \in Spot /\ (trade[n].status = "APPROVED" \/ trade[n].reversed) =>
              /\ trade'[n].status = "APPROVED" \/ trade'[n].reversed
              /\ trade[n].reversed => trade'[n].reversed
              /\ LegEntries(trade'[n]) = LegEntries(trade[n])
<1>1. CASE n # tx[p].t
  <2>1. trade'[n] = trade[n]
    BY <1>1, CommitTrade
  <2> QED BY <2>1
<1>2. CASE tx[p].call = "lot"
  <2>1. trade'[n] = trade[n]
    BY <1>2, CommitTrade
  <2> QED BY <2>1
<1>3. CASE n = tx[p].t /\ tx[p].call # "lot"
  <2>1. trade'[n].status = StatusAfter(tx[p].call) /\ trade'[n].status # "none"
    <3>1. trade'[n].status = StatusAfter(tx[p].call)
      BY <1>3, CommitTrade
    <3> QED BY <3>1 DEF StatusAfter
  <2>2. ASSUME n \in Spot, trade[n].status = "APPROVED" \/ trade[n].reversed
        PROVE  /\ trade'[n].status = "APPROVED" \/ trade'[n].reversed
               /\ trade[n].reversed => trade'[n].reversed
               /\ LegEntries(trade'[n]) = LegEntries(trade[n])
    <3>1. trade[n].status \in {"APPROVED", "CANCELLED_BY_ADMIN"}
      BY <2>2, ApprovedHolds
    <3>2. tx[p].call = "reverse"
      BY <1>3, <2>2, <3>1, CommitKnown DEF Decision, Spot
    <3>3. trade'[n].reversed /\ trade'[n].side = trade[n].side /\ trade'[n].quantity = trade[n].quantity
      BY <1>3, <3>2, CommitTrade
    <3>4. \A a \in Accounts : Delta(trade'[n], a) = Delta(trade[n], a)
      BY <3>3 DEF Delta, Total
    <3> QED BY <3>3, <3>4 DEF LegEntries
  <2> QED BY <2>1, <2>2
<1> QED BY <1>1, <1>2, <1>3

\* What another call has created or decided is another trade; the accounts
\* and the usage it has locked are not the ones that are committed.
LEMMA OthersLocked ==
  ASSUME IInv, NEW p \in Procs, Commit(p), NEW q \in Procs \ {p}, tx[q].pc # "idle", NEW t, t = tx[q], NEW L, L = held[q]
  PROVE  /\ t.call = "create" \/ Decides(t) => trade'[t.t] = trade[t.t]
         /\ t.pc \notin Unlocked => /\ \A a \in Accounts : a \in LockedAccounts(t) => AccountLock(a) \notin held[p]
                                    /\ \A a \in Accounts : a \in LockedAccounts(t) => account'[a] = account[a]
         /\ UsageLocked(t) => usage'[t.row.side] = usage[t.row.side]
         /\ t.call = "lot" => lots' = lots
<1>1. /\ t.t \in Trades /\ RowKnown(t) /\ CallKnown(t) /\ LocksKnown(t, L) /\ held[p] \intersect L = {}
  BY RunningKnown DEF IInv, LocksExclusive
<1>2. ~Alike(tx[p], t)
  BY CommitKnown DEF IInv, OneInserter
<1>3. ASSUME t.call = "create" \/ Decides(t) PROVE trade'[t.t] = trade[t.t]
  <2>1. t.t \in Spot /\ trade[t.t].status \in {"none", "PENDING"} /\ ~trade[t.t].reversed
    <3>1. t.t \in Spot /\ trade[t.t].status \in {"none", "PENDING"}
      BY <1>1, <1>3 DEF RowKnown, CallKnown
    <3>2. trade[t.t].reversed => trade[t.t].status = "CANCELLED_BY_ADMIN"
      BY <3>1, ApprovedHolds
    <3> QED BY <3>1, <3>2
  <2>2. CASE tx[p].t # t.t \/ tx[p].call = "lot"
    BY <1>1, <2>2, CommitTrade
  <2>3. CASE tx[p].t = t.t /\ tx[p].call # "lot"
    <3>1. tx[p].call \in {"create"} \union Decision
      BY <2>1, <2>3, CommitKnown DEF Decision, Spot
    <3>2. CASE tx[p].call = "create"
      <4>1. Decides(t)
        BY <1>2, <1>3, <2>3, <3>2 DEF Alike
      <4> QED BY <1>1, <2>3, <3>2, <4>1, CommitKnown DEF RowKnown
    <3>3. CASE tx[p].call \in Decision
      <4>1. Decides(t)
        BY <1>1, <1>3, <2>3, <3>3, CommitKnown DEF RowKnown
      <4>2. TradeLock(t.t) \in L
        BY <1>1, <4>1 DEF LocksKnown, OwnLocks, CallKnown, Decides, Unlocked, Commits, Deciding, Approving, AfterCommit
      <4> QED BY <1>1, <2>3, <3>3, <4>2, CommitKnown
    <3> QED BY <3>1, <3>2, <3>3
  <2> QED BY <2>2, <2>3
<1>4. ASSUME t.pc \notin Unlocked, NEW a \in Accounts, a \in LockedAccounts(t)
      PROVE  AccountLock(a) \notin held[p] /\ account'[a] = account[a]
  <2>1. AccountLock(a) \notin held[p]
    BY <1>1, <1>4 DEF LocksKnown
  <2> QED BY <2>1, CommitAccount
<1>5. ASSUME UsageLocked(t) PROVE usage'[t.row.side] = usage[t.row.side]
  <2>1. t.pc \notin Unlocked
    BY <1>5 DEF UsageLocked, Unlocked, Commits, AfterCommit
  <2>2. t.row.side \in Side
    BY RunningKnown
  <2>3. UsageLock(t.row.side) \notin held[p]
    BY <1>1, <1>5, <2>1, <2>2 DEF LocksKnown
  <2> QED BY <2>2, <2>3, CommitEntries
<1>6. ASSUME t.call = "lot" PROVE lots' = lots
  <2>1. tx[p].call # "lot"
    BY <1>2, <1>6 DEF Alike
  <2> QED BY <2>1, CommitEntries
<1> QED BY <1>3, <1>4, <1>5, <1>6

\* The row that another call has read or will lock.
LEMMA OthersRow ==
  ASSUME IInv, NEW p \in Procs, Commit(p), NEW q \in Procs \ {p}, tx[q].pc # "idle", NEW t, t = tx[q], NEW L, L = held[q]
  PROVE  CallKnown(t)' /\ RowKnown(t)' /\ LocksKnown(t, L)' /\ UsageKnown(t)'
<1>1. /\ t.t \in Trades /\ RowKnown(t) /\ CallKnown(t) /\ LocksKnown(t, L) /\ UsageKnown(t)
  BY RunningKnown
<1>2. CallKnown(t)' /\ LocksKnown(t, L)'
  BY <1>1 DEF CallKnown, LocksKnown
<1>3. UsageKnown(t)'
  BY <1>1, OthersLocked DEF UsageKnown
<1>4. RowKnown(t)'
  <2>1. t.call = "create" \/ Decides(t) => trade'[t.t] = trade[t.t]
    BY OthersLocked
  <2>2. t.pc \in {"lockTrade", "read"} => trade'[t.t].status # "none"
    BY <1>1, CommitOldRow DEF RowKnown
  <2>3. t.call = "reverse" /\ t.pc # "read" /\ t.t \in Spot => trade'[t.t].status = "APPROVED" \/ trade'[t.t].reversed
    BY <1>1, CommitOldRow DEF RowKnown
  <2>4. t.call = "lot" => lots' = lots
    BY OthersLocked
  <2>5. (Decides(t)' <=> Decides(t)) /\ Spot' = Spot
    BY DEF Decides, Spot
  <2> QED BY <1>1, <2>1, <2>2, <2>3, <2>4, <2>5 DEF RowKnown
<1> QED BY <1>2, <1>3, <1>4

\* The account versions another call has computed: it holds the accounts they
\* are of.
LEMMA OthersLegs ==
  ASSUME IInv, NEW p \in Procs, Commit(p), NEW q \in Procs \ {p}, tx[q].pc # "idle", NEW t, t = tx[q], NEW L, L = held[q]
  PROVE  LegsKnown(t)' /\ FundsKnown(t)'
<1>1. /\ t.row \in TradeRow /\ Payer(t.row) \in Accounts /\ LegsKnown(t) /\ FundsKnown(t)
  BY RunningKnown, RowFacts
<1>2. ASSUME t.pc \notin Unlocked, NEW a \in Accounts, a \in LockedAccounts(t)
      PROVE  account'[a] = account[a] /\ Base(t, a)' = Base(t, a)
  <2>1. account'[a] = account[a]
    BY <1>2, OthersLocked
  <2> QED BY <2>1 DEF Base
<1>3. ASSUME t.pc \in Approving \/ Commits(t, {"approve"}) PROVE LegsKnown(t)'
  <2>1. t.pc \notin Unlocked
    BY <1>3 DEF Approving, Commits, Unlocked, AfterCommit
  <2>2. Payer(t.row) \in LockedAccounts(t) /\ \A a \in Accounts \ t.todo : a \in LockedAccounts(t)
    BY <1>1, <1>3 DEF LockedAccounts, Approving, Commits, HasApplied, Locking
  <2>3. /\ account'[Payer(t.row)] = account[Payer(t.row)] /\ Base(t, Payer(t.row))' = Base(t, Payer(t.row))
        /\ \A a \in Accounts \ t.todo : Base(t, a)' = Base(t, a)
    BY <1>1, <1>2, <2>1, <2>2
  <2>4. /\ CanUnblock(account[Payer(t.row)], Blocks(t.row))
        /\ Payer(t.row) \in t.todo => t.rows[Payer(t.row)] = Base(t, Payer(t.row))
        /\ \A a \in Accounts \ t.todo :
             CanApply(Base(t, a), Delta(t.row, a)) /\ t.rows[a] = Apply(Base(t, a), Delta(t.row, a))
        /\ t.new = {[account |-> a, delta |-> Delta(t.row, a), reversal |-> FALSE] : a \in Accounts \ t.todo}
    BY <1>1, <1>3 DEF LegsKnown
  <2>5. t.pc = "consumeLimit" \/ Commits(t, {"approve"}) => t.todo = {}
    BY <1>1 DEF LegsKnown
  <2>6. /\ CanUnblock(account'[Payer(t.row)], Blocks(t.row))
        /\ Payer(t.row) \in t.todo => t.rows[Payer(t.row)] = Base(t, Payer(t.row))'
        /\ \A a \in Accounts \ t.todo :
             CanApply(Base(t, a)', Delta(t.row, a)) /\ t.rows[a] = Apply(Base(t, a)', Delta(t.row, a))
    BY <2>3, <2>4
  <2> QED BY <2>4, <2>5, <2>6 DEF LegsKnown
<1>4. ~(t.pc \in Approving \/ Commits(t, {"approve"})) => LegsKnown(t)'
  BY DEF LegsKnown, Approving
<1>5. FundsKnown(t)'
  <2>1. CASE Commits(t, {"create", "reject", "cancel"})
    <3>1. t.pc \notin Unlocked /\ Payer(t.row) \in LockedAccounts(t)
      BY <2>1 DEF Commits, Unlocked, AfterCommit, LockedAccounts, HasApplied, Locking
    <3>2. account'[Payer(t.row)] = account[Payer(t.row)]
      BY <1>1, <1>2, <3>1
    <3> QED BY <1>1, <3>2 DEF FundsKnown
  <2>2. CASE ~Commits(t, {"create", "reject", "cancel"})
    BY <2>2 DEF FundsKnown, Commits
  <2> QED BY <2>1, <2>2
<1> QED BY <1>3, <1>4, <1>5

\* Whoever adds entries to a forward trade holds the IRR accounts.
LEMMA OthersEntries ==
  ASSUME IInv, NEW p \in Procs, Commit(p), NEW n \in Forward, AccountLock("clientIRR") \notin held[p]
  PROVE  entries'[n] = entries[n]
<1>1. n \in Trades /\ n \notin Spot /\ "clientIRR" \in Accounts /\ "clientIRR" \in IRR
  BY TradesAssumption DEF Spot, Accounts, IRR
<1>2. CASE tx[p].call = "lot" \/ tx[p].t # n
  BY <1>1, <1>2, CommitEntries
<1>3. CASE tx[p].call # "lot" /\ tx[p].t = n
  <2>1. tx[p].call \in {"reverse", "settle"}
    BY <1>1, <1>3, CommitKnown DEF Decision
  <2>2. tx[p].call = "settle" => tx[p].pays = 0
    BY <1>1, CommitLocks
  <2>3. tx[p].new = {}
    BY <1>3, <2>1, <2>2, CommitNew
  <2> QED BY <1>3, <2>3, CommitEntries
<1> QED BY <1>2, <1>3

LEMMA OthersMoves ==
  ASSUME IInv, NEW p \in Procs, Commit(p), NEW q \in Procs \ {p}, tx[q].pc # "idle", NEW t, t = tx[q], NEW L, L = held[q]
  PROVE  MovesKnown(t)'
<1>1. /\ MovesKnown(t) /\ CallKnown(t) /\ t.pc \in InTransaction \union AfterCommit
  BY RunningKnown
<1>2. t.pc \in Locking => \A a \in LockedAccounts(t) : t.rows[a] = account'[a]
  <2> SUFFICES ASSUME t.pc \in Locking, NEW a \in LockedAccounts(t) PROVE t.rows[a] = account'[a]
    OBVIOUS
  <2>1. t.pc \notin Unlocked /\ a \in Accounts
    BY DEF Locking, Unlocked, AfterCommit, LockedAccounts, Moved, Accounts, IRR, Gold
  <2>2. account'[a] = account[a]
    BY <2>1, OthersLocked
  <2> QED BY <1>1, <2>2 DEF MovesKnown
<1>3. ASSUME (HasApplied(t) /\ t.call = "settle" /\ t.pays # 0) \/ Commits(t, {"lot"})
      PROVE  /\ t.new = MoveEntries(t)
             /\ \A a \in Moved(t.call) :
                  LET n == Move(t.call, t.pays, a) IN
                  /\ CanApply(account'[a], n) /\ t.rows[a] = Apply(account'[a], n)
                  /\ t.call = "settle" => EntryFree(t.t, a, n)'
  <2>1. t.pc \notin Unlocked /\ LockedAccounts(t) = Moved(t.call) /\ Moved(t.call) \subseteq Accounts
    <3>1. t.pc \notin Unlocked /\ ((t.call = "settle" /\ HasApplied(t)) \/ Commits(t, {"lot"}))
      BY <1>3 DEF HasApplied, Commits, Unlocked, AfterCommit
    <3>2. CASE t.call = "settle" /\ HasApplied(t) /\ t.pays # 0
      BY <3>1, <3>2 DEF LockedAccounts, Moved, Commits, HasApplied, Locking, Accounts, IRR
    <3>3. CASE Commits(t, {"lot"})
      BY <3>1, <3>3 DEF LockedAccounts, Moved, Commits, HasApplied, Locking, Accounts, Gold
    <3> QED BY <1>3, <3>1, <3>2, <3>3
  <2>2. \A a \in Moved(t.call) : account'[a] = account[a] /\ AccountLock(a) \notin held[p]
    BY <2>1, OthersLocked
  <2>3. t.call = "settle" => entries'[t.t] = entries[t.t]
    <3> SUFFICES ASSUME t.call = "settle" PROVE entries'[t.t] = entries[t.t]
      OBVIOUS
    <3>1. t.t \in Forward
      BY <1>1, <1>3 DEF CallKnown, HasApplied, Commits, AfterCommit
    <3>2. "clientIRR" \in Moved(t.call)
      BY DEF Moved, IRR
    <3> QED BY <2>2, <3>1, <3>2, OthersEntries
  <2>4. /\ t.new = MoveEntries(t)
        /\ \A a \in Moved(t.call) :
             LET n == Move(t.call, t.pays, a) IN
             /\ CanApply(account[a], n) /\ t.rows[a] = Apply(account[a], n)
             /\ t.call = "settle" => EntryFree(t.t, a, n)
    BY <1>1, <1>3 DEF MovesKnown
  <2>5. ASSUME NEW a, NEW n, t.call = "settle" PROVE EntryFree(t.t, a, n)' <=> EntryFree(t.t, a, n)
    BY <2>3, <2>5 DEF EntryFree
  <2> QED BY <2>2, <2>4, <2>5
<1>4. HasApplied(t) /\ t.call = "settle" /\ t.pays = 0 => t.new = {}
  BY <1>1 DEF MovesKnown
<1> QED BY <1>2, <1>3, <1>4 DEF MovesKnown

\* A trade whose reversal is under way is not reversed by another call in
\* between: each holds all the accounts.
LEMMA OthersReversal ==
  ASSUME IInv, NEW p \in Procs, Commit(p), NEW q \in Procs \ {p}, tx[q].pc # "idle", NEW t, t = tx[q], NEW L, L = held[q]
  PROVE  ReversalKnown(t)'
<1>1. /\ t.t \in Trades /\ ReversalKnown(t) /\ CallKnown(t) /\ RowKnown(t) /\ t.pc \in InTransaction \union AfterCommit
  BY RunningKnown
<1>2. ASSUME t.call = "reverse", t.pc \in Locking
      PROVE  \/ t.new = LegEntries(trade'[t.t])
             \/ trade'[t.t].reversed /\ t.new = LegEntries(trade'[t.t]) \union Undone(LegEntries(trade'[t.t]))
  <2>1. t.t \in Spot /\ (trade[t.t].status = "APPROVED" \/ trade[t.t].reversed)
    BY <1>1, <1>2 DEF CallKnown, RowKnown, Locking
  <2>2. LegEntries(trade'[t.t]) = LegEntries(trade[t.t]) /\ (trade[t.t].reversed => trade'[t.t].reversed)
    BY <1>1, <2>1, CommitOldRow
  <2>3. t.new = LegEntries(trade[t.t]) \/ (trade[t.t].reversed /\ t.new = LegEntries(trade[t.t]) \union Undone(LegEntries(trade[t.t])))
    BY <1>1, <1>2 DEF ReversalKnown
  <2> QED BY <2>2, <2>3
<1>3. ASSUME HasApplied(t), t.call = "reverse", t.t \notin Forward
      PROVE  trade'[t.t] = trade[t.t] /\ \A a \in Accounts : account'[a] = account[a]
  <2>1. t.t \in Spot /\ t.pc \notin Unlocked /\ LockedAccounts(t) = Accounts
    BY <1>1, <1>3 DEF Spot, LockedAccounts, HasApplied, Commits, Locking, Unlocked, AfterCommit
  <2>2. \A a \in Accounts : account'[a] = account[a] /\ AccountLock(a) \notin held[p]
    BY <2>1, OthersLocked
  <2>3. tx[p].call \in {"reverse", "settle", "lot"} /\ (tx[p].call = "reverse" => tx[p].t \notin Spot)
    <3>1. Payer(tx[p].row) \in Accounts /\ "clientIRR" \in Accounts
      BY CommitKnown, RowFacts DEF Accounts
    <3>2. tx[p].call \notin {"create", "reject", "cancel"}
      BY <2>2, <3>1, CommitLocks
    <3>3. tx[p].call # "approve"
      BY <2>2, <3>1, CommitLocks
    <3>4. tx[p].call = "reverse" => tx[p].t \notin Spot
      BY <2>2, <3>1, CommitLocks
    <3> QED BY <3>2, <3>3, <3>4, CommitKnown
  <2>4. trade'[t.t] = trade[t.t]
    <3>1. CASE tx[p].call = "lot" \/ tx[p].t # t.t
      BY <1>1, <3>1, CommitTrade
    <3>2. CASE tx[p].call # "lot" /\ tx[p].t = t.t
      BY <2>1, <2>3, <3>2, CommitKnown DEF Spot
    <3> QED BY <3>1, <3>2
  <2> QED BY <2>2, <2>4
<1>4. HasApplied(t) /\ t.call = "reverse" =>
        IF t.t \in Forward THEN t.new = {}
        ELSE IF trade'[t.t].reversed THEN t.new = {} /\ \A a \in Accounts : t.rows[a] = account'[a]
        ELSE /\ t.new = Undone(LegEntries(trade'[t.t]))
             /\ \A a \in Accounts : CanApply(account'[a], -Delta(trade'[t.t], a))
                                     /\ t.rows[a] = Apply(account'[a], -Delta(trade'[t.t], a))
  BY <1>1, <1>3 DEF ReversalKnown
<1> QED BY <1>2, <1>4 DEF ReversalKnown

\* The key that another create has inserted into the index is not used by the
\* trade that is committed.
LEMMA OthersKey ==
  ASSUME IInv, NEW p \in Procs, Commit(p), NEW q \in Procs \ {p}, tx[q].pc # "idle", NEW t, t = tx[q], NEW L, L = held[q]
  PROVE  KeyKnown(t)'
<1>1. /\ KeyKnown(t) /\ LocksKnown(t, L) /\ CallKnown(t) /\ held[p] \intersect L = {} /\ t.pc \in InTransaction \union AfterCommit
  BY RunningKnown DEF IInv, LocksExclusive
<1> DEFINE k == t.row.key
<1>2. SUFFICES ASSUME t.call = "create", t.pc # "insert", UsedKey(k)' PROVE FALSE
  BY DEF KeyKnown
<1>3. ~UsedKey(k)
  BY <1>1, <1>2 DEF KeyKnown
<1>4. PICK n \in Trades : k # NoKey /\ trade'[n].key = k
  BY <1>2 DEF UsedKey
<1>5. trade[n].key # k
  BY <1>3, <1>4 DEF UsedKey
<1>6. n = tx[p].t /\ tx[p].call = "create" /\ tx[p].row.key = k
  BY <1>4, <1>5, CommitTrade
<1>7. KeyLock(k) \in held[p]
  BY <1>4, <1>6, CommitLocks
<1>8. KeyLock(k) \in L
  <2>1. t.pc \notin Unlocked
    BY <1>1, <1>2 DEF CallKnown, Unlocked, AfterCommit, Deciding
  <2>2. KeyLock(k) # KeyLock(NoKey)
    BY <1>4, LockKinds
  <2> QED BY <1>1, <1>2, <2>1, <2>2 DEF LocksKnown, OwnLocks
<1> QED BY <1>1, <1>7, <1>8

LEMMA CommitKeepsOthers ==
  ASSUME IInv, NEW p \in Procs, Commit(p), NEW q \in Procs \ {p}, tx[q].pc # "idle"
  PROVE  Known(tx[q], held[q])'
<1>1. tx'[q] = tx[q] /\ held'[q] = held[q]
  BY DEF Commit, Leave, IInv, TypeOK
<1> SUFFICES ASSUME NEW t, t = tx[q], NEW L, L = held[q] PROVE Known(t, L)'
  BY <1>1
<1> QED BY OthersRow, OthersLegs, OthersMoves, OthersReversal, OthersKey DEF Known

\* The legs of a trade depend on its side and its quantity.
LEMMA SameLegs ==
  ASSUME NEW r, NEW s, s.side = r.side, s.quantity = r.quantity
  PROVE  LegEntries(s) = LegEntries(r)
<1>1. \A a \in Accounts : Delta(s, a) = Delta(r, a)
  BY DEF Delta, Total
<1> QED BY <1>1 DEF LegEntries

\* A trade has one leg per account and side, and one reversal.
LEMMA LegsOnePerSide ==
  ASSUME NEW r \in TradeRow, r.quantity \in Quantities,
         NEW e \in LegEntries(r) \union Undone(LegEntries(r)), NEW f \in LegEntries(r) \union Undone(LegEntries(r)),
         e.account = f.account, e.delta < 0 <=> f.delta < 0
  PROVE  e = f
<1>1. PICK a \in Accounts : e = Leg(r, a) \/ e = UndoneLeg(r, a)
  BY LegSets
<1>2. PICK b \in Accounts : f = Leg(r, b) \/ f = UndoneLeg(r, b)
  BY LegSets
<1>3. /\ Leg(r, a).account = a /\ Leg(r, a).delta = Delta(r, a) /\ UndoneLeg(r, a).account = a
      /\ UndoneLeg(r, a).delta = -Delta(r, a) /\ Leg(r, b).account = b /\ Leg(r, b).delta = Delta(r, b)
      /\ UndoneLeg(r, b).account = b /\ UndoneLeg(r, b).delta = -Delta(r, b)
      /\ Delta(r, a) \in Int /\ Delta(r, a) # 0
  BY LegFacts, UndoneFacts, RowFacts
<1>4. a = b
  BY <1>1, <1>2, <1>3
<1> QED BY <1>1, <1>2, <1>3, <1>4

\* What a settlement books.
LEMMA SettleFacts ==
  ASSUME NEW t, t.call = "settle", t.pays \in Int
  PROVE  /\ \A e \in MoveEntries(t) :
              /\ e.account \in IRR /\ ~e.reversal /\ e.delta = Move("settle", t.pays, e.account) /\ e.delta \in Int
              /\ t.pays # 0 => e.delta # 0
              /\ \E f \in MoveEntries(t) : f.account # e.account /\ f.delta = -e.delta
         /\ \A e, f \in MoveEntries(t) : e.account = f.account => e = f
         /\ \A a \in IRR : \E e \in MoveEntries(t) : e.account = a
<1> DEFINE M(a) == [account |-> a, delta |-> Move("settle", t.pays, a), reversal |-> FALSE]
<1>1. MoveEntries(t) = {M(a) : a \in IRR}
  BY DEF MoveEntries, Moved
<1>2. \A a \in IRR : M(a).account = a /\ M(a).delta = Move("settle", t.pays, a) /\ ~M(a).reversal
  OBVIOUS
<1> HIDE DEF M
<1>3. \A a \in IRR : /\ Move("settle", t.pays, a) \in Int /\ (t.pays # 0 => Move("settle", t.pays, a) # 0)
                     /\ \E b \in IRR : b # a /\ Move("settle", t.pays, b) = -Move("settle", t.pays, a)
  <2>1. /\ Move("settle", t.pays, "clientIRR") = -t.pays /\ Move("settle", t.pays, "houseIRR") = t.pays
        /\ IRR = {"clientIRR", "houseIRR"}
    BY DEF Move, IRR
  <2> QED BY <2>1
<1> QED BY <1>1, <1>2, <1>3

\* The story of the trade that is committed.
LEMMA CommitStatus ==
  ASSUME IInv, NEW p \in Procs, Commit(p), NEW n \in Spot
  PROVE  LET r == trade'[n]
             story == <<hold'[n], limitHold'[n], entries'[n]>>
             legs == LegEntries(r)
         IN
         CASE r.status = "none" -> story = <<"none", "none", {}>> /\ ~r.reversed
           [] r.status = "PENDING" -> story = <<"RESERVED", "RESERVED", {}>> /\ ~r.reversed
           [] r.status = "APPROVED" -> story = <<"CONSUMED", "CONSUMED", legs>> /\ ~r.reversed
           [] r.status = "REJECTED" -> story = <<"RELEASED", "RELEASED", {}>> /\ ~r.reversed
           [] r.status = "CANCELLED_BY_ADMIN" ->
                story = IF r.reversed THEN <<"CONSUMED", "CONSUMED", legs \union Undone(legs)>> ELSE <<"RELEASED", "RELEASED", {}>>
           [] OTHER -> FALSE
<1>1. n \in Trades /\ n \notin Forward
  BY DEF Spot
<1>2. CASE tx[p].call = "lot" \/ tx[p].t # n
  <2>1. trade'[n] = trade[n] /\ hold'[n] = hold[n] /\ limitHold'[n] = limitHold[n] /\ entries'[n] = entries[n]
    BY <1>1, <1>2, CommitTrade, CommitHolds, CommitEntries
  <2> QED BY <2>1 DEF IInv, StatusMatchesEntries, Story
<1>3. CASE tx[p].call # "lot" /\ tx[p].t = n
  <2>1. /\ trade'[n].status = StatusAfter(tx[p].call)
        /\ entries'[n] = entries[n] \union tx[p].new
    BY <1>3, CommitTrade, CommitEntries
  <2>2. CASE tx[p].call = "create"
    <3>1. entries[n] = {} /\ tx[p].new = {}
      BY <1>3, <2>2, CommitKnown, CommitNew DEF IInv, StatusMatchesEntries, Story
    <3>2. hold'[n] = "RESERVED" /\ limitHold'[n] = "RESERVED" /\ ~trade'[n].reversed /\ trade'[n].status = "PENDING"
      BY <1>3, <2>1, <2>2, CommitTrade, CommitHolds DEF StatusAfter
    <3> QED BY <2>1, <3>1, <3>2
  <2>3. CASE tx[p].call \in Decision
    <3>1. entries[n] = {} /\ ~trade[n].reversed
      BY <1>1, <1>3, <2>3, CommitKnown, PendingHolds
    <3>2. ~trade'[n].reversed /\ LegEntries(trade'[n]) = LegEntries(trade[n])
      BY <1>3, <2>3, <3>1, CommitTrade, SameLegs DEF Decision
    <3>3. CASE tx[p].call = "approve"
      <4>1. hold'[n] = "CONSUMED" /\ limitHold'[n] = "CONSUMED" /\ trade'[n].status = "APPROVED" /\ tx[p].new = LegEntries(trade[n])
        BY <1>3, <2>1, <3>3, CommitHolds, CommitNew DEF StatusAfter
      <4> QED BY <2>1, <3>1, <3>2, <4>1
    <3>4. CASE tx[p].call \in {"reject", "cancel"}
      <4>1. /\ hold'[n] = "RELEASED" /\ limitHold'[n] = "RELEASED" /\ tx[p].new = {}
            /\ trade'[n].status \in {"REJECTED", "CANCELLED_BY_ADMIN"}
        BY <1>3, <2>1, <3>4, CommitHolds, CommitNew DEF StatusAfter
      <4> QED BY <2>1, <3>1, <3>2, <4>1
    <3> QED BY <2>3, <3>3, <3>4 DEF Decision
  <2>4. CASE tx[p].call = "reverse"
    <3>1. trade[n].status = "APPROVED" \/ trade[n].reversed
      BY <1>3, <2>4, CommitKnown
    <3>2. /\ hold[n] = "CONSUMED" /\ limitHold[n] = "CONSUMED"
          /\ trade[n].reversed => entries[n] = LegEntries(trade[n]) \union Undone(LegEntries(trade[n]))
          /\ ~trade[n].reversed => entries[n] = LegEntries(trade[n])
      BY <3>1, ApprovedHolds
    <3>3. /\ hold'[n] = "CONSUMED" /\ limitHold'[n] = "CONSUMED" /\ trade'[n].status = "CANCELLED_BY_ADMIN" /\ trade'[n].reversed
          /\ LegEntries(trade'[n]) = LegEntries(trade[n])
      BY <1>3, <2>1, <2>4, <3>2, CommitTrade, CommitHolds, SameLegs DEF StatusAfter
    <3>4. tx[p].new = IF trade[n].reversed THEN {} ELSE Undone(LegEntries(trade[n]))
      BY <1>3, <2>4, CommitNew
    <3>5. entries'[n] = LegEntries(trade'[n]) \union Undone(LegEntries(trade'[n]))
      BY <2>1, <3>2, <3>3, <3>4
    <3> QED BY <3>3, <3>5
  <2>5. tx[p].call # "settle"
    BY <1>1, <1>3, CommitKnown
  <2> QED BY <1>3, <2>2, <2>3, <2>4, <2>5, CommitKnown DEF Decision
<1> QED BY <1>2, <1>3

\* The rows of the trades.
LEMMA CommitRowsKnown ==
  ASSUME IInv, NEW p \in Procs, Commit(p)
  PROVE  RowsKnown'
<1>1. ASSUME NEW n \in Spot, trade'[n].status # "none" PROVE trade'[n].quantity \in Quantities
  <2>1. n \in Trades /\ n \notin Forward
    BY DEF Spot
  <2>2. CASE tx[p].call = "lot" \/ tx[p].t # n
    <3>1. trade'[n] = trade[n]
      BY <2>1, <2>2, CommitTrade
    <3> QED BY <1>1, <3>1 DEF IInv, RowsKnown
  <2>3. CASE tx[p].t = n /\ tx[p].call = "create"
    BY <2>3, CommitTrade, CommitKnown
  <2>4. CASE tx[p].t = n /\ tx[p].call \notin {"create", "lot"}
    <3>1. trade[n].status = "PENDING" \/ trade[n].status = "APPROVED" \/ trade[n].reversed
      BY <2>1, <2>4, CommitKnown DEF Decision
    <3>2. trade[n].status # "none"
      BY <3>1, ApprovedHolds
    <3>3. trade'[n].quantity = trade[n].quantity
      BY <2>4, CommitTrade
    <3> QED BY <3>2, <3>3 DEF IInv, RowsKnown
  <2> QED BY <2>2, <2>3, <2>4
<1>2. ASSUME NEW n \in Forward
      PROVE  /\ trade'[n].status \in {"APPROVED", "SETTLED", "CANCELLED_BY_ADMIN"}
             /\ hold'[n] = "none" /\ limitHold'[n] = "none"
             /\ \A e \in entries'[n] :
                  /\ e.account \in IRR /\ ~e.reversal /\ e.delta # 0
                  /\ \E f \in entries'[n] : f.account # e.account /\ f.delta = -e.delta
  <2>1. n \in Trades /\ n \notin Spot
    BY TradesAssumption DEF Spot
  <2>2. /\ trade[n].status \in {"APPROVED", "SETTLED", "CANCELLED_BY_ADMIN"}
        /\ hold[n] = "none" /\ limitHold[n] = "none"
        /\ \A e \in entries[n] :
             /\ e.account \in IRR /\ ~e.reversal /\ e.delta # 0
             /\ \E f \in entries[n] : f.account # e.account /\ f.delta = -e.delta
    BY DEF IInv, RowsKnown
  <2>3. CASE tx[p].call = "lot" \/ tx[p].t # n
    <3>1. trade'[n] = trade[n] /\ hold'[n] = hold[n] /\ limitHold'[n] = limitHold[n] /\ entries'[n] = entries[n]
      BY <2>1, <2>3, CommitTrade, CommitHolds, CommitEntries
    <3> QED BY <2>2, <3>1
  <2>4. CASE tx[p].call # "lot" /\ tx[p].t = n
    <3>1. tx[p].call \in {"reverse", "settle"} /\ tx[p].pays \in Int
      BY <2>1, <2>4, CommitKnown DEF Decision
    <3>2. trade'[n].status \in {"APPROVED", "SETTLED", "CANCELLED_BY_ADMIN"}
      BY <2>4, <3>1, CommitTrade DEF StatusAfter
    <3>3. hold'[n] = "none" /\ limitHold'[n] = "none" /\ entries'[n] = entries[n] \union tx[p].new
      BY <2>2, <2>4, <3>1, CommitHolds, CommitEntries
    <3>4. tx[p].new = {} \/ (tx[p].call = "settle" /\ tx[p].pays # 0 /\ tx[p].new = MoveEntries(tx[p]))
      BY <2>4, <3>1, CommitNew
    <3>5. \A e \in tx[p].new : /\ e.account \in IRR /\ ~e.reversal /\ e.delta # 0
                               /\ \E f \in tx[p].new : f.account # e.account /\ f.delta = -e.delta
      BY <3>1, <3>4, SettleFacts
    <3> QED BY <2>2, <3>2, <3>3, <3>5
  <2> QED BY <2>3, <2>4
<1>3. Spot' = Spot
  BY DEF Spot
<1> QED BY <1>1, <1>2, <1>3 DEF RowsKnown

\* The unique index of the entries.
LEMMA CommitOnePerSide ==
  ASSUME IInv, NEW p \in Procs, Commit(p), StatusMatchesEntries', RowsKnown', TypeOK'
  PROVE  OneEntryPerSide'
<1> SUFFICES ASSUME NEW n \in Trades, NEW e \in entries'[n], NEW f \in entries'[n], e.account = f.account, e.delta < 0 <=> f.delta < 0
             PROVE  e = f
  BY DEF OneEntryPerSide
<1>1. CASE n \in Spot
  <2>1. trade'[n] \in TradeRow
    BY CommitTrade
  <2>2. entries'[n] \subseteq LegEntries(trade'[n]) \union Undone(LegEntries(trade'[n])) /\ trade'[n].status # "none"
    BY <1>1, CommitStatus
  <2>3. trade'[n].quantity \in Quantities
    <3>1. n \in Spot'
      BY <1>1 DEF Spot
    <3> QED BY <2>2, <3>1 DEF RowsKnown
  <2> QED BY <2>1, <2>2, <2>3, LegsOnePerSide
<1>2. CASE n \notin Spot
  <2>1. n \in Forward
    BY <1>2 DEF Spot
  <2>2. CASE tx[p].call = "lot" \/ tx[p].t # n
    <3>1. entries'[n] = entries[n]
      BY <2>2, CommitEntries
    <3> QED BY <3>1 DEF IInv, OneEntryPerSide
  <2>3. CASE tx[p].call # "lot" /\ tx[p].t = n
    <3>1. tx[p].call \in {"reverse", "settle"} /\ tx[p].pays \in Int /\ entries'[n] = entries[n] \union tx[p].new
      BY <1>2, <2>3, CommitKnown, CommitEntries DEF Decision
    <3>2. tx[p].new = {} \/ /\ tx[p].call = "settle" /\ tx[p].pays # 0 /\ tx[p].new = MoveEntries(tx[p])
                            /\ \A a \in IRR : EntryFree(n, a, Move("settle", tx[p].pays, a))
      BY <2>1, <2>3, <3>1, CommitNew
    <3>3. ASSUME NEW g \in entries[n], NEW h \in tx[p].new, g.account = h.account PROVE ~(g.delta < 0 <=> h.delta < 0)
      <4>1. h.account \in IRR /\ h.delta = Move("settle", tx[p].pays, h.account)
        BY <3>1, <3>2, <3>3, SettleFacts
      <4>2. EntryFree(n, h.account, h.delta)
        BY <3>2, <3>3, <4>1
      <4> QED BY <3>3, <4>2 DEF EntryFree
    <3>4. \A g, h \in tx[p].new : g.account = h.account => g = h
      BY <3>1, <3>2, SettleFacts
    <3> QED BY <3>1, <3>3, <3>4 DEF IInv, OneEntryPerSide
  <2> QED BY <2>2, <2>3
<1> QED BY <1>1, <1>2

\* Calls with the same key leave one trade.
LEMMA CommitOneKey ==
  ASSUME IInv, NEW p \in Procs, Commit(p)
  PROVE  OneTradePerKey'
<1> SUFFICES ASSUME NEW n \in Trades, NEW o \in Trades, n # o, trade'[n].key = trade'[o].key, trade'[n].key # NoKey
             PROVE  FALSE
  BY DEF OneTradePerKey
<1>1. CASE tx[p].call # "create"
  <2>1. \A i \in Trades : trade'[i].key = trade[i].key
    BY <1>1, CommitTrade
  <2> QED BY <2>1 DEF IInv, OneTradePerKey
<1>2. CASE tx[p].call = "create"
  <2>1. /\ \A i \in Trades : i # tx[p].t => trade'[i] = trade[i]
        /\ trade'[tx[p].t].key = tx[p].row.key
    BY <1>2, CommitTrade
  <2>2. tx[p].row.key # NoKey => \A i \in Trades : trade[i].key # tx[p].row.key
    BY <1>2, CommitKnown DEF UsedKey
  <2>3. CASE n = tx[p].t
    BY <2>1, <2>2, <2>3
  <2>4. CASE o = tx[p].t
    BY <2>1, <2>2, <2>4
  <2>5. CASE n # tx[p].t /\ o # tx[p].t
    BY <2>1, <2>5 DEF IInv, OneTradePerKey
  <2> QED BY <2>3, <2>4, <2>5
<1> QED BY <1>1, <1>2

LEMMA CommitKeeps ==
  ASSUME IInv, NEW p \in Procs, Commit(p)
  PROVE  IInv'
<1> DEFINE m == tx[p].t
           c == tx[p].call
           t == IF c = "approve" \/ (c = "settle" /\ tx[p].pays # 0) THEN Begun("findVoucher", c, m, NoTrade, 0) ELSE Idle
<1>1. m \in Trades /\ c \in Calls
  BY CommitKnown DEF Calls, Decisions
<1>2. tx' = [tx EXCEPT ![p] = t] /\ held' = [held EXCEPT ![p] = {}] /\ UNCHANGED voucher
  BY DEF Commit, Leave
<1>3. t \in TxRecord \union {Idle}
  <2>1. 0 \in Settlements \union {0} /\ "findVoucher" \in InTransaction \union AfterCommit
    BY DEF AfterCommit
  <2> QED BY <1>1, <2>1, BegunType, NoTradeType
<1>4. t.pc # "idle" => t.pc = "findVoucher" /\ t.call \in {"approve", "settle"} /\ t.new = {}
  BY BegunFields DEF Idle
<1>5. t.pc \in {"idle", "findVoucher"}
  BY BegunFields DEF Idle
<1> HIDE DEF t
<1>6. \A q \in Procs : /\ tx'[q] = IF q = p THEN t ELSE tx[q]
                       /\ held'[q] = IF q = p THEN {} ELSE held[q]
  BY <1>2 DEF IInv, TypeOK
<1>7. TypeOK'
  <2>1. trade' \in [Trades -> TradeRow] /\ hold' \in [Trades -> HoldStatus] /\ limitHold' \in [Trades -> HoldStatus]
    BY CommitTrade, CommitHolds
  <2>2. entries' \in [Trades -> SUBSET Entry] /\ lots' \in 0..MaxLots /\ usage' \in [Side -> Usage]
    BY CommitEntries
  <2>3. account' \in [Accounts -> Account]
    <3>1. account' = [a \in Accounts |-> Seen(p, a)] /\ \A a \in Accounts : account'[a] \in Account
      BY CommitAccount DEF Commit
    <3> QED BY <3>1
  <2>4. tx' \in [Procs -> TxRecord \union {Idle}] /\ held' \in [Procs -> SUBSET Locks]
    BY <1>2, <1>3 DEF IInv, TypeOK
  <2> QED BY <1>2, <2>1, <2>2, <2>3, <2>4 DEF IInv, TypeOK
<1>8. LocksExclusive'
  BY <1>5, <1>6 DEF IInv, LocksExclusive
<1>9. OneInserter'
  <2>1. ASSUME NEW q \in Procs, NEW o \in Procs, tx'[q].pc # "idle", tx'[o].pc # "idle", Alike(tx'[q], tx'[o])
        PROVE  q = o
    <3>1. CASE q = p \/ o = p
      BY <1>4, <1>6, <2>1, <3>1 DEF Alike
    <3>2. CASE q # p /\ o # p
      BY <1>6, <2>1, <3>2 DEF IInv, OneInserter
    <3> QED BY <3>1, <3>2
  <2> QED BY <2>1 DEF OneInserter, Alike
<1>10. ASSUME NEW q \in Procs, tx'[q].pc # "idle" PROVE Known(tx[q], held[q])'
  <2>1. CASE q # p
    BY <1>6, <1>10, <2>1, CommitKeepsOthers
  <2>2. CASE q = p
    <3>1. tx'[q] = t /\ held'[q] = {} /\ t.pc = "findVoucher" /\ t.call \in {"approve", "settle"}
      BY <1>4, <1>6, <1>10, <2>2
    <3> SUFFICES ASSUME NEW u, u = t PROVE Known(u, {})'
      BY <3>1
    <3>2. CallKnown(u)' /\ RowKnown(u)' /\ LocksKnown(u, {})'
      BY <3>1 DEF CallKnown, RowKnown, LocksKnown, Decides, Commits, Creating, Deciding, Approving, Locking,
         AfterCommit, Unlocked
    <3>3. LegsKnown(u)' /\ FundsKnown(u)' /\ MovesKnown(u)' /\ ReversalKnown(u)' /\ UsageKnown(u)' /\ KeyKnown(u)'
      BY <3>1 DEF LegsKnown, FundsKnown, MovesKnown, ReversalKnown, UsageKnown, KeyKnown, Commits, HasApplied, Locking,
         Approving, UsageLocked
    <3> QED BY <3>2, <3>3 DEF Known
  <2> QED BY <2>1, <2>2
<1>11. RowsKnown'
  BY CommitRowsKnown
<1>12. StatusMatchesEntries'
  <2>1. Spot' = Spot
    BY DEF Spot
  <2> QED BY <2>1, CommitStatus DEF StatusMatchesEntries, Story
<1>13. OneEntryPerSide'
  BY <1>7, <1>11, <1>12, CommitOnePerSide
<1>14. NoOverdraft'
  BY CommitAccount DEF NoOverdraft
<1>15. OneTradePerKey'
  BY CommitOneKey
<1> QED BY <1>7, <1>8, <1>9, <1>10, <1>11, <1>12, <1>13, <1>14, <1>15 DEF IInv

----------------------------------------------------------------------------
(* The invariant, and what follows from it *)

LEMMA IInvInit == Init => IInv
<1> SUFFICES ASSUME Init PROVE IInv
  OBVIOUS
<1>1. TypeOK
  BY TypeInit
<1>2. LocksExclusive /\ OneInserter /\ \A p \in Procs : tx[p].pc = "idle"
  BY DEF Init, LocksExclusive, OneInserter, Idle
<1>3. \A t \in Trades : /\ trade[t].status = IF t \in Forward THEN "APPROVED" ELSE "none"
                        /\ trade[t].key = NoKey /\ ~trade[t].reversed
                        /\ hold[t] = "none" /\ limitHold[t] = "none" /\ entries[t] = {}
  BY DEF Init, NoTrade
<1>4. RowsKnown /\ StatusMatchesEntries /\ OneTradePerKey /\ OneEntryPerSide
  <2>1. Forward \subseteq Trades /\ Spot \subseteq Trades /\ \A t \in Spot : t \notin Forward
    BY TradesAssumption DEF Spot
  <2>2. RowsKnown
    BY <1>3, <2>1 DEF RowsKnown
  <2>3. StatusMatchesEntries
    BY <1>3, <2>1 DEF StatusMatchesEntries, Story
  <2> QED BY <1>3, <2>2, <2>3 DEF OneTradePerKey, OneEntryPerSide
<1>5. NoOverdraft
  BY OpeningAssumption DEF Init, NoOverdraft
<1> QED BY <1>1, <1>2, <1>4, <1>5 DEF IInv

LEMMA IInvStep == IInv /\ [Next]_vars => IInv'
<1> SUFFICES ASSUME IInv, [Next]_vars PROVE IInv'
  OBVIOUS
<1>1. ASSUME NEW p \in Procs, Call(p) PROVE IInv'
  <2>1. ASSUME NEW t \in Trades, NEW c \in {"approve", "reject", "cancel"}, Begin(p, t, c) PROVE IInv'
    BY <2>1, BeginKeeps
  <2>2. ASSUME NEW t \in Trades, NEW c \in {"reverse", "settle"}, NEW n \in Settlements \union {0}, BeginUnlocked(p, t, c, n)
        PROVE  IInv'
    BY <2>2, BeginUnlockedKeeps
  <2>3. BeginLot(p) => IInv'
    BY BeginLotKeeps
  <2>4. ASSUME NEW t \in Trades \ Forward, NEW s \in Sides, NEW n \in Quantities, NEW k \in Keys \union {NoKey},
               BeginCreate(p, t, NewRow(s, n, k))
        PROVE  IInv'
    BY <2>4, BeginCreateKeeps
  <2> QED BY <1>1, <2>1, <2>2, <2>3, <2>4 DEF Call
<1>2. ASSUME NEW p \in Procs, Proceed(p) PROVE IInv'
  BY <1>2, InsertTradeKeeps, ReserveLimitKeeps, ReserveFundsKeeps, LockTradeKeeps, ReleaseLimitKeeps, UnblockFundsKeeps,
     ApplyLegKeeps, ConsumeLimitKeeps, ReadTradeKeeps, ReadFundsKeeps, FindEntriesKeeps, LockAccountsKeeps, ApplyAllKeeps, ReverseAllKeeps,
     UpdateTradeKeeps, CommitKeeps, FindVoucherKeeps, EnqueueVoucherKeeps DEF Proceed
<1>3. ASSUME NEW p \in Procs, Abort(p) \/ CrashInTail(p) PROVE IInv'
  BY <1>3, EndKeeps DEF Abort, CrashInTail
<1>4. CASE UNCHANGED vars
  <2>1. UNCHANGED <<trade, account, usage, entries, lots, hold, limitHold, voucher, held, tx>>
    BY <1>4 DEF vars
  <2>2. ASSUME NEW q \in Procs, tx'[q].pc # "idle" PROVE Known(tx[q], held[q])'
    <3> SUFFICES ASSUME NEW t, t = tx[q], NEW L, L = held[q] PROVE Known(t, L)'
      BY <2>1
    <3>1. Known(t, L)
      BY <2>1, <2>2 DEF IInv
    <3> QED BY <2>1, <3>1, SameKnown
  <2>3. TypeOK' /\ LocksExclusive' /\ OneInserter'
    BY <2>1 DEF IInv, TypeOK, LocksExclusive, OneInserter, Alike
  <2>4. RowsKnown' /\ OneEntryPerSide' /\ StatusMatchesEntries' /\ NoOverdraft' /\ OneTradePerKey'
    BY <2>1 DEF IInv, RowsKnown, OneEntryPerSide, StatusMatchesEntries, Story, NoOverdraft, OneTradePerKey
  <2> QED BY <2>2, <2>3, <2>4 DEF IInv
<1> QED BY <1>1, <1>2, <1>3, <1>4 DEF Next

\* The locks and the versions of every call agree with the committed rows,
\* whatever approvals, rejections, cancellations, reversals, settlements and
\* lots overlap.
THEOREM Invariant == Spec => []IInv
<1>1. Init => IInv
  BY IInvInit
<1>2. IInv /\ [Next]_vars => IInv'
  BY IInvStep
<1> QED BY <1>1, <1>2, PTL DEF Spec

\* A trade, its reservations and its ledger entries tell one story, although
\* reverseTrade decides on a row it has not locked: there are no entries, both
\* legs, or both legs and the reversal of each.
THEOREM StatusSafe == Spec => []StatusMatchesEntries
<1>1. IInv => StatusMatchesEntries
  BY DEF IInv
<1> QED BY <1>1, Invariant, PTL

\* Neither the client nor the house pays what it does not have.
THEOREM NoOverdraftSafe == Spec => []NoOverdraft
<1>1. IInv => NoOverdraft
  BY DEF IInv
<1> QED BY <1>1, Invariant, PTL

\* createForUser inserts one trade per idempotency key.
THEOREM OneTradeSafe == Spec => []OneTradePerKey
<1>1. IInv => OneTradePerKey
  BY DEF IInv
<1> QED BY <1>1, Invariant, PTL

----------------------------------------------------------------------------
(* Decisions *)

\* All but the commits leave the rows of the services alone.
LEMMA OnlyCommitWrites ==
  ASSUME [Next]_vars, \A p \in Procs : ~Commit(p)
  PROVE  UNCHANGED <<trade, hold, limitHold, account, usage, entries, lots>>
<1>1. CASE UNCHANGED vars
  BY <1>1 DEF vars
<1>2. ASSUME NEW p \in Procs, Call(p) PROVE UNCHANGED <<trade, hold, limitHold, account, usage, entries, lots>>
  BY <1>2 DEF Call, BeginCreate, Begin, BeginUnlocked, BeginLot, Step, data
<1>3. ASSUME NEW p \in Procs, Proceed(p) PROVE UNCHANGED <<trade, hold, limitHold, account, usage, entries, lots>>
  <2>1. CASE InsertTrade(p) \/ ReserveLimit(p) \/ ReserveFunds(p)
    BY <2>1 DEF InsertTrade, ReserveLimit, ReserveFunds, Step, LockStep, End, data
  <2>2. CASE LockTrade(p) \/ ReleaseLimit(p) \/ UnblockFunds(p)
    BY <2>2 DEF LockTrade, ReleaseLimit, UnblockFunds, Step, LockStep, End, data
  <2>3. CASE ApplyLeg(p) \/ ConsumeLimit(p)
    BY <2>3 DEF ApplyLeg, ConsumeLimit, LockStep, End, data
  <2>4. CASE ReadTrade(p) \/ ReadFunds(p) \/ FindEntries(p) \/ LockAccounts(p)
    BY <2>4 DEF ReadTrade, ReadFunds, FindEntries, LockAccounts, Step, LockStep, End, data
  <2>5. CASE ApplyAll(p) \/ ReverseAll(p) \/ UpdateTrade(p)
    BY <2>5 DEF ApplyAll, ReverseAll, UpdateTrade, Step, LockStep, End, data
  <2>6. CASE FindVoucher(p) \/ EnqueueVoucher(p)
    BY <2>6 DEF FindVoucher, EnqueueVoucher, Step, End, data
  <2> QED BY <1>3, <2>1, <2>2, <2>3, <2>4, <2>5, <2>6 DEF Proceed
<1>4. ASSUME NEW p \in Procs, Abort(p) \/ CrashInTail(p) PROVE UNCHANGED <<trade, hold, limitHold, account, usage, entries, lots>>
  BY <1>4 DEF Abort, CrashInTail, End, data
<1> QED BY <1>1, <1>2, <1>3, <1>4 DEF Next

\* A commit decides a trade that was pending, or reverses an approved one; a
\* second reversal leaves the row as it is.
LEMMA DecisionsStep == IInv /\ [Next]_vars => KeepsDecisions
<1> SUFFICES ASSUME IInv, [Next]_vars, NEW n \in Spot
             PROVE  /\ trade[n].status \in {"REJECTED", "CANCELLED_BY_ADMIN"} => trade'[n] = trade[n]
                    /\ trade[n].status = "APPROVED" /\ trade'[n] # trade[n] => trade'[n].reversed
  BY DEF KeepsDecisions
<1>1. CASE \A p \in Procs : ~Commit(p)
  BY <1>1, OnlyCommitWrites
<1>2. ASSUME NEW p \in Procs, Commit(p)
      PROVE  /\ trade[n].status \in {"REJECTED", "CANCELLED_BY_ADMIN"} => trade'[n] = trade[n]
             /\ trade[n].status = "APPROVED" /\ trade'[n] # trade[n] => trade'[n].reversed
  <2>1. n \in Trades /\ n \notin Forward
    BY DEF Spot
  <2>2. CASE tx[p].call = "lot" \/ tx[p].t # n
    BY <1>2, <2>1, <2>2, CommitTrade
  <2>3. CASE tx[p].t = n /\ tx[p].call \in {"create"} \union Decision
    BY <1>2, <2>3, CommitKnown
  <2>4. CASE tx[p].t = n /\ tx[p].call = "reverse"
    <3>1. trade[n].status = "APPROVED" \/ trade[n].reversed
      BY <1>2, <2>4, CommitKnown
    <3>2. trade[n].reversed => trade[n].status = "CANCELLED_BY_ADMIN"
      BY <3>1, ApprovedHolds
    <3>3. /\ trade'[n].reversed
          /\ trade[n].status = "CANCELLED_BY_ADMIN" /\ trade[n].reversed => trade'[n] = trade[n]
      BY <1>2, <2>4, CommitTrade
    <3> QED BY <3>1, <3>2, <3>3
  <2>5. tx[p].t = n => tx[p].call # "settle"
    BY <1>2, <2>1, CommitKnown
  <2> QED BY <1>2, <2>2, <2>3, <2>4, <2>5, CommitKnown DEF Decision
<1> QED BY <1>1, <1>2

\* A rejected or cancelled trade stays so, and an approved one can only be
\* reversed, by whatever calls read it before it was decided.
THEOREM DecisionsStay == Spec => DecisionsAreFinal
<1>1. IInv /\ [Next]_vars => [KeepsDecisions]_vars
  BY DecisionsStep
<1> QED BY <1>1, Invariant, PTL DEF Spec, DecisionsAreFinal

----------------------------------------------------------------------------
(* What a set of entries adds up to on an account *)

OnePerSide(E) == \A e, f \in E : e.account = f.account /\ (e.delta < 0 <=> f.delta < 0) => e = f

OnSide(E, a, side) == {e \in E : e.account = a /\ (e.delta < 0) = (side = "debit")}
Worth(es) == IF es = {} THEN 0 ELSE (CHOOSE e \in es : TRUE).delta
SideOf(E, a, side) == Worth(OnSide(E, a, side))
Net(E, a) == SideOf(E, a, "debit") + SideOf(E, a, "credit")

LEMMA GainIsNet ==
  ASSUME NEW n, NEW a
  PROVE  Gain(n, a) = Net(entries[n], a) /\ Gain(n, a)' = Net(entries'[n], a)
BY DEF Gain, Posted, Net, SideOf, OnSide, Worth

\* The only entry of a side is what that side is worth.
LEMMA SideIs ==
  ASSUME NEW E \in SUBSET Entry, OnePerSide(E), NEW e \in E, NEW side \in {"debit", "credit"}, e.delta < 0 <=> side = "debit"
  PROVE  SideOf(E, e.account, side) = e.delta
<1>1. e \in OnSide(E, e.account, side)
  BY DEF OnSide
<1>2. \A f \in OnSide(E, e.account, side) : f = e
  BY DEF OnSide, OnePerSide
<1>3. (CHOOSE f \in OnSide(E, e.account, side) : TRUE) = e
  BY <1>1, <1>2
<1> QED BY <1>1, <1>3 DEF SideOf, Worth

LEMMA SideInt ==
  ASSUME NEW E \in SUBSET Entry, NEW a, NEW side
  PROVE  SideOf(E, a, side) \in Int
<1>1. \A f \in OnSide(E, a, side) : f.delta \in Int
  BY DEF OnSide, Entry
<1>2. CASE OnSide(E, a, side) = {}
  BY <1>2 DEF SideOf, Worth
<1>3. CASE OnSide(E, a, side) # {}
  <2>1. (CHOOSE f \in OnSide(E, a, side) : TRUE) \in OnSide(E, a, side)
    BY <1>3
  <2> QED BY <1>1, <1>3, <2>1 DEF SideOf, Worth
<1> QED BY <1>2, <1>3

LEMMA NetInt ==
  ASSUME NEW E \in SUBSET Entry, NEW a
  PROVE  Net(E, a) \in Int
BY SideInt DEF Net

\* Entries of other accounts add nothing.
LEMMA NetStays ==
  ASSUME NEW E, NEW F, E \subseteq F, NEW a, \A e \in F : e.account = a => e \in E
  PROVE  Net(F, a) = Net(E, a)
<1>1. \A side : OnSide(F, a, side) = OnSide(E, a, side)
  BY DEF OnSide
<1>2. \A side : SideOf(F, a, side) = SideOf(E, a, side)
  BY <1>1 DEF SideOf
<1> QED BY <1>2 DEF Net

\* A new entry of the account adds its amount.
LEMMA NetAdds ==
  ASSUME NEW E \in SUBSET Entry, NEW F \in SUBSET Entry, E \subseteq F, OnePerSide(F), NEW e \in F, e \notin E,
         \A f \in F : f.account = e.account => f \in E \/ f = e
  PROVE  Net(F, e.account) = Net(E, e.account) + e.delta
<1> DEFINE s == IF e.delta < 0 THEN "debit" ELSE "credit"
           o == IF e.delta < 0 THEN "credit" ELSE "debit"
           a == e.account
<1>1. s \in {"debit", "credit"} /\ o \in {"debit", "credit"} /\ s # o /\ (e.delta < 0 <=> s = "debit")
  OBVIOUS
<1>2. SideOf(F, a, s) = e.delta
  BY <1>1, SideIs
<1>3. SideOf(E, a, s) = 0
  <2>1. OnSide(E, a, s) = {}
    <3> SUFFICES ASSUME NEW f \in OnSide(E, a, s) PROVE FALSE
      OBVIOUS
    <3>1. f \in E /\ f.account = a /\ (f.delta < 0 <=> s = "debit")
      BY DEF OnSide
    <3> QED BY <1>1, <3>1 DEF OnePerSide
  <2> QED BY <2>1 DEF SideOf, Worth
<1>4. SideOf(F, a, o) = SideOf(E, a, o)
  <2>1. OnSide(F, a, o) = OnSide(E, a, o)
    BY <1>1 DEF OnSide
  <2> QED BY <2>1 DEF SideOf
<1>5. SideOf(E, a, o) \in Int /\ e.delta \in Int
  BY SideInt DEF Entry
<1>6. Net(F, a) = SideOf(F, a, s) + SideOf(F, a, o) /\ Net(E, a) = SideOf(E, a, s) + SideOf(E, a, o)
  <2>1. /\ SideOf(F, a, "debit") \in Int /\ SideOf(F, a, "credit") \in Int
        /\ SideOf(E, a, "debit") \in Int /\ SideOf(E, a, "credit") \in Int
    BY SideInt
  <2> QED BY <2>1 DEF Net
<1> HIDE DEF s, o
<1> QED BY <1>2, <1>3, <1>4, <1>5, <1>6

----------------------------------------------------------------------------
(* The books: accounts and usage *)

\* Rows with the same side and quantity block the same.
LEMMA SameBlocks ==
  ASSUME NEW r, NEW s, s.side = r.side, s.quantity = r.quantity
  PROVE  Payer(s) = Payer(r) /\ Blocks(s) = Blocks(r) /\ Total(s) = Total(r)
BY DEF Payer, Blocks, Total

\* The entries that a commit adds to its trade, but for a lot, add up to what
\* it brings to the account.
LEMMA CommitGains ==
  ASSUME IInv, NEW p \in Procs, Commit(p), IInv', NEW a \in Accounts, tx[p].call # "lot"
  PROVE  Net(entries'[tx[p].t], a) = Net(entries[tx[p].t], a) + Gained(tx[p], a)
<1> SUFFICES ASSUME NEW m, m = tx[p].t, NEW E, E = entries[m], NEW F, F = entries'[m], NEW c, c = tx[p].call
             PROVE  Net(F, a) = Net(E, a) + Gained(tx[p], a)
  OBVIOUS
<1>1. /\ m \in Trades /\ E \in SUBSET Entry /\ F \in SUBSET Entry /\ F = E \union tx[p].new /\ E \subseteq F
      /\ trade[m] \in TradeRow /\ c \in {"create", "approve", "reject", "cancel", "reverse", "settle"} /\ tx[p].pays \in Int
  <2>1. entries \in [Trades -> SUBSET Entry] /\ entries' \in [Trades -> SUBSET Entry]
    BY CommitEntries DEF IInv, TypeOK
  <2> QED BY <2>1, CommitKnown, CommitEntries
<1>2. OnePerSide(F) /\ Net(E, a) \in Int
  <2>1. OnePerSide(F)
    BY <1>1 DEF IInv, OneEntryPerSide, OnePerSide
  <2> QED BY <1>1, <2>1, NetInt
<1>3. CASE tx[p].new = {} /\ Gained(tx[p], a) = 0
  <2>1. F = E
    BY <1>1, <1>3
  <2> QED BY <1>2, <1>3, <2>1
<1>4. ASSUME NEW e \in tx[p].new, e \notin E, e.account = a, e.delta = Gained(tx[p], a), \A f \in tx[p].new : f.account = a => f = e
      PROVE  Net(F, a) = Net(E, a) + Gained(tx[p], a)
  <2>1. e \in F /\ \A f \in F : f.account = e.account => f \in E \/ f = e
    BY <1>1, <1>4
  <2>2. Net(F, e.account) = Net(E, e.account) + e.delta
    BY <1>1, <1>2, <1>4, <2>1, NetAdds
  <2> QED BY <1>4, <2>2
<1>5. CASE c \in {"create", "reject", "cancel"}
  BY <1>3, <1>5, CommitNew DEF Gained
<1>6. CASE c = "approve"
  <2>1. /\ tx[p].new = LegEntries(trade[m]) /\ tx[p].row = trade[m] /\ E = {}
    BY <1>1, <1>6, CommitKnown, CommitNew, PendingHolds DEF Decision
  <2>2. Leg(trade[m], a) \in tx[p].new /\ \A f \in tx[p].new : f.account = a => f = Leg(trade[m], a)
    BY <1>1, <2>1, LegSets, LegFacts
  <2>3. Leg(trade[m], a).account = a /\ Leg(trade[m], a).delta = Gained(tx[p], a)
    BY <1>1, <1>6, <2>1, LegFacts DEF Gained
  <2> QED BY <1>4, <2>1, <2>2, <2>3
<1>7. CASE c = "reverse"
  <2>1. CASE m \in Spot /\ ~trade[m].reversed
    <3>1. /\ tx[p].new = Undone(LegEntries(trade[m])) /\ E = LegEntries(trade[m])
      BY <1>7, <2>1, CommitKnown, CommitNew, ApprovedHolds
    <3>2. UndoneLeg(trade[m], a) \in tx[p].new /\ \A f \in tx[p].new : f.account = a => f = UndoneLeg(trade[m], a)
      <4>1. tx[p].new = {UndoneLeg(trade[m], b) : b \in Accounts}
        BY <1>1, <3>1, LegSets
      <4>2. \A b \in Accounts : UndoneLeg(trade[m], b).account = b
        BY <1>1, UndoneFacts
      <4> QED BY <1>1, <4>1, <4>2
    <3>3. UndoneLeg(trade[m], a).account = a /\ UndoneLeg(trade[m], a).delta = Gained(tx[p], a)
      BY <1>1, <1>7, <2>1, UndoneFacts DEF Gained
    <3>4. UndoneLeg(trade[m], a) \notin E
      <4>1. \A f \in E : ~f.reversal
        BY <1>1, <3>1, LegSets, LegFacts
      <4> QED BY <1>1, <4>1, UndoneFacts
    <3> QED BY <1>4, <3>2, <3>3, <3>4
  <2>2. CASE m \in Spot /\ trade[m].reversed
    BY <1>3, <1>7, <2>2, CommitNew DEF Gained
  <2>3. CASE m \notin Spot
    <3>1. m \in Forward
      BY <1>1, <2>3 DEF Spot
    <3> QED BY <1>3, <1>7, <2>3, <3>1, CommitNew DEF Gained
  <2> QED BY <2>1, <2>2, <2>3
<1>8. CASE c = "settle"
  <2>1. CASE tx[p].pays = 0
    BY <1>3, <1>8, <2>1, CommitNew DEF Gained
  <2>2. CASE tx[p].pays # 0
    <3>1. /\ tx[p].new = MoveEntries(tx[p]) /\ \A b \in IRR : EntryFree(m, b, Move("settle", tx[p].pays, b))
      BY <1>8, <2>2, CommitNew
    <3>2. /\ \A e \in tx[p].new : e.account \in IRR /\ e.delta = Move("settle", tx[p].pays, e.account)
          /\ \A e, f \in tx[p].new : e.account = f.account => e = f
          /\ \A b \in IRR : \E e \in tx[p].new : e.account = b
      <4>1. tx[p].call = "settle" /\ tx[p].pays \in Int
        BY <1>1, <1>8
      <4>2. /\ \A e \in MoveEntries(tx[p]) : e.account \in IRR /\ e.delta = Move("settle", tx[p].pays, e.account)
            /\ \A e, f \in MoveEntries(tx[p]) : e.account = f.account => e = f
            /\ \A b \in IRR : \E e \in MoveEntries(tx[p]) : e.account = b
        BY <4>1, SettleFacts
      <4> QED BY <3>1, <4>2
    <3>3. CASE a \in IRR
      <4>1. PICK e \in tx[p].new : e.account = a
        BY <3>2, <3>3
      <4>2. e.delta = Move("settle", tx[p].pays, a) /\ e.delta = Gained(tx[p], a)
        BY <1>8, <2>2, <3>2, <3>3, <4>1 DEF Gained
      <4>3. e \notin E
        BY <3>1, <3>3, <4>1, <4>2 DEF EntryFree
      <4> QED BY <1>4, <3>2, <4>1, <4>2, <4>3
    <3>4. CASE a \notin IRR
      <4>1. Gained(tx[p], a) = 0
        BY <1>8, <3>4 DEF Gained
      <4>2. \A e \in F : e.account = a => e \in E
        BY <1>1, <3>2, <3>4
      <4>3. Net(F, a) = Net(E, a)
        BY <1>1, <4>2, NetStays
      <4> QED BY <1>2, <4>1, <4>3
    <3> QED BY <3>3, <3>4
  <2> QED BY <2>1, <2>2
<1> QED BY <1>1, <1>5, <1>6, <1>7, <1>8

\* What the commit of t adds to what is reserved and to what is used of the
\* limit of the side s.
Reserving(t, s) ==
  IF s # t.row.side THEN 0 ELSE IF t.call = "create" THEN Total(t.row) ELSE IF t.call \in Decision THEN -Total(t.row) ELSE 0
Using(t, s) == IF s = t.row.side /\ t.call = "approve" THEN Total(t.row) ELSE 0

\* How a commit changes what its trade blocks, and what it counts in the
\* usage rows.
LEMMA CommitCounts ==
  ASSUME IInv, NEW p \in Procs, Commit(p), NEW m, m = tx[p].t
  PROVE  /\ \A a \in Accounts : Blocked(m, a)' = Blocked(m, a) + Blocking(tx[p], a)
         /\ \A s \in Side : /\ Counts(m, s, "RESERVED")' = Counts(m, s, "RESERVED") + Reserving(tx[p], s)
                            /\ Counts(m, s, "CONSUMED")' = Counts(m, s, "CONSUMED") + Using(tx[p], s)
<1>1. /\ m \in Trades /\ trade[m] \in TradeRow /\ tx[p].row \in TradeRow
      /\ tx[p].call \in {"create", "approve", "reject", "cancel", "reverse", "settle", "lot"}
      /\ Blocks(tx[p].row) \in Int /\ Total(tx[p].row) \in Int /\ Blocks(trade[m]) \in Int /\ Total(trade[m]) \in Int
  <2>1. \A n \in Nat : n \in Int
    OBVIOUS
  <2> QED BY <2>1, CommitKnown, RowFacts
<1>2. CASE tx[p].call = "create"
  <2>1. /\ hold[m] = "none" /\ limitHold[m] = "none" /\ hold'[m] = "RESERVED" /\ limitHold'[m] = "RESERVED"
    BY <1>2, CommitKnown, CommitHolds DEF IInv, StatusMatchesEntries, Story
  <2>2. Payer(trade'[m]) = Payer(tx[p].row) /\ Blocks(trade'[m]) = Blocks(tx[p].row) /\ Total(trade'[m]) = Total(tx[p].row)
        /\ trade'[m].side = tx[p].row.side
    BY <1>2, CommitTrade, SameBlocks
  <2>3. \A a \in Accounts : Blocked(m, a)' = Blocked(m, a) + Blocking(tx[p], a)
    BY <1>1, <1>2, <2>1, <2>2 DEF Blocked, Blocking, Decision
  <2> QED BY <1>1, <1>2, <2>1, <2>2, <2>3 DEF Counts, Reserving, Using, Decision
<1>3. CASE tx[p].call \in Decision
  <2>1. /\ hold[m] = "RESERVED" /\ limitHold[m] = "RESERVED" /\ tx[p].row = trade[m]
    BY <1>1, <1>3, CommitKnown, PendingHolds
  <2>2. hold'[m] # "RESERVED" /\ limitHold'[m] = IF tx[p].call = "approve" THEN "CONSUMED" ELSE "RELEASED"
    BY <1>3, CommitHolds DEF Decision
  <2>3. Total(trade'[m]) = Total(trade[m]) /\ trade'[m].side = trade[m].side
    BY <1>3, CommitTrade, SameBlocks DEF Decision
  <2>4. \A a \in Accounts : Blocked(m, a)' = Blocked(m, a) + Blocking(tx[p], a)
    BY <1>1, <1>3, <2>1, <2>2 DEF Blocked, Blocking, Decision
  <2> QED BY <1>1, <1>3, <2>1, <2>2, <2>3, <2>4 DEF Counts, Reserving, Using, Decision
<1>4. CASE tx[p].call \in {"reverse", "settle", "lot"}
  <2>1. hold'[m] = hold[m] /\ limitHold'[m] = limitHold[m]
    BY <1>4, CommitHolds
  <2>2. Payer(trade'[m]) = Payer(trade[m]) /\ Blocks(trade'[m]) = Blocks(trade[m]) /\ Total(trade'[m]) = Total(trade[m])
        /\ trade'[m].side = trade[m].side
    BY <1>4, CommitTrade, SameBlocks
  <2>3. \A a \in Accounts : Blocked(m, a)' = Blocked(m, a) /\ Blocked(m, a) \in Int
    BY <1>1, <2>1, <2>2 DEF Blocked
  <2>4. \A s, h : Counts(m, s, h)' = Counts(m, s, h) /\ Counts(m, s, h) \in Int
    BY <1>1, <2>1, <2>2 DEF Counts
  <2> QED BY <1>4, <2>3, <2>4 DEF Blocking, Reserving, Using, Decision
<1> QED BY <1>1, <1>2, <1>3, <1>4 DEF Decision

\* What the trades block, gain and count are numbers, and a commit changes
\* those of its own trade.
LEMMA TermTypes ==
  ASSUME TypeOK, TypeOK', NEW n \in Trades
  PROVE  /\ \A a : Gain(n, a) \in Int /\ Blocked(n, a) \in Int /\ Gain(n, a)' \in Int /\ Blocked(n, a)' \in Int
         /\ \A s, h : Counts(n, s, h) \in Int /\ Counts(n, s, h)' \in Int
<1>1. entries[n] \in SUBSET Entry /\ trade[n] \in TradeRow /\ entries'[n] \in SUBSET Entry /\ trade'[n] \in TradeRow
  BY DEF TypeOK
<1>2. Blocks(trade[n]) \in Int /\ Total(trade[n]) \in Int /\ Blocks(trade'[n]) \in Int /\ Total(trade'[n]) \in Int
  <2>1. Blocks(trade[n]) \in Nat /\ Total(trade[n]) \in Nat /\ Blocks(trade'[n]) \in Nat /\ Total(trade'[n]) \in Nat
    BY <1>1, RowFacts
  <2> QED BY <2>1
<1>3. \A a : Gain(n, a) \in Int /\ Gain(n, a)' \in Int
  BY <1>1, NetInt, GainIsNet
<1>4. \A a : Blocked(n, a) \in Int /\ Blocked(n, a)' \in Int
  BY <1>2 DEF Blocked
<1>5. \A s, h : Counts(n, s, h) \in Int /\ Counts(n, s, h)' \in Int
  BY <1>2 DEF Counts
<1> QED BY <1>3, <1>4, <1>5

LEMMA OtherTerms ==
  ASSUME IInv, NEW p \in Procs, Commit(p), NEW n \in Trades, n # tx[p].t
  PROVE  /\ \A a : Gain(n, a)' = Gain(n, a) /\ Blocked(n, a)' = Blocked(n, a)
         /\ \A s, h : Counts(n, s, h)' = Counts(n, s, h)
<1>1. trade'[n] = trade[n] /\ hold'[n] = hold[n] /\ limitHold'[n] = limitHold[n] /\ entries'[n] = entries[n]
  BY CommitTrade, CommitHolds, CommitEntries
<1> QED BY <1>1 DEF Gain, Posted, Blocked, Counts

\* How the sum of a term over the trades follows the term of m.
LEMMA SumFollows ==
  ASSUME NEW m \in Trades, NEW f \in [Trades -> Int], NEW h \in [Trades -> Int], \A n \in Trades \ {m} : h[n] = f[n],
         NEW d \in Int, h[m] = f[m] + d
  PROVE  SumFunction(f) \in Int /\ SumFunction(h) = SumFunction(f) + d
<1>1. SumFunction(f) \in Int /\ SumFunction(h) = SumFunction(f) + h[m] - f[m]
  BY SumChange, SumInt, TradesAssumption
<1>2. f[m] \in Int
  OBVIOUS
<1> QED BY <1>1, <1>2

\* The usage rows it commits: that of its side changes.
LEMMA CommitUsage ==
  ASSUME IInv, NEW p \in Procs, Commit(p), NEW s \in Side
  PROVE  /\ usage[s].used \in Int /\ usage[s].reserved \in Int
         /\ usage'[s].used = usage[s].used + Using(tx[p], s)
         /\ usage'[s].reserved = usage[s].reserved + Reserving(tx[p], s)
<1> SUFFICES ASSUME NEW n, n = Total(tx[p].row), NEW c, c = tx[p].call, NEW u, u = usage[s]
             PROVE  /\ u.used \in Int /\ u.reserved \in Int
                    /\ usage'[s].used = u.used + Using(tx[p], s)
                    /\ usage'[s].reserved = u.reserved + Reserving(tx[p], s)
  OBVIOUS
<1>1. /\ tx[p].pc = "commit" /\ c \in {"create", "approve", "reject", "cancel", "reverse", "settle", "lot"}
      /\ n \in Int /\ u \in Usage /\ UsageKnown(tx[p])
  <2>1. n \in Nat /\ usage \in [Side -> Usage]
    BY CommitKnown, RowFacts DEF IInv, TypeOK
  <2> QED BY <2>1, CommitKnown, RunningKnown
<1>2. UsageLock(s) \in held[p] <=> c \in {"create"} \union Decision /\ s = tx[p].row.side
  BY CommitLocks
<1>3. usage'[s] = IF UsageLock(s) \in held[p] THEN tx[p].use ELSE u
  BY DEF Commit
<1>4. /\ u.used \in Int /\ u.reserved \in Int
      /\ ReserveUsage(u, n) = [used |-> u.used, reserved |-> u.reserved + n]
      /\ ConsumeUsage(u, n) = [used |-> u.used + n, reserved |-> u.reserved - n]
      /\ ReleaseUsage(u, n) = [used |-> u.used, reserved |-> u.reserved - n]
  BY <1>1, UsageFacts
<1>5. UsageLocked(tx[p]) <=> c \in {"create"} \union Decision
  BY <1>1 DEF UsageLocked, Commits, Decision
<1>6. CASE s # tx[p].row.side \/ c \in {"reverse", "settle", "lot"}
  <2>1. Using(tx[p], s) = 0 /\ Reserving(tx[p], s) = 0
    BY <1>6 DEF Using, Reserving, Decision
  <2> QED BY <1>2, <1>3, <1>4, <1>6, <2>1 DEF Decision
<1>7. CASE s = tx[p].row.side /\ c = "create"
  <2>1. tx[p].use = ReserveUsage(u, n)
    BY <1>1, <1>5, <1>7 DEF UsageKnown
  <2>2. Using(tx[p], s) = 0 /\ Reserving(tx[p], s) = n
    BY <1>7 DEF Using, Reserving
  <2> QED BY <1>2, <1>3, <1>4, <1>7, <2>1, <2>2
<1>8. CASE s = tx[p].row.side /\ c = "approve"
  <2>1. tx[p].use = ConsumeUsage(u, n)
    BY <1>1, <1>5, <1>8 DEF UsageKnown, Decision
  <2>2. Using(tx[p], s) = n /\ Reserving(tx[p], s) = -n
    BY <1>8 DEF Using, Reserving, Decision
  <2> QED BY <1>1, <1>2, <1>3, <1>4, <1>8, <2>1, <2>2 DEF Decision
<1>9. CASE s = tx[p].row.side /\ c \in {"reject", "cancel"}
  <2>1. tx[p].use = ReleaseUsage(u, n)
    BY <1>1, <1>5, <1>9 DEF UsageKnown, Decision
  <2>2. Using(tx[p], s) = 0 /\ Reserving(tx[p], s) = -n
    BY <1>9 DEF Using, Reserving, Decision
  <2> QED BY <1>1, <1>2, <1>3, <1>4, <1>9, <2>1, <2>2 DEF Decision
<1> QED BY <1>1, <1>6, <1>7, <1>8, <1>9

LEMMA CommitKeepsUsage ==
  ASSUME IInv, TypeOK', UsageMatchesTrades, NEW p \in Procs, Commit(p)
  PROVE  UsageMatchesTrades'
<1> SUFFICES ASSUME NEW m, m = tx[p].t, NEW s \in Side
             PROVE  /\ usage'[s].reserved = SumFunction([t \in Trades |-> Counts(t, s, "RESERVED")'])
                    /\ usage'[s].used = SumFunction([t \in Trades |-> Counts(t, s, "CONSUMED")'])
  BY DEF UsageMatchesTrades
<1> DEFINE F(h) == [t \in Trades |-> Counts(t, s, h)]
           d == Reserving(tx[p], s)
           e == Using(tx[p], s)
<1>1. m \in Trades /\ d \in Int /\ e \in Int
  <2>1. Total(tx[p].row) \in Nat
    BY CommitKnown, RowFacts
  <2> QED BY <2>1, CommitKnown DEF Reserving, Using
<1>2. \A t \in Trades : \A h : Counts(t, s, h) \in Int /\ Counts(t, s, h)' \in Int
  BY TermTypes DEF IInv
<1>3. \A t \in Trades \ {m} : \A h : Counts(t, s, h)' = Counts(t, s, h)
  BY OtherTerms
<1>4. Counts(m, s, "RESERVED")' = Counts(m, s, "RESERVED") + d /\ Counts(m, s, "CONSUMED")' = Counts(m, s, "CONSUMED") + e
  BY CommitCounts
<1>5. ASSUME NEW h PROVE F(h) \in [Trades -> Int] /\ F(h)' \in [Trades -> Int] /\ \A t \in Trades \ {m} : F(h)'[t] = F(h)[t]
  BY <1>2, <1>3
<1>6. F("RESERVED")'[m] = F("RESERVED")[m] + d /\ F("CONSUMED")'[m] = F("CONSUMED")[m] + e
  BY <1>1, <1>4
<1>7. usage[s].reserved = SumFunction(F("RESERVED")) /\ usage[s].used = SumFunction(F("CONSUMED"))
  BY DEF UsageMatchesTrades
<1>8. usage'[s].reserved = usage[s].reserved + d /\ usage'[s].used = usage[s].used + e
  BY CommitUsage
<1>9. \A h : F(h)' = [t \in Trades |-> Counts(t, s, h)']
  OBVIOUS
<1> HIDE DEF F, d, e
<1>10. SumFunction(F("RESERVED")') = SumFunction(F("RESERVED")) + d
  BY <1>1, <1>5, <1>6, SumFollows
<1>11. SumFunction(F("CONSUMED")') = SumFunction(F("CONSUMED")) + e
  BY <1>1, <1>5, <1>6, SumFollows
<1> QED BY <1>7, <1>8, <1>9, <1>10, <1>11

LEMMA CommitKeepsAccounts ==
  ASSUME IInv, IInv', AccountsMatchEntries, NEW p \in Procs, Commit(p)
  PROVE  AccountsMatchEntries'
<1> SUFFICES ASSUME NEW m, m = tx[p].t, NEW c, c = tx[p].call, NEW a \in Accounts, NEW g, g = Gained(tx[p], a), NEW b, b = Blocking(tx[p], a)
             PROVE  /\ account'[a].blocked = Opening[a].blocked + SumFunction([t \in Trades |-> Blocked(t, a)'])
                    /\ account'[a].balance = Opening[a].balance + SumFunction([t \in Trades |-> Gain(t, a)'])
                         + (IF a \in Gold THEN lots' ELSE 0)
  <2>1. OneEntryPerSide'
    BY DEF IInv
  <2> QED BY <2>1 DEF AccountsMatchEntries
<1> DEFINE K == [t \in Trades |-> Blocked(t, a)]
           G == [t \in Trades |-> Gain(t, a)]
           d == IF c = "lot" THEN 0 ELSE g
           l == IF a \in Gold THEN lots ELSE 0
<1>1. /\ m \in Trades /\ g \in Int /\ b \in Int /\ d \in Int /\ l \in Int /\ Opening[a].blocked \in Int /\ Opening[a].balance \in Int
      /\ account[a].balance \in Int /\ account[a].blocked \in Int
  <2>1. account[a] \in Account /\ Opening[a] \in Account /\ lots \in Int
    BY OpeningAssumption, LotsAssumption DEF IInv, TypeOK
  <2>2. g \in Int /\ b \in Int
    BY CommitAccount
  <2> QED BY <2>1, <2>2, CommitKnown DEF Account
<1>2. \A t \in Trades : Blocked(t, a) \in Int /\ Blocked(t, a)' \in Int /\ Gain(t, a) \in Int /\ Gain(t, a)' \in Int
  BY TermTypes DEF IInv
<1>3. \A t \in Trades \ {m} : Blocked(t, a)' = Blocked(t, a) /\ Gain(t, a)' = Gain(t, a)
  BY OtherTerms
<1>4. Blocked(m, a)' = Blocked(m, a) + b
  BY CommitCounts
<1>5. Gain(m, a)' = Gain(m, a) + d
  <2>1. CASE c = "lot"
    <3>1. entries'[m] = entries[m]
      BY <2>1, CommitEntries
    <3>2. Gain(m, a)' = Gain(m, a)
      BY <3>1, GainIsNet
    <3> QED BY <1>1, <1>2, <2>1, <3>2
  <2>2. CASE c # "lot"
    <3>1. Net(entries'[m], a) = Net(entries[m], a) + g
      BY <2>2, CommitGains
    <3> QED BY <2>2, <3>1, GainIsNet
  <2> QED BY <2>1, <2>2
<1>6. (IF a \in Gold THEN lots' ELSE 0) = l + (g - d)
  <2>1. CASE c = "lot"
    <3>1. lots' = lots + 1 /\ g = IF a \in Gold THEN 1 ELSE 0
      BY <2>1, CommitEntries DEF Gained
    <3> QED BY <1>1, <2>1, <3>1
  <2>2. CASE c # "lot"
    <3>1. lots' = lots
      BY <2>2, CommitEntries
    <3> QED BY <1>1, <2>2, <3>1
  <2> QED BY <2>1, <2>2
<1>7. /\ account[a].blocked = Opening[a].blocked + SumFunction(K)
      /\ account[a].balance = Opening[a].balance + SumFunction(G) + l
  BY DEF AccountsMatchEntries
<1>8. account'[a].balance = account[a].balance + g /\ account'[a].blocked = account[a].blocked + b
  BY CommitAccount
<1>9. K \in [Trades -> Int] /\ K' \in [Trades -> Int] /\ (\A t \in Trades \ {m} : K'[t] = K[t]) /\ K'[m] = K[m] + b
  BY <1>1, <1>2, <1>3, <1>4
<1>10. G \in [Trades -> Int] /\ G' \in [Trades -> Int] /\ (\A t \in Trades \ {m} : G'[t] = G[t]) /\ G'[m] = G[m] + d
  BY <1>1, <1>2, <1>3, <1>5
<1>11. K' = [t \in Trades |-> Blocked(t, a)'] /\ G' = [t \in Trades |-> Gain(t, a)']
  OBVIOUS
<1>12. m \in Trades /\ b \in Int /\ d \in Int
  BY <1>1
<1> HIDE DEF K, G, d, l
<1>13. SumFunction(K) \in Int /\ SumFunction(K') = SumFunction(K) + b
  BY <1>9, <1>12, SumFollows
<1>14. SumFunction(G) \in Int /\ SumFunction(G') = SumFunction(G) + d
  BY <1>10, <1>12, SumFollows
<1> QED BY <1>1, <1>6, <1>7, <1>8, <1>11, <1>13, <1>14

LEMMA BooksInit == Init => AccountsMatchEntries /\ UsageMatchesTrades
<1> SUFFICES ASSUME Init PROVE AccountsMatchEntries /\ UsageMatchesTrades
  OBVIOUS
<1>1. \A t \in Trades : /\ \A a : Gain(t, a) = 0 /\ Blocked(t, a) = 0
                        /\ \A s : Counts(t, s, "RESERVED") = 0 /\ Counts(t, s, "CONSUMED") = 0
  <2>1. \A t \in Trades : hold[t] = "none" /\ limitHold[t] = "none" /\ entries[t] = {}
    BY DEF Init
  <2>2. \A a : Net({}, a) = 0
    BY DEF Net, SideOf, OnSide, Worth
  <2> QED BY <2>1, <2>2, GainIsNet DEF Blocked, Counts
<1>2. ASSUME NEW f \in [Trades -> {0}] PROVE SumFunction(f) = 0
  BY SumZero, TradesAssumption
<1>3. \A a \in Accounts : Opening[a].balance \in Int /\ Opening[a].blocked \in Int
  BY OpeningAssumption DEF Account
<1>4. account = Opening /\ lots = 0 /\ \A s \in Side : usage[s].reserved = 0 /\ usage[s].used = 0
  BY DEF Init, NoUsage
<1>5. OneEntryPerSide
  BY IInvInit DEF IInv
<1>6. \A a \in Accounts : SumFunction([t \in Trades |-> Blocked(t, a)]) = 0 /\ SumFunction([t \in Trades |-> Gain(t, a)]) = 0
  <2>1. \A a : [t \in Trades |-> Blocked(t, a)] \in [Trades -> {0}] /\ [t \in Trades |-> Gain(t, a)] \in [Trades -> {0}]
    BY <1>1
  <2> QED BY <1>2, <2>1
<1>7. ASSUME NEW s, NEW h \in {"RESERVED", "CONSUMED"} PROVE SumFunction([t \in Trades |-> Counts(t, s, h)]) = 0
  <2>1. [t \in Trades |-> Counts(t, s, h)] \in [Trades -> {0}]
    BY <1>1
  <2> QED BY <1>2, <2>1
<1>8. AccountsMatchEntries
  BY <1>3, <1>4, <1>5, <1>6 DEF AccountsMatchEntries
<1>9. UsageMatchesTrades
  BY <1>4, <1>7 DEF UsageMatchesTrades
<1> QED BY <1>8, <1>9

LEMMA BooksStep ==
  ASSUME IInv, IInv', [Next]_vars, AccountsMatchEntries, UsageMatchesTrades
  PROVE  AccountsMatchEntries' /\ UsageMatchesTrades'
<1>1. CASE \A p \in Procs : ~Commit(p)
  <2>1. UNCHANGED <<trade, hold, limitHold, account, usage, entries, lots>>
    BY <1>1, OnlyCommitWrites
  <2>2. \A t, a : Gain(t, a)' = Gain(t, a)
    BY <2>1, GainIsNet
  <2>3. /\ \A t, a : Blocked(t, a)' = Blocked(t, a)
        /\ \A t, s, h : Counts(t, s, h)' = Counts(t, s, h)
    BY <2>1 DEF Blocked, Counts
  <2>4. OneEntryPerSide'
    BY DEF IInv
  <2>5. AccountsMatchEntries'
    BY <2>1, <2>2, <2>3, <2>4 DEF AccountsMatchEntries
  <2>6. UsageMatchesTrades'
    BY <2>1, <2>3 DEF UsageMatchesTrades
  <2> QED BY <2>5, <2>6
<1>2. CASE \E p \in Procs : Commit(p)
  <2>1. TypeOK'
    BY DEF IInv
  <2> QED BY <1>2, <2>1, CommitKeepsAccounts, CommitKeepsUsage
<1> QED BY <1>1, <1>2

LEMMA BooksInvariant == Spec => [](IInv /\ AccountsMatchEntries /\ UsageMatchesTrades)
<1>1. Init => IInv /\ AccountsMatchEntries /\ UsageMatchesTrades
  BY IInvInit, BooksInit
<1>2. IInv /\ AccountsMatchEntries /\ UsageMatchesTrades /\ [Next]_vars
        => (IInv /\ AccountsMatchEntries /\ UsageMatchesTrades)'
  <2> SUFFICES ASSUME IInv, AccountsMatchEntries, UsageMatchesTrades, [Next]_vars
               PROVE  (IInv /\ AccountsMatchEntries /\ UsageMatchesTrades)'
    OBVIOUS
  <2>1. IInv'
    BY IInvStep
  <2> QED BY <2>1, BooksStep
<1> QED BY <1>1, <1>2, PTL DEF Spec

\* No update of an account row is lost: every account holds what its entries
\* and the gold lots add up to, and blocks what the open trades ask for.
THEOREM AccountsSafe == Spec => []AccountsMatchEntries
BY BooksInvariant, PTL

\* The usage row of each side counts its open and its approved trades, and
\* none twice.
THEOREM UsageSafe == Spec => []UsageMatchesTrades
BY BooksInvariant, PTL

\* What the house gets of a settlement is what the client pays, and no gold
\* moves: an entry of one has its counterpart on the other.
LEMMA SettlementsStep == IInv => SettlementsBalance
<1> SUFFICES ASSUME IInv, NEW n \in Forward
             PROVE  /\ Gain(n, "houseIRR") = -Gain(n, "clientIRR")
                    /\ \A a \in Gold : Gain(n, a) = 0
  BY DEF SettlementsBalance
<1> SUFFICES ASSUME NEW E, E = entries[n]
             PROVE  Net(E, "houseIRR") = -Net(E, "clientIRR") /\ \A a \in Gold : Net(E, a) = 0
  BY GainIsNet
<1>1. E \in SUBSET Entry /\ OnePerSide(E)
  <2>1. n \in Trades
    BY TradesAssumption
  <2> QED BY <2>1 DEF IInv, TypeOK, OneEntryPerSide, OnePerSide
<1>2. \A e \in E : /\ e.account \in IRR /\ e.delta # 0 /\ e.delta \in Int
                   /\ \E f \in E : f.account # e.account /\ f.delta = -e.delta /\ f.account \in IRR
  BY <1>1 DEF IInv, RowsKnown, Entry
<1>3. ASSUME NEW s \in {"debit", "credit"}, NEW o \in {"debit", "credit"}, o # s
      PROVE  SideOf(E, "houseIRR", s) = -SideOf(E, "clientIRR", o)
  <2>1. CASE \E e \in E : e.account = "houseIRR" /\ (e.delta < 0 <=> s = "debit")
    <3>1. PICK e \in E : e.account = "houseIRR" /\ (e.delta < 0 <=> s = "debit")
      BY <2>1
    <3>2. PICK f \in E : f.account # e.account /\ f.delta = -e.delta /\ f.account \in IRR
      BY <1>2
    <3>3. f.account = "clientIRR" /\ (f.delta < 0 <=> o = "debit")
      BY <1>2, <1>3, <3>1, <3>2 DEF IRR
    <3>4. SideOf(E, "houseIRR", s) = e.delta /\ SideOf(E, "clientIRR", o) = f.delta
      BY <1>1, <3>1, <3>3, SideIs
    <3> QED BY <1>2, <3>2, <3>4
  <2>2. CASE ~\E e \in E : e.account = "houseIRR" /\ (e.delta < 0 <=> s = "debit")
    <3>1. OnSide(E, "houseIRR", s) = {}
      BY <2>2 DEF OnSide
    <3>2. OnSide(E, "clientIRR", o) = {}
      <4> SUFFICES ASSUME NEW e \in E, e.account = "clientIRR", e.delta < 0 <=> o = "debit" PROVE FALSE
        BY DEF OnSide
      <4>1. PICK f \in E : f.account # e.account /\ f.delta = -e.delta /\ f.account \in IRR
        BY <1>2
      <4>2. f.account = "houseIRR" /\ (f.delta < 0 <=> s = "debit")
        BY <1>2, <1>3, <4>1 DEF IRR
      <4> QED BY <2>2, <4>2
    <3>3. Worth({}) = 0
      BY DEF Worth
    <3> QED BY <3>1, <3>2, <3>3 DEF SideOf
  <2> QED BY <2>1, <2>2
<1>4. Net(E, "houseIRR") = -Net(E, "clientIRR")
  <2>1. /\ SideOf(E, "houseIRR", "debit") = -SideOf(E, "clientIRR", "credit")
        /\ SideOf(E, "houseIRR", "credit") = -SideOf(E, "clientIRR", "debit")
    BY <1>3
  <2>2. SideOf(E, "clientIRR", "credit") \in Int /\ SideOf(E, "clientIRR", "debit") \in Int
    BY <1>1, SideInt
  <2> QED BY <2>1, <2>2 DEF Net
<1>5. ASSUME NEW a \in Gold PROVE Net(E, a) = 0
  <2>1. \A e \in E : e.account # a
    BY <1>2 DEF IRR, Gold
  <2>2. \A s : OnSide(E, a, s) = {}
    BY <2>1 DEF OnSide
  <2> QED BY <2>2 DEF Net, SideOf, Worth
<1> QED BY <1>4, <1>5

\* Whatever settlements of a forward trade overlap, the house gets what the
\* client pays.
THEOREM SettlementsSafe == Spec => []SettlementsBalance
BY SettlementsStep, Invariant, PTL

=============================================================================
