------------------------- MODULE WithdrawalsProofs -------------------------
(***************************************************************************)
(* Proofs about Withdrawals for all processes, requests, keys, amounts,    *)
(* policies and days.                                                      *)
(***************************************************************************)
EXTENDS WithdrawalsInvariant, BookLemmas, TLAPS

----------------------------------------------------------------------------
(* Type correctness *)

LEMMA RunningRecord ==
  ASSUME TypeOK, NEW p \in Procs, tx[p].pc # "idle"
  PROVE  tx[p] \in TxRecord
BY DEF TypeOK, Idle

LEMMA AmountTypes ==
  ASSUME NEW row \in RequestRow
  PROVE  row.amount \in Nat
<1>1. row.amount \in Amounts \union {0}
  BY DEF RequestRow
<1>2. \A a \in Amounts : a \in Nat
  BY AmountsAssumption
<1> QED BY <1>1, <1>2

\* What a step reads: the fields of its local state and its request's rows.
LEMMA RowTypes ==
  ASSUME TypeOK, NEW t \in TxRecord
  PROVE  /\ t.w \in Requests /\ t.row \in RequestRow /\ t.row.amount \in Int
         /\ request[t.w] \in RequestRow /\ request[t.w].amount \in Int
         /\ hold[t.w] \in HoldStatus /\ account \in Account
<1>1. t.w \in Requests /\ t.row \in RequestRow
  BY DEF TxRecord
<1>2. request[t.w] \in RequestRow /\ hold[t.w] \in HoldStatus /\ account \in Account
  BY <1>1 DEF TypeOK
<1> QED BY <1>1, <1>2, AmountTypes

LEMMA TypeInit == Init => TypeOK
BY BalanceAssumption, DaysAssumption
   DEF Init, TypeOK, RequestRow, RequestStatus, HoldStatus, Account, Usage, NoRequest, NoUsage, UsageRows, Idle

LEMMA BegunType ==
  ASSUME NEW pc \in InTransaction \union AfterCommit, NEW call \in Calls, NEW w \in Requests, NEW row \in RequestRow
  PROVE  Begun(pc, call, w, row) \in TxRecord
BY DEF Begun, TxRecord, HoldStatus, Account, Usage, NoUsage

LEMMA GoType ==
  ASSUME TypeOK, NEW p \in Procs, NEW t \in TxRecord, Go(p, t)
  PROVE  TypeOK'
BY DEF Go, data, TypeOK

LEMMA LockAndGoType ==
  ASSUME TypeOK, NEW p \in Procs, NEW l \in Locks, NEW t \in TxRecord, LockAndGo(p, l, t)
  PROVE  TypeOK'
BY DEF LockAndGo, data, TypeOK

LEMMA EndType ==
  ASSUME TypeOK, NEW p \in Procs, End(p)
  PROVE  TypeOK'
BY DEF End, data, TypeOK

LEMMA LockTypes ==
  /\ AccountLock \in Locks
  /\ \A w \in Requests : RequestLock(w) \in Locks
  /\ \A u \in UsageRows : UsageLock(u) \in Locks
  /\ \A k \in Keys : KeyLock(k) \in Locks
BY DEF Locks

LEMMA ReserveLimitType ==
  ASSUME TypeOK, NEW p \in Procs, NEW period \in Periods, NEW pc \in InTransaction, NEW next \in InTransaction,
         ReserveLimit(p, period, pc, next)
  PROVE  TypeOK'
<1> DEFINE u == CurrentRow(period)
           t == [tx[p] EXCEPT !.pc = next, !.use[u] = ReserveUsage(usage[u], tx[p].row.amount)]
<1>1. u \in UsageRows
  BY DEF CurrentRow, UsageRows, Periods, TypeOK
<1>2. tx[p] \in TxRecord
  BY RunningRecord DEF ReserveLimit, At, InTransaction
<1>3. usage[u] \in Usage /\ tx[p].row.amount \in Int
  BY <1>1, <1>2, RowTypes DEF TypeOK
<1>4. ReserveUsage(usage[u], tx[p].row.amount) \in Usage
  BY <1>3 DEF ReserveUsage, Usage
<1>5. t \in TxRecord
  BY <1>1, <1>2, <1>4 DEF TxRecord
<1>6. CASE End(p)
  BY <1>6, EndType
<1>7. CASE LockAndGo(p, UsageLock(u), t)
  BY <1>1, <1>5, <1>7, LockAndGoType, LockTypes
<1> QED BY <1>6, <1>7 DEF ReserveLimit

LEMMA TypeStep == TypeOK /\ [Next]_vars => TypeOK'
<1> SUFFICES ASSUME TypeOK, [Next]_vars PROVE TypeOK'
    OBVIOUS
<1>1. CASE UNCHANGED vars
  BY <1>1 DEF TypeOK, vars
<1>2. CASE NewDay
  BY <1>2, DaysAssumption DEF NewDay, TypeOK
<1>3. ASSUME NEW p \in Procs, Call(p) PROVE TypeOK'
  <2>1. ASSUME NEW w \in Requests, NEW k \in Keys \union {NoKey}, NEW a \in Amounts, NEW d \in Purposes,
               BeginCreate(p, w, k, a, d)
        PROVE  TypeOK'
    <3> DEFINE row == [status |-> IF d = "P2P" THEN "WAITING_ASSIGNMENT" ELSE "PENDING", amount |-> a, key |-> k]
    <3>1. row \in RequestRow
      BY DEF RequestRow, RequestStatus
    <3>2. Begun("insert", "create", w, row) \in TxRecord
      BY <3>1, BegunType DEF InTransaction, Calls
    <3>3. tx' = [tx EXCEPT ![p] = Begun("insert", "create", w, row)]
      BY <2>1 DEF BeginCreate
    <3>4. held' \in [Procs -> SUBSET Locks]
      BY <2>1 DEF BeginCreate, TypeOK, Locks
    <3> QED BY <2>1, <3>2, <3>3, <3>4 DEF BeginCreate, data, TypeOK
  <2>2. ASSUME NEW w \in Requests, NEW c \in {"approve", "reject", "cancel"}, BeginDecision(p, w, c)
        PROVE  TypeOK'
    <3>1. NoRequest \in RequestRow
      BY DEF NoRequest, RequestRow, RequestStatus
    <3>2. Begun("lockRequest", c, w, NoRequest) \in TxRecord
      BY <3>1, BegunType DEF InTransaction, Calls
    <3> QED BY <2>2, <3>2, GoType DEF BeginDecision
  <2> QED BY <1>3, <2>1, <2>2 DEF Call
<1>4. ASSUME NEW p \in Procs, Abort(p) \/ CrashInTail(p) PROVE TypeOK'
  BY <1>4, EndType DEF Abort, CrashInTail
<1>5. ASSUME NEW p \in Procs, Step(p) PROVE TypeOK'
  <2> DEFINE t == tx[p]
             w == tx[p].w
  <2>0. t \in TxRecord
    BY <1>5, RunningRecord DEF Step, InsertRequest, ReserveDaily, ReserveMonthly, ReserveLimit, ReserveFunds, LockRequest,
       ReadHold, LockAccount, ReadLimits, LockUsage, LimitsDone, Commit, FindVoucher, EnqueueVoucher, At
  <2>1. w \in Requests /\ request[w] \in RequestRow /\ request[w].amount \in Int /\ t.row.amount \in Int
        /\ hold[w] \in HoldStatus /\ account \in Account
    BY <2>0, RowTypes
  <2>2. CASE InsertRequest(p)
    <3>1. [t EXCEPT !.pc = "limitDaily"] \in TxRecord
      BY <2>0 DEF TxRecord, InTransaction
    <3>2. t.row.key # NoKey => KeyLock(t.row.key) \in Locks
      BY <2>0, LockTypes DEF TxRecord, RequestRow
    <3> QED BY <2>2, <3>1, <3>2, GoType, LockAndGoType, EndType DEF InsertRequest
  <2>3. CASE ReserveDaily(p) \/ ReserveMonthly(p)
    BY <2>3, ReserveLimitType DEF ReserveDaily, ReserveMonthly, Periods, InTransaction
  <2>4. CASE ReserveFunds(p)
    <3>1. [t EXCEPT !.pc = "commit", !.acct = Reserve(account, t.row.amount)] \in TxRecord
      BY <2>0, <2>1, LedgerTypes DEF TxRecord, InTransaction
    <3> QED BY <2>4, <3>1, LockTypes, LockAndGoType, EndType DEF ReserveFunds
  <2>5. CASE LockRequest(p)
    <3>1. \A pc \in InTransaction \union AfterCommit : [t EXCEPT !.pc = pc] \in TxRecord
      BY <2>0 DEF TxRecord
    <3>2. [t EXCEPT !.pc = "findVoucher"] \in TxRecord
          /\ [t EXCEPT !.pc = IF t.call = "approve" THEN "readHold" ELSE "readLimits"] \in TxRecord
      BY <3>1 DEF InTransaction, AfterCommit
    <3> QED BY <2>1, <2>5, <3>2, LockTypes, GoType, LockAndGoType, EndType DEF LockRequest
  <2>6. CASE ReadHold(p)
    <3>1. \A pc \in InTransaction : [[t EXCEPT !.seenHold = hold[w]] EXCEPT !.pc = pc] \in TxRecord
      BY <2>0, <2>1 DEF TxRecord
    <3>2. [[t EXCEPT !.seenHold = hold[w]] EXCEPT !.pc = "lockAccount"] \in TxRecord
          /\ [[t EXCEPT !.seenHold = hold[w]] EXCEPT
                !.pc = IF hold[w] \in {"none", "RELEASED"} THEN "commit" ELSE "lockAccount"] \in TxRecord
      BY <3>1 DEF InTransaction
    <3> QED BY <2>6, <3>2, GoType, EndType DEF ReadHold
  <2>7. CASE LockAccount(p)
    <3> DEFINE amt == request[w].amount
               a == IF t.seenHold = "RESERVED" THEN Unblock(account, amt) ELSE account
               next == IF t.call = "approve" THEN [t EXCEPT !.pc = "readLimits", !.acct = Apply(a, -amt)]
                                             ELSE [t EXCEPT !.pc = "commit", !.acct = a]
    <3>1. a \in Account /\ Apply(a, -amt) \in Account
      BY <2>1, LedgerTypes
    <3>2. next \in TxRecord
      <4> HIDE DEF a
      <4> QED BY <2>0, <3>1 DEF TxRecord, InTransaction
    <3>3. End(p) \/ LockAndGo(p, AccountLock, next)
      BY <2>7 DEF LockAccount
    <3> QED BY <3>2, <3>3, LockTypes, LockAndGoType, EndType
  <2>8. CASE ReadLimits(p)
    <3>1. \A S \in SUBSET UsageRows : [t EXCEPT !.pc = "lockUsage", !.todo = S] \in TxRecord
      BY <2>0 DEF TxRecord, InTransaction
    <3> QED BY <2>8, <3>1, GoType DEF ReadLimits
  <2>9. CASE LockUsage(p)
    <3>1. PICK u \in t.todo :
            LockAndGo(p, UsageLock(u),
              [t EXCEPT !.todo = @ \ {u}, !.use[u] = IF t.call = "approve" THEN ConsumeUsage(usage[u], request[w].amount)
                                                                        ELSE ReleaseUsage(usage[u], request[w].amount)])
      BY <2>9 DEF LockUsage
    <3> DEFINE v == IF t.call = "approve" THEN ConsumeUsage(usage[u], request[w].amount)
                                          ELSE ReleaseUsage(usage[u], request[w].amount)
    <3>2. u \in UsageRows /\ usage[u] \in Usage
      BY <2>0 DEF TxRecord, TypeOK
    <3>3. v \in Usage
      BY <2>1, <3>2, UsageTypes
    <3>4. [t EXCEPT !.todo = @ \ {u}, !.use[u] = v] \in TxRecord
      <4> HIDE DEF v
      <4> QED BY <2>0, <3>2, <3>3 DEF TxRecord
    <3> QED BY <3>1, <3>2, <3>4, LockTypes, LockAndGoType
  <2>10. CASE LimitsDone(p)
    <3>1. [t EXCEPT !.pc = IF t.call = "approve" THEN "commit" ELSE "readHold"] \in TxRecord
      BY <2>0 DEF TxRecord, InTransaction
    <3> QED BY <2>10, <3>1, GoType DEF LimitsDone
  <2>11. CASE Commit(p)
    <3>1. request' \in [Requests -> RequestRow]
      <4>1. StatusAfter(t) \in RequestStatus
        BY <2>0 DEF StatusAfter, RequestStatus, TxRecord, RequestRow
      <4>2. [(IF t.call = "create" THEN t.row ELSE request[w]) EXCEPT !.status = StatusAfter(t)] \in RequestRow
        BY <2>0, <2>1, <4>1 DEF TxRecord, RequestRow
      <4> QED BY <2>1, <2>11, <4>2 DEF Commit, TypeOK
    <3>2. HoldAfter(t.call) \in HoldStatus
      BY <2>0 DEF HoldAfter, HoldStatus, TxRecord, Calls
    <3>3. hold' \in [Requests -> HoldStatus] /\ limitHold' \in [Requests -> [UsageRows -> HoldStatus]]
      BY <2>1, <2>11, <3>2 DEF Commit, TypeOK
    <3>4. account' \in Account /\ usage' \in [UsageRows -> Usage] /\ debits' \in [Requests -> Nat]
      BY <2>0, <2>1, <2>11 DEF Commit, TypeOK, TxRecord
    <3>5. held' \in [Procs -> SUBSET Locks] /\ voucher' = voucher /\ today' = today
      BY <2>11 DEF Commit, TypeOK
    <3>6. Begun("findVoucher", "approve", w, NoRequest) \in TxRecord
      BY <2>1, BegunType DEF NoRequest, RequestRow, RequestStatus, AfterCommit, Calls
    <3>7. tx' \in [Procs -> TxRecord \union {Idle}]
      BY <2>11, <3>6 DEF Commit, TypeOK
    <3> QED BY <3>1, <3>3, <3>4, <3>5, <3>7 DEF TypeOK
  <2>12. CASE FindVoucher(p)
    <3>1. [t EXCEPT !.pc = "enqueue"] \in TxRecord
      BY <2>0 DEF TxRecord, AfterCommit
    <3> QED BY <2>12, <3>1, GoType, EndType DEF FindVoucher
  <2>13. CASE EnqueueVoucher(p)
    BY <2>1, <2>13 DEF EnqueueVoucher, TypeOK
  <2> QED BY <1>5, <2>2, <2>3, <2>4, <2>5, <2>6, <2>7, <2>8, <2>9, <2>10, <2>11, <2>12, <2>13 DEF Step
<1> QED BY <1>1, <1>2, <1>3, <1>4, <1>5 DEF Next

\* Every variable keeps its type, the local state of every call included, for
\* any number of calls, requests and days.
THEOREM TypeCorrect == Spec => []TypeOK
BY TypeInit, TypeStep, PTL DEF Spec

----------------------------------------------------------------------------
(* The inductive invariant: steps that change no row *)

LEMMA LockKinds ==
  /\ \A w \in Requests : RequestLock(w) # AccountLock
  /\ \A w \in Requests, u \in UsageRows : RequestLock(w) # UsageLock(u)
  /\ \A w \in Requests, k \in Keys : RequestLock(w) # KeyLock(k)
  /\ \A u \in UsageRows : UsageLock(u) # AccountLock
  /\ \A k \in Keys : KeyLock(k) # AccountLock
  /\ \A u \in UsageRows, k \in Keys : UsageLock(u) # KeyLock(k)
  /\ \A u, v \in UsageRows : UsageLock(u) = UsageLock(v) => u = v
BY DEF RequestLock, UsageLock, KeyLock, AccountLock

\* What a lock not of a usage row, and one of a usage row, add to UsageIn.
LEMMA UsageInAdd ==
  ASSUME NEW L, NEW l
  PROVE  /\ (\A u \in UsageRows : UsageLock(u) # l) => UsageIn(L \union {l}) = UsageIn(L)
         /\ \A u \in UsageRows : l = UsageLock(u) => UsageIn(L \union {l}) = UsageIn(L) \union {u}
BY LockKinds DEF UsageIn

\* A step of p that writes no row keeps the invariant when the locks it takes
\* are free and p knows what its next step needs.
LEMMA LocalStep ==
  ASSUME IInv, TypeOK', NEW p \in Procs, NEW t, NEW L,
         UNCHANGED data, tx' = [tx EXCEPT ![p] = t], held' = [held EXCEPT ![p] = L],
         \A q \in Procs \ {p} : L \intersect held[q] = {},
         t.pc \in {"idle", "lockRequest"} \union AfterCommit => L = {},
         t.pc # "idle" => Known(t, L)
  PROVE  IInv'
<1>1. \A q \in Procs : /\ tx'[q] = IF q = p THEN t ELSE tx[q]
                       /\ held'[q] = IF q = p THEN L ELSE held[q]
  BY DEF IInv, TypeOK
<1>2. LocksExclusive'
  BY <1>1 DEF IInv, LocksExclusive
<1>3. \A q \in Procs : tx[q].pc # "idle" => Known(tx[q], held[q])
  BY DEF IInv
<1>4. ASSUME NEW u, NEW M PROVE Known(u, M)' <=> Known(u, M)
  BY DEF data, Known, CallKnown, RequestKnown, HoldKnown, UsageKnown, AccountKnown, UsageVersionKnown, KeyKnown,
         ToDo, PaidFrom, UsageFrom, UsedKey
<1>5. ASSUME NEW q \in Procs, tx'[q].pc # "idle" PROVE Known(tx[q], held[q])'
  <2>1. CASE q = p
    BY <1>1, <1>4, <1>5, <2>1
  <2>2. CASE q # p
    BY <1>1, <1>3, <1>4, <1>5, <2>2
  <2> QED BY <2>1, <2>2
<1>6. RowsConsistent'
  BY DEF IInv, data, RowsConsistent, StatusMatchesHolds, HoldsAre, NoOverdraft, LimitsRespected, OneRequestPerKey, VoucherFollowsDebit
<1> QED BY <1>2, <1>5, <1>6 DEF IInv

LEMMA EndKeeps ==
  ASSUME IInv, NEW p \in Procs, End(p)
  PROVE  IInv'
<1>1. TypeOK'
  BY EndType DEF IInv
<1> QED BY <1>1, LocalStep DEF End, Idle

LEMMA GoKeeps ==
  ASSUME IInv, TypeOK', NEW p \in Procs, NEW t, Go(p, t), Known(t, held[p]),
         t.pc \in {"idle", "lockRequest"} \union AfterCommit => held[p] = {}
  PROVE  IInv'
<1>1. held' = [held EXCEPT ![p] = held[p]]
  BY DEF Go, IInv, TypeOK
<1>2. \A q \in Procs \ {p} : held[p] \intersect held[q] = {}
  BY DEF IInv, LocksExclusive
<1> QED BY <1>1, <1>2, LocalStep DEF Go

LEMMA LockAndGoKeeps ==
  ASSUME IInv, TypeOK', NEW p \in Procs, NEW t, NEW l, CanLock(p, l), LockAndGo(p, l, t),
         Known(t, held[p] \union {l}), t.pc \notin {"idle", "lockRequest"} \union AfterCommit
  PROVE  IInv'
<1>1. \A q \in Procs \ {p} : (held[p] \union {l}) \intersect held[q] = {}
  BY DEF IInv, LocksExclusive, CanLock
<1> QED BY <1>1, LocalStep DEF LockAndGo

\* A call keeps its usage versions when its step leaves them and its arguments.
LEMMA UsageVersionCarried ==
  ASSUME NEW t, NEW L, NEW u, NEW M, UsageVersionKnown(t, L), UsageIn(M) = UsageIn(L),
         u.call = t.call, u.w = t.w, u.row = t.row, u.use = t.use
  PROVE  UsageVersionKnown(u, M)
BY DEF UsageVersionKnown, UsageFrom

\* What the invariant says of a running call.
LEMMA RunningKnown ==
  ASSUME IInv, NEW p \in Procs, tx[p].pc # "idle"
  PROVE  tx[p] \in TxRecord /\ Known(tx[p], held[p])
BY RunningRecord DEF IInv

LEMMA BeginCreateKeeps ==
  ASSUME IInv, TypeOK', NEW p \in Procs, NEW w \in Requests, NEW k \in Keys \union {NoKey}, NEW a \in Amounts,
         NEW d \in Purposes, BeginCreate(p, w, k, a, d)
  PROVE  IInv'
<1> DEFINE row == [status |-> IF d = "P2P" THEN "WAITING_ASSIGNMENT" ELSE "PENDING", amount |-> a, key |-> k]
           t == Begun("insert", "create", w, row)
           L == {RequestLock(w)}
<1>1. t.pc = "insert" /\ t.call = "create" /\ t.w = w /\ t.row = row
  BY DEF Begun
<1>2. UsageIn(L) = {} /\ AccountLock \notin L
  BY LockKinds DEF UsageIn
<1>3. Known(t, L)
  <2> HIDE DEF t, L
  <2>1. CallKnown(t, L)
    BY <1>1 DEF CallKnown, Creating, Deciding, AfterCommit, L
  <2>2. RequestKnown(t)
    BY <1>1 DEF BeginCreate, RequestKnown, Creating, Deciding, CommitsCreate, CommitsDecision, AfterCommit
  <2>3. HoldKnown(t) /\ UsageKnown(t, L) /\ AccountKnown(t, L) /\ UsageVersionKnown(t, L) /\ KeyKnown(t, L)
    BY <1>1, <1>2 DEF HoldKnown, UsageKnown, AccountKnown, UsageVersionKnown, KeyKnown, Creating, CommitsCreate, CommitsDecision
  <2> QED BY <2>1, <2>2, <2>3 DEF Known
<1>4. \A q \in Procs \ {p} : L \intersect held[q] = {}
  BY DEF BeginCreate, CanLock
<1>5. tx' = [tx EXCEPT ![p] = t] /\ held' = [held EXCEPT ![p] = L] /\ UNCHANGED data
  BY DEF BeginCreate
<1>6. t.pc \notin {"idle", "lockRequest"} \union AfterCommit
  BY <1>1 DEF AfterCommit
<1> HIDE DEF t, L
<1> QED BY <1>3, <1>4, <1>5, <1>6, LocalStep

LEMMA InsertRequestKeeps ==
  ASSUME IInv, TypeOK', NEW p \in Procs, InsertRequest(p)
  PROVE  IInv'
<1> DEFINE t == [tx[p] EXCEPT !.pc = "limitDaily"]
           k == tx[p].row.key
<1>1. tx[p].pc = "insert" /\ tx[p] \in TxRecord /\ Known(tx[p], held[p])
  BY RunningKnown DEF InsertRequest, At
<1>2. /\ t.pc = "limitDaily" /\ t.call = "create" /\ t.w = tx[p].w /\ t.row = tx[p].row
      /\ k \in Keys \union {NoKey}
  BY <1>1 DEF TxRecord, RequestRow, Known, CallKnown, Creating
<1>3. ASSUME NEW L, held[p] \subseteq L, UsageIn(L) = UsageIn(held[p]), AccountLock \in L => AccountLock \in held[p],
             k # NoKey => KeyLock(k) \in L /\ ~UsedKey(k)
      PROVE  Known(t, L)
  <2> HIDE DEF t, k
  <2>1. CallKnown(t, L) /\ RequestKnown(t) /\ HoldKnown(t)
    BY <1>1, <1>2, <1>3 DEF Known, CallKnown, RequestKnown, HoldKnown, Creating, Deciding, CommitsCreate, CommitsDecision, AfterCommit
  <2>2. UsageKnown(t, L) /\ AccountKnown(t, L) /\ UsageVersionKnown(t, L)
    BY <1>1, <1>2, <1>3 DEF Known, UsageKnown, AccountKnown, UsageVersionKnown, Creating, CommitsCreate, CommitsDecision
  <2>3. KeyKnown(t, L)
    BY <1>2, <1>3 DEF KeyKnown, k
  <2> QED BY <2>1, <2>2, <2>3 DEF Known
<1>4. t.pc \notin {"idle", "lockRequest"} \union AfterCommit
  BY <1>2 DEF AfterCommit
<1>5. CASE k = NoKey
  <2>1. Go(p, t)
    BY <1>5 DEF InsertRequest
  <2>2. Known(t, held[p])
    BY <1>3, <1>5
  <2> HIDE DEF t
  <2> QED BY <1>4, <2>1, <2>2, GoKeeps
<1>6. CASE k # NoKey
  <2>1. CASE UsedKey(k)
    BY <1>6, <2>1, EndKeeps DEF InsertRequest
  <2>2. CASE ~UsedKey(k)
    <3>1. CanLock(p, KeyLock(k)) /\ LockAndGo(p, KeyLock(k), t)
      BY <1>6, <2>2 DEF InsertRequest
    <3>2. Known(t, held[p] \union {KeyLock(k)})
      <4>1. k \in Keys
        BY <1>2, <1>6
      <4>2. \A u \in UsageRows : UsageLock(u) # KeyLock(k)
        BY <4>1, LockKinds
      <4>3. UsageIn(held[p] \union {KeyLock(k)}) = UsageIn(held[p])
        BY <4>2, UsageInAdd
      <4>4. KeyLock(k) # AccountLock
        BY <4>1, LockKinds
      <4> HIDE DEF t, k
      <4> QED BY <1>3, <2>2, <4>3, <4>4
    <3> HIDE DEF t
    <3> QED BY <1>4, <3>1, <3>2, LockAndGoKeeps
  <2> QED BY <2>1, <2>2
<1> QED BY <1>5, <1>6

LEMMA ReserveLimitKeeps ==
  ASSUME IInv, TypeOK', NEW p \in Procs, NEW period \in Periods, NEW pc, NEW next, ReserveLimit(p, period, pc, next),
         \/ period = "DAILY" /\ pc = "limitDaily" /\ next = "limitMonthly"
         \/ period = "MONTHLY" /\ pc = "limitMonthly" /\ next = "reserve"
  PROVE  IInv'
<1> DEFINE u == CurrentRow(period)
           L == held[p] \union {UsageLock(u)}
           t == [tx[p] EXCEPT !.pc = next, !.use[u] = ReserveUsage(usage[u], tx[p].row.amount)]
<1>1. tx[p].pc = pc /\ tx[p] \in TxRecord /\ Known(tx[p], held[p])
  BY RunningKnown DEF ReserveLimit, At
<1>2. u \in UsageRows /\ u[1] = period
  BY DEF CurrentRow, UsageRows, Periods, IInv, TypeOK
<1>3. CASE ~WithinPolicy(usage[u], tx[p].row.amount, Policy[period])
  BY <1>3, EndKeeps DEF ReserveLimit
<1>4. CASE WithinPolicy(usage[u], tx[p].row.amount, Policy[period])
  <2>1. CanLock(p, UsageLock(u)) /\ LockAndGo(p, UsageLock(u), t)
    BY <1>4 DEF ReserveLimit
  <2>2. /\ t.pc = next /\ t.call = tx[p].call /\ t.w = tx[p].w /\ t.row = tx[p].row
        /\ t.use = [tx[p].use EXCEPT ![u] = ReserveUsage(usage[u], tx[p].row.amount)]
        /\ tx[p].use \in [UsageRows -> Usage]
    BY <1>1 DEF TxRecord
  <2>3. UsageIn(L) = UsageIn(held[p]) \union {u}
    BY <1>2, UsageInAdd
  <2>4. CallKnown(t, L) /\ RequestKnown(t) /\ HoldKnown(t)
    <3> HIDE DEF t
    <3> QED BY <1>1, <2>2 DEF Known, CallKnown, RequestKnown, HoldKnown, Creating, Deciding, CommitsCreate, CommitsDecision, AfterCommit
  <2>5. UsageKnown(t, L)
    <3>1. period = "DAILY" => u = <<"DAILY", today>> /\ today \in 1..Days
      BY DEF CurrentRow, IInv, TypeOK
    <3>2. period = "MONTHLY" => u = <<"MONTHLY", 1>>
      BY DEF CurrentRow
    <3> HIDE DEF t, u, L
    <3> QED BY <1>1, <2>2, <2>3, <3>1, <3>2 DEF Known, UsageKnown, CommitsCreate, CommitsDecision
  <2>6. AccountKnown(t, L)
    <3>1. AccountLock \in L => AccountLock \in held[p]
      BY <1>2, LockKinds
    <3> HIDE DEF t, u, L
    <3> QED BY <1>1, <2>2, <3>1 DEF Known, AccountKnown, Creating, CommitsCreate, CommitsDecision
  <2>7. UsageVersionKnown(t, L)
    <3> SUFFICES ASSUME NEW v \in UsageIn(L)
                 PROVE  /\ t.use[v] = UsageFrom(t, v)
                        /\ Policy[v[1]].value # NoLimit => t.use[v].used + t.use[v].reserved <= Policy[v[1]].value
      BY DEF UsageVersionKnown
    <3>1. CASE v # u
      <4>1. v \in UsageIn(held[p]) /\ t.use[v] = tx[p].use[v]
        BY <2>2, <2>3, <3>1
      <4>2. UsageFrom(t, v) = UsageFrom(tx[p], v)
        <5> HIDE DEF t
        <5> QED BY <2>2 DEF UsageFrom
      <4> HIDE DEF t, u, L
      <4> QED BY <1>1, <4>1, <4>2 DEF Known, UsageVersionKnown
    <3>2. CASE v = u
      <4>1. t.use[u] = ReserveUsage(usage[u], tx[p].row.amount)
        BY <1>2, <2>2
      <4>2. usage[u] \in Usage /\ tx[p].row.amount \in Int
        BY <1>1, <1>2, RowTypes DEF IInv, TypeOK
      <4>3. Policy[period].value # NoLimit => usage[u].used + usage[u].reserved + tx[p].row.amount <= Policy[period].value
        BY <1>4 DEF WithinPolicy, Projected
      <4>4. /\ t.use[u].used = usage[u].used
            /\ t.use[u].reserved = usage[u].reserved + tx[p].row.amount
        <5> HIDE DEF t, u
        <5> QED BY <4>1, <4>2 DEF ReserveUsage, Usage
      <4>5. usage[u].used \in Int /\ usage[u].reserved \in Int /\ tx[p].row.amount \in Int
        BY <4>2 DEF Usage
      <4>6. Policy[period].value # NoLimit => Policy[period].value \in Int
        BY PolicyAssumption
      <4>7. t.use[u] = UsageFrom(t, u)
        <5> HIDE DEF t, u
        <5> QED BY <1>1, <2>2, <4>1 DEF UsageFrom, Known, CallKnown, Creating
      <4> HIDE DEF t, u
      <4> QED BY <1>2, <3>2, <4>3, <4>4, <4>5, <4>6, <4>7
    <3> QED BY <3>1, <3>2
  <2>8. KeyKnown(t, L)
    <3> HIDE DEF t
    <3> QED BY <1>1, <2>2 DEF Known, KeyKnown, Creating, CommitsCreate
  <2>9. t.pc \notin {"idle", "lockRequest"} \union AfterCommit
    BY <2>2 DEF AfterCommit
  <2>10. Known(t, L)
    <3> HIDE DEF t, L
    <3> QED BY <2>4, <2>5, <2>6, <2>7, <2>8 DEF Known
  <2> HIDE DEF t
  <2> QED BY <2>1, <2>9, <2>10, LockAndGoKeeps
<1> QED BY <1>3, <1>4

LEMMA ReserveFundsKeeps ==
  ASSUME IInv, TypeOK', NEW p \in Procs, ReserveFunds(p)
  PROVE  IInv'
<1> DEFINE L == held[p] \union {AccountLock}
           t == [tx[p] EXCEPT !.pc = "commit", !.acct = Reserve(account, tx[p].row.amount)]
<1>1. tx[p].pc = "reserve" /\ tx[p] \in TxRecord /\ Known(tx[p], held[p])
  BY RunningKnown DEF ReserveFunds, At
<1>2. CASE ~CanReserve(account, tx[p].row.amount)
  BY <1>2, EndKeeps DEF ReserveFunds
<1>3. CASE CanReserve(account, tx[p].row.amount)
  <2>1. CanLock(p, AccountLock) /\ LockAndGo(p, AccountLock, t)
    BY <1>3 DEF ReserveFunds
  <2>2. /\ t.pc = "commit" /\ t.call = "create" /\ t.w = tx[p].w /\ t.row = tx[p].row /\ t.use = tx[p].use
        /\ t.acct = Reserve(account, t.row.amount)
    BY <1>1 DEF TxRecord, Known, CallKnown, Creating
  <2>3. UsageIn(L) = UsageIn(held[p]) /\ AccountLock \in L
    BY UsageInAdd, LockKinds
  <2>4. CallKnown(t, L) /\ RequestKnown(t) /\ HoldKnown(t)
    <3> HIDE DEF t
    <3> QED BY <1>1, <2>2 DEF Known, CallKnown, RequestKnown, HoldKnown, Creating, Deciding, CommitsCreate, CommitsDecision, AfterCommit
  <2>5. UsageKnown(t, L) /\ AccountKnown(t, L) /\ UsageVersionKnown(t, L)
    <3> HIDE DEF t, L
    <3>1. UsageVersionKnown(t, L)
      <4>1. tx[p].call = "create"
        BY <1>1 DEF Known, CallKnown, Creating
      <4> QED BY <1>1, <2>2, <2>3, <4>1, UsageVersionCarried DEF Known
    <3> QED BY <1>1, <1>3, <2>2, <2>3, <3>1 DEF Known, UsageKnown, AccountKnown, Creating, CommitsCreate, CommitsDecision
  <2>6. KeyKnown(t, L)
    <3> HIDE DEF t
    <3> QED BY <1>1, <2>2 DEF Known, KeyKnown, Creating, CommitsCreate
  <2>7. t.pc \notin {"idle", "lockRequest"} \union AfterCommit
    BY <2>2 DEF AfterCommit
  <2>8. Known(t, L)
    <3> HIDE DEF t, L
    <3> QED BY <2>4, <2>5, <2>6 DEF Known
  <2> HIDE DEF t
  <2> QED BY <2>1, <2>7, <2>8, LockAndGoKeeps
<1> QED BY <1>2, <1>3

LEMMA BeginDecisionKeeps ==
  ASSUME IInv, TypeOK', NEW p \in Procs, NEW w \in Requests, NEW c \in {"approve", "reject", "cancel"},
         BeginDecision(p, w, c)
  PROVE  IInv'
<1> DEFINE t == Begun("lockRequest", c, w, NoRequest)
<1>1. t.pc = "lockRequest" /\ t.call = c /\ t.w = w
  BY DEF Begun
<1>2. Go(p, t) /\ request[w].status # "none" /\ held[p] = {}
  BY DEF BeginDecision, At, IInv, LocksExclusive
<1>3. Known(t, held[p])
  <2>1. UsageIn(held[p]) = {}
    BY <1>2 DEF UsageIn
  <2> HIDE DEF t
  <2> QED BY <1>1, <1>2, <2>1
          DEF Known, CallKnown, RequestKnown, HoldKnown, UsageKnown, AccountKnown, UsageVersionKnown, KeyKnown,
              Creating, Deciding, CommitsCreate, CommitsDecision, AfterCommit
<1> HIDE DEF t
<1> QED BY <1>2, <1>3, GoKeeps

\* An approved request has been debited once, so a request that can be
\* decided is PENDING, or REJECTED and cancelled.
LEMMA LockRequestKeeps ==
  ASSUME IInv, TypeOK', NEW p \in Procs, LockRequest(p)
  PROVE  IInv'
<1> DEFINE w == tx[p].w
<1>1. /\ tx[p].pc = "lockRequest" /\ tx[p] \in TxRecord /\ Known(tx[p], held[p])
      /\ w \in Requests /\ held[p] = {} /\ UsageIn(held[p]) = {}
  <2>1. tx[p].pc = "lockRequest" /\ tx[p] \in TxRecord /\ Known(tx[p], held[p])
    BY RunningKnown DEF LockRequest, At
  <2> QED BY <2>1 DEF TxRecord, IInv, LocksExclusive, UsageIn
<1>2. tx[p].call \in {"approve", "reject", "cancel"}
  BY <1>1 DEF TxRecord, Calls, Known, CallKnown
<1>3. /\ debits[w] = IF request[w].status = "APPROVED" THEN 1 ELSE 0
      /\ hold[w] = HoldFor(request[w].status)
  BY <1>1 DEF IInv, RowsConsistent, StatusMatchesHolds, HoldsAre
<1>4. CASE tx[p].call = "approve" /\ debits[w] > 0
  <2> DEFINE t == [tx[p] EXCEPT !.pc = "findVoucher"]
  <2>1. t.pc = "findVoucher" /\ t.call = "approve" /\ t.w = w /\ debits[w] = 1
    BY <1>1, <1>3, <1>4 DEF TxRecord
  <2>2. Go(p, t)
    BY <1>4 DEF LockRequest
  <2>3. Known(t, held[p])
    <3> HIDE DEF t
    <3> QED BY <1>1, <2>1
            DEF Known, CallKnown, RequestKnown, HoldKnown, UsageKnown, AccountKnown, UsageVersionKnown, KeyKnown,
                Creating, Deciding, CommitsCreate, CommitsDecision, AfterCommit
  <2> HIDE DEF t
  <2> QED BY <1>1, <2>1, <2>2, <2>3, GoKeeps
<1>5. CASE ~(tx[p].call = "approve" /\ debits[w] > 0) /\ ~Decidable(tx[p].call, request[w].status)
  BY <1>5, EndKeeps DEF LockRequest
<1>6. CASE ~(tx[p].call = "approve" /\ debits[w] > 0) /\ Decidable(tx[p].call, request[w].status)
  <2> DEFINE L == held[p] \union {RequestLock(w)}
             t == [tx[p] EXCEPT !.pc = IF tx[p].call = "approve" THEN "readHold" ELSE "readLimits"]
  <2>1. CanLock(p, RequestLock(w)) /\ LockAndGo(p, RequestLock(w), t)
    BY <1>6 DEF LockRequest
  <2>2. /\ t.pc = IF tx[p].call = "approve" THEN "readHold" ELSE "readLimits"
        /\ t.call = tx[p].call /\ t.w = w
    BY <1>1 DEF TxRecord
  <2>3. /\ tx[p].call \in {"approve", "reject"} => request[w].status = "PENDING"
        /\ tx[p].call = "cancel" => request[w].status \in {"PENDING", "REJECTED"}
    BY <1>2, <1>3, <1>6 DEF Decidable
  <2>4. UsageIn(L) = {} /\ AccountLock \notin L /\ RequestLock(w) \in L
    BY <1>1, UsageInAdd, LockKinds
  <2>5. Known(t, L)
    <3> HIDE DEF t, L, w
    <3>1. CallKnown(t, L) /\ RequestKnown(t) /\ HoldKnown(t)
      BY <1>2, <2>2, <2>3, <2>4 DEF CallKnown, RequestKnown, HoldKnown, Creating, Deciding, CommitsCreate, CommitsDecision, AfterCommit
    <3>2. UsageKnown(t, L) /\ AccountKnown(t, L) /\ UsageVersionKnown(t, L) /\ KeyKnown(t, L)
      BY <1>2, <2>2, <2>4
         DEF UsageKnown, AccountKnown, UsageVersionKnown, KeyKnown, Creating, CommitsCreate, CommitsDecision
    <3> QED BY <3>1, <3>2 DEF Known
  <2>6. t.pc \notin {"idle", "lockRequest"} \union AfterCommit
    BY <2>2 DEF AfterCommit
  <2> HIDE DEF t
  <2> QED BY <2>1, <2>5, <2>6, LockAndGoKeeps
<1> QED BY <1>4, <1>5, <1>6

LEMMA ReadHoldKeeps ==
  ASSUME IInv, TypeOK', NEW p \in Procs, ReadHold(p)
  PROVE  IInv'
<1> DEFINE s == hold[tx[p].w]
<1>1. /\ tx[p].pc = "readHold" /\ tx[p] \in TxRecord /\ Known(tx[p], held[p])
  BY RunningKnown DEF ReadHold, At
<1>2. \/ End(p)
      \/ \E pc \in {"lockAccount", "commit"} :
           /\ Go(p, [[tx[p] EXCEPT !.seenHold = s] EXCEPT !.pc = pc])
           /\ pc = "commit" => tx[p].call # "approve" /\ s \in {"none", "RELEASED"}
  BY DEF ReadHold
<1>3. ASSUME NEW pc \in {"lockAccount", "commit"}, Go(p, [[tx[p] EXCEPT !.seenHold = s] EXCEPT !.pc = pc]),
             pc = "commit" => tx[p].call # "approve" /\ s \in {"none", "RELEASED"}
      PROVE  IInv'
  <2> DEFINE t == [[tx[p] EXCEPT !.seenHold = s] EXCEPT !.pc = pc]
             L == held[p]
  <2>1. /\ t.pc = pc /\ t.call = tx[p].call /\ t.w = tx[p].w /\ t.seenHold = hold[t.w]
        /\ t.use = tx[p].use /\ t.row = tx[p].row
    BY <1>1 DEF TxRecord
  <2>2. ToDo(t) = ToDo(tx[p])
    BY <2>1 DEF ToDo
  <2>3. Known(t, L)
    <3> HIDE DEF t, s
    <3>1. CallKnown(t, L) /\ RequestKnown(t) /\ HoldKnown(t)
      BY <1>1, <2>1 DEF Known, CallKnown, RequestKnown, HoldKnown, Creating, Deciding, CommitsCreate, CommitsDecision, AfterCommit
    <3>2. UsageKnown(t, L) /\ UsageVersionKnown(t, L)
      BY <1>1, <1>3, <2>1, <2>2, UsageVersionCarried
         DEF Known, CallKnown, UsageKnown, Creating, Deciding, CommitsCreate, CommitsDecision
    <3>3. AccountKnown(t, L) /\ KeyKnown(t, L)
      BY <1>1, <1>3, <2>1 DEF s, Known, CallKnown, AccountKnown, KeyKnown, Creating, Deciding, CommitsCreate, CommitsDecision
    <3> QED BY <3>1, <3>2, <3>3 DEF Known
  <2>4. t.pc \notin {"idle", "lockRequest"} \union AfterCommit
    BY <2>1 DEF AfterCommit
  <2>5. Go(p, t)
    BY <1>3
  <2> HIDE DEF t
  <2> QED BY <2>3, <2>4, <2>5, GoKeeps
<1> QED BY <1>2, <1>3, EndKeeps

LEMMA LockAccountKeeps ==
  ASSUME IInv, TypeOK', NEW p \in Procs, LockAccount(p)
  PROVE  IInv'
<1> DEFINE amt == request[tx[p].w].amount
           a == IF tx[p].seenHold = "RESERVED" THEN Unblock(account, amt) ELSE account
           L == held[p] \union {AccountLock}
           next == IF tx[p].call = "approve" THEN "readLimits" ELSE "commit"
           acct == IF tx[p].call = "approve" THEN Apply(a, -amt) ELSE a
           t == [tx[p] EXCEPT !.pc = next, !.acct = acct]
<1>1. /\ tx[p].pc = "lockAccount" /\ tx[p] \in TxRecord /\ Known(tx[p], held[p])
  BY RunningKnown DEF LockAccount, At
<1>2. \/ End(p)
      \/ /\ tx[p].seenHold = "RESERVED" => CanUnblock(account, amt)
         /\ CanLock(p, AccountLock)
         /\ LockAndGo(p, AccountLock, t)
  BY DEF LockAccount
<1>3. ASSUME tx[p].seenHold = "RESERVED" => CanUnblock(account, amt), CanLock(p, AccountLock),
             LockAndGo(p, AccountLock, t)
      PROVE  IInv'
  <2>1. /\ t.pc = next /\ t.call = tx[p].call /\ t.w = tx[p].w /\ t.seenHold = tx[p].seenHold
        /\ t.use = tx[p].use /\ t.row = tx[p].row /\ t.acct = acct
    BY <1>1 DEF TxRecord
  <2>2. ToDo(t) = ToDo(tx[p])
    BY <2>1 DEF ToDo
  <2>3. UsageIn(L) = UsageIn(held[p]) /\ AccountLock \in L
    BY UsageInAdd, LockKinds
  <2>4. tx[p].call = "approve" => tx[p].seenHold = "RESERVED"
    <3>1. tx[p].call = "approve" => request[tx[p].w].status = "PENDING" /\ tx[p].seenHold = hold[tx[p].w]
      BY <1>1 DEF Known, RequestKnown, HoldKnown, Deciding
    <3>2. hold[tx[p].w] = HoldFor(request[tx[p].w].status)
      BY <1>1 DEF IInv, RowsConsistent, StatusMatchesHolds, HoldsAre, TxRecord
    <3> QED BY <3>1, <3>2 DEF HoldFor
  <2>5. Known(t, L)
    <3>1. CallKnown(t, L) /\ RequestKnown(t) /\ HoldKnown(t)
      <4> HIDE DEF t
      <4> QED BY <1>1, <2>1 DEF Known, CallKnown, RequestKnown, HoldKnown, Creating, Deciding, CommitsCreate, CommitsDecision, AfterCommit
    <3>2. UsageKnown(t, L) /\ UsageVersionKnown(t, L)
      <4> HIDE DEF t, L
      <4>1. UsageVersionKnown(t, L)
        BY <1>1, <2>1, <2>3, UsageVersionCarried DEF Known
      <4> QED BY <1>1, <2>1, <2>2, <2>3, <4>1
              DEF Known, CallKnown, UsageKnown, Creating, Deciding, CommitsCreate, CommitsDecision
    <3>3. AccountKnown(t, L) /\ KeyKnown(t, L)
      <4> HIDE DEF t, L
      <4> QED BY <1>1, <1>3, <2>1, <2>3, <2>4
              DEF Known, CallKnown, AccountKnown, PaidFrom, KeyKnown, Creating, Deciding, CommitsCreate, CommitsDecision
    <3> QED BY <3>1, <3>2, <3>3 DEF Known
  <2>6. t.pc \notin {"idle", "lockRequest"} \union AfterCommit
    BY <2>1 DEF AfterCommit
  <2> HIDE DEF t
  <2> QED BY <1>3, <2>5, <2>6, LockAndGoKeeps
<1> QED BY <1>2, <1>3, EndKeeps

LEMMA ReadLimitsKeeps ==
  ASSUME IInv, TypeOK', NEW p \in Procs, ReadLimits(p)
  PROVE  IInv'
<1> DEFINE t == [tx[p] EXCEPT !.pc = "lockUsage", !.todo = ToDo(tx[p])]
<1>1. tx[p].pc = "readLimits" /\ tx[p] \in TxRecord /\ Known(tx[p], held[p])
  BY RunningKnown DEF ReadLimits, At
<1>2. Go(p, t)
  BY DEF ReadLimits, ToDo, From
<1>3. /\ t.pc = "lockUsage" /\ t.call = tx[p].call /\ t.w = tx[p].w /\ t.seenHold = tx[p].seenHold
      /\ t.acct = tx[p].acct /\ t.todo = ToDo(tx[p])
  BY <1>1 DEF TxRecord
<1>4. ToDo(t) = ToDo(tx[p])
  BY <1>3 DEF ToDo
<1>5. Known(t, held[p])
  <2> HIDE DEF t
  <2>1. CallKnown(t, held[p]) /\ RequestKnown(t) /\ HoldKnown(t)
    BY <1>1, <1>3 DEF Known, CallKnown, RequestKnown, HoldKnown, Creating, Deciding, CommitsCreate, CommitsDecision, AfterCommit
  <2>2. UsageKnown(t, held[p]) /\ UsageVersionKnown(t, held[p])
    BY <1>1, <1>3, <1>4 DEF Known, UsageKnown, UsageVersionKnown, CommitsCreate, CommitsDecision
  <2>3. AccountKnown(t, held[p]) /\ KeyKnown(t, held[p])
    BY <1>1, <1>3 DEF Known, AccountKnown, PaidFrom, KeyKnown, Creating, CommitsCreate, CommitsDecision
  <2> QED BY <2>1, <2>2, <2>3 DEF Known
<1>6. t.pc \notin {"idle", "lockRequest"} \union AfterCommit
  BY <1>3 DEF AfterCommit
<1> HIDE DEF t
<1> QED BY <1>2, <1>5, <1>6, GoKeeps

LEMMA LockUsageKeeps ==
  ASSUME IInv, TypeOK', NEW p \in Procs, LockUsage(p)
  PROVE  IInv'
<1> DEFINE amt == request[tx[p].w].amount
           after(u) == IF tx[p].call = "approve" THEN ConsumeUsage(usage[u], amt) ELSE ReleaseUsage(usage[u], amt)
<1>1. tx[p].pc = "lockUsage" /\ tx[p] \in TxRecord /\ Known(tx[p], held[p])
  BY RunningKnown DEF LockUsage, At
<1>2. PICK u \in tx[p].todo :
        LockAndGo(p, UsageLock(u), [tx[p] EXCEPT !.todo = @ \ {u}, !.use[u] = after(u)])
  BY DEF LockUsage
<1> DEFINE t == [tx[p] EXCEPT !.todo = @ \ {u}, !.use[u] = after(u)]
           L == held[p] \union {UsageLock(u)}
<1>3. /\ t.pc = "lockUsage" /\ t.call = tx[p].call /\ t.w = tx[p].w /\ t.seenHold = tx[p].seenHold
      /\ t.acct = tx[p].acct /\ t.row = tx[p].row /\ t.todo = tx[p].todo \ {u} /\ t.use = [tx[p].use EXCEPT ![u] = after(u)]
      /\ tx[p].use \in [UsageRows -> Usage] /\ u \in UsageRows
  BY <1>1 DEF TxRecord
<1>4. UsageIn(L) = UsageIn(held[p]) \union {u} /\ (AccountLock \in L <=> AccountLock \in held[p])
  BY <1>3, UsageInAdd, LockKinds
<1>5. ToDo(t) = ToDo(tx[p])
  BY <1>3 DEF ToDo
<1>6. CallKnown(t, L) /\ RequestKnown(t) /\ HoldKnown(t)
  <2> HIDE DEF t
  <2> QED BY <1>1, <1>3 DEF Known, CallKnown, RequestKnown, HoldKnown, Creating, Deciding, CommitsCreate, CommitsDecision, AfterCommit
<1>7. UsageKnown(t, L)
  <2> HIDE DEF t, L
  <2> QED BY <1>1, <1>2, <1>3, <1>4, <1>5 DEF Known, UsageKnown, CommitsCreate, CommitsDecision
<1>8. AccountKnown(t, L) /\ KeyKnown(t, L)
  <2> HIDE DEF t, L
  <2> QED BY <1>1, <1>3, <1>4 DEF Known, AccountKnown, PaidFrom, KeyKnown, Creating, CommitsCreate, CommitsDecision
<1>9. UsageVersionKnown(t, L)
  <2> SUFFICES ASSUME NEW v \in UsageIn(L)
               PROVE  /\ t.use[v] = UsageFrom(t, v)
                      /\ Policy[v[1]].value # NoLimit => t.use[v].used + t.use[v].reserved <= Policy[v[1]].value
    BY DEF UsageVersionKnown
  <2>1. CASE v # u
    <3>1. v \in UsageIn(held[p]) /\ t.use[v] = tx[p].use[v]
      BY <1>3, <1>4, <2>1
    <3>2. UsageFrom(t, v) = UsageFrom(tx[p], v)
      <4> HIDE DEF t
      <4> QED BY <1>3 DEF UsageFrom
    <3> HIDE DEF t, L
    <3> QED BY <1>1, <3>1, <3>2 DEF Known, UsageVersionKnown
  <2>2. CASE v = u
    <3>1. t.use[u] = after(u) /\ usage[u] \in Usage
      BY <1>3 DEF IInv, TypeOK
    <3>2. amt \in Nat
      BY <1>1, RowTypes, AmountTypes DEF IInv
    <3>3. usage[u].used \in Int /\ usage[u].reserved \in Int
      BY <3>1 DEF Usage
    <3>4. after(u).used + after(u).reserved <= usage[u].used + usage[u].reserved
      <4> HIDE DEF amt
      <4>1. /\ ReleaseUsage(usage[u], amt).used = usage[u].used
            /\ ReleaseUsage(usage[u], amt).reserved = usage[u].reserved - amt
        BY <3>1, <3>2 DEF ReleaseUsage, Usage
      <4>2. /\ ConsumeUsage(usage[u], amt).used = usage[u].used + amt
            /\ ConsumeUsage(usage[u], amt).reserved = usage[u].reserved - amt
        BY <3>1, <3>2 DEF ConsumeUsage, Usage
      <4>3. CASE tx[p].call = "approve"
        BY <3>2, <3>3, <4>2, <4>3
      <4>4. CASE tx[p].call # "approve"
        BY <3>2, <3>3, <4>1, <4>4
      <4> QED BY <4>3, <4>4
    <3>5. after(u).used \in Int /\ after(u).reserved \in Int
      <4>1. after(u) \in Usage
        BY <3>1, <3>2, UsageTypes
      <4> HIDE DEF after
      <4> QED BY <4>1 DEF Usage
    <3>6. Policy[u[1]].value # NoLimit =>
            usage[u].used + usage[u].reserved <= Policy[u[1]].value /\ Policy[u[1]].value \in Int
      BY <1>3, PolicyAssumption DEF IInv, RowsConsistent, LimitsRespected, UsageRows, Periods
    <3>7. t.use[u] = UsageFrom(t, u)
      <4>1. tx[p].call # "create"
        BY <1>1 DEF Known, CallKnown, Deciding
      <4> HIDE DEF t
      <4> QED BY <1>3, <3>1, <4>1 DEF UsageFrom
    <3> HIDE DEF t, L, after
    <3> QED BY <2>2, <3>1, <3>3, <3>4, <3>5, <3>6, <3>7
  <2> QED BY <2>1, <2>2
<1>10. Known(t, L)
  <2> HIDE DEF t, L
  <2> QED BY <1>6, <1>7, <1>8, <1>9 DEF Known
<1>11. t.pc \notin {"idle", "lockRequest"} \union AfterCommit
  BY <1>3 DEF AfterCommit
<1>12. CanLock(p, UsageLock(u)) /\ LockAndGo(p, UsageLock(u), t)
  BY <1>2 DEF LockAndGo
<1> HIDE DEF t
<1> QED BY <1>10, <1>11, <1>12, LockAndGoKeeps

LEMMA LimitsDoneKeeps ==
  ASSUME IInv, TypeOK', NEW p \in Procs, LimitsDone(p)
  PROVE  IInv'
<1> DEFINE t == [tx[p] EXCEPT !.pc = IF tx[p].call = "approve" THEN "commit" ELSE "readHold"]
<1>1. tx[p].pc = "lockUsage" /\ tx[p] \in TxRecord /\ Known(tx[p], held[p]) /\ tx[p].todo = {}
  BY RunningKnown DEF LimitsDone, At
<1>2. Go(p, t)
  BY DEF LimitsDone
<1>3. /\ t.pc = IF tx[p].call = "approve" THEN "commit" ELSE "readHold"
      /\ t.call = tx[p].call /\ t.w = tx[p].w /\ t.seenHold = tx[p].seenHold /\ t.row = tx[p].row
      /\ t.acct = tx[p].acct /\ t.use = tx[p].use
  BY <1>1 DEF TxRecord
<1>4. ToDo(t) = ToDo(tx[p])
  BY <1>3 DEF ToDo
<1>5. Known(t, held[p])
  <2> HIDE DEF t
  <2>1. CallKnown(t, held[p]) /\ RequestKnown(t) /\ HoldKnown(t)
    BY <1>1, <1>3 DEF Known, CallKnown, RequestKnown, HoldKnown, Creating, Deciding, CommitsCreate, CommitsDecision, AfterCommit
  <2>2. UsageKnown(t, held[p]) /\ UsageVersionKnown(t, held[p])
    BY <1>1, <1>3, <1>4, UsageVersionCarried DEF Known, CallKnown, UsageKnown, Deciding, CommitsCreate, CommitsDecision
  <2>3. AccountKnown(t, held[p]) /\ KeyKnown(t, held[p])
    BY <1>1, <1>3 DEF Known, CallKnown, AccountKnown, PaidFrom, KeyKnown, Creating, Deciding, CommitsCreate, CommitsDecision
  <2> QED BY <2>1, <2>2, <2>3 DEF Known
<1>6. t.pc \notin {"idle", "lockRequest"} \union AfterCommit
  BY <1>3 DEF AfterCommit
<1> HIDE DEF t
<1> QED BY <1>2, <1>5, <1>6, GoKeeps

LEMMA FindVoucherKeeps ==
  ASSUME IInv, TypeOK', NEW p \in Procs, FindVoucher(p)
  PROVE  IInv'
<1> DEFINE t == [tx[p] EXCEPT !.pc = "enqueue"]
<1>1. tx[p].pc = "findVoucher" /\ tx[p] \in TxRecord /\ Known(tx[p], held[p])
  BY RunningKnown DEF FindVoucher, At
<1>2. End(p) \/ Go(p, t)
  BY DEF FindVoucher
<1>3. t.pc = "enqueue" /\ t.call = tx[p].call /\ t.w = tx[p].w
  BY <1>1 DEF TxRecord
<1>4. held[p] = {}
  BY <1>1 DEF IInv, LocksExclusive, AfterCommit
<1>5. Known(t, held[p])
  <2>1. UsageIn(held[p]) = {}
    BY <1>4 DEF UsageIn
  <2> HIDE DEF t
  <2> QED BY <1>1, <1>3, <2>1
          DEF Known, CallKnown, RequestKnown, HoldKnown, UsageKnown, AccountKnown, UsageVersionKnown, KeyKnown,
              Creating, Deciding, CommitsCreate, CommitsDecision, AfterCommit
<1> HIDE DEF t
<1> QED BY <1>2, <1>4, <1>5, EndKeeps, GoKeeps

\* Steps that change neither the rows the invariant speaks of nor the locks.
LEMMA NewDayKeeps ==
  ASSUME IInv, TypeOK', NewDay
  PROVE  IInv'
<1>1. ASSUME NEW u, NEW M PROVE Known(u, M)' <=> Known(u, M)
  BY DEF NewDay, Known, CallKnown, RequestKnown, HoldKnown, UsageKnown, AccountKnown, UsageVersionKnown, KeyKnown,
         ToDo, PaidFrom, UsageFrom, UsedKey
<1>2. LocksExclusive'
  BY DEF NewDay, IInv, LocksExclusive
<1>3. ASSUME NEW q \in Procs, tx'[q].pc # "idle" PROVE Known(tx[q], held[q])'
  <2>1. tx' = tx /\ held' = held
    BY DEF NewDay
  <2> QED BY <1>1, <1>3, <2>1 DEF IInv
<1>4. RowsConsistent'
  BY DEF NewDay, IInv, RowsConsistent, StatusMatchesHolds, HoldsAre, NoOverdraft, LimitsRespected, OneRequestPerKey, VoucherFollowsDebit
<1> QED BY <1>2, <1>3, <1>4 DEF IInv

LEMMA EnqueueVoucherKeeps ==
  ASSUME IInv, TypeOK', NEW p \in Procs, EnqueueVoucher(p)
  PROVE  IInv'
<1>1. ASSUME NEW u, NEW M PROVE Known(u, M)' <=> Known(u, M)
  BY DEF EnqueueVoucher, Known, CallKnown, RequestKnown, HoldKnown, UsageKnown, AccountKnown, UsageVersionKnown, KeyKnown,
         ToDo, PaidFrom, UsageFrom, UsedKey
<1>2. tx[p].pc = "enqueue" /\ tx[p] \in TxRecord /\ debits[tx[p].w] = 1 /\ held[p] = {}
  BY RunningKnown DEF EnqueueVoucher, At, Known, RequestKnown, AfterCommit, IInv, LocksExclusive
<1>3. \A q \in Procs : tx'[q] = (IF q = p THEN Idle ELSE tx[q]) /\ held'[q] = held[q]
  BY DEF EnqueueVoucher, IInv, TypeOK
<1>4. LocksExclusive'
  BY <1>2, <1>3 DEF IInv, LocksExclusive
<1>5. ASSUME NEW q \in Procs, tx'[q].pc # "idle" PROVE Known(tx[q], held[q])'
  BY <1>1, <1>3, <1>5 DEF IInv, Idle
<1>6. RowsConsistent'
  <2>1. StatusMatchesHolds' /\ NoOverdraft' /\ LimitsRespected' /\ OneRequestPerKey'
    BY DEF EnqueueVoucher, IInv, RowsConsistent, StatusMatchesHolds, HoldsAre, NoOverdraft, LimitsRespected, OneRequestPerKey
  <2>2. VoucherFollowsDebit'
    BY <1>2 DEF EnqueueVoucher, IInv, TypeOK, RowsConsistent, VoucherFollowsDebit
  <2> QED BY <2>1, <2>2 DEF RowsConsistent
<1> QED BY <1>4, <1>5, <1>6 DEF IInv

----------------------------------------------------------------------------
(* The inductive invariant: the commit *)

\* A commit writes the rows of its own request only.
LEMMA CommitFrame ==
  ASSUME IInv, NEW p \in Procs, Commit(p), NEW v \in Requests, v # tx[p].w
  PROVE  /\ request'[v] = request[v] /\ hold'[v] = hold[v]
         /\ limitHold'[v] = limitHold[v] /\ debits'[v] = debits[v]
BY DEF Commit, IInv, TypeOK

\* The four kinds of commit, what they found and what they write.
LEMMA CommitKinds ==
  ASSUME IInv, NEW p \in Procs, Commit(p)
  PROVE  LET t == tx[p]
             w == tx[p].w
             U == UsageIn(held[p])
         IN
         /\ t \in TxRecord /\ t.pc = "commit" /\ Known(t, held[p])
         /\ w \in Requests /\ RequestLock(w) \in held[p]
         /\ \A v \in Requests : v # w => /\ request'[v] = request[v] /\ hold'[v] = hold[v]
                                         /\ limitHold'[v] = limitHold[v] /\ debits'[v] = debits[v]
         /\ debits[w] = 0
         /\ \/ /\ t.call = "create" /\ request[w].status = "none"
               /\ t.row.status \in {"PENDING", "WAITING_ASSIGNMENT"}
               /\ request'[w] = t.row /\ hold'[w] = "RESERVED" /\ debits'[w] = 0
               /\ \A u \in UsageRows : limitHold'[w][u] = IF u \in U THEN "RESERVED" ELSE "none"
            \/ /\ t.call = "approve" /\ request[w].status = "PENDING"
               /\ request'[w] = [request[w] EXCEPT !.status = "APPROVED"] /\ hold'[w] = "CONSUMED" /\ debits'[w] = 1
               /\ \A u \in UsageRows : limitHold'[w][u] = IF limitHold[w][u] = "none" THEN "none" ELSE "CONSUMED"
            \/ /\ t.call \in {"reject", "cancel"} /\ request[w].status \in {"PENDING", "REJECTED"}
               /\ t.call = "reject" => request[w].status = "PENDING"
               /\ request'[w] = [request[w] EXCEPT !.status = IF t.call = "reject" THEN "REJECTED" ELSE "CANCELLED"]
               /\ hold'[w] = "RELEASED" /\ debits'[w] = 0
               /\ \A u \in UsageRows : limitHold'[w][u] = IF limitHold[w][u] = "none" THEN "none" ELSE "RELEASED"
<1> DEFINE t == tx[p]
           w == tx[p].w
           U == UsageIn(held[p])
<1>1. t.pc = "commit" /\ t \in TxRecord /\ Known(t, held[p])
  BY RunningKnown DEF Commit, At
<1>2. w \in Requests /\ t.call \in Calls /\ t.row \in RequestRow /\ RequestLock(w) \in held[p]
  BY <1>1 DEF TxRecord, Known, CallKnown
<1>3. \A v \in Requests : v # w => /\ request'[v] = request[v] /\ hold'[v] = hold[v]
                                  /\ limitHold'[v] = limitHold[v] /\ debits'[v] = debits[v]
  BY CommitFrame
<1>4. LET h == HoldFor(request[w].status) IN
      /\ hold[w] = h
      /\ \A u \in UsageRows : limitHold[w][u] \in {"none", h}
      /\ debits[w] = IF request[w].status = "APPROVED" THEN 1 ELSE 0
  BY <1>2 DEF IInv, RowsConsistent, StatusMatchesHolds, HoldsAre
<1>5. /\ request'[w] = [(IF t.call = "create" THEN t.row ELSE request[w]) EXCEPT !.status = StatusAfter(t)]
      /\ hold'[w] = IF t.call = "create" \/ t.seenHold = "RESERVED" THEN HoldAfter(t.call) ELSE hold[w]
      /\ \A u \in UsageRows : limitHold'[w][u] = IF u \in U THEN HoldAfter(t.call) ELSE limitHold[w][u]
      /\ debits'[w] = IF t.call = "approve" THEN debits[w] + 1 ELSE debits[w]
  BY <1>2 DEF Commit, IInv, TypeOK, UsageIn
<1>6. CASE t.call = "create"
  <2>1. request[w].status = "none" /\ t.row.status \in {"PENDING", "WAITING_ASSIGNMENT"}
    BY <1>1, <1>6 DEF Known, RequestKnown, CommitsCreate
  <2>2. request'[w] = t.row
    BY <1>2, <1>5, <1>6 DEF StatusAfter, RequestRow
  <2>3. hold'[w] = "RESERVED" /\ debits[w] = 0 /\ debits'[w] = 0
    BY <1>4, <1>5, <1>6, <2>1 DEF HoldAfter
  <2>4. \A u \in UsageRows : limitHold'[w][u] = IF u \in U THEN "RESERVED" ELSE "none"
    BY <1>4, <1>5, <1>6, <2>1 DEF HoldAfter, HoldFor
  <2> QED BY <1>1, <1>2, <1>3, <1>6, <2>1, <2>2, <2>3, <2>4
<1>7. CASE t.call # "create"
  <2>1. /\ t.call \in {"approve", "reject"} => request[w].status = "PENDING"
        /\ t.call = "cancel" => request[w].status \in {"PENDING", "REJECTED"}
        /\ t.seenHold = hold[w]
        /\ U = ToDo(t)
    BY <1>1, <1>7 DEF Known, RequestKnown, HoldKnown, UsageKnown, CommitsDecision
  <2>2. debits[w] = 0
    BY <1>2, <1>4, <1>7, <2>1 DEF Calls
  <2>3. CASE t.call = "approve"
    <3>1. request'[w] = [request[w] EXCEPT !.status = "APPROVED"]
      BY <1>5, <2>3 DEF StatusAfter
    <3>2. hold'[w] = "CONSUMED" /\ debits'[w] = 1
      <4>1. hold[w] = "RESERVED" /\ HoldAfter(t.call) = "CONSUMED"
        BY <1>4, <2>1, <2>3 DEF HoldAfter, HoldFor
      <4>2. hold'[w] = "CONSUMED"
        BY <1>5, <2>1, <4>1
      <4>3. debits'[w] = debits[w] + 1
        BY <1>5, <2>3
      <4> QED BY <2>2, <4>2, <4>3
    <3>3. \A u \in UsageRows : limitHold'[w][u] = IF limitHold[w][u] = "none" THEN "none" ELSE "CONSUMED"
      BY <1>4, <1>5, <2>1, <2>3 DEF HoldAfter, HoldFor, ToDo, From, LimitConsumable
    <3> QED BY <1>1, <1>2, <1>3, <2>1, <2>2, <2>3, <3>1, <3>2, <3>3
  <2>4. CASE t.call \in {"reject", "cancel"}
    <3>1. request'[w] = [request[w] EXCEPT !.status = IF t.call = "reject" THEN "REJECTED" ELSE "CANCELLED"]
      BY <1>5, <2>4 DEF StatusAfter
    <3>2. hold'[w] = "RELEASED" /\ debits'[w] = 0
      BY <1>4, <1>5, <2>1, <2>2, <2>4 DEF HoldAfter, HoldFor
    <3>3. \A u \in UsageRows : limitHold'[w][u] = IF limitHold[w][u] = "none" THEN "none" ELSE "RELEASED"
      BY <1>4, <1>5, <2>1, <2>4 DEF HoldAfter, HoldFor, ToDo, From, LimitReleasable
    <3> QED BY <1>1, <1>2, <1>3, <2>1, <2>2, <2>4, <3>1, <3>2, <3>3
  <2> QED BY <1>2, <1>7, <2>3, <2>4 DEF Calls
<1> QED BY <1>6, <1>7

\* The same, kind by kind.
LEMMA CommitRuns ==
  ASSUME IInv, NEW p \in Procs, Commit(p)
  PROVE  /\ tx[p] \in TxRecord /\ tx[p].pc = "commit" /\ Known(tx[p], held[p])
         /\ tx[p].w \in Requests /\ RequestLock(tx[p].w) \in held[p] /\ debits[tx[p].w] = 0
         /\ tx[p].call \in {"create", "approve", "reject", "cancel"}
BY CommitKinds, ZenonT(60)

LEMMA CommitCreates ==
  ASSUME IInv, NEW p \in Procs, Commit(p), tx[p].call = "create", NEW w, w = tx[p].w
  PROVE  /\ request[w].status = "none" /\ tx[p].row.status \in {"PENDING", "WAITING_ASSIGNMENT"}
         /\ request'[w] = tx[p].row /\ hold'[w] = "RESERVED" /\ debits'[w] = 0
         /\ \A u \in UsageRows : limitHold'[w][u] = IF u \in UsageIn(held[p]) THEN "RESERVED" ELSE "none"
BY CommitKinds, ZenonT(60)

LEMMA CommitApproves ==
  ASSUME IInv, NEW p \in Procs, Commit(p), tx[p].call = "approve", NEW w, w = tx[p].w
  PROVE  /\ request[w].status = "PENDING" /\ request'[w] = [request[w] EXCEPT !.status = "APPROVED"]
         /\ hold'[w] = "CONSUMED" /\ debits'[w] = 1
         /\ \A u \in UsageRows : limitHold'[w][u] = IF limitHold[w][u] = "none" THEN "none" ELSE "CONSUMED"
BY CommitKinds, ZenonT(60)

LEMMA CommitReturns ==
  ASSUME IInv, NEW p \in Procs, Commit(p), tx[p].call \in {"reject", "cancel"}, NEW w, w = tx[p].w
  PROVE  /\ request[w].status \in {"PENDING", "REJECTED"} /\ (tx[p].call = "reject" => request[w].status = "PENDING")
         /\ hold'[w] = "RELEASED" /\ debits'[w] = 0
         /\ \A u \in UsageRows : limitHold'[w][u] = IF limitHold[w][u] = "none" THEN "none" ELSE "RELEASED"
BY CommitKinds, ZenonT(60)

LEMMA CommitReturnsRow ==
  ASSUME IInv, NEW p \in Procs, Commit(p), tx[p].call \in {"reject", "cancel"}, NEW w, w = tx[p].w
  PROVE  \E s \in {"REJECTED", "CANCELLED"} : request'[w] = [request[w] EXCEPT !.status = s]
<1> DEFINE s == IF tx[p].call = "reject" THEN "REJECTED" ELSE "CANCELLED"
<1>1. s \in {"REJECTED", "CANCELLED"}
  OBVIOUS
<1>2. request'[w] = [request[w] EXCEPT !.status = s]
  BY CommitKinds, ZenonT(60)
<1> HIDE DEF s
<1> QED BY <1>1, <1>2

LEMMA CommitMoves ==
  ASSUME IInv, NEW p \in Procs, Commit(p), tx[p].call # "create", NEW w, w = tx[p].w
  PROVE  \E s : request'[w] = [request[w] EXCEPT !.status = s]
<1>1. CASE tx[p].call = "approve"
  <2>1. request'[w] = [request[w] EXCEPT !.status = "APPROVED"]
    BY <1>1, CommitApproves
  <2> QED BY <2>1
<1>2. CASE tx[p].call \in {"reject", "cancel"}
  BY <1>2, CommitReturnsRow
<1> QED BY <1>1, <1>2, CommitRuns

LEMMA CommitKeepsStatus ==
  ASSUME IInv, NEW p \in Procs, Commit(p)
  PROVE  StatusMatchesHolds'
<1> DEFINE Story(v, h) == /\ HoldsAre(v, h)
                          /\ h = HoldFor(request[v].status)
                          /\ debits[v] = IF request[v].status = "APPROVED" THEN 1 ELSE 0
<1>1. SUFFICES ASSUME NEW v \in Requests
               PROVE  \E h \in HoldStatus : Story(v, h)'
  BY DEF StatusMatchesHolds
<1>2. \E h \in HoldStatus : Story(v, h)
  BY DEF IInv, RowsConsistent, StatusMatchesHolds, HoldFor, HoldStatus
<1>3. CASE v # tx[p].w
  <2>1. request'[v] = request[v] /\ hold'[v] = hold[v] /\ limitHold'[v] = limitHold[v] /\ debits'[v] = debits[v]
    BY <1>3, CommitFrame
  <2> QED BY <1>2, <2>1 DEF HoldsAre
<1>4. CASE v = tx[p].w
  <2>1. request[v] \in RequestRow
    BY DEF IInv, TypeOK
  <2>2. <<"MONTHLY", 1>> \in UsageRows /\ \A e \in 1..Days : <<"DAILY", e>> \in UsageRows
    BY DEF UsageRows
  <2>3. CASE tx[p].call = "create"
    <3>1. /\ request'[v] = tx[p].row /\ tx[p].row.status \in {"PENDING", "WAITING_ASSIGNMENT"}
          /\ hold'[v] = "RESERVED" /\ debits'[v] = 0
          /\ \A u \in UsageRows : limitHold'[v][u] = IF u \in UsageIn(held[p]) THEN "RESERVED" ELSE "none"
      BY <1>4, <2>3, CommitCreates
    <3>2. \E d \in 1..Days : UsageIn(held[p]) = {<<"DAILY", d>>, <<"MONTHLY", 1>>}
      BY <2>3, CommitRuns DEF Known, UsageKnown, CommitsCreate
    <3>3. HoldFor(request'[v].status) = "RESERVED" /\ "RESERVED" \in HoldStatus
      BY <3>1 DEF HoldFor, HoldStatus
    <3>4. limitHold'[v][<<"MONTHLY", 1>>] = "RESERVED"
      BY <2>2, <3>1, <3>2
    <3>5. \E d \in 1..Days : \A e \in 1..Days : limitHold'[v][<<"DAILY", e>>] = IF e = d THEN "RESERVED" ELSE "none"
      BY <2>2, <3>1, <3>2
    <3>6. HoldsAre(v, "RESERVED")'
      BY <3>1, <3>4, <3>5 DEF HoldsAre
    <3> QED BY <3>1, <3>3, <3>6
  <2>4. ASSUME NEW s \in {"APPROVED", "REJECTED", "CANCELLED"}, NEW h \in {"CONSUMED", "RELEASED"},
               h = HoldFor(s), request[v].status \in {"PENDING", "REJECTED"},
               request'[v] = [request[v] EXCEPT !.status = s], hold'[v] = h,
               debits'[v] = IF s = "APPROVED" THEN 1 ELSE 0,
               \A u \in UsageRows : limitHold'[v][u] = IF limitHold[v][u] = "none" THEN "none" ELSE h
        PROVE  \E g \in HoldStatus : Story(v, g)'
    <3>1. request'[v].status = s
      BY <2>1, <2>4 DEF RequestRow
    <3>2. PICK g \in {"RESERVED", "RELEASED"} : HoldsAre(v, g)
      BY <1>2, <2>4 DEF HoldFor
    <3>3. limitHold'[v][<<"MONTHLY", 1>>] = h
      BY <2>2, <2>4, <3>2 DEF HoldsAre
    <3>4. \E d \in 1..Days : \A e \in 1..Days : limitHold'[v][<<"DAILY", e>>] = IF e = d THEN h ELSE "none"
      BY <2>2, <2>4, <3>2 DEF HoldsAre
    <3>5. HoldsAre(v, h)'
      BY <2>4, <3>3, <3>4 DEF HoldsAre
    <3>6. h \in HoldStatus
      BY DEF HoldStatus
    <3> QED BY <2>4, <3>1, <3>5, <3>6
  <2>5. CASE tx[p].call = "approve"
    <3>1. HoldFor("APPROVED") = "CONSUMED"
      BY DEF HoldFor
    <3> QED BY <1>4, <2>4, <2>5, <3>1, CommitApproves
  <2>6. CASE tx[p].call \in {"reject", "cancel"}
    <3>1. HoldFor("REJECTED") = "RELEASED" /\ HoldFor("CANCELLED") = "RELEASED"
      BY DEF HoldFor
    <3>2. PICK s \in {"REJECTED", "CANCELLED"} : request'[v] = [request[v] EXCEPT !.status = s]
      BY <1>4, <2>6, CommitReturnsRow
    <3>3. /\ request[v].status \in {"PENDING", "REJECTED"} /\ hold'[v] = "RELEASED" /\ debits'[v] = 0
          /\ \A u \in UsageRows : limitHold'[v][u] = IF limitHold[v][u] = "none" THEN "none" ELSE "RELEASED"
      BY <1>4, <2>6, CommitReturns
    <3>4. HoldFor(s) = "RELEASED" /\ s # "APPROVED"
      BY <3>1
    <3> QED BY <2>4, <3>2, <3>3, <3>4
  <2> QED BY <2>3, <2>5, <2>6, CommitRuns
<1> QED BY <1>3, <1>4

\* The account row a commit writes, in terms of the row before it.
LEMMA CommitAccount ==
  ASSUME IInv, NEW p \in Procs, Commit(p)
  PROVE  LET t == tx[p]
             amt == request[t.w].amount
         IN
         \/ t.call = "create" /\ CanReserve(account, t.row.amount) /\ account' = Reserve(account, t.row.amount)
         \/ t.call = "approve" /\ CanUnblock(account, amt) /\ account' = Apply(Unblock(account, amt), -amt)
         \/ /\ t.call \in {"reject", "cancel"} /\ hold[t.w] = "RESERVED"
            /\ CanUnblock(account, amt) /\ account' = Unblock(account, amt)
         \/ t.call \in {"reject", "cancel"} /\ hold[t.w] # "RESERVED" /\ account' = account
<1> DEFINE t == tx[p]
<1>1. t.pc = "commit" /\ Known(t, held[p]) /\ t.call \in Calls
  BY CommitRuns DEF TxRecord
<1>2. account' = IF AccountLock \in held[p] THEN t.acct ELSE account
  BY DEF Commit
<1>3. t.call # "create" => t.seenHold = hold[t.w]
  BY <1>1 DEF Known, HoldKnown, CommitsDecision
<1>4. AccountKnown(t, held[p])
  BY <1>1 DEF Known
<1>5. CASE t.call = "create"
  BY <1>1, <1>2, <1>4, <1>5 DEF AccountKnown, CommitsCreate
<1>6. CASE t.call = "approve"
  BY <1>1, <1>2, <1>4, <1>6 DEF AccountKnown, CommitsDecision, PaidFrom
<1>7. CASE t.call \in {"reject", "cancel"}
  BY <1>1, <1>2, <1>3, <1>4, <1>7 DEF AccountKnown, CommitsDecision
<1> QED BY <1>1, <1>5, <1>6, <1>7 DEF Calls

LEMMA CommitKeepsAccount ==
  ASSUME IInv, NEW p \in Procs, Commit(p)
  PROVE  NoOverdraft'
<1> DEFINE t == tx[p]
           amt == request[t.w].amount
<1>1. t.row.amount \in Nat /\ amt \in Nat /\ account \in Account
  BY CommitRuns, RowTypes, AmountTypes DEF IInv
<1>2. UsableCapacity(account) >= 0 /\ account.blocked >= 0 /\ account.blocked \in Int
  BY <1>1 DEF IInv, RowsConsistent, NoOverdraft, Account
<1>3. /\ UsableCapacity(account) \in Int
      /\ UsableCapacity(Reserve(account, t.row.amount)) = UsableCapacity(account) - t.row.amount
      /\ Reserve(account, t.row.amount).blocked = account.blocked + t.row.amount
      /\ UsableCapacity(Unblock(account, amt)) = UsableCapacity(account) + amt
      /\ Unblock(account, amt).blocked = account.blocked - amt
      /\ UsableCapacity(Apply(Unblock(account, amt), -amt)) = UsableCapacity(account)
      /\ Apply(Unblock(account, amt), -amt).blocked = account.blocked - amt
  <2>1. amt \in Int /\ t.row.amount \in Int
    BY <1>1
  <2>2. /\ UsableCapacity(Apply(Unblock(account, amt), -amt)) = UsableCapacity(account)
        /\ Apply(Unblock(account, amt), -amt).blocked = account.blocked - amt
    BY <1>1, PaidFacts
  <2> HIDE DEF amt, t
  <2> QED BY <1>1, <2>1, <2>2, LedgerFacts
<1>4. UsableCapacity(account)' = UsableCapacity(account')
  BY DEF UsableCapacity
<1>5. CASE CanReserve(account, t.row.amount) /\ account' = Reserve(account, t.row.amount)
  <2>1. UsableCapacity(account) >= t.row.amount
    BY <1>5 DEF CanReserve
  <2> HIDE DEF t, amt
  <2> QED BY <1>1, <1>2, <1>3, <1>4, <1>5, <2>1 DEF NoOverdraft
<1>6. CASE CanUnblock(account, amt) /\ account' = Apply(Unblock(account, amt), -amt)
  <2>1. account.blocked - amt >= 0
    BY <1>6 DEF CanUnblock
  <2> HIDE DEF t, amt
  <2> QED BY <1>1, <1>2, <1>3, <1>4, <1>6, <2>1 DEF NoOverdraft
<1>7. CASE CanUnblock(account, amt) /\ account' = Unblock(account, amt)
  <2>1. account.blocked - amt >= 0
    BY <1>7 DEF CanUnblock
  <2> HIDE DEF t, amt
  <2> QED BY <1>1, <1>2, <1>3, <1>4, <1>7, <2>1 DEF NoOverdraft
<1>8. CASE account' = account
  BY <1>2, <1>4, <1>8 DEF NoOverdraft
<1> QED BY <1>5, <1>6, <1>7, <1>8, CommitAccount

LEMMA CommitKeepsLimits ==
  ASSUME IInv, NEW p \in Procs, Commit(p)
  PROVE  LimitsRespected'
<1> SUFFICES ASSUME NEW u \in UsageRows, Policy[u[1]].value # NoLimit
             PROVE  usage'[u].used + usage'[u].reserved <= Policy[u[1]].value
  BY DEF LimitsRespected
<1>1. usage'[u] = IF u \in UsageIn(held[p]) THEN tx[p].use[u] ELSE usage[u]
  BY DEF Commit, UsageIn
<1>2. CASE u \in UsageIn(held[p])
  BY <1>1, <1>2, CommitRuns DEF Known, UsageVersionKnown
<1>3. CASE u \notin UsageIn(held[p])
  BY <1>1, <1>3 DEF IInv, RowsConsistent, LimitsRespected
<1> QED BY <1>2, <1>3

\* Only a create writes a key, and it writes one no committed request has.
LEMMA CommitKeys ==
  ASSUME IInv, NEW p \in Procs, Commit(p), NEW v \in Requests
  PROVE  \/ request'[v].key = request[v].key
         \/ /\ v = tx[p].w /\ tx[p].call = "create" /\ request'[v].key = tx[p].row.key
            /\ tx[p].row.key # NoKey => KeyLock(tx[p].row.key) \in held[p] /\ ~UsedKey(tx[p].row.key)
<1>1. CASE v # tx[p].w
  BY <1>1, CommitFrame
<1>2. CASE v = tx[p].w /\ tx[p].call = "create"
  BY <1>2, CommitRuns, CommitCreates DEF Known, KeyKnown, CommitsCreate
<1>3. CASE v = tx[p].w /\ tx[p].call # "create"
  <2>1. request[v] \in RequestRow
    BY DEF IInv, TypeOK
  <2>2. \E s : request'[v] = [request[v] EXCEPT !.status = s]
    BY <1>3, CommitMoves
  <2> QED BY <2>1, <2>2 DEF RequestRow
<1> QED BY <1>1, <1>2, <1>3

LEMMA CommitKeepsKeys ==
  ASSUME IInv, NEW p \in Procs, Commit(p)
  PROVE  OneRequestPerKey'
<1> SUFFICES ASSUME NEW v \in Requests, NEW x \in Requests, request'[v].key = request'[x].key, request'[v].key # NoKey
             PROVE  v = x
  BY DEF OneRequestPerKey
<1>1. request[v].key = request[x].key /\ request[v].key # NoKey => v = x
  BY DEF IInv, RowsConsistent, OneRequestPerKey
<1>2. \A y \in Requests : request[y].key # tx[p].row.key \/ tx[p].row.key = NoKey \/ UsedKey(tx[p].row.key)
  BY DEF UsedKey
<1> QED BY <1>1, <1>2, CommitKeys

\* The other calls know what they knew: what p has committed is on rows whose
\* locks it held.
LEMMA CommitKeepsOthers ==
  ASSUME IInv, NEW p \in Procs, Commit(p), NEW q \in Procs, q # p, tx[q].pc # "idle"
  PROVE  \A u, L : u = tx[q] /\ L = held[q] => Known(u, L)'
<1> SUFFICES ASSUME NEW u, NEW L, u = tx[q], L = held[q] PROVE Known(u, L)'
  OBVIOUS
<1>1. Known(u, L) /\ u \in TxRecord /\ u.w \in Requests
  BY RunningKnown DEF TxRecord
<1>2. L \intersect held[p] = {}
  BY DEF IInv, LocksExclusive
<1>3. u.w # tx[p].w => /\ request'[u.w] = request[u.w] /\ hold'[u.w] = hold[u.w]
                       /\ limitHold'[u.w] = limitHold[u.w] /\ debits'[u.w] = debits[u.w]
  BY <1>1, CommitFrame
<1>4. u.pc \in Creating \union Deciding \union {"commit"} => u.w # tx[p].w
  BY <1>1, <1>2, CommitRuns DEF Known, CallKnown
<1>5. u.pc \in AfterCommit => u.w # tx[p].w
  <2>1. debits[tx[p].w] = 0
    BY CommitRuns DEF IInv, RowsConsistent, StatusMatchesHolds
  <2>2. u.pc \in AfterCommit => debits[u.w] = 1
    BY <1>1 DEF Known, RequestKnown
  <2> QED BY <2>1, <2>2
<1>6. request[u.w].status # "none" => request'[u.w].status # "none"
  <2>1. request[u.w] \in RequestRow
    BY <1>1 DEF IInv, TypeOK
  <2> QED BY <1>1, <2>1, CommitKinds, ZenonT(60) DEF RequestRow
<1>7. AccountLock \in L => account' = account
  BY <1>2 DEF Commit
<1>8. ToDo(u)' = ToDo(u) \/ u.w = tx[p].w
  BY <1>3 DEF ToDo
<1>9. CallKnown(u, L)' /\ UsageVersionKnown(u, L)'
  <2> SUFFICES ASSUME NEW v \in UsageIn(L) PROVE UsageFrom(u, v)' = UsageFrom(u, v)
    BY <1>1 DEF Known, CallKnown, UsageVersionKnown, UsageIn
  <2>1. usage'[v] = usage[v]
    BY <1>2 DEF Commit, UsageIn
  <2>2. u.w # tx[p].w
    <3>1. u.pc \in Creating \union Deciding \union {"commit"}
      BY <1>1 DEF Known, TxRecord, InTransaction, Creating, Deciding, AfterCommit, UsageIn, IInv, LocksExclusive
    <3> QED BY <1>4, <3>1
  <2> QED BY <1>3, <2>1, <2>2 DEF UsageFrom
<1>10. RequestKnown(u)' /\ HoldKnown(u)'
  BY <1>1, <1>3, <1>4, <1>5, <1>6 DEF Known, RequestKnown, HoldKnown, Creating, Deciding, CommitsCreate, CommitsDecision
<1>11. UsageKnown(u, L)'
  BY <1>1, <1>4, <1>8 DEF Known, UsageKnown, Creating, Deciding, CommitsCreate, CommitsDecision
<1>12. AccountKnown(u, L)'
  BY <1>1, <1>3, <1>4, <1>7 DEF Known, AccountKnown, PaidFrom, Creating, Deciding, CommitsCreate, CommitsDecision
<1>13. KeyKnown(u, L)'
  <2> SUFFICES ASSUME u.row.key # NoKey, KeyLock(u.row.key) \in L, ~UsedKey(u.row.key)
               PROVE  ~UsedKey(u.row.key)'
    BY <1>1 DEF Known, KeyKnown, CommitsCreate
  <2> SUFFICES ASSUME NEW v \in Requests, request'[v].key = u.row.key PROVE FALSE
    BY DEF UsedKey
  <2>1. request[v].key # u.row.key
    BY DEF UsedKey
  <2>2. tx[p].row.key = u.row.key /\ KeyLock(u.row.key) \in held[p]
    BY <2>1, CommitKeys
  <2> QED BY <1>2, <2>2
<1> QED BY <1>9, <1>10, <1>11, <1>12, <1>13 DEF Known

LEMMA CommitKeeps ==
  ASSUME IInv, TypeOK', NEW p \in Procs, Commit(p)
  PROVE  IInv'
<1>1. /\ held' = [held EXCEPT ![p] = {}]
      /\ tx' = [tx EXCEPT ![p] = IF tx[p].call = "approve"
                                 THEN Begun("findVoucher", "approve", tx[p].w, NoRequest) ELSE Idle]
      /\ voucher' = voucher
  BY DEF Commit
<1>2. \A q \in Procs : /\ held'[q] = IF q = p THEN {} ELSE held[q]
                       /\ q # p => tx'[q] = tx[q]
  BY <1>1 DEF IInv, TypeOK
<1>3. LocksExclusive'
  BY <1>2 DEF IInv, LocksExclusive
<1>4. ASSUME NEW q \in Procs, tx'[q].pc # "idle" PROVE Known(tx[q], held[q])'
  <2>1. CASE q # p
    BY <1>2, <1>4, <2>1, CommitKeepsOthers
  <2>2. CASE q = p
    <3> DEFINE t == Begun("findVoucher", "approve", tx[p].w, NoRequest)
    <3>1. tx[p].call = "approve" /\ tx'[p] = t
      BY <1>1, <1>4, <2>2 DEF Idle, IInv, TypeOK
    <3>2. t.pc = "findVoucher" /\ t.call = "approve" /\ t.w = tx[p].w
      BY DEF Begun
    <3>3. debits'[t.w] = 1
      <4>1. tx[p].call = "approve"
        BY <3>1
      <4>2. debits'[tx[p].w] = 1
        BY <4>1, CommitApproves
      <4> HIDE DEF t
      <4> QED BY <3>2, <4>2
    <3>4. ASSUME NEW u, u.pc = "findVoucher", u.call = "approve", debits'[u.w] = 1 PROVE Known(u, {})'
      BY <3>4 DEF Known, CallKnown, RequestKnown, HoldKnown, UsageKnown, UsageIn, AccountKnown, UsageVersionKnown, KeyKnown,
                  Creating, Deciding, CommitsCreate, CommitsDecision, AfterCommit
    <3> HIDE DEF t
    <3>5. \A u : u = t => Known(u, {})'
      BY <3>2, <3>3, <3>4
    <3> QED BY <1>2, <2>2, <3>1, <3>5
  <2> QED BY <2>1, <2>2
<1>5. VoucherFollowsDebit'
  <2> SUFFICES ASSUME NEW v \in Requests, voucher[v] > 0 PROVE debits'[v] = 1
    BY <1>1 DEF VoucherFollowsDebit
  <2>1. debits[v] = 1
    BY DEF IInv, RowsConsistent, VoucherFollowsDebit
  <2> QED BY <2>1, CommitRuns, CommitFrame
<1> QED BY <1>3, <1>4, <1>5, CommitKeepsStatus, CommitKeepsAccount, CommitKeepsLimits, CommitKeepsKeys
        DEF IInv, RowsConsistent

----------------------------------------------------------------------------
(* What a commit does to the sums over the requests *)

\* The terms of the sums: what a request holds, what it has taken from the
\* account, and what it has in status s on a usage row.
HeldBy(w) == IF hold[w] = "RESERVED" THEN request[w].amount ELSE 0
TakenBy(w) == debits[w] * request[w].amount
CountedBy(w, u, s) == IF limitHold[w][u] = s THEN request[w].amount ELSE 0

\* They are integers, before and after a step.
LEMMA TermTypes ==
  ASSUME TypeOK, TypeOK', NEW w \in Requests, NEW u, NEW s
  PROVE  /\ HeldBy(w) \in Nat /\ TakenBy(w) \in Int /\ CountedBy(w, u, s) \in Nat
         /\ HeldBy(w)' \in Nat /\ TakenBy(w)' \in Int /\ CountedBy(w, u, s)' \in Nat
<1>1. request[w] \in RequestRow /\ debits[w] \in Nat /\ request'[w] \in RequestRow /\ debits'[w] \in Nat
  BY DEF TypeOK
<1>2. request[w].amount \in Nat /\ request'[w].amount \in Nat
  BY <1>1, AmountTypes
<1> QED BY <1>1, <1>2 DEF HeldBy, TakenBy, CountedBy

\* A commit changes the terms of its own request only: a create makes it hold
\* its amount, an approval turns what is held into a debit, a rejection or a
\* cancellation gives it back.
LEMMA CommitTerms ==
  ASSUME IInv, NEW p \in Procs, Commit(p), NEW w, w = tx[p].w
  PROVE  LET t == tx[p]
             amt == request[w].amount
         IN
         /\ w \in Requests /\ amt \in Nat /\ t.row.amount \in Nat
         /\ \A v \in Requests \ {w} : HeldBy(v)' = HeldBy(v) /\ TakenBy(v)' = TakenBy(v)
         /\ TakenBy(w) = 0
         /\ \/ t.call = "create" /\ HeldBy(w) = 0 /\ HeldBy(w)' = t.row.amount /\ TakenBy(w)' = 0
            \/ t.call = "approve" /\ HeldBy(w) = amt /\ HeldBy(w)' = 0 /\ TakenBy(w)' = amt
            \/ t.call \in {"reject", "cancel"} /\ hold[w] = "RESERVED" /\ HeldBy(w) = amt /\ HeldBy(w)' = 0 /\ TakenBy(w)' = 0
            \/ t.call \in {"reject", "cancel"} /\ hold[w] # "RESERVED" /\ HeldBy(w) = 0 /\ HeldBy(w)' = 0 /\ TakenBy(w)' = 0
<1> DEFINE t == tx[p]
           amt == request[w].amount
<1>1. w \in Requests /\ amt \in Nat /\ t.row.amount \in Nat /\ request[w] \in RequestRow
  BY CommitRuns, RowTypes, AmountTypes DEF IInv
<1>2. \A v \in Requests \ {w} : HeldBy(v)' = HeldBy(v) /\ TakenBy(v)' = TakenBy(v)
  BY CommitFrame DEF HeldBy, TakenBy
<1>3. hold[w] = HoldFor(request[w].status) /\ debits[w] = 0
  BY <1>1, CommitRuns DEF IInv, RowsConsistent, StatusMatchesHolds, HoldsAre
<1>4. \A n \in Nat : 0 * n = 0 /\ 1 * n = n
  OBVIOUS
<1>5. TakenBy(w) = 0
  BY <1>1, <1>3, <1>4 DEF TakenBy
<1>6. ASSUME NEW n \in Nat, request'[w].amount = n, debits'[w] \in {0, 1}
      PROVE  TakenBy(w)' = IF debits'[w] = 1 THEN n ELSE 0
  BY <1>4, <1>6 DEF TakenBy
<1>7. CASE t.call = "create"
  <2>1. request'[w] = t.row /\ hold'[w] = "RESERVED" /\ debits'[w] = 0 /\ request[w].status = "none"
    BY <1>7, CommitCreates
  <2>2. HeldBy(w) = 0
    BY <1>3, <2>1 DEF HoldFor, HeldBy
  <2>3. HeldBy(w)' = t.row.amount /\ TakenBy(w)' = 0
    BY <1>1, <1>6, <2>1 DEF HeldBy
  <2> QED BY <1>1, <1>2, <1>5, <1>7, <2>2, <2>3
<1>8. CASE t.call = "approve"
  <2>1. /\ request'[w] = [request[w] EXCEPT !.status = "APPROVED"] /\ hold'[w] = "CONSUMED"
        /\ debits'[w] = 1 /\ request[w].status = "PENDING"
    BY <1>8, CommitApproves
  <2>2. HeldBy(w) = amt
    BY <1>3, <2>1 DEF HoldFor, HeldBy
  <2>3. request'[w].amount = amt
    BY <1>1, <2>1 DEF RequestRow
  <2>4. HeldBy(w)' = 0 /\ TakenBy(w)' = amt
    BY <1>1, <1>6, <2>1, <2>3 DEF HeldBy
  <2> QED BY <1>1, <1>2, <1>5, <1>8, <2>2, <2>4
<1>9. CASE t.call \in {"reject", "cancel"}
  <2>1. /\ \E s : request'[w] = [request[w] EXCEPT !.status = s]
        /\ hold'[w] = "RELEASED" /\ debits'[w] = 0
    <3>1. hold'[w] = "RELEASED" /\ debits'[w] = 0
      BY <1>9, CommitReturns
    <3>2. \E s : request'[w] = [request[w] EXCEPT !.status = s]
      BY <1>9, CommitMoves
    <3> QED BY <3>1, <3>2
  <2>2. request'[w].amount = amt
    BY <1>1, <2>1 DEF RequestRow
  <2>3. HeldBy(w)' = 0 /\ TakenBy(w)' = 0
    BY <1>1, <1>6, <2>1, <2>2 DEF HeldBy
  <2>4. HeldBy(w) = IF hold[w] = "RESERVED" THEN amt ELSE 0
    BY DEF HeldBy
  <2> QED BY <1>1, <1>2, <1>5, <1>9, <2>3, <2>4
<1> QED BY <1>7, <1>8, <1>9, CommitRuns DEF TxRecord, Calls

\* A commit leaves the account row in step with the reservations and entries.
LEMMA CommitKeepsLedger ==
  ASSUME IInv, TypeOK', AccountMatchesLedger, NEW p \in Procs, Commit(p)
  PROVE  AccountMatchesLedger'
<1> SUFFICES ASSUME NEW w, w = tx[p].w PROVE AccountMatchesLedger'
  OBVIOUS
<1> DEFINE t == tx[p]
           amt == request[w].amount
           F == [v \in Requests |-> HeldBy(v)]
           G == [v \in Requests |-> TakenBy(v)]
<1>1. /\ F \in [Requests -> Int] /\ F' \in [Requests -> Int]
      /\ G \in [Requests -> Int] /\ G' \in [Requests -> Int]
  BY TermTypes DEF IInv
<1>2. w \in Requests /\ \A v \in Requests \ {w} : F'[v] = F[v] /\ G'[v] = G[v]
  BY CommitTerms
<1>3. SumFunction(F') = SumFunction(F) + F'[w] - F[w]
  <2> HIDE DEF F
  <2> QED BY <1>1, <1>2, SumChange, RequestsAssumption
<1>4. SumFunction(G') = SumFunction(G) + G'[w] - G[w]
  <2> HIDE DEF G
  <2> QED BY <1>1, <1>2, SumChange, RequestsAssumption
<1>5. account.blocked = SumFunction(F) /\ account.balance = InitialBalance - SumFunction(G)
  BY DEF AccountMatchesLedger, HeldBy, TakenBy
<1>6. AccountMatchesLedger' <=> account'.blocked = SumFunction(F') /\ account'.balance = InitialBalance - SumFunction(G')
  BY DEF AccountMatchesLedger, HeldBy, TakenBy
<1>7. /\ SumFunction(F) \in Int /\ SumFunction(G) \in Int /\ InitialBalance \in Int
      /\ F[w] = HeldBy(w) /\ F'[w] = HeldBy(w)' /\ G[w] = TakenBy(w) /\ G'[w] = TakenBy(w)'
      /\ F[w] \in Int /\ F'[w] \in Int /\ G[w] \in Int /\ G'[w] \in Int
  BY <1>1, <1>2, SumInt, RequestsAssumption, BalanceAssumption
<1>8. account \in Account /\ t.row.amount \in Nat /\ amt \in Nat
  BY CommitTerms DEF IInv, TypeOK
<1>9. /\ Reserve(account, t.row.amount).balance = account.balance
      /\ Reserve(account, t.row.amount).blocked = account.blocked + t.row.amount
      /\ Unblock(account, amt).balance = account.balance /\ Unblock(account, amt).blocked = account.blocked - amt
      /\ Apply(Unblock(account, amt), -amt).balance = account.balance - amt
      /\ Apply(Unblock(account, amt), -amt).blocked = account.blocked - amt
  <2>1. amt \in Int /\ t.row.amount \in Int
    BY <1>8
  <2>2. /\ Apply(Unblock(account, amt), -amt).balance = account.balance - amt
        /\ Apply(Unblock(account, amt), -amt).blocked = account.blocked - amt
    BY <1>8, PaidFacts
  <2> HIDE DEF amt, t
  <2> QED BY <1>8, <2>1, <2>2, LedgerFacts
<1> HIDE DEF F, G
<1>10. account'.blocked = account.blocked + HeldBy(w)' - HeldBy(w) /\ account'.balance = account.balance - TakenBy(w)' /\ TakenBy(w) = 0
  <2>1. TakenBy(w) = 0 /\ account.balance \in Int /\ account.blocked \in Int
    BY <1>5, <1>7, CommitTerms
  <2>2. CASE t.call = "create"
    <3>1. HeldBy(w) = 0 /\ HeldBy(w)' = t.row.amount /\ TakenBy(w)' = 0
      BY <2>2, CommitTerms
    <3>2. account' = Reserve(account, t.row.amount)
      BY <2>2, CommitAccount
    <3> QED BY <1>8, <1>9, <2>1, <3>1, <3>2
  <2>3. CASE t.call = "approve"
    <3>1. HeldBy(w) = amt /\ HeldBy(w)' = 0 /\ TakenBy(w)' = amt
      BY <2>3, CommitTerms
    <3>2. account' = Apply(Unblock(account, amt), -amt)
      BY <2>3, CommitAccount
    <3> QED BY <1>8, <1>9, <2>1, <3>1, <3>2
  <2>4. CASE t.call \in {"reject", "cancel"} /\ hold[w] = "RESERVED"
    <3>1. HeldBy(w) = amt /\ HeldBy(w)' = 0 /\ TakenBy(w)' = 0
      BY <2>4, CommitTerms
    <3>2. account' = Unblock(account, amt)
      BY <2>4, CommitAccount
    <3> QED BY <1>8, <1>9, <2>1, <3>1, <3>2
  <2>5. CASE t.call \in {"reject", "cancel"} /\ hold[w] # "RESERVED"
    <3>1. HeldBy(w) = 0 /\ HeldBy(w)' = 0 /\ TakenBy(w)' = 0
      BY <2>5, CommitTerms
    <3>2. account' = account
      BY <2>5, CommitAccount
    <3> QED BY <2>1, <3>1, <3>2
  <2>6. t.call = "create" \/ t.call = "approve" \/ t.call \in {"reject", "cancel"}
    BY CommitTerms
  <2> QED BY <2>2, <2>3, <2>4, <2>5, <2>6
<1>11. account'.blocked = SumFunction(F')
  BY <1>3, <1>5, <1>7, <1>10
<1>12. account'.balance = InitialBalance - SumFunction(G')
  BY <1>4, <1>5, <1>7, <1>10
<1> QED BY <1>6, <1>11, <1>12

\* A commit writes the usage rows it has locked, and counts there what the
\* reservations of its request on those rows become.
LEMMA CommitCounts ==
  ASSUME IInv, NEW p \in Procs, Commit(p), NEW w, w = tx[p].w, NEW u \in UsageRows
  PROVE  LET t == tx[p]
             amt == request[w].amount
             reserved == CountedBy(w, u, "RESERVED")
             used == CountedBy(w, u, "CONSUMED")
         IN
         /\ w \in Requests /\ amt \in Nat /\ t.row.amount \in Nat
         /\ \A v \in Requests \ {w}, s \in HoldStatus : CountedBy(v, u, s)' = CountedBy(v, u, s)
         /\ \/ usage'[u] = usage[u] /\ reserved' = reserved /\ used' = used
            \/ /\ usage'[u] = ReserveUsage(usage[u], t.row.amount)
               /\ reserved = 0 /\ reserved' = t.row.amount /\ used = 0 /\ used' = 0
            \/ /\ usage'[u] = ConsumeUsage(usage[u], amt)
               /\ reserved = amt /\ reserved' = 0 /\ used = 0 /\ used' = amt
            \/ /\ usage'[u] = ReleaseUsage(usage[u], amt)
               /\ reserved = amt /\ reserved' = 0 /\ used = 0 /\ used' = 0
<1> DEFINE t == tx[p]
           amt == request[w].amount
           U == UsageIn(held[p])
<1>1. /\ w \in Requests /\ amt \in Nat /\ t.row.amount \in Nat /\ request[w] \in RequestRow
      /\ t.pc = "commit" /\ Known(t, held[p])
  BY CommitRuns, RowTypes, AmountTypes DEF IInv
<1>2. \A v \in Requests \ {w}, s \in HoldStatus : CountedBy(v, u, s)' = CountedBy(v, u, s)
  BY CommitFrame DEF CountedBy
<1>3. usage'[u] = IF u \in U THEN UsageFrom(t, u) ELSE usage[u]
  <2>1. usage'[u] = IF u \in U THEN t.use[u] ELSE usage[u]
    BY DEF Commit, UsageIn
  <2> QED BY <1>1, <2>1 DEF Known, UsageVersionKnown
<1>4. limitHold[w][u] \in {"none", HoldFor(request[w].status)}
  BY <1>1 DEF IInv, RowsConsistent, StatusMatchesHolds, HoldsAre
<1>5. CASE t.call = "create"
  <2>1. /\ request'[w] = t.row /\ request[w].status = "none"
        /\ limitHold'[w][u] = IF u \in U THEN "RESERVED" ELSE "none"
    BY <1>5, CommitCreates
  <2>2. limitHold[w][u] = "none"
    BY <1>4, <2>1 DEF HoldFor
  <2>3. u \in U => UsageFrom(t, u) = ReserveUsage(usage[u], t.row.amount)
    BY <1>5 DEF UsageFrom
  <2> QED BY <1>1, <1>2, <1>3, <2>1, <2>2, <2>3 DEF CountedBy
<1>6. CASE t.call = "approve"
  <2>1. /\ request'[w] = [request[w] EXCEPT !.status = "APPROVED"] /\ request[w].status = "PENDING"
        /\ limitHold'[w][u] = IF limitHold[w][u] = "none" THEN "none" ELSE "CONSUMED"
    BY <1>6, CommitApproves
  <2>2. request'[w].amount = amt /\ limitHold[w][u] \in {"none", "RESERVED"}
    BY <1>1, <1>4, <2>1 DEF RequestRow, HoldFor
  <2>3. u \in U <=> limitHold[w][u] = "RESERVED"
    BY <1>1, <1>6, <2>2 DEF Known, UsageKnown, CommitsDecision, ToDo, From, LimitConsumable
  <2>4. u \in U => UsageFrom(t, u) = ConsumeUsage(usage[u], amt)
    BY <1>6 DEF UsageFrom
  <2> QED BY <1>1, <1>2, <1>3, <2>1, <2>2, <2>3, <2>4 DEF CountedBy
<1>7. CASE t.call \in {"reject", "cancel"}
  <2>1. /\ \E s : request'[w] = [request[w] EXCEPT !.status = s]
        /\ request[w].status \in {"PENDING", "REJECTED"}
        /\ limitHold'[w][u] = IF limitHold[w][u] = "none" THEN "none" ELSE "RELEASED"
    <3>1. /\ request[w].status \in {"PENDING", "REJECTED"}
          /\ \A v \in UsageRows : limitHold'[w][v] = IF limitHold[w][v] = "none" THEN "none" ELSE "RELEASED"
      BY <1>7, CommitReturns
    <3>2. \E s : request'[w] = [request[w] EXCEPT !.status = s]
      BY <1>7, CommitMoves
    <3> QED BY <3>1, <3>2
  <2>2. request'[w].amount = amt /\ limitHold[w][u] \in {"none", "RESERVED", "RELEASED"}
    BY <1>1, <1>4, <2>1 DEF RequestRow, HoldFor
  <2>3. u \in U <=> limitHold[w][u] = "RESERVED"
    BY <1>1, <1>7, <2>2 DEF Known, UsageKnown, CommitsDecision, ToDo, From, LimitReleasable
  <2>4. u \in U => UsageFrom(t, u) = ReleaseUsage(usage[u], amt)
    BY <1>7 DEF UsageFrom
  <2> QED BY <1>1, <1>2, <1>3, <2>1, <2>2, <2>3, <2>4 DEF CountedBy
<1> QED BY <1>5, <1>6, <1>7, CommitRuns DEF TxRecord, Calls

\* A commit leaves the usage rows in step with the limit reservations.
LEMMA CommitKeepsUsage ==
  ASSUME IInv, TypeOK', UsageMatchesReservations, NEW p \in Procs, Commit(p)
  PROVE  UsageMatchesReservations'
<1> SUFFICES ASSUME NEW w, w = tx[p].w, NEW u \in UsageRows
             PROVE  usage'[u] = [used |-> SumFunction([v \in Requests |-> CountedBy(v, u, "CONSUMED")']),
                                 reserved |-> SumFunction([v \in Requests |-> CountedBy(v, u, "RESERVED")'])]
  BY DEF UsageMatchesReservations, CountedBy
<1> DEFINE t == tx[p]
           amt == request[w].amount
           F(s) == [v \in Requests |-> CountedBy(v, u, s)]
<1>1. \A s : F(s) \in [Requests -> Int] /\ F(s)' \in [Requests -> Int]
  BY TermTypes DEF IInv
<1>2. ASSUME NEW s \in HoldStatus
      PROVE  /\ SumFunction(F(s)) \in Int
             /\ SumFunction(F(s)') = SumFunction(F(s)) + F(s)'[w] - F(s)[w]
  <2>1. w \in Requests /\ \A v \in Requests \ {w} : F(s)'[v] = F(s)[v]
    BY <1>2, CommitCounts
  <2> HIDE DEF F
  <2> QED BY <1>1, <2>1, SumChange, SumInt, RequestsAssumption
<1>3. usage[u] = [used |-> SumFunction(F("CONSUMED")), reserved |-> SumFunction(F("RESERVED"))]
  BY DEF UsageMatchesReservations, CountedBy
<1>4. w \in Requests /\ amt \in Nat /\ t.row.amount \in Nat /\ usage[u] \in Usage
  BY CommitCounts DEF IInv, TypeOK
<1>5. \A s : F(s)[w] = CountedBy(w, u, s) /\ F(s)'[w] = CountedBy(w, u, s)'
  BY <1>4
<1>6. \A n \in Int :
        /\ usage[u].used \in Int /\ usage[u].reserved \in Int
        /\ usage[u] = [used |-> usage[u].used, reserved |-> usage[u].reserved]
        /\ ReserveUsage(usage[u], n) = [used |-> usage[u].used, reserved |-> usage[u].reserved + n]
        /\ ConsumeUsage(usage[u], n) = [used |-> usage[u].used + n, reserved |-> usage[u].reserved - n]
        /\ ReleaseUsage(usage[u], n) = [used |-> usage[u].used, reserved |-> usage[u].reserved - n]
  BY <1>4, UsageFacts
<1>7. "CONSUMED" \in HoldStatus /\ "RESERVED" \in HoldStatus
  BY DEF HoldStatus
<1> HIDE DEF F
<1>8. /\ usage[u].used = SumFunction(F("CONSUMED")) /\ usage[u].reserved = SumFunction(F("RESERVED"))
      /\ SumFunction(F("CONSUMED")') = usage[u].used + CountedBy(w, u, "CONSUMED")' - CountedBy(w, u, "CONSUMED")
      /\ SumFunction(F("RESERVED")') = usage[u].reserved + CountedBy(w, u, "RESERVED")' - CountedBy(w, u, "RESERVED")
  BY <1>2, <1>3, <1>5, <1>7
<1>9. usage'[u] = [used |-> usage[u].used + CountedBy(w, u, "CONSUMED")' - CountedBy(w, u, "CONSUMED"),
                   reserved |-> usage[u].reserved + CountedBy(w, u, "RESERVED")' - CountedBy(w, u, "RESERVED")]
  <2> DEFINE m == usage[u].used
             k == usage[u].reserved
             n == t.row.amount
             c == CountedBy(w, u, "CONSUMED")
             d == CountedBy(w, u, "CONSUMED")'
             r == CountedBy(w, u, "RESERVED")
             s == CountedBy(w, u, "RESERVED")'
             x == usage'[u]
  <2>1. m \in Int /\ k \in Int /\ n \in Int /\ amt \in Int /\ c \in Int /\ d \in Int /\ r \in Int /\ s \in Int
    <3>1. c \in Int /\ d \in Int /\ r \in Int /\ s \in Int
      BY <1>4, TermTypes DEF IInv
    <3>2. m \in Int /\ k \in Int
      BY <1>4 DEF Usage
    <3> HIDE DEF c, d, r, s, m, k
    <3> QED BY <1>4, <3>1, <3>2
  <2>2. /\ usage[u] = [used |-> m, reserved |-> k]
        /\ ReserveUsage(usage[u], n) = [used |-> m, reserved |-> k + n]
        /\ ConsumeUsage(usage[u], amt) = [used |-> m + amt, reserved |-> k - amt]
        /\ ReleaseUsage(usage[u], amt) = [used |-> m, reserved |-> k - amt]
    <3>1. n \in Int /\ amt \in Int
      BY <2>1
    <3> QED BY <1>6, <3>1
  <2>3. \/ x = usage[u] /\ s = r /\ d = c
        \/ x = ReserveUsage(usage[u], n) /\ r = 0 /\ s = n /\ c = 0 /\ d = 0
        \/ x = ConsumeUsage(usage[u], amt) /\ r = amt /\ s = 0 /\ c = 0 /\ d = amt
        \/ x = ReleaseUsage(usage[u], amt) /\ r = amt /\ s = 0 /\ c = 0 /\ d = 0
    BY CommitCounts
  <2>4. x = [used |-> m + d - c, reserved |-> k + s - r]
    <3> HIDE DEF m, k, n, c, d, r, s, x, amt
    <3>1. \E a, b \in Int : x = [used |-> a, reserved |-> b] /\ a = m + d - c /\ b = k + s - r
      BY <2>1, <2>2, <2>3
    <3> QED BY <3>1
  <2> QED BY <2>4
<1> QED BY <1>8, <1>9 DEF F

----------------------------------------------------------------------------
(* The invariant, and what follows from it *)

LEMMA IInvInit == Init => IInv
<1> SUFFICES ASSUME Init PROVE IInv
  OBVIOUS
<1>1. TypeOK
  BY TypeInit
<1>2. LocksExclusive /\ \A p \in Procs : tx[p].pc = "idle"
  BY DEF Init, LocksExclusive, Idle
<1>3. StatusMatchesHolds
  BY DEF Init, StatusMatchesHolds, HoldsAre, HoldFor, NoRequest
<1>4. NoOverdraft
  BY BalanceAssumption, MinBalanceAssumption DEF Init, NoOverdraft, UsableCapacity
<1>5. LimitsRespected
  <2> SUFFICES ASSUME NEW u \in UsageRows, Policy[u[1]].value # NoLimit
               PROVE  usage[u].used + usage[u].reserved <= Policy[u[1]].value
    BY DEF LimitsRespected
  <2>1. u[1] \in Periods
    BY DEF UsageRows, Periods
  <2>2. Policy[u[1]].value \in Nat
    BY <2>1, PolicyAssumption
  <2> QED BY <2>2 DEF Init, NoUsage
<1>6. OneRequestPerKey /\ VoucherFollowsDebit
  BY DEF Init, OneRequestPerKey, VoucherFollowsDebit, NoRequest
<1> QED BY <1>1, <1>2, <1>3, <1>4, <1>5, <1>6 DEF IInv, RowsConsistent

LEMMA IInvStep == IInv /\ [Next]_vars => IInv'
<1> SUFFICES ASSUME IInv, [Next]_vars PROVE IInv'
  OBVIOUS
<1>1. TypeOK'
  BY TypeStep DEF IInv
<1>2. CASE UNCHANGED vars
  <2>1. ASSUME NEW u, NEW M PROVE Known(u, M)' <=> Known(u, M)
    BY <1>2 DEF vars, Known, CallKnown, RequestKnown, HoldKnown, UsageKnown, AccountKnown, UsageVersionKnown, KeyKnown,
                ToDo, PaidFrom, UsageFrom, UsedKey
  <2>2. RowsConsistent' /\ LocksExclusive'
    BY <1>2 DEF IInv, vars, LocksExclusive, RowsConsistent, StatusMatchesHolds, HoldsAre, NoOverdraft, UsableCapacity,
                LimitsRespected, OneRequestPerKey, VoucherFollowsDebit
  <2>3. ASSUME NEW p \in Procs, tx'[p].pc # "idle" PROVE Known(tx[p], held[p])'
    <3>1. tx' = tx /\ held' = held
      BY <1>2 DEF vars
    <3>2. Known(tx[p], held[p])
      BY <2>3, <3>1 DEF IInv
    <3> QED BY <2>1, <3>1, <3>2
  <2> QED BY <1>1, <2>2, <2>3 DEF IInv
<1>3. CASE NewDay
  BY <1>1, <1>3, NewDayKeeps
<1>4. ASSUME NEW p \in Procs, Call(p) PROVE IInv'
  BY <1>1, <1>4, BeginCreateKeeps, BeginDecisionKeeps DEF Call
<1>5. ASSUME NEW p \in Procs, ReserveDaily(p) \/ ReserveMonthly(p) PROVE IInv'
  <2>1. "DAILY" \in Periods /\ "MONTHLY" \in Periods
    BY DEF Periods
  <2> QED BY <1>1, <1>5, <2>1, ReserveLimitKeeps DEF ReserveDaily, ReserveMonthly
<1>6. ASSUME NEW p \in Procs, Step(p) PROVE IInv'
  BY <1>1, <1>5, <1>6, InsertRequestKeeps, ReserveFundsKeeps, LockRequestKeeps, ReadHoldKeeps, LockAccountKeeps,
     ReadLimitsKeeps, LockUsageKeeps, LimitsDoneKeeps, CommitKeeps, FindVoucherKeeps, EnqueueVoucherKeeps DEF Step
<1>7. ASSUME NEW p \in Procs, Abort(p) \/ CrashInTail(p) PROVE IInv'
  BY <1>7, EndKeeps DEF Abort, CrashInTail
<1> QED BY <1>2, <1>3, <1>4, <1>6, <1>7 DEF Next

\* What each row lock protects, what a call knows at each of its steps, and what
\* the rows say, hold in every interleaving, with aborts and crashes between
\* any two steps.
THEOREM Invariant == Spec => []IInv
BY IInvInit, IInvStep, PTL DEF Spec

\* Every request, its funds reservation, its limit reservations and its
\* ledger entry agree after every commit, whatever the interleaving of
\* createForUser, approve, reject and cancelWithdrawal.
THEOREM StatusSafe == Spec => []StatusMatchesHolds
<1>1. IInv => StatusMatchesHolds
  BY DEF IInv, RowsConsistent
<1> QED BY <1>1, Invariant, PTL

\* reserveFunds, consumeFunds, releaseFunds and applyTransaction never
\* overdraw the account nor drive its blocked balance below zero.
THEOREM NoOverdraftSafe == Spec => []NoOverdraft
<1>1. IInv => NoOverdraft
  BY DEF IInv, RowsConsistent
<1> QED BY <1>1, Invariant, PTL

\* No interleaving of LimitsService's reserve, consume and release takes a
\* day or a month beyond the policy's limit.
THEOREM LimitsSafe == Spec => []LimitsRespected
<1>1. IInv => LimitsRespected
  BY DEF IInv, RowsConsistent
<1> QED BY <1>1, Invariant, PTL

\* However the creates with one idempotency key race, one row comes out.
THEOREM OneRequestSafe == Spec => []OneRequestPerKey
<1>1. IInv => OneRequestPerKey
  BY DEF IInv, RowsConsistent
<1> QED BY <1>1, Invariant, PTL

\* A cash-out voucher is queued only for a withdrawal whose debit committed,
\* although the outbox is written after the transaction and without locks.
THEOREM VoucherSafe == Spec => []VoucherFollowsDebit
<1>1. IInv => VoucherFollowsDebit
  BY DEF IInv, RowsConsistent
<1> QED BY <1>1, Invariant, PTL

----------------------------------------------------------------------------
(* What a step does to the requests and the ledger *)

\* All but the commits leave the rows of the services alone.
LEMMA OnlyCommitWrites ==
  ASSUME [Next]_vars, \A p \in Procs : ~Commit(p)
  PROVE  UNCHANGED <<request, hold, limitHold, account, usage, debits>>
<1>1. CASE UNCHANGED vars \/ NewDay
  BY <1>1 DEF vars, NewDay
<1>2. ASSUME NEW p \in Procs, Call(p) PROVE UNCHANGED <<request, hold, limitHold, account, usage, debits>>
  BY <1>2 DEF Call, BeginCreate, BeginDecision, Go, data
<1>3. ASSUME NEW p \in Procs, Step(p) PROVE UNCHANGED <<request, hold, limitHold, account, usage, debits>>
  <2>1. CASE InsertRequest(p)
    BY <2>1 DEF InsertRequest, Go, End, LockAndGo, data
  <2>2. CASE ReserveDaily(p) \/ ReserveMonthly(p) \/ ReserveFunds(p)
    BY <2>2 DEF ReserveDaily, ReserveMonthly, ReserveLimit, ReserveFunds, End, LockAndGo, data
  <2>3. CASE LockRequest(p) \/ ReadHold(p) \/ LockAccount(p)
    BY <2>3 DEF LockRequest, ReadHold, LockAccount, Go, End, LockAndGo, data
  <2>4. CASE ReadLimits(p) \/ LockUsage(p) \/ LimitsDone(p)
    BY <2>4 DEF ReadLimits, LockUsage, LimitsDone, Go, LockAndGo, data
  <2>5. CASE FindVoucher(p) \/ EnqueueVoucher(p)
    BY <2>5 DEF FindVoucher, EnqueueVoucher, Go, End, data
  <2> QED BY <1>3, <2>1, <2>2, <2>3, <2>4, <2>5 DEF Step
<1>4. ASSUME NEW p \in Procs, Abort(p) \/ CrashInTail(p) PROVE UNCHANGED <<request, hold, limitHold, account, usage, debits>>
  BY <1>4 DEF Abort, CrashInTail, End, data
<1> QED BY <1>1, <1>2, <1>3, <1>4 DEF Next

\* Before the first request, the account and the usage rows count nothing.
LEMMA BooksInit == Init => AccountMatchesLedger /\ UsageMatchesReservations
<1> SUFFICES ASSUME Init PROVE AccountMatchesLedger /\ UsageMatchesReservations
  OBVIOUS
<1>1. \A w \in Requests : request[w].amount = 0 /\ hold[w] = "none" /\ debits[w] = 0
  BY DEF Init, NoRequest
<1>2. AccountMatchesLedger
  <2> DEFINE F == [w \in Requests |-> IF hold[w] = "RESERVED" THEN request[w].amount ELSE 0]
             G == [w \in Requests |-> debits[w] * request[w].amount]
  <2>1. F \in [Requests -> {0}] /\ G \in [Requests -> {0}]
    BY <1>1
  <2>2. account.blocked = 0 /\ account.balance = InitialBalance /\ InitialBalance \in Int
    BY BalanceAssumption DEF Init
  <2> HIDE DEF F, G
  <2>3. SumFunction(F) = 0 /\ SumFunction(G) = 0
    BY <2>1, SumZero, RequestsAssumption
  <2> QED BY <2>2, <2>3 DEF AccountMatchesLedger, F, G
<1>3. UsageMatchesReservations
  <2> DEFINE F(u, s) == [w \in Requests |-> IF limitHold[w][u] = s THEN request[w].amount ELSE 0]
  <2>1. \A u, s : F(u, s) \in [Requests -> {0}]
    BY <1>1
  <2>2. \A u \in UsageRows : usage[u] = [used |-> 0, reserved |-> 0]
    BY DEF Init, NoUsage
  <2> HIDE DEF F
  <2>3. \A u : SumFunction(F(u, "CONSUMED")) = 0 /\ SumFunction(F(u, "RESERVED")) = 0
    BY <2>1, SumZero, RequestsAssumption
  <2>4. \A u \in UsageRows :
          usage[u] = [used |-> SumFunction(F(u, "CONSUMED")), reserved |-> SumFunction(F(u, "RESERVED"))]
    BY <2>2, <2>3
  <2> QED BY <2>4 DEF UsageMatchesReservations, F
<1> QED BY <1>2, <1>3

\* No step brings them out of step with the rows they count.
LEMMA BooksStep ==
  IInv /\ IInv' /\ AccountMatchesLedger /\ UsageMatchesReservations /\ [Next]_vars
    => AccountMatchesLedger' /\ UsageMatchesReservations'
<1> SUFFICES ASSUME IInv, IInv', AccountMatchesLedger, UsageMatchesReservations, [Next]_vars
             PROVE  AccountMatchesLedger' /\ UsageMatchesReservations'
  OBVIOUS
<1>1. CASE \E p \in Procs : Commit(p)
  BY <1>1, CommitKeepsLedger, CommitKeepsUsage DEF IInv
<1>2. CASE \A p \in Procs : ~Commit(p)
  <2>1. UNCHANGED <<request, hold, limitHold, account, usage, debits>>
    BY <1>2, OnlyCommitWrites
  <2> QED BY <2>1 DEF AccountMatchesLedger, UsageMatchesReservations
<1> QED BY <1>1, <1>2

\* The sums follow from the commits alone: every other step leaves the rows be.
LEMMA Books == Spec => [](IInv /\ AccountMatchesLedger /\ UsageMatchesReservations)
<1>1. Init => IInv /\ AccountMatchesLedger /\ UsageMatchesReservations
  BY IInvInit, BooksInit
<1>2. IInv /\ AccountMatchesLedger /\ UsageMatchesReservations /\ [Next]_vars
        => (IInv /\ AccountMatchesLedger /\ UsageMatchesReservations)'
  BY IInvStep, BooksStep
<1> QED BY <1>1, <1>2, PTL DEF Spec

\* blockedBalance is always the sum of the RESERVED reservations and balance
\* what the ledger entries leave: reserveFunds, consumeFunds, releaseFunds and
\* applyTransaction, which write absolute values, lose none of each other's
\* updates.
THEOREM LedgerSafe == Spec => []AccountMatchesLedger
BY Books, PTL

\* Each LimitUsage row always counts exactly the reservations that point to it,
\* whatever day a request is decided on and in whatever order consume and
\* release go through the rows.
THEOREM UsageSafe == Spec => []UsageMatchesReservations
BY Books, PTL

\* A withdrawal that holds funds can be paid: with the blocked balance a sum
\* over the requests, each of them can be unblocked and debited, so neither of
\* consumeFunds' and applyTransaction's checks can fail for an approval.
THEOREM PayableSafe == Spec => []HeldIsPayable
<1>1. IInv /\ AccountMatchesLedger => HeldIsPayable
  <2> SUFFICES ASSUME IInv, AccountMatchesLedger, NEW w \in Requests, hold[w] = "RESERVED"
               PROVE  LET amt == request[w].amount IN
                      CanUnblock(account, amt) /\ CanApply(Unblock(account, amt), -amt)
    BY DEF HeldIsPayable
  <2> DEFINE amt == request[w].amount
             F == [v \in Requests |-> IF hold[v] = "RESERVED" THEN request[v].amount ELSE 0]
  <2>1. \A v \in Requests : request[v].amount \in Nat
    BY AmountTypes DEF IInv, TypeOK
  <2>2. F \in [Requests -> Nat] /\ F \in [Requests -> Int] /\ F[w] = amt
    BY <2>1
  <2>3. account.blocked = SumFunction(F)
    BY DEF AccountMatchesLedger
  <2> HIDE DEF F
  <2>4. F[w] <= SumFunction(F) /\ SumFunction(F) \in Int
    BY <2>2, SumAtLeast, SumInt, RequestsAssumption
  <2>5. account \in Account /\ account.balance \in Int /\ UsableCapacity(account) >= 0 /\ MinBalance \in Int
    BY MinBalanceAssumption DEF IInv, TypeOK, RowsConsistent, NoOverdraft, Account
  <2>6. /\ Unblock(account, amt).balance = account.balance
        /\ Unblock(account, amt).blocked = account.blocked - amt
    <3>1. amt \in Int
      BY <2>1
    <3> QED BY <2>5, <3>1, LedgerFacts
  <2>7. amt \in Int /\ amt <= account.blocked /\ account.blocked \in Int
    BY <2>1, <2>2, <2>3, <2>4
  <2>8. CanUnblock(account, amt) /\ CanApply(Unblock(account, amt), -amt)
    <3> HIDE DEF amt
    <3> QED BY <2>5, <2>6, <2>7 DEF CanUnblock, CanApply, UsableCapacity
  <2> QED BY <2>8
<1> QED BY <1>1, Books, PTL

\* No commit undoes a decision.
LEMMA CommitIsFinal ==
  ASSUME IInv, NEW p \in Procs, Commit(p), NEW w \in Requests
  PROVE  /\ request[w].status \in {"APPROVED", "CANCELLED"} => request'[w] = request[w]
         /\ request[w].status = "REJECTED" => request'[w].status \in {"REJECTED", "CANCELLED"}
         /\ debits'[w] >= debits[w]
<1>1. request[w] \in RequestRow /\ debits[w] = IF request[w].status = "APPROVED" THEN 1 ELSE 0
  BY DEF IInv, TypeOK, RowsConsistent, StatusMatchesHolds
<1>2. CASE w # tx[p].w
  <2>1. request'[w] = request[w] /\ debits'[w] = debits[w] /\ debits[w] \in {0, 1}
    BY <1>1, <1>2, CommitFrame
  <2> QED BY <2>1
<1>3. CASE w = tx[p].w
  <2>1. request[w].status \in {"none", "PENDING", "REJECTED"} /\ debits[w] = 0 /\ debits'[w] \in {0, 1}
    BY <1>1, <1>3, CommitKinds
  <2>2. request[w].status = "REJECTED" => request'[w] = [request[w] EXCEPT !.status = "CANCELLED"]
    BY <1>3, CommitKinds
  <2>3. request[w].status = "REJECTED" => request'[w].status = "CANCELLED"
    BY <1>1, <2>2 DEF RequestRow
  <2> QED BY <2>1, <2>3
<1> QED BY <1>2, <1>3

\* A decision of approve, reject or cancelWithdrawal is never taken back by a
\* later or a concurrent call, and no ledger entry disappears.
THEOREM DecisionsStay == Spec => DecisionsAreFinal
<1> DEFINE Final == \A w \in Requests :
              /\ request[w].status \in {"APPROVED", "CANCELLED"} => request'[w] = request[w]
              /\ request[w].status = "REJECTED" => request'[w].status \in {"REJECTED", "CANCELLED"}
              /\ debits'[w] >= debits[w]
<1>1. IInv /\ [Next]_vars => [Final]_vars
  <2> SUFFICES ASSUME IInv, [Next]_vars PROVE Final
    OBVIOUS
  <2>1. CASE \E p \in Procs : Commit(p)
    BY <2>1, CommitIsFinal
  <2>2. CASE \A p \in Procs : ~Commit(p)
    <3>1. request' = request /\ debits' = debits
      BY <2>2, OnlyCommitWrites
    <3>2. \A w \in Requests : debits[w] \in Nat
      BY DEF IInv, TypeOK
    <3> QED BY <3>1, <3>2
  <2> QED BY <2>1, <2>2
<1>2. Spec => [][Final]_vars
  BY <1>1, Invariant, PTL DEF Spec
<1> QED BY <1>2 DEF DecisionsAreFinal

----------------------------------------------------------------------------
(* Refinement of Holds *)

\* What IInv says of a request in the terms of the abstract hold.
LEMMA PhaseOfStatus ==
  ASSUME IInv, NEW w \in Requests
  PROVE  /\ request[w].status = "none" => Phase(w) = "free"
         /\ request[w].status = "PENDING" => Phase(w) = "held" /\ hold[w] = "RESERVED"
         /\ request[w].status = "REJECTED" => Phase(w) = "returned" /\ hold[w] = "RELEASED"
<1>1. hold[w] = HoldFor(request[w].status) /\ debits[w] = IF request[w].status = "APPROVED" THEN 1 ELSE 0
  BY DEF IInv, RowsConsistent, StatusMatchesHolds, HoldsAre
<1> QED BY <1>1 DEF HoldFor, Phase

\* A commit is a hold, a payment, a return, or, when it cancels a request
\* that was rejected before, no step of the abstract system at all.
LEMMA CommitImplements ==
  ASSUME IInv, NEW p \in Procs, Commit(p)
  PROVE  [H!Next]_<<[w \in Requests |-> Phase(w)], [w \in Requests |-> request[w].amount], UsableCapacity(account)>>
<1>0. PICK i \in Requests : i = tx[p].w
  BY CommitRuns
<1> DEFINE t == tx[p]
           amt == request[i].amount
           phase == [w \in Requests |-> Phase(w)]
           amount == [w \in Requests |-> request[w].amount]
<1>1. request[i] \in RequestRow /\ t.row \in RequestRow /\ t.row.amount \in Nat /\ amt \in Nat
      /\ account \in Account
  BY <1>0, CommitRuns, RowTypes, AmountTypes DEF IInv
<1>2. \A w \in Requests \ {i} : Phase(w)' = Phase(w) /\ request'[w].amount = request[w].amount
  <2> SUFFICES ASSUME NEW w \in Requests \ {i} PROVE Phase(w)' = Phase(w) /\ request'[w].amount = request[w].amount
    OBVIOUS
  <2>1. request'[w] = request[w] /\ hold'[w] = hold[w] /\ debits'[w] = debits[w]
    BY <1>0, CommitFrame
  <2> QED BY <2>1 DEF Phase
<1>3. UsableCapacity(account)' = UsableCapacity(account')
  BY DEF UsableCapacity
<1>4. CASE t.call = "create"
  <2>1. Phase(i) = "free" /\ Phase(i)' = "held" /\ request'[i] = t.row /\ t.row.amount \in Amounts
    <3>1. /\ request[i].status = "none" /\ request'[i] = t.row /\ hold'[i] = "RESERVED" /\ debits'[i] = 0
      BY <1>0, <1>4, CommitCreates
    <3>2. t.row.amount \in Amounts
      BY <1>0, <1>4, CommitRuns DEF Known, RequestKnown, CommitsCreate
    <3>3. t.row.status \in {"PENDING", "WAITING_ASSIGNMENT"}
      BY <1>0, <1>4, CommitCreates
    <3> QED BY <1>0, <3>1, <3>2, <3>3, PhaseOfStatus DEF Phase
  <2>2. UsableCapacity(account)' = UsableCapacity(account) - t.row.amount /\ t.row.amount <= UsableCapacity(account)
    <3>1. t.row.amount \in Int /\ account \in Account
      BY <1>1
    <3>2. CanReserve(account, t.row.amount) /\ account' = Reserve(account, t.row.amount)
      BY <1>0, <1>4, CommitAccount
    <3> QED BY <1>3, <3>1, <3>2, LedgerFacts
  <2>3. phase' = [phase EXCEPT ![i] = "held"] /\ amount' = [amount EXCEPT ![i] = t.row.amount]
    BY <1>0, <1>1, <1>2, <2>1
  <2>4. H!Hold(i)
    BY <1>0, <1>1, <2>1, <2>2, <2>3 DEF H!Hold
  <2> QED BY <1>0, <1>1, <2>4 DEF H!Next
<1>5. CASE t.call # "create"
  <2>1. request'[i].amount = request[i].amount
    <3>1. \E s : request'[i] = [request[i] EXCEPT !.status = s]
      BY <1>0, <1>5, CommitMoves
    <3> QED BY <1>0, <1>1, <3>1 DEF RequestRow
  <2>2. amount' = amount
    BY <1>2, <2>1
  <2>3. CASE t.call = "approve"
    <3>1. Phase(i) = "held" /\ Phase(i)' = "paid"
      <4>1. request[i].status = "PENDING" /\ hold'[i] = "CONSUMED" /\ debits'[i] = 1
        BY <1>0, <2>3, CommitApproves, ZenonT(30)
      <4> QED BY <4>1, PhaseOfStatus DEF Phase
    <3>2. UsableCapacity(account)' = UsableCapacity(account)
      BY <1>0, <1>1, <1>3, <2>3, CommitAccount, PaidFacts
    <3>3. phase' = [phase EXCEPT ![i] = "paid"]
      BY <1>0, <1>1, <1>2, <3>1
    <3>4. H!Pay(i)
      BY <1>0, <1>1, <2>2, <3>1, <3>2, <3>3 DEF H!Pay
    <3> QED BY <1>0, <1>1, <3>4 DEF H!Next
  <2>4. CASE t.call # "approve" /\ hold[i] = "RESERVED"
    <3>1. request[i].status = "PENDING"
      BY <1>0, <1>1, <1>5, <2>4, CommitKinds, PhaseOfStatus
    <3>2. Phase(i) = "held" /\ Phase(i)' = "returned"
      BY <1>0, <1>1, <1>5, <2>4, <3>1, CommitKinds, PhaseOfStatus DEF Phase
    <3>3. UsableCapacity(account)' = UsableCapacity(account) + amt
      BY <1>0, <1>1, <1>3, <1>5, <2>4, CommitAccount, LedgerFacts
    <3>4. phase' = [phase EXCEPT ![i] = "returned"]
      BY <1>0, <1>1, <1>2, <3>2
    <3>5. H!Return(i)
      BY <1>0, <1>1, <2>2, <3>2, <3>3, <3>4 DEF H!Return
    <3> QED BY <1>0, <1>1, <3>5 DEF H!Next
  <2>5. CASE t.call # "approve" /\ hold[i] # "RESERVED"
    <3>1. Phase(i) = "returned" /\ Phase(i)' = "returned"
      BY <1>0, <1>1, <1>5, <2>5, CommitKinds, PhaseOfStatus DEF Phase
    <3>2. UsableCapacity(account)' = UsableCapacity(account)
      BY <1>0, <1>1, <1>3, <1>5, <2>5, CommitAccount
    <3>3. phase' = phase
      BY <1>2, <3>1
    <3> QED BY <2>2, <3>2, <3>3
  <2> QED BY <2>3, <2>4, <2>5
<1> QED BY <1>4, <1>5

\* createForUser, approve, reject and cancelWithdrawal, with their locks,
\* transactions and crashes, implement the abstract holds: the reservation,
\* the ledger entry and the account row change together and as one.
THEOREM HoldsImplemented == Spec => ImplementsHolds
<1> DEFINE mapped == <<[w \in Requests |-> Phase(w)], [w \in Requests |-> request[w].amount], UsableCapacity(account)>>
<1>1. Init => H!Init
  BY BalanceAssumption, MinBalanceAssumption DEF Init, H!Init, Phase, NoRequest, UsableCapacity
<1>2. IInv /\ [Next]_vars => [H!Next]_mapped
  <2> SUFFICES ASSUME IInv, [Next]_vars PROVE [H!Next]_mapped
    OBVIOUS
  <2>1. CASE \E p \in Procs : Commit(p)
    BY <2>1, CommitImplements
  <2>2. CASE \A p \in Procs : ~Commit(p)
    <3>1. UNCHANGED <<request, hold, limitHold, account, usage, debits>>
      BY <2>2, OnlyCommitWrites
    <3> QED BY <3>1 DEF Phase, UsableCapacity
  <2> QED BY <2>1, <2>2
<1> QED BY <1>1, <1>2, Invariant, PTL DEF Spec, ImplementsHolds, H!Spec
=============================================================================
