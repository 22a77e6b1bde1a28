---------------------------- MODULE Withdrawals ----------------------------
(***************************************************************************)
(* WithdrawalsService over AccountsService and LimitsService: one user's   *)
(* IRR account, the user's withdrawal requests, and concurrent API calls   *)
(* that create, approve, reject and cancel them.                           *)
(*                                                                         *)
(* Every call runs in one database transaction (runInTx) at PostgreSQL's   *)
(* READ COMMITTED.  A call is a sequence of steps; a step takes at most    *)
(* one row lock (FOR UPDATE) or reads committed rows without a lock.  The  *)
(* row versions a transaction has written stay in tx[p] until Commit       *)
(* publishes them and frees its locks; Abort drops them.  Versions are     *)
(* absolute values computed from what the transaction read, as in the      *)
(* code, so a missing lock shows as a lost update.                         *)
(***************************************************************************)
EXTENDS Ledger, Limits, FiniteSets, Functions

CONSTANTS
  Procs,           \* concurrent API calls
  Requests,        \* ids of WithdrawRequest rows
  Keys, NoKey,     \* idempotency keys of the user; NoKey when none is sent
  Amounts,         \* amounts a caller may ask for
  InitialBalance,  \* the account's balance before the first withdrawal
  Policy,          \* Periods -> the policy that applies
  Days             \* the days the model runs through, 1..Days

ASSUME RequestsAssumption == IsFiniteSet(Requests)   \* the rows of a table
ASSUME AmountsAssumption == Amounts \subseteq Nat \ {0}
ASSUME BalanceAssumption == InitialBalance \in Int /\ InitialBalance >= MinBalance
ASSUME KeysAssumption == NoKey \notin Keys
ASSUME DaysAssumption == Days \in Nat \ {0}

Periods == {"DAILY", "MONTHLY"}

ASSUME PolicyAssumption == Policy \in [Periods -> [value : Nat \union {NoLimit}, kycRequired : BOOLEAN]]
ASSUME NoLimitAssumption == NoLimit \notin Nat

\* LimitUsage rows of WITHDRAW_IRR; the model's days share one month.
UsageRows == {<<"DAILY", d>> : d \in 1..Days} \union {<<"MONTHLY", 1>>}

\* What can be locked: FOR UPDATE on a row, or the unique-index entry of an
\* idempotency key, on which a second insert waits.
AccountLock == <<"account", "IRR">>
RequestLock(w) == <<"request", w>>
UsageLock(u) == <<"usage", u>>
KeyLock(k) == <<"key", k>>
Locks == {AccountLock} \union {RequestLock(w) : w \in Requests}
           \union {UsageLock(u) : u \in UsageRows} \union {KeyLock(k) : k \in Keys}

Purposes == {"DIRECT", "P2P"}
RequestStatus == {"none", "PENDING", "WAITING_ASSIGNMENT", "APPROVED", "REJECTED", "CANCELLED"}
Calls == {"create", "approve", "reject", "cancel"}
InTransaction == {"insert", "limitDaily", "limitMonthly", "reserve", "lockRequest", "readHold",
                  "lockAccount", "readLimits", "lockUsage", "commit"}
AfterCommit == {"findVoucher", "enqueue"}   \* after the commit of approve

VARIABLES
  request,    \* WithdrawRequest: status, amount, idempotency key
  hold,       \* AccountReservation of (WITHDRAW, w): its status
  limitHold,  \* LimitReservation of (WITHDRAW, w, usage row): its status
  account,    \* the Account row
  usage,      \* the LimitUsage rows
  debits,     \* AccountTx rows (WITHDRAW, w, account, DEBIT): how many
  voucher,    \* cash-out rows in TahesabOutbox with correlationId w: how many
  today,      \* PeriodKeyService's day
  held,       \* row locks each transaction holds
  tx          \* each call: its step, arguments, reads and uncommitted writes

data == <<request, hold, limitHold, account, usage, debits, voucher, today>>
vars == <<request, hold, limitHold, account, usage, debits, voucher, today, held, tx>>

Idle == [pc |-> "idle"]

\* A transaction's local state: its arguments (row is the request that create
\* inserts), the reservations it has read (seenHold, and in todo the limit
\* reservations it has yet to go through), and the versions of the account
\* and usage rows it will commit.
RequestRow == [status : RequestStatus, amount : Amounts \union {0}, key : Keys \union {NoKey}]

TxRecord == [pc : InTransaction \union AfterCommit, call : Calls, w : Requests, row : RequestRow,
             seenHold : HoldStatus, todo : SUBSET UsageRows, acct : Account, use : [UsageRows -> Usage]]

TypeOK ==
  /\ request \in [Requests -> RequestRow]
  /\ hold \in [Requests -> HoldStatus]
  /\ limitHold \in [Requests -> [UsageRows -> HoldStatus]]
  /\ account \in Account
  /\ usage \in [UsageRows -> Usage]
  /\ debits \in [Requests -> Nat]
  /\ voucher \in [Requests -> Nat]
  /\ today \in 1..Days
  /\ held \in [Procs -> SUBSET Locks]
  /\ tx \in [Procs -> TxRecord \union {Idle}]

NoRequest == [status |-> "none", amount |-> 0, key |-> NoKey]

NoUsage == [u \in UsageRows |-> [used |-> 0, reserved |-> 0]]

Begun(pc, call, w, row) ==
  [pc |-> pc, call |-> call, w |-> w, row |-> row, seenHold |-> "none", todo |-> {},
   acct |-> [balance |-> 0, blocked |-> 0], use |-> NoUsage]

Init ==
  /\ request = [w \in Requests |-> NoRequest]
  /\ hold = [w \in Requests |-> "none"]
  /\ limitHold = [w \in Requests |-> [u \in UsageRows |-> "none"]]
  /\ account = [balance |-> InitialBalance, blocked |-> 0]
  /\ usage = NoUsage
  /\ debits = [w \in Requests |-> 0]
  /\ voucher = [w \in Requests |-> 0]
  /\ today = 1
  /\ held = [p \in Procs |-> {}]
  /\ tx = [p \in Procs |-> Idle]

----------------------------------------------------------------------------
(* Row locks and the life of a transaction *)

At(p, pc) == tx[p].pc = pc

\* Mutants: one kind of row is read and written without its lock.
CanLockBut(p, l, kind) == l[1] = kind \/ \A q \in Procs \ {p} : l \notin held[q]
CanLockNoRequest(p, l) == CanLockBut(p, l, "request")
CanLockNoAccount(p, l) == CanLockBut(p, l, "account")
CanLockNoUsage(p, l) == CanLockBut(p, l, "usage")
CanLockNoKey(p, l) == CanLockBut(p, l, "key")

CanLock(p, l) == \A q \in Procs \ {p} : l \notin held[q]

\* Take l and go on with the local state t.
LockAndGo(p, l, t) ==
  /\ CanLock(p, l)
  /\ held' = [held EXCEPT ![p] = @ \union {l}]
  /\ tx' = [tx EXCEPT ![p] = t]
  /\ UNCHANGED data

\* Go on without a lock.
Go(p, t) == tx' = [tx EXCEPT ![p] = t] /\ UNCHANGED <<data, held>>

\* Mutant: an early return that keeps its locks.
EndKeepingLocks(p) == tx' = [tx EXCEPT ![p] = Idle] /\ UNCHANGED <<data, held>>

\* A business exception, or an early return that has written nothing.
End(p) ==
  /\ tx' = [tx EXCEPT ![p] = Idle]
  /\ held' = [held EXCEPT ![p] = {}]
  /\ UNCHANGED data

\* Deadlock victim, timeout, lost connection or crash: PostgreSQL rolls back.
\* runInTx's retry of the same call is a new call with the same arguments.
Abort(p) == tx[p].pc \in InTransaction /\ End(p)

\* The process stops after the commit and before the outbox row is written.
CrashInTail(p) == tx[p].pc \in AfterCommit /\ End(p)

----------------------------------------------------------------------------
(* createForUser *)

CurrentRow(period) == IF period = "DAILY" THEN <<"DAILY", today>> ELSE <<"MONTHLY", 1>>

UsedKey(k) == k # NoKey /\ \E w \in Requests : request[w].key = k

\* The reads before the insert: the idempotency key's row, the usable capacity.
\* The inserted row is invisible to others, which the lock on its id stands for.
BeginCreate(p, w, k, amount, purpose) ==
  /\ At(p, "idle")
  /\ request[w].status = "none"
  /\ CanLock(p, RequestLock(w))
  /\ ~UsedKey(k)
  /\ UsableCapacity(account) >= amount
  /\ held' = [held EXCEPT ![p] = {RequestLock(w)}]
  /\ tx' = [tx EXCEPT ![p] = Begun("insert", "create", w,
       [status |-> IF purpose = "P2P" THEN "WAITING_ASSIGNMENT" ELSE "PENDING", amount |-> amount, key |-> k])]
  /\ UNCHANGED data

\* The insert waits for an uncommitted row with its key; if that commits, the
\* unique index (userId, idempotencyKey) refuses this one.
InsertRequest(p) ==
  /\ At(p, "insert")
  /\ LET t == [tx[p] EXCEPT !.pc = "limitDaily"]
         k == t.row.key IN
       IF k = NoKey THEN Go(p, t)
       ELSE /\ CanLock(p, KeyLock(k))
            /\ IF UsedKey(k) THEN End(p) ELSE LockAndGo(p, KeyLock(k), t)

\* limits.reserve: upsert and lock the usage row, read it again, check, reserve.
ReserveLimit(p, period, pc, next) ==
  LET u == CurrentRow(period) IN
  /\ At(p, pc)
  /\ CanLock(p, UsageLock(u))
  /\ IF WithinPolicy(usage[u], tx[p].row.amount, Policy[period])
     THEN LockAndGo(p, UsageLock(u),
            [tx[p] EXCEPT !.pc = next, !.use[u] = ReserveUsage(usage[u], tx[p].row.amount)])
     ELSE End(p)

ReserveDaily(p) == ReserveLimit(p, "DAILY", "limitDaily", "limitMonthly")
ReserveMonthly(p) == ReserveLimit(p, "MONTHLY", "limitMonthly", "reserve")

\* accounts.reserveFunds
ReserveFunds(p) ==
  /\ At(p, "reserve")
  /\ CanLock(p, AccountLock)
  /\ IF CanReserve(account, tx[p].row.amount)
     THEN LockAndGo(p, AccountLock, [tx[p] EXCEPT !.pc = "commit", !.acct = Reserve(account, tx[p].row.amount)])
     ELSE End(p)

----------------------------------------------------------------------------
(* approve, reject and cancelWithdrawal *)

BeginDecision(p, w, call) ==
  /\ At(p, "idle")
  /\ request[w].status # "none"
  /\ Go(p, Begun("lockRequest", call, w, NoRequest))

\* Mutant: cancel forgets that an approved withdrawal is final.
DecidableCancelApproved(call, status) ==
  \/ call \in {"approve", "reject"} /\ status = "PENDING"
  \/ call = "cancel" /\ status \in {"PENDING", "REJECTED", "APPROVED"}

\* The statuses a call goes on from; every other one throws or returns.
Decidable(call, status) ==
  \/ call = "approve" /\ status \in {"PENDING", "APPROVED"}
  \/ call = "reject" /\ status = "PENDING"
  \/ call = "cancel" /\ status \in {"PENDING", "REJECTED"}

\* Mutant: the row is read with a plain SELECT, as cancelDeposit does.
LockRequestReadOnly(p) ==
  LET w == tx[p].w
  IN
  /\ At(p, "lockRequest")
  /\ IF Decidable(tx[p].call, request[w].status)
     THEN Go(p, [tx[p] EXCEPT !.pc = IF tx[p].call = "approve" THEN "readHold" ELSE "readLimits"])
     ELSE End(p)

\* approve of a debited withdrawal commits nothing and reaches the outbox tail.
LockRequest(p) ==
  LET w == tx[p].w
  IN
  /\ At(p, "lockRequest")
  /\ CanLock(p, RequestLock(w))
  /\ IF tx[p].call = "approve" /\ debits[w] > 0 THEN Go(p, [tx[p] EXCEPT !.pc = "findVoucher"])
     ELSE IF ~Decidable(tx[p].call, request[w].status) THEN End(p)
     ELSE LockAndGo(p, RequestLock(w),
            [tx[p] EXCEPT !.pc = IF tx[p].call = "approve" THEN "readHold" ELSE "readLimits"])

\* The reservation is read before its account is locked.
ReadHold(p) ==
  LET s == hold[tx[p].w]
      t == [tx[p] EXCEPT !.seenHold = s]
  IN
  /\ At(p, "readHold")
  /\ IF tx[p].call = "approve"
     THEN IF s = "RELEASED" THEN End(p) ELSE Go(p, [t EXCEPT !.pc = "lockAccount"])
     ELSE Go(p, [t EXCEPT !.pc = IF s \in {"none", "RELEASED"} THEN "commit" ELSE "lockAccount"])

\* consumeFunds and then applyTransaction(-amount), or releaseFunds.  The
\* AccountTx insert fails when (WITHDRAW, w, account, DEBIT) exists.
LockAccount(p) ==
  LET w == tx[p].w
      amt == request[w].amount
      a == IF tx[p].seenHold = "RESERVED" THEN Unblock(account, amt) ELSE account
      ok == /\ tx[p].seenHold = "RESERVED" => CanUnblock(account, amt)
            /\ tx[p].call = "approve" =>
                 UsableCapacity(a) >= amt /\ CanApply(a, -amt) /\ debits[w] = 0
  IN
  /\ At(p, "lockAccount")
  /\ CanLock(p, AccountLock)
  /\ IF ~ok THEN End(p)
     ELSE LockAndGo(p, AccountLock,
            IF tx[p].call = "approve"
            THEN [tx[p] EXCEPT !.pc = "readLimits", !.acct = Apply(a, -amt)]
            ELSE [tx[p] EXCEPT !.pc = "commit", !.acct = a])

\* limits.consume and limits.release start from an unlocked findMany.
ReadLimits(p) ==
  LET from == IF tx[p].call = "approve" THEN LimitConsumable ELSE LimitReleasable
      todo == {u \in UsageRows : limitHold[tx[p].w][u] \in from}
  IN
  /\ At(p, "readLimits")
  /\ Go(p, [tx[p] EXCEPT !.pc = "lockUsage", !.todo = todo])

\* One reservation of the list, in whatever order findMany returned it.
LockUsage(p) ==
  /\ At(p, "lockUsage")
  /\ \E u \in tx[p].todo :
       LockAndGo(p, UsageLock(u),
         [tx[p] EXCEPT !.todo = @ \ {u},
            !.use[u] = IF tx[p].call = "approve" THEN ConsumeUsage(usage[u], request[tx[p].w].amount)
                                                 ELSE ReleaseUsage(usage[u], request[tx[p].w].amount)])

\* Mutant: approve queues the voucher before it commits.
LimitsDoneVoucherFirst(p) ==
  /\ At(p, "lockUsage")
  /\ tx[p].todo = {}
  /\ Go(p, [tx[p] EXCEPT !.pc = IF tx[p].call = "approve" THEN "findVoucher" ELSE "readHold"])

LimitsDone(p) ==
  /\ At(p, "lockUsage")
  /\ tx[p].todo = {}
  /\ Go(p, [tx[p] EXCEPT !.pc = IF tx[p].call = "approve" THEN "commit" ELSE "readHold"])

----------------------------------------------------------------------------
(* Commit and what follows it *)

\* The status a call gives the reservations it goes through.
HoldAfter(call) == CASE call = "create" -> "RESERVED" [] call = "approve" -> "CONSUMED" [] OTHER -> "RELEASED"

\* Mutant: cancel sets the status of a reversed deposit.
StatusAfterReversed(t) == CASE t.call = "create" -> t.row.status [] t.call = "approve" -> "APPROVED"
                            [] t.call = "reject" -> "REJECTED" [] OTHER -> "REVERSED"

\* The status it gives the request.
StatusAfter(t) == CASE t.call = "create" -> t.row.status [] t.call = "approve" -> "APPROVED"
                    [] t.call = "reject" -> "REJECTED" [] OTHER -> "CANCELLED"

Commit(p) ==
  LET t == tx[p]
      w == t.w
      wrote(u) == UsageLock(u) \in held[p]
  IN
  /\ At(p, "commit")
  /\ request' = [request EXCEPT ![w] = [(IF t.call = "create" THEN t.row ELSE @) EXCEPT !.status = StatusAfter(t)]]
  /\ hold' = [hold EXCEPT ![w] = IF t.call = "create" \/ t.seenHold = "RESERVED" THEN HoldAfter(t.call) ELSE @]
  /\ limitHold' = [limitHold EXCEPT ![w] = [u \in UsageRows |-> IF wrote(u) THEN HoldAfter(t.call) ELSE @[u]]]
  /\ account' = IF AccountLock \in held[p] THEN t.acct ELSE account
  /\ usage' = [u \in UsageRows |-> IF wrote(u) THEN t.use[u] ELSE usage[u]]
  /\ debits' = [debits EXCEPT ![w] = IF t.call = "approve" THEN @ + 1 ELSE @]
  /\ held' = [held EXCEPT ![p] = {}]
  /\ tx' = [tx EXCEPT ![p] = IF t.call = "approve" THEN Begun("findVoucher", "approve", w, NoRequest) ELSE Idle]
  /\ UNCHANGED <<voucher, today>>

\* enqueueOnce: look for the row, then create it; neither locks anything.
FindVoucher(p) ==
  /\ At(p, "findVoucher")
  /\ IF voucher[tx[p].w] > 0 THEN End(p) ELSE Go(p, [tx[p] EXCEPT !.pc = "enqueue"])

EnqueueVoucher(p) ==
  /\ At(p, "enqueue")
  /\ voucher' = [voucher EXCEPT ![tx[p].w] = @ + 1]
  /\ tx' = [tx EXCEPT ![p] = Idle]
  /\ UNCHANGED <<request, hold, limitHold, account, usage, debits, today, held>>

NewDay == today < Days /\ today' = today + 1
            /\ UNCHANGED <<request, hold, limitHold, account, usage, debits, voucher, held, tx>>

----------------------------------------------------------------------------
Call(p) ==
  \/ \E w \in Requests, k \in Keys \union {NoKey}, a \in Amounts, d \in Purposes : BeginCreate(p, w, k, a, d)
  \/ \E w \in Requests, c \in {"approve", "reject", "cancel"} : BeginDecision(p, w, c)

Step(p) ==
  \/ InsertRequest(p) \/ ReserveDaily(p) \/ ReserveMonthly(p) \/ ReserveFunds(p)
  \/ LockRequest(p) \/ ReadHold(p) \/ LockAccount(p) \/ ReadLimits(p) \/ LockUsage(p) \/ LimitsDone(p)
  \/ Commit(p) \/ FindVoucher(p) \/ EnqueueVoucher(p)

Next == NewDay \/ \E p \in Procs : Call(p) \/ Step(p) \/ Abort(p) \/ CrashInTail(p)

Spec == Init /\ [][Next]_vars

----------------------------------------------------------------------------
(* PostgreSQL's deadlock detector ends every cycle of waiters.             *)

Wanted(p) ==
  CASE At(p, "insert") -> {KeyLock(tx[p].row.key)} \intersect Locks
    [] At(p, "limitDaily") -> {UsageLock(CurrentRow("DAILY"))}
    [] At(p, "limitMonthly") -> {UsageLock(CurrentRow("MONTHLY"))}
    [] At(p, "reserve") \/ At(p, "lockAccount") -> {AccountLock}
    [] At(p, "lockRequest") -> {RequestLock(tx[p].w)}
    [] At(p, "lockUsage") -> {UsageLock(u) : u \in tx[p].todo}
    [] OTHER -> {}

\* p is one of a set of transactions that all wait for each other's locks.
Deadlocked(p) ==
  \E S \in SUBSET Procs :
    /\ p \in S
    /\ \A q \in S : Wanted(q) # {} /\ \A l \in Wanted(q) : \E r \in S \ {q} : l \in held[r]

DeadlockVictim == \E p \in Procs : Deadlocked(p) /\ Abort(p)

----------------------------------------------------------------------------
(* Properties *)

HoldFor(status) == CASE status = "none" -> "none"
                     [] status \in {"PENDING", "WAITING_ASSIGNMENT"} -> "RESERVED"
                     [] status = "APPROVED" -> "CONSUMED"
                     [] OTHER -> "RELEASED"

\* The reservations of w all have status h: one on the account, one on the
\* usage row of a month and one on that of a day.
HoldsAre(w, h) ==
  /\ hold[w] = h
  /\ \A u \in UsageRows : limitHold[w][u] \in {"none", h}
  /\ h # "none" =>
       /\ limitHold[w][<<"MONTHLY", 1>>] = h
       /\ \E d \in 1..Days : \A e \in 1..Days : limitHold[w][<<"DAILY", e>>] = IF e = d THEN h ELSE "none"

\* The withdrawal, its funds reservation, its two limit reservations and its
\* ledger entry tell one story: a waiting request holds funds and limits, an
\* approved one has consumed them and was debited exactly once, a rejected
\* or cancelled one has given them back and was never debited.
\* (createForUser, approve, reject, cancelWithdrawal over three services.)
StatusMatchesHolds ==
  \A w \in Requests :
    /\ HoldsAre(w, HoldFor(request[w].status))
    /\ debits[w] = IF request[w].status = "APPROVED" THEN 1 ELSE 0

\* blockedBalance is the sum of the RESERVED reservations, and the balance is
\* what the ledger entries leave: no update of the account row is lost.
AccountMatchesLedger ==
  /\ account.blocked = SumFunction([w \in Requests |-> IF hold[w] = "RESERVED" THEN request[w].amount ELSE 0])
  /\ account.balance = InitialBalance - SumFunction([w \in Requests |-> debits[w] * request[w].amount])

\* Each usage row counts exactly the reservations that point to it, also when
\* a request is decided on another day than it was made.
UsageMatchesReservations ==
  \A u \in UsageRows :
    LET total(s) == SumFunction([w \in Requests |-> IF limitHold[w][u] = s THEN request[w].amount ELSE 0]) IN
    usage[u] = [used |-> total("CONSUMED"), reserved |-> total("RESERVED")]

\* Concurrent creates and approvals never take a period beyond its limit.
LimitsRespected ==
  \A u \in UsageRows :
    Policy[u[1]].value # NoLimit => usage[u].used + usage[u].reserved <= Policy[u[1]].value

\* The account is never overdrawn, blocked funds and minimum balance included.
NoOverdraft == UsableCapacity(account) >= 0 /\ account.blocked >= 0

\* A withdrawal that holds funds can be paid: consumeFunds cannot find a
\* negative blocked balance, nor approve an insufficient account.
HeldIsPayable ==
  \A w \in Requests : hold[w] = "RESERVED" =>
    LET amt == request[w].amount IN
    /\ CanUnblock(account, amt)
    /\ CanApply(Unblock(account, amt), -amt)

\* One idempotency key makes at most one withdrawal, however its creates race.
OneRequestPerKey ==
  \A v, w \in Requests : request[v].key = request[w].key /\ request[v].key # NoKey => v = w

\* A cash-out voucher is only ever queued for a withdrawal that was debited.
VoucherFollowsDebit == \A w \in Requests : voucher[w] > 0 => debits[w] = 1

\* enqueueOnce: when the outbox "already contains" the voucher of a withdrawal,
\* none is added.
OneVoucherEach == \A w \in Requests : voucher[w] <= 1

\* No call undoes a decision: a decided request can only go from REJECTED to
\* CANCELLED, and its ledger entry and its amount stay.
DecisionsAreFinal ==
  [][\A w \in Requests :
       /\ request[w].status \in {"APPROVED", "CANCELLED"} => request'[w] = request[w]
       /\ request[w].status = "REJECTED" => request'[w].status \in {"REJECTED", "CANCELLED"}
       /\ debits'[w] >= debits[w]]_vars

\* Together the reservation, the ledger entry and the account row implement
\* the abstract hold.
Phase(w) == CASE hold[w] = "none" /\ debits[w] = 0 -> "free"
              [] hold[w] = "RESERVED" /\ debits[w] = 0 -> "held"
              [] hold[w] = "CONSUMED" /\ debits[w] = 1 -> "paid"
              [] hold[w] = "RELEASED" /\ debits[w] = 0 -> "returned"
              [] OTHER -> "broken"

H == INSTANCE Holds WITH
       Ids <- Requests, Initial <- InitialBalance - MinBalance,
       phase <- [w \in Requests |-> Phase(w)],
       amount <- [w \in Requests |-> request[w].amount],
       available <- UsableCapacity(account)

ImplementsHolds == H!Spec
=============================================================================
