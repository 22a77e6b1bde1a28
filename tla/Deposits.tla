------------------------------ MODULE Deposits ------------------------------
(***************************************************************************)
(* DepositsService over AccountsService: one user's IRR account, the       *)
(* user's deposit requests, and concurrent API calls that approve, reject  *)
(* and cancel them.                                                        *)
(*                                                                         *)
(* Transactions are modelled as in Withdrawals.  The calls differ in how   *)
(* they reach the deposit row: approve locks it first (FOR UPDATE), reject *)
(* reads it without a lock and then updates it WHERE status = PENDING,     *)
(* cancelDeposit reads it without a lock and updates it WHERE id.  An      *)
(* UPDATE waits for the row's lock and then sees the committed row.        *)
(***************************************************************************)
EXTENDS Ledger, FiniteSets, Functions

CONSTANTS
  Procs,      \* concurrent API calls
  Deposits,   \* ids of DepositRequest rows
  Amounts,    \* amounts a user may announce
  Opening,    \* the Account row before the first deposit
  MaxSpent    \* bound on what other services debit from the account

ASSUME DepositsAssumption == IsFiniteSet(Deposits)   \* the rows of a table
ASSUME AmountsAssumption == Amounts \subseteq Nat \ {0}
ASSUME OpeningAssumption == Opening \in Account /\ Opening.blocked >= 0 /\ UsableCapacity(Opening) >= 0
ASSUME SpentAssumption == MaxSpent \in Nat

DepositStatus == {"none", "PENDING", "WAITING_ASSIGNMENT", "APPROVED", "REJECTED", "CANCELLED", "REVERSED"}
Purposes == {"DIRECT", "P2P"}
Decisions == {"approve", "reject", "cancel"}
InTransaction == {"read", "lockDeposit", "lockAccount", "update", "commit"}
AfterCommit == {"findVoucher", "enqueue"}

AccountLock == <<"account", "IRR">>
DepositLock(d) == <<"deposit", d>>
Locks == {AccountLock} \union {DepositLock(d) : d \in Deposits}

VARIABLES
  deposit,   \* DepositRequest: status and amount
  account,   \* the Account row
  credits,   \* AccountTx rows (DEPOSIT, d, account, CREDIT): how many; the deposit's accountTxId points to it
  debits,    \* AccountTx rows (DEPOSIT, d, account, DEBIT): how many
  spent,     \* what other services have debited from the account
  voucher,   \* cash-in rows in TahesabOutbox with correlationId d: how many
  held,      \* row locks each transaction holds
  tx         \* each call: its step, arguments, reads and uncommitted account row

data == <<deposit, account, credits, debits, spent, voucher>>
vars == <<deposit, account, credits, debits, spent, voucher, held, tx>>

Idle == [pc |-> "idle"]

TxRecord == [pc : InTransaction \union AfterCommit, call : Decisions, d : Deposits, seen : DepositStatus,
             acct : Account]

TypeOK ==
  /\ deposit \in [Deposits -> [status : DepositStatus, amount : Amounts \union {0}]]
  /\ account \in Account
  /\ credits \in [Deposits -> 0..1]
  /\ debits \in [Deposits -> 0..1]
  /\ spent \in 0..MaxSpent
  /\ voucher \in [Deposits -> Nat]
  /\ held \in [Procs -> SUBSET Locks]
  /\ tx \in [Procs -> TxRecord \union {Idle}]

Init ==
  /\ deposit = [d \in Deposits |-> [status |-> "none", amount |-> 0]]
  /\ account = Opening
  /\ credits = [d \in Deposits |-> 0]
  /\ debits = [d \in Deposits |-> 0]
  /\ spent = 0
  /\ voucher = [d \in Deposits |-> 0]
  /\ held = [p \in Procs |-> {}]
  /\ tx = [p \in Procs |-> Idle]

----------------------------------------------------------------------------
(* Row locks and the life of a transaction *)

At(p, pc) == tx[p].pc = pc

\* Mutant: the account row is read and written without its lock.
CanLockNoAccount(p, l) == l = AccountLock \/ \A q \in Procs \ {p} : l \notin held[q]

CanLock(p, l) == \A q \in Procs \ {p} : l \notin held[q]

LockAndGo(p, l, t) ==
  /\ CanLock(p, l)
  /\ held' = [held EXCEPT ![p] = @ \union {l}]
  /\ tx' = [tx EXCEPT ![p] = t]
  /\ UNCHANGED data

Go(p, t) == tx' = [tx EXCEPT ![p] = t] /\ UNCHANGED <<data, held>>

\* Mutant: an early return that keeps its locks.
EndKeepingLocks(p) == tx' = [tx EXCEPT ![p] = Idle] /\ UNCHANGED <<data, held>>

\* A business exception, or an early return that has written nothing.
End(p) ==
  /\ tx' = [tx EXCEPT ![p] = Idle]
  /\ held' = [held EXCEPT ![p] = {}]
  /\ UNCHANGED data

Abort(p) == tx[p].pc \in InTransaction /\ End(p)

CrashInTail(p) == tx[p].pc \in AfterCommit /\ End(p)

----------------------------------------------------------------------------
(* createForUser: one insert, invisible until it commits *)
Create(d, amount, purpose) ==
  /\ deposit[d].status = "none"
  /\ deposit' = [deposit EXCEPT ![d] =
       [status |-> IF purpose = "P2P" THEN "WAITING_ASSIGNMENT" ELSE "PENDING", amount |-> amount]]
  /\ UNCHANGED <<account, credits, debits, spent, voucher, held, tx>>

\* A withdrawal, a trade or a remittance of the same user takes from the account.
Spend(amount) ==
  /\ spent + amount <= MaxSpent
  /\ \A p \in Procs : AccountLock \notin held[p]
  /\ CanApply(account, -amount)
  /\ account' = Apply(account, -amount)
  /\ spent' = spent + amount
  /\ UNCHANGED <<deposit, credits, debits, voucher, held, tx>>

----------------------------------------------------------------------------
(* approve, reject and cancelDeposit *)

Begin(p, d, call) ==
  /\ At(p, "idle")
  /\ deposit[d].status # "none"
  /\ Go(p, [pc |-> IF call = "approve" THEN "lockDeposit" ELSE "read", call |-> call, d |-> d,
            seen |-> "none", acct |-> Opening])

\* Mutant: approve reads the deposit with a plain SELECT, as cancelDeposit does.
LockDepositReadOnly(p) ==
  LET d == tx[p].d IN
  /\ At(p, "lockDeposit")
  /\ IF deposit[d].status = "PENDING" /\ credits[d] = 0 THEN Go(p, [tx[p] EXCEPT !.pc = "lockAccount"]) ELSE End(p)

\* approve of a deposit with an accountTxId commits nothing; its outbox tail
\* goes on only if the row it read is APPROVED.
LockDeposit(p) ==
  LET d == tx[p].d
      s == deposit[d].status
  IN
  /\ At(p, "lockDeposit")
  /\ CanLock(p, DepositLock(d))
  /\ IF credits[d] > 0 /\ s = "APPROVED" THEN Go(p, [tx[p] EXCEPT !.pc = "findVoucher"])
     ELSE IF credits[d] = 0 /\ s \in {"PENDING", "APPROVED"}
     THEN LockAndGo(p, DepositLock(d), [tx[p] EXCEPT !.pc = "lockAccount"])
     ELSE End(p)

\* The unlocked read of reject and cancelDeposit, and the branch it decides.
ReadDeposit(p) ==
  LET s == deposit[tx[p].d].status
      t == [tx[p] EXCEPT !.seen = s]
  IN
  /\ At(p, "read")
  /\ IF s = "PENDING" \/ (tx[p].call = "cancel" /\ s = "REJECTED") THEN Go(p, [t EXCEPT !.pc = "update"])
     ELSE IF tx[p].call = "cancel" /\ s = "APPROVED" THEN Go(p, [t EXCEPT !.pc = "lockAccount"])
     ELSE End(p)

\* Mutant: AccountTx without its unique index.
EntryFreeAlways(call, d) == TRUE

\* @@unique([refType, refId, accountId, entrySide]) lets the entry in.
EntryFree(call, d) == IF call = "approve" THEN credits[d] = 0 ELSE debits[d] = 0

\* Mutant: the voucher is queued before the commit.
LockAccountVoucherFirst(p) ==
  /\ At(p, "lockAccount")
  /\ LockAndGo(p, AccountLock, [tx[p] EXCEPT !.pc = IF tx[p].call = "approve" THEN "findVoucher" ELSE "update"])

\* applyTransaction(+amount) of approve, or (-amount) of cancelDeposit.
LockAccount(p) ==
  LET t == tx[p]
      delta == IF t.call = "approve" THEN deposit[t.d].amount ELSE -deposit[t.d].amount
  IN
  /\ At(p, "lockAccount")
  /\ CanLock(p, AccountLock)
  /\ IF CanApply(account, delta) /\ EntryFree(t.call, t.d)
     THEN LockAndGo(p, AccountLock,
            [t EXCEPT !.pc = IF t.call = "approve" THEN "commit" ELSE "update", !.acct = Apply(account, delta)])
     ELSE End(p)

\* Mutant: reject updates WHERE id, as cancelDeposit does.
MatchesWhereById(p) == TRUE

\* reject's updateMany takes the row only while it is PENDING.
MatchesWhere(p) == tx[p].call = "reject" => deposit[tx[p].d].status = "PENDING"

UpdateDeposit(p) ==
  LET l == DepositLock(tx[p].d) IN
  /\ At(p, "update")
  /\ CanLock(p, l)
  /\ IF MatchesWhere(p) THEN LockAndGo(p, l, [tx[p] EXCEPT !.pc = "commit"]) ELSE End(p)

StatusAfter(t) == CASE t.call = "approve" -> "APPROVED"
                    [] t.call = "reject" -> "REJECTED"
                    [] t.call = "cancel" -> IF t.seen = "APPROVED" THEN "REVERSED" ELSE "CANCELLED"

Commit(p) ==
  LET t == tx[p] IN
  /\ At(p, "commit")
  /\ deposit' = [deposit EXCEPT ![t.d].status = StatusAfter(t)]
  /\ account' = IF AccountLock \in held[p] THEN t.acct ELSE account
  /\ credits' = [credits EXCEPT ![t.d] = IF t.call = "approve" THEN @ + 1 ELSE @]
  /\ debits' = [debits EXCEPT ![t.d] = IF StatusAfter(t) = "REVERSED" THEN @ + 1 ELSE @]
  /\ held' = [held EXCEPT ![p] = {}]
  /\ tx' = [tx EXCEPT ![p] = IF t.call = "approve" THEN [t EXCEPT !.pc = "findVoucher", !.acct = Opening] ELSE Idle]
  /\ UNCHANGED <<spent, voucher>>

\* enqueueOnce after approve.  The deletion that cancelDeposit would queue
\* needs a factor code, which no cash-in row ever gets.
FindVoucher(p) ==
  /\ At(p, "findVoucher")
  /\ IF voucher[tx[p].d] > 0 THEN End(p) ELSE Go(p, [tx[p] EXCEPT !.pc = "enqueue"])

EnqueueVoucher(p) ==
  /\ At(p, "enqueue")
  /\ voucher' = [voucher EXCEPT ![tx[p].d] = @ + 1]
  /\ tx' = [tx EXCEPT ![p] = Idle]
  /\ UNCHANGED <<deposit, account, credits, debits, spent, held>>

----------------------------------------------------------------------------
Step(p) ==
  \/ LockDeposit(p) \/ ReadDeposit(p) \/ LockAccount(p) \/ UpdateDeposit(p)
  \/ Commit(p) \/ FindVoucher(p) \/ EnqueueVoucher(p)

Next ==
  \/ \E d \in Deposits, a \in Amounts, purpose \in Purposes : Create(d, a, purpose)
  \/ \E a \in Amounts : Spend(a)
  \/ \E p \in Procs : \/ \E d \in Deposits, c \in Decisions : Begin(p, d, c)
                      \/ Step(p) \/ Abort(p) \/ CrashInTail(p)

Spec == Init /\ [][Next]_vars

----------------------------------------------------------------------------
(* Properties *)

\* The status agrees with the ledger: a deposit that waits or was rejected has
\* no entry, an approved one exactly its credit, a reversed one the credit
\* and the debit that undoes it, however approve, reject and cancel race.
StatusMatchesEntries ==
  \A d \in Deposits :
    LET entries == <<credits[d], debits[d]>> IN
    CASE deposit[d].status = "APPROVED" -> entries = <<1, 0>>
      [] deposit[d].status = "REVERSED" -> entries = <<1, 1>>
      [] deposit[d].status = "CANCELLED" -> debits[d] <= credits[d]
      [] OTHER -> entries = <<0, 0>>

\* The balance is what the ledger entries leave: no update of the account row
\* is lost (applyTransaction).
AccountMatchesLedger ==
  /\ account.blocked = Opening.blocked
  /\ account.balance =
       Opening.balance - spent + SumFunction([d \in Deposits |-> (credits[d] - debits[d]) * deposit[d].amount])

\* Reversing a deposit that was spent meanwhile cannot overdraw the account.
NoOverdraft == UsableCapacity(account) >= 0

\* A cash-in voucher is only queued for a deposit that was credited.
VoucherFollowsCredit == \A d \in Deposits : voucher[d] > 0 => credits[d] = 1

\* Rejecting, cancelling or reversing a deposit is final for the money: a call
\* that was already running does not credit it afterwards (approve's lock).
RefusalsStay ==
  [][\A d \in Deposits : deposit[d].status \in {"REJECTED", "CANCELLED", "REVERSED"} => credits'[d] = credits[d]]_vars

\* cancelDeposit cancels pending deposits; the money of a credited one goes
\* back first, so a cancelled deposit is never left in the balance.
CancelledIsNotCredited == \A d \in Deposits : deposit[d].status = "CANCELLED" => credits[d] = debits[d]
=============================================================================
