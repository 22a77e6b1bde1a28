--------------------------- MODULE DepositsProofs ---------------------------
(***************************************************************************)
(* Proofs about Deposits for all processes, deposits, amounts, opening     *)
(* balances and amounts that other services spend.                         *)
(***************************************************************************)
EXTENDS DepositsInvariant, BookLemmas, TLAPS

----------------------------------------------------------------------------
(* Type correctness *)

DepositRow == [status : DepositStatus, amount : Amounts \union {0}]

LEMMA RowTypes ==
  ASSUME TypeOK, NEW d \in Deposits
  PROVE  deposit[d] \in DepositRow /\ deposit[d].amount \in Nat
<1>1. deposit[d] \in DepositRow
  BY DEF TypeOK, DepositRow
<1>2. \A a \in Amounts : a \in Nat
  BY AmountsAssumption
<1> QED BY <1>1, <1>2 DEF DepositRow

LEMMA RunningRecord ==
  ASSUME TypeOK, NEW p \in Procs, tx[p].pc # "idle"
  PROVE  tx[p] \in TxRecord
BY DEF TypeOK, Idle

LEMMA ApplyType ==
  ASSUME NEW a \in Account, NEW delta \in Int
  PROVE  Apply(a, delta) \in Account
BY DEF Account, Apply

LEMMA TypeInit == Init => TypeOK
BY OpeningAssumption, SpentAssumption DEF Init, TypeOK, DepositStatus, Idle

LEMMA GoType ==
  ASSUME TypeOK, NEW p \in Procs, NEW t \in TxRecord, Go(p, t)
  PROVE  TypeOK'
BY DEF TypeOK, Go, data

LEMMA LockAndGoType ==
  ASSUME TypeOK, NEW p \in Procs, NEW l \in Locks, NEW t \in TxRecord, LockAndGo(p, l, t)
  PROVE  TypeOK'
BY DEF TypeOK, LockAndGo, data

LEMMA EndType ==
  ASSUME TypeOK, NEW p \in Procs, End(p)
  PROVE  TypeOK'
BY DEF TypeOK, End, data

LEMMA LockTypes == AccountLock \in Locks /\ \A d \in Deposits : DepositLock(d) \in Locks
BY DEF Locks

\* A commit is left to the invariant: that an entry is the first of its kind
\* is what the unique index and the locks are for.
LEMMA TypeStepButCommit ==
  ASSUME TypeOK, [Next]_vars, \A p \in Procs : ~Commit(p)
  PROVE  TypeOK'
<1>1. CASE UNCHANGED vars
  BY <1>1 DEF TypeOK, vars
<1>2. ASSUME NEW d \in Deposits, NEW a \in Amounts, NEW purpose \in Purposes, Create(d, a, purpose) PROVE TypeOK'
  BY <1>2 DEF TypeOK, Create, DepositStatus
<1>3. ASSUME NEW a \in Amounts, Spend(a) PROVE TypeOK'
  <2>1. a \in Nat /\ -a \in Int
    BY AmountsAssumption
  <2>2. account' \in Account
    BY <1>3, <2>1, ApplyType DEF Spend, TypeOK
  <2>3. spent' \in 0..MaxSpent
    BY <1>3, <2>1, SpentAssumption DEF Spend, TypeOK
  <2> QED BY <1>3, <2>2, <2>3 DEF Spend, TypeOK
<1>4. ASSUME NEW p \in Procs, NEW d \in Deposits, NEW c \in Decisions, Begin(p, d, c) PROVE TypeOK'
  <2> DEFINE t == [pc |-> IF c = "approve" THEN "lockDeposit" ELSE "read", call |-> c, d |-> d, seen |-> "none", acct |-> Opening]
  <2>1. t \in TxRecord
    BY OpeningAssumption DEF TxRecord, InTransaction, DepositStatus
  <2> QED BY <1>4, <2>1, GoType DEF Begin
<1>5. ASSUME NEW p \in Procs, Abort(p) \/ CrashInTail(p) PROVE TypeOK'
  BY <1>5, EndType DEF Abort, CrashInTail
<1>6. ASSUME NEW p \in Procs, Step(p), ~Commit(p) PROVE TypeOK'
  <2> DEFINE t == tx[p]
  <2>0. t \in TxRecord
    BY <1>6, RunningRecord DEF Step, LockDeposit, ReadDeposit, LockAccount, UpdateDeposit, FindVoucher, EnqueueVoucher, At
  <2>1. /\ t.d \in Deposits /\ t.call \in Decisions
        /\ deposit[t.d].amount \in Int /\ -deposit[t.d].amount \in Int /\ deposit[t.d].status \in DepositStatus
    <3>1. t.d \in Deposits /\ t.call \in Decisions
      BY <2>0 DEF TxRecord
    <3>2. deposit[t.d] \in DepositRow /\ deposit[t.d].amount \in Nat
      BY <3>1, RowTypes
    <3> QED BY <3>1, <3>2 DEF DepositRow
  <2>2. \A pc \in InTransaction \union AfterCommit : [t EXCEPT !.pc = pc] \in TxRecord
    BY <2>0 DEF TxRecord
  <2>3. CASE LockDeposit(p)
    <3>1. [t EXCEPT !.pc = "findVoucher"] \in TxRecord /\ [t EXCEPT !.pc = "lockAccount"] \in TxRecord
      BY <2>2 DEF InTransaction, AfterCommit
    <3> QED BY <2>1, <2>3, <3>1, GoType, LockAndGoType, EndType, LockTypes DEF LockDeposit
  <2>4. CASE ReadDeposit(p)
    <3>1. \A s \in DepositStatus : /\ [[t EXCEPT !.seen = s] EXCEPT !.pc = "update"] \in TxRecord
                                   /\ [[t EXCEPT !.seen = s] EXCEPT !.pc = "lockAccount"] \in TxRecord
      BY <2>0 DEF TxRecord, InTransaction
    <3> QED BY <2>1, <2>4, <3>1, GoType, EndType DEF ReadDeposit
  <2>5. CASE LockAccount(p)
    <3> DEFINE delta == IF t.call = "approve" THEN deposit[t.d].amount ELSE -deposit[t.d].amount
               next == IF t.call = "approve" THEN "commit" ELSE "update"
               u == [t EXCEPT !.pc = next, !.acct = Apply(account, delta)]
    <3>1. Apply(account, delta) \in Account
      BY <2>1, ApplyType DEF TypeOK
    <3>2. next \in InTransaction
      BY DEF InTransaction
    <3>3. u \in TxRecord
      <4> HIDE DEF delta, next
      <4> QED BY <2>0, <3>1, <3>2 DEF TxRecord
    <3>4. End(p) \/ LockAndGo(p, AccountLock, u)
      BY <2>5 DEF LockAccount
    <3> QED BY <3>3, <3>4, LockAndGoType, EndType, LockTypes
  <2>6. CASE UpdateDeposit(p)
    <3>1. [t EXCEPT !.pc = "commit"] \in TxRecord
      BY <2>2 DEF InTransaction
    <3> QED BY <2>1, <2>6, <3>1, LockAndGoType, EndType, LockTypes DEF UpdateDeposit
  <2>7. CASE FindVoucher(p)
    <3>1. [t EXCEPT !.pc = "enqueue"] \in TxRecord
      BY <2>2 DEF AfterCommit
    <3> QED BY <2>7, <3>1, GoType, EndType DEF FindVoucher
  <2>8. CASE EnqueueVoucher(p)
    <3>1. voucher' \in [Deposits -> Nat]
      BY <2>1, <2>8 DEF EnqueueVoucher, TypeOK
    <3>2. tx' \in [Procs -> TxRecord \union {Idle}]
      BY <2>8 DEF EnqueueVoucher, TypeOK
    <3> QED BY <2>8, <3>1, <3>2 DEF EnqueueVoucher, TypeOK
  <2> QED BY <1>6, <2>3, <2>4, <2>5, <2>6, <2>7, <2>8 DEF Step
<1> QED BY <1>1, <1>2, <1>3, <1>4, <1>5, <1>6 DEF Next

----------------------------------------------------------------------------
(* The inductive invariant: steps that change no row *)

LEMMA LockKinds == \A d \in Deposits : DepositLock(d) # AccountLock
BY DEF DepositLock, AccountLock

\* A step of p that writes no row keeps the invariant when the locks it takes
\* are free and p knows what its next step needs.
LEMMA LocalStep ==
  ASSUME IInv, TypeOK', NEW p \in Procs, NEW t, NEW L,
         UNCHANGED data, tx' = [tx EXCEPT ![p] = t], held' = [held EXCEPT ![p] = L],
         \A q \in Procs \ {p} : L \intersect held[q] = {},
         t.pc \in {"idle", "read", "lockDeposit"} \union AfterCommit => L = {},
         t.pc # "idle" => Known(t, L)
  PROVE  IInv'
<1>1. \A q \in Procs : /\ tx'[q] = IF q = p THEN t ELSE tx[q]
                       /\ held'[q] = IF q = p THEN L ELSE held[q]
  BY DEF IInv, TypeOK
<1>2. LocksExclusive'
  BY <1>1 DEF IInv, LocksExclusive
<1>3. \A q \in Procs : tx[q].pc # "idle" => Known(tx[q], held[q])
  BY DEF IInv
<1>4. ASSUME NEW u, NEW M PROVE Known(u, M)' <=> Known(u, M)
  BY DEF data, Known, CallKnown, LocksKnown, DepositKnown, AccountKnown, Delta, EntryFree
<1>5. ASSUME NEW q \in Procs, tx'[q].pc # "idle" PROVE Known(tx[q], held[q])'
  <2>1. CASE q = p
    BY <1>1, <1>4, <1>5, <2>1
  <2>2. CASE q # p
    BY <1>1, <1>3, <1>4, <1>5, <2>2
  <2> QED BY <2>1, <2>2
<1>6. StatusMatchesEntries' /\ NoOverdraft' /\ VoucherFollowsCredit'
  BY DEF IInv, data, StatusMatchesEntries, NoOverdraft, VoucherFollowsCredit
<1> QED BY <1>2, <1>5, <1>6 DEF IInv

LEMMA EndKeeps ==
  ASSUME IInv, NEW p \in Procs, End(p)
  PROVE  IInv'
<1>1. TypeOK'
  BY EndType DEF IInv
<1> QED BY <1>1, LocalStep DEF End, Idle

LEMMA GoKeeps ==
  ASSUME IInv, TypeOK', NEW p \in Procs, NEW t, Go(p, t), Known(t, held[p]),
         t.pc \in {"idle", "read", "lockDeposit"} \union AfterCommit => held[p] = {}
  PROVE  IInv'
<1>1. held' = [held EXCEPT ![p] = held[p]]
  BY DEF Go, IInv, TypeOK
<1>2. \A q \in Procs \ {p} : held[p] \intersect held[q] = {}
  BY DEF IInv, LocksExclusive
<1> QED BY <1>1, <1>2, LocalStep DEF Go

LEMMA LockAndGoKeeps ==
  ASSUME IInv, TypeOK', NEW p \in Procs, NEW t, NEW l, CanLock(p, l), LockAndGo(p, l, t),
         Known(t, held[p] \union {l}), t.pc \notin {"idle", "read", "lockDeposit"} \union AfterCommit
  PROVE  IInv'
<1>1. \A q \in Procs \ {p} : (held[p] \union {l}) \intersect held[q] = {}
  BY DEF IInv, LocksExclusive, CanLock
<1> QED BY <1>1, LocalStep DEF LockAndGo

\* What the invariant says of a running call.
LEMMA RunningKnown ==
  ASSUME IInv, NEW p \in Procs, tx[p].pc # "idle"
  PROVE  /\ tx[p] \in TxRecord /\ Known(tx[p], held[p])
         /\ tx[p].d \in Deposits /\ tx[p].call \in Decisions /\ deposit[tx[p].d] \in DepositRow
         /\ deposit[tx[p].d].amount \in Nat
BY RunningRecord, RowTypes DEF IInv, TxRecord

LEMMA BeginKeeps ==
  ASSUME IInv, TypeOK', NEW p \in Procs, NEW d \in Deposits, NEW c \in Decisions, Begin(p, d, c)
  PROVE  IInv'
<1> DEFINE t == [pc |-> IF c = "approve" THEN "lockDeposit" ELSE "read", call |-> c, d |-> d,
                 seen |-> "none", acct |-> Opening]
<1>1. held[p] = {} /\ deposit[d].status # "none" /\ Go(p, t)
  BY DEF Begin, At, IInv, LocksExclusive
<1>2. t.pc \in {"lockDeposit", "read"} /\ t.call = c /\ t.d = d /\ (t.pc = "lockDeposit" <=> t.call = "approve")
  OBVIOUS
<1> HIDE DEF t
<1>3. Known(t, {})
  BY <1>1, <1>2 DEF Known, CallKnown, LocksKnown, DepositKnown, AccountKnown, AfterCommit
<1> QED BY <1>1, <1>3, GoKeeps

LEMMA LockDepositKeeps ==
  ASSUME IInv, TypeOK', NEW p \in Procs, LockDeposit(p)
  PROVE  IInv'
<1> DEFINE d == tx[p].d
           s == deposit[d].status
<1>1. /\ tx[p].pc = "lockDeposit" /\ tx[p] \in TxRecord /\ Known(tx[p], held[p]) /\ d \in Deposits
      /\ tx[p].call = "approve" /\ held[p] = {}
  BY RunningKnown DEF LockDeposit, At, Known, CallKnown, IInv, LocksExclusive
<1>2. CASE credits[d] > 0 /\ s = "APPROVED"
  <2> DEFINE t == [tx[p] EXCEPT !.pc = "findVoucher"]
  <2>1. t.pc = "findVoucher" /\ t.call = "approve" /\ t.d = d /\ Go(p, t)
    BY <1>1, <1>2 DEF LockDeposit, TxRecord
  <2>2. credits[d] = 1
    BY <1>1, <1>2 DEF IInv, StatusMatchesEntries
  <2> HIDE DEF t
  <2>3. Known(t, {})
    BY <1>2, <2>1, <2>2 DEF Known, CallKnown, LocksKnown, DepositKnown, AccountKnown, AfterCommit
  <2> QED BY <1>1, <2>1, <2>3, GoKeeps
<1>3. CASE ~(credits[d] > 0 /\ s = "APPROVED") /\ credits[d] = 0 /\ s \in {"PENDING", "APPROVED"}
  <2> DEFINE t == [tx[p] EXCEPT !.pc = "lockAccount"]
  <2>1. t.pc = "lockAccount" /\ t.call = "approve" /\ t.d = d
    BY <1>1 DEF TxRecord
  <2>2. CanLock(p, DepositLock(d)) /\ LockAndGo(p, DepositLock(d), t)
    BY <1>3 DEF LockDeposit
  <2>3. s = "PENDING"
    BY <1>1, <1>3 DEF IInv, StatusMatchesEntries
  <2> HIDE DEF t
  <2>4. Known(t, {DepositLock(d)})
    BY <1>1, <2>1, <2>3, LockKinds DEF Known, CallKnown, LocksKnown, DepositKnown, AccountKnown, AfterCommit, Reverses
  <2>5. Known(t, held[p] \union {DepositLock(d)})
    BY <1>1, <2>4
  <2> QED BY <2>1, <2>2, <2>5, LockAndGoKeeps DEF AfterCommit
<1>4. CASE /\ ~(credits[d] > 0 /\ s = "APPROVED")
           /\ ~(credits[d] = 0 /\ s \in {"PENDING", "APPROVED"})
  BY <1>4, EndKeeps DEF LockDeposit
<1> QED BY <1>2, <1>3, <1>4

LEMMA ReadDepositKeeps ==
  ASSUME IInv, TypeOK', NEW p \in Procs, ReadDeposit(p)
  PROVE  IInv'
<1> DEFINE d == tx[p].d
           s == deposit[d].status
           t == [tx[p] EXCEPT !.seen = s]
<1>1. /\ tx[p].pc = "read" /\ tx[p] \in TxRecord /\ Known(tx[p], held[p]) /\ d \in Deposits
      /\ tx[p].call \in {"reject", "cancel"} /\ held[p] = {}
  BY RunningKnown DEF ReadDeposit, At, Known, CallKnown, IInv, LocksExclusive, Decisions
<1>2. CASE s = "PENDING" \/ (tx[p].call = "cancel" /\ s = "REJECTED")
  <2> DEFINE u == [t EXCEPT !.pc = "update"]
  <2>1. u.pc = "update" /\ u.call = tx[p].call /\ u.d = d /\ u.seen = s
    BY <1>1 DEF TxRecord
  <2>2. Go(p, u)
    BY <1>2 DEF ReadDeposit
  <2> HIDE DEF u
  <2>3. Known(u, {})
    BY <1>1, <1>2, <2>1 DEF Known, CallKnown, LocksKnown, DepositKnown, AccountKnown, AfterCommit, Reverses
  <2> QED BY <1>1, <2>1, <2>2, <2>3, GoKeeps DEF AfterCommit
<1>3. CASE tx[p].call = "cancel" /\ s = "APPROVED"
  <2> DEFINE u == [t EXCEPT !.pc = "lockAccount"]
  <2>1. u.pc = "lockAccount" /\ u.call = tx[p].call /\ u.d = d /\ u.seen = s
    BY <1>1 DEF TxRecord
  <2>2. Go(p, u)
    BY <1>3 DEF ReadDeposit
  <2>3. credits[d] = 1
    BY <1>1, <1>3 DEF IInv, StatusMatchesEntries
  <2> HIDE DEF u
  <2>4. Known(u, {})
    BY <1>1, <1>3, <2>1, <2>3 DEF Known, CallKnown, LocksKnown, DepositKnown, AccountKnown, AfterCommit, Reverses
  <2> QED BY <1>1, <2>1, <2>2, <2>4, GoKeeps DEF AfterCommit
<1>4. CASE ~(s = "PENDING" \/ (tx[p].call = "cancel" /\ s \in {"REJECTED", "APPROVED"}))
  BY <1>4, EndKeeps DEF ReadDeposit
<1> QED BY <1>2, <1>3, <1>4

LEMMA LockAccountKeeps ==
  ASSUME IInv, TypeOK', NEW p \in Procs, LockAccount(p)
  PROVE  IInv'
<1> DEFINE d == tx[p].d
           delta == Delta(tx[p])
           next == IF tx[p].call = "approve" THEN "commit" ELSE "update"
           t == [tx[p] EXCEPT !.pc = next, !.acct = Apply(account, delta)]
           M == held[p] \union {AccountLock}
<1>1. /\ tx[p].pc = "lockAccount" /\ tx[p] \in TxRecord /\ Known(tx[p], held[p]) /\ d \in Deposits
      /\ tx[p].call = "approve" \/ Reverses(tx[p])
  BY RunningKnown DEF LockAccount, At, Known, CallKnown
<1>2. CASE ~(CanApply(account, delta) /\ EntryFree(tx[p].call, d))
  BY <1>2, EndKeeps DEF LockAccount, Delta
<1>3. CASE CanApply(account, delta) /\ EntryFree(tx[p].call, d)
  <2>1. CanLock(p, AccountLock) /\ LockAndGo(p, AccountLock, t)
    BY <1>3 DEF LockAccount, Delta
  <2>2. /\ t.pc = next /\ t.call = tx[p].call /\ t.d = d /\ t.seen = tx[p].seen /\ t.acct = Apply(account, delta)
        /\ next \in {"commit", "update"} /\ (next = "commit" <=> t.call = "approve")
    BY <1>1 DEF TxRecord
  <2>3. Delta(t) = delta
    BY <2>2 DEF Delta
  <2> HIDE DEF t, delta, next
  <2>4. CallKnown(t) /\ DepositKnown(t)
    BY <1>1, <2>2 DEF Known, CallKnown, DepositKnown, Reverses, AfterCommit
  <2>5. LocksKnown(t, M)
    BY <1>1, <2>2 DEF Known, LocksKnown, Reverses
  <2>6. AccountKnown(t, M)
    BY <1>3, <2>2, <2>3 DEF AccountKnown
  <2>7. Known(t, M)
    BY <2>4, <2>5, <2>6 DEF Known
  <2> QED BY <2>1, <2>2, <2>7, LockAndGoKeeps DEF AfterCommit
<1> QED BY <1>2, <1>3

LEMMA UpdateDepositKeeps ==
  ASSUME IInv, TypeOK', NEW p \in Procs, UpdateDeposit(p)
  PROVE  IInv'
<1> DEFINE d == tx[p].d
           l == DepositLock(d)
           t == [tx[p] EXCEPT !.pc = "commit"]
           M == held[p] \union {l}
<1>1. /\ tx[p].pc = "update" /\ tx[p] \in TxRecord /\ Known(tx[p], held[p]) /\ d \in Deposits
      /\ tx[p].call \in {"reject", "cancel"}
  BY RunningKnown DEF UpdateDeposit, At, Known, CallKnown, Decisions
<1>2. CASE ~MatchesWhere(p)
  BY <1>2, EndKeeps DEF UpdateDeposit
<1>3. CASE MatchesWhere(p)
  <2>1. CanLock(p, l) /\ LockAndGo(p, l, t)
    BY <1>3 DEF UpdateDeposit
  <2>2. t.pc = "commit" /\ t.call = tx[p].call /\ t.d = d /\ t.seen = tx[p].seen /\ t.acct = tx[p].acct
    BY <1>1 DEF TxRecord
  <2>3. l # AccountLock
    BY <1>1, LockKinds
  <2> HIDE DEF t
  <2>4. CallKnown(t)
    BY <1>1, <2>2 DEF Known, CallKnown, AfterCommit
  <2>5. DepositKnown(t)
    BY <1>1, <1>3, <2>2 DEF Known, DepositKnown, Reverses, AfterCommit, MatchesWhere
  <2>6. LocksKnown(t, M)
    BY <1>1, <2>2 DEF Known, LocksKnown, Reverses
  <2>7. AccountKnown(t, M)
    BY <1>1, <2>2, <2>3 DEF Known, AccountKnown, Delta
  <2>8. Known(t, M)
    BY <2>4, <2>5, <2>6, <2>7 DEF Known
  <2> HIDE DEF l, M
  <2> QED BY <2>1, <2>2, <2>8, LockAndGoKeeps DEF AfterCommit, M
<1> QED BY <1>2, <1>3

LEMMA FindVoucherKeeps ==
  ASSUME IInv, TypeOK', NEW p \in Procs, FindVoucher(p)
  PROVE  IInv'
<1> DEFINE t == [tx[p] EXCEPT !.pc = "enqueue"]
<1>1. tx[p].pc = "findVoucher" /\ tx[p] \in TxRecord /\ Known(tx[p], held[p]) /\ held[p] = {}
  BY RunningKnown DEF FindVoucher, At, IInv, LocksExclusive, AfterCommit
<1>2. t.pc = "enqueue" /\ t.call = tx[p].call /\ t.d = tx[p].d
  BY <1>1 DEF TxRecord
<1>3. End(p) \/ Go(p, t)
  BY DEF FindVoucher
<1> HIDE DEF t
<1>4. Known(t, {})
  BY <1>1, <1>2 DEF Known, CallKnown, LocksKnown, DepositKnown, AccountKnown, AfterCommit
<1> QED BY <1>1, <1>3, <1>4, EndKeeps, GoKeeps

----------------------------------------------------------------------------
(* The inductive invariant: steps that change rows *)

LEMMA CreateKeeps ==
  ASSUME IInv, TypeOK', NEW d \in Deposits, NEW a \in Amounts, NEW purpose \in Purposes, Create(d, a, purpose)
  PROVE  IInv'
<1>1. /\ \A e \in Deposits \ {d} : deposit'[e] = deposit[e]
      /\ deposit[d].status = "none" /\ deposit'[d].status \in {"PENDING", "WAITING_ASSIGNMENT"}
  BY DEF Create, IInv, TypeOK
<1>2. UNCHANGED <<account, credits, debits, voucher, held, tx>>
  BY DEF Create
<1>3. LocksExclusive' /\ NoOverdraft' /\ VoucherFollowsCredit'
  BY <1>2 DEF IInv, LocksExclusive, NoOverdraft, VoucherFollowsCredit
<1>4. StatusMatchesEntries'
  BY <1>1, <1>2 DEF IInv, StatusMatchesEntries
<1>5. ASSUME NEW q \in Procs, tx'[q].pc # "idle" PROVE Known(tx[q], held[q])'
  <2>1. tx[q].d \in Deposits \ {d} /\ Known(tx[q], held[q])
    BY <1>1, <1>2, <1>5, RunningKnown DEF Known, CallKnown
  <2>2. deposit'[tx[q].d] = deposit[tx[q].d]
    BY <1>1, <2>1
  <2> QED BY <1>2, <2>1, <2>2 DEF Known, CallKnown, LocksKnown, DepositKnown, AccountKnown, Delta, EntryFree
<1> QED BY <1>3, <1>4, <1>5 DEF IInv

LEMMA SpendKeeps ==
  ASSUME IInv, TypeOK', NEW a \in Amounts, Spend(a)
  PROVE  IInv'
<1>1. UNCHANGED <<deposit, credits, debits, voucher, held, tx>> /\ \A q \in Procs : AccountLock \notin held[q]
  BY DEF Spend
<1>2. LocksExclusive' /\ StatusMatchesEntries' /\ VoucherFollowsCredit'
  BY <1>1 DEF IInv, LocksExclusive, StatusMatchesEntries, VoucherFollowsCredit
<1>3. NoOverdraft'
  <2>1. account.balance \in Int /\ account.blocked \in Int /\ MinBalance \in Int /\ a \in Int
    BY MinBalanceAssumption, AmountsAssumption DEF IInv, TypeOK, Account
  <2>2. account'.balance = account.balance + (-a) /\ account'.blocked = account.blocked
    BY DEF Spend, Apply, IInv, TypeOK, Account
  <2>3. account.balance + (-a) >= account.blocked + MinBalance
    BY DEF Spend, CanApply
  <2> QED BY <2>1, <2>2, <2>3 DEF NoOverdraft, UsableCapacity
<1>4. ASSUME NEW q \in Procs, tx'[q].pc # "idle" PROVE Known(tx[q], held[q])'
  <2>1. Known(tx[q], held[q])
    BY <1>1, <1>4, RunningKnown
  <2> QED BY <1>1, <2>1 DEF Known, CallKnown, LocksKnown, DepositKnown, AccountKnown
<1> QED BY <1>2, <1>3, <1>4 DEF IInv

LEMMA EnqueueVoucherKeeps ==
  ASSUME IInv, TypeOK', NEW p \in Procs, EnqueueVoucher(p)
  PROVE  IInv'
<1>1. UNCHANGED <<deposit, account, credits, debits, held>>
  BY DEF EnqueueVoucher
<1>2. /\ tx[p].pc = "enqueue" /\ tx[p].d \in Deposits /\ Known(tx[p], held[p]) /\ held[p] = {}
      /\ credits[tx[p].d] = 1
  BY RunningKnown DEF EnqueueVoucher, At, IInv, LocksExclusive, AfterCommit, Known, DepositKnown
<1>3. \A q \in Procs : tx'[q] = IF q = p THEN Idle ELSE tx[q]
  BY DEF EnqueueVoucher, IInv, TypeOK
<1>4. LocksExclusive'
  BY <1>1, <1>2, <1>3 DEF IInv, LocksExclusive
<1>5. StatusMatchesEntries' /\ NoOverdraft'
  BY <1>1 DEF IInv, StatusMatchesEntries, NoOverdraft
<1>6. VoucherFollowsCredit'
  <2>1. \A d \in Deposits : d # tx[p].d => voucher'[d] = voucher[d]
    BY DEF EnqueueVoucher, IInv, TypeOK
  <2> QED BY <1>1, <1>2, <2>1 DEF IInv, VoucherFollowsCredit
<1>7. ASSUME NEW q \in Procs, tx'[q].pc # "idle" PROVE Known(tx[q], held[q])'
  <2>1. tx'[q] = tx[q] /\ Known(tx[q], held[q])
    BY <1>3, <1>7, RunningKnown DEF Idle
  <2> QED BY <1>1, <2>1 DEF Known, CallKnown, LocksKnown, DepositKnown, AccountKnown, Delta, EntryFree
<1> QED BY <1>4, <1>5, <1>6, <1>7 DEF IInv

\* What a commit writes, by the call that commits.
LEMMA CommitKinds ==
  ASSUME IInv, NEW p \in Procs, Commit(p), NEW d, d = tx[p].d
  PROVE  LET t == tx[p] IN
         /\ d \in Deposits /\ t.pc = "commit" /\ Known(t, held[p])
         /\ credits[d] \in 0..1 /\ debits[d] \in 0..1
         /\ \A e \in Deposits : e # d => UNCHANGED <<deposit[e], credits[e], debits[e]>>
         /\ deposit'[d].amount = deposit[d].amount
         /\ voucher' = voucher /\ spent' = spent
         /\ \/ /\ t.call = "approve" /\ held[p] = {DepositLock(d), AccountLock}
               /\ deposit[d].status = "PENDING" /\ credits[d] = 0 /\ debits[d] = 0
               /\ deposit'[d].status = "APPROVED" /\ credits'[d] = 1 /\ debits'[d] = 0
            \/ /\ t.call = "reject" /\ held[p] = {DepositLock(d)}
               /\ deposit[d].status = "PENDING" /\ credits[d] = 0 /\ debits[d] = 0
               /\ deposit'[d].status = "REJECTED" /\ credits'[d] = 0 /\ debits'[d] = 0
            \/ /\ t.call = "cancel" /\ ~Reverses(t) /\ held[p] = {DepositLock(d)} /\ debits[d] <= credits[d]
               /\ deposit'[d].status = "CANCELLED" /\ credits'[d] = credits[d] /\ debits'[d] = debits[d]
            \/ /\ Reverses(t) /\ held[p] = {DepositLock(d), AccountLock}
               /\ credits[d] = 1 /\ debits[d] = 0
               /\ deposit'[d].status = "REVERSED" /\ credits'[d] = 1 /\ debits'[d] = 1
<1> DEFINE t == tx[p]
<1>1. /\ t.pc = "commit" /\ t \in TxRecord /\ Known(t, held[p]) /\ d \in Deposits /\ t.call \in Decisions
      /\ deposit[d] \in DepositRow /\ credits[d] \in 0..1 /\ debits[d] \in 0..1
  BY RunningKnown DEF Commit, At, IInv, TypeOK
<1>2. held[p] = {DepositLock(d)} \union (IF t.call = "approve" \/ Reverses(t) THEN {AccountLock} ELSE {})
  BY <1>1 DEF Known, LocksKnown
<1>3. \A e \in Deposits : e # d => UNCHANGED <<deposit[e], credits[e], debits[e]>>
  BY DEF Commit, IInv, TypeOK
<1>4. deposit'[d] = [deposit[d] EXCEPT !.status = StatusAfter(t)] /\ voucher' = voucher /\ spent' = spent
  BY <1>1 DEF Commit, IInv, TypeOK
<1>5. deposit'[d].amount = deposit[d].amount /\ deposit'[d].status = StatusAfter(t)
  BY <1>1, <1>4 DEF DepositRow
<1>6. /\ credits'[d] = IF t.call = "approve" THEN credits[d] + 1 ELSE credits[d]
      /\ debits'[d] = IF StatusAfter(t) = "REVERSED" THEN debits[d] + 1 ELSE debits[d]
  BY <1>1 DEF Commit, IInv, TypeOK
<1>7. debits[d] <= credits[d]
  BY <1>1 DEF IInv, StatusMatchesEntries
<1>8. CASE t.call = "approve"
  <2>1. deposit[d].status = "PENDING" /\ StatusAfter(t) = "APPROVED"
    BY <1>1, <1>8 DEF Known, DepositKnown, StatusAfter
  <2>2. credits[d] = 0 /\ debits[d] = 0
    BY <1>1, <2>1 DEF IInv, StatusMatchesEntries
  <2> QED BY <1>1, <1>2, <1>3, <1>4, <1>5, <1>6, <1>8, <2>1, <2>2
<1>9. CASE t.call = "reject"
  <2>1. deposit[d].status = "PENDING" /\ StatusAfter(t) = "REJECTED" /\ ~Reverses(t)
    BY <1>1, <1>9 DEF Known, DepositKnown, StatusAfter, Reverses
  <2>2. credits[d] = 0 /\ debits[d] = 0
    BY <1>1, <2>1 DEF IInv, StatusMatchesEntries
  <2> QED BY <1>1, <1>2, <1>3, <1>4, <1>5, <1>6, <1>9, <2>1, <2>2
<1>10. CASE t.call = "cancel" /\ ~Reverses(t)
  <2>1. StatusAfter(t) = "CANCELLED"
    BY <1>10 DEF StatusAfter, Reverses
  <2> QED BY <1>1, <1>2, <1>3, <1>4, <1>5, <1>6, <1>7, <1>10, <2>1
<1>11. CASE Reverses(t)
  <2>1. StatusAfter(t) = "REVERSED" /\ t.call = "cancel" /\ credits[d] = 1
    BY <1>1, <1>11 DEF Known, DepositKnown, StatusAfter, Reverses
  <2>2. AccountLock \in held[p]
    BY <1>2, <1>11
  <2>3. debits[d] = 0
    BY <1>1, <2>1, <2>2 DEF Known, AccountKnown, EntryFree
  <2> QED BY <1>1, <1>2, <1>3, <1>4, <1>5, <1>6, <1>11, <2>1, <2>2, <2>3
<1> QED BY <1>1, <1>8, <1>9, <1>10, <1>11 DEF Decisions

LEMMA CommitType ==
  ASSUME IInv, NEW p \in Procs, Commit(p)
  PROVE  TypeOK'
<1> SUFFICES ASSUME NEW d, d = tx[p].d PROVE TypeOK'
  OBVIOUS
<1>1. d \in Deposits /\ tx[p] \in TxRecord /\ credits'[d] \in 0..1 /\ debits'[d] \in 0..1
  BY CommitKinds, RunningKnown
<1>2. credits' \in [Deposits -> 0..1] /\ debits' \in [Deposits -> 0..1]
  BY <1>1 DEF Commit, IInv, TypeOK
<1>3. StatusAfter(tx[p]) \in DepositStatus
  BY <1>1 DEF StatusAfter, DepositStatus, TxRecord, Decisions
<1>4. deposit' \in [Deposits -> DepositRow]
  BY <1>1, <1>3, RowTypes DEF Commit, IInv, TypeOK, DepositRow
<1>5. account' \in Account
  BY <1>1 DEF Commit, IInv, TypeOK, TxRecord
<1>6. tx' \in [Procs -> TxRecord \union {Idle}]
  <2>1. [tx[p] EXCEPT !.pc = "findVoucher", !.acct = Opening] \in TxRecord
    BY <1>1, OpeningAssumption DEF TxRecord, AfterCommit
  <2> QED BY <2>1 DEF Commit, IInv, TypeOK
<1>7. held' \in [Procs -> SUBSET Locks]
  BY DEF Commit, IInv, TypeOK
<1> QED BY <1>2, <1>4, <1>5, <1>6, <1>7 DEF Commit, IInv, TypeOK, DepositRow

\* The account row a commit writes is the row as it is, plus an approved and
\* minus a reversed deposit.
LEMMA CommitAccount ==
  ASSUME IInv, NEW p \in Procs, Commit(p)
  PROVE  IF tx[p].call = "approve" \/ Reverses(tx[p])
         THEN CanApply(account, Delta(tx[p])) /\ account' = Apply(account, Delta(tx[p]))
         ELSE account' = account
<1>1. Known(tx[p], held[p]) /\ tx[p].pc = "commit"
  BY CommitKinds
<1>2. AccountLock \in held[p] <=> tx[p].call = "approve" \/ Reverses(tx[p])
  BY CommitKinds, LockKinds DEF Reverses
<1> QED BY <1>1, <1>2 DEF Commit, Known, AccountKnown

\* What the other calls know survives a commit: they hold other rows, and what
\* they have read without a lock they do not rely on.
LEMMA CommitKeepsOthers ==
  ASSUME IInv, NEW p \in Procs, Commit(p), NEW q \in Procs, q # p, tx[q].pc # "idle"
  PROVE  Known(tx[q], held[q])'
<1> SUFFICES ASSUME NEW d, d = tx[p].d, NEW t, t = tx[q], NEW L, L = held[q] PROVE Known(t, L)'
  BY DEF Commit, IInv, TypeOK
<1>1. t \in TxRecord /\ Known(t, L) /\ t.d \in Deposits /\ L \intersect held[p] = {}
  BY RunningKnown DEF IInv, LocksExclusive
<1>2. DepositLock(d) \notin L
  BY <1>1, CommitKinds
<1>3. t.d # d => UNCHANGED <<deposit[t.d], credits[t.d], debits[t.d]>>
  BY <1>1, CommitKinds
<1>4. credits[t.d] = 1 => credits'[t.d] = 1
  BY <1>3, CommitKinds
<1>5. CallKnown(t)' /\ LocksKnown(t, L)'
  BY <1>1, <1>3, CommitKinds DEF Known, CallKnown, LocksKnown, Reverses
<1>6. DepositKnown(t)'
  <2>1. t.pc = "commit" \/ (t.pc = "lockAccount" /\ t.call = "approve") => DepositLock(t.d) \in L
    BY <1>1 DEF Known, LocksKnown
  <2> QED BY <1>1, <1>2, <1>3, <1>4, <2>1 DEF Known, DepositKnown, Reverses
<1>7. AccountKnown(t, L)'
  <2> SUFFICES ASSUME AccountLock \in L PROVE AccountKnown(t, L)'
    BY DEF AccountKnown
  <2>1. AccountLock \notin held[p]
    BY <1>1
  <2>2. account' = account /\ credits'[d] = credits[d] /\ debits'[d] = debits[d]
    <3>1. account' = account
      BY <2>1 DEF Commit
    <3> QED BY <2>1, <3>1, CommitKinds
  <2>3. /\ credits'[t.d] = credits[t.d] /\ debits'[t.d] = debits[t.d] /\ deposit'[t.d].amount = deposit[t.d].amount
    BY <1>3, <2>2, CommitKinds
  <2> QED BY <1>1, <2>2, <2>3 DEF Known, AccountKnown, Delta, EntryFree
<1> QED BY <1>5, <1>6, <1>7 DEF Known

LEMMA CommitKeeps ==
  ASSUME IInv, NEW p \in Procs, Commit(p)
  PROVE  IInv'
<1> SUFFICES ASSUME NEW d, d = tx[p].d PROVE IInv'
  OBVIOUS
<1> DEFINE t == [tx[p] EXCEPT !.pc = "findVoucher", !.acct = Opening]
<1>1. TypeOK'
  BY CommitType
<1>2. /\ \A q \in Procs : held'[q] = IF q = p THEN {} ELSE held[q]
      /\ \A q \in Procs \ {p} : tx'[q] = tx[q]
      /\ tx'[p] = IF tx[p].call = "approve" THEN t ELSE Idle
  BY DEF Commit, IInv, TypeOK
<1>3. t.pc = "findVoucher" /\ t.call = tx[p].call /\ t.d = d
  BY RunningKnown DEF Commit, At, TxRecord
<1>4. LocksExclusive'
  BY <1>2 DEF IInv, LocksExclusive
<1>5. StatusMatchesEntries'
  <2> SUFFICES ASSUME NEW e \in Deposits
               PROVE  LET entries == <<credits'[e], debits'[e]>> IN
                      CASE deposit'[e].status = "APPROVED" -> entries = <<1, 0>>
                        [] deposit'[e].status = "REVERSED" -> entries = <<1, 1>>
                        [] deposit'[e].status = "CANCELLED" -> debits'[e] <= credits'[e]
                        [] OTHER -> entries = <<0, 0>>
    BY DEF StatusMatchesEntries
  <2>1. CASE e # d
    <3>1. UNCHANGED <<deposit[e], credits[e], debits[e]>>
      BY <2>1, CommitKinds
    <3> QED BY <3>1 DEF IInv, StatusMatchesEntries
  <2>2. CASE e = d
    BY <2>2, CommitKinds
  <2> QED BY <2>1, <2>2
<1>6. VoucherFollowsCredit'
  <2>1. \A e \in Deposits : credits[e] = 1 => credits'[e] = 1
    BY CommitKinds
  <2>2. voucher' = voucher
    BY CommitKinds
  <2> QED BY <2>1, <2>2 DEF IInv, VoucherFollowsCredit
<1>7. NoOverdraft'
  <2>1. account.balance \in Int /\ account.blocked \in Int /\ MinBalance \in Int /\ Delta(tx[p]) \in Int
    <3>1. deposit[tx[p].d].amount \in Int
      BY RunningKnown DEF Commit, At
    <3> QED BY <3>1, MinBalanceAssumption DEF IInv, TypeOK, Account, Delta
  <2>2. CASE account' = account
    BY <2>2 DEF IInv, NoOverdraft
  <2>3. CASE CanApply(account, Delta(tx[p])) /\ account' = Apply(account, Delta(tx[p]))
    <3>1. account'.balance = account.balance + Delta(tx[p]) /\ account'.blocked = account.blocked
      BY <2>3 DEF Apply, IInv, TypeOK, Account
    <3> QED BY <2>1, <2>3, <3>1 DEF CanApply, NoOverdraft, UsableCapacity
  <2> QED BY <2>2, <2>3, CommitAccount
<1>8. ASSUME NEW q \in Procs, tx'[q].pc # "idle" PROVE Known(tx[q], held[q])'
  <2>1. CASE q # p
    BY <1>2, <1>8, <2>1, CommitKeepsOthers
  <2>2. CASE q = p
    <3>1. tx[p].call = "approve" /\ tx'[p] = t /\ held'[p] = {}
      BY <1>2, <1>8, <2>2 DEF Idle
    <3>2. deposit'[d].status # "none" /\ credits'[d] = 1
      BY <3>1, CommitKinds DEF Reverses
    <3> HIDE DEF t
    <3>3. \A u : u = t => Known(u, {})'
      BY <1>3, <3>1, <3>2 DEF Known, CallKnown, LocksKnown, DepositKnown, AccountKnown, AfterCommit
    <3> QED BY <2>2, <3>1, <3>3
  <2> QED BY <2>1, <2>2
<1> QED BY <1>1, <1>4, <1>5, <1>6, <1>7, <1>8 DEF IInv

----------------------------------------------------------------------------
(* The invariant, and what follows from it *)

LEMMA IInvInit == Init => IInv
<1> SUFFICES ASSUME Init PROVE IInv
  OBVIOUS
<1>1. TypeOK
  BY TypeInit
<1>2. LocksExclusive /\ \A p \in Procs : tx[p].pc = "idle"
  BY DEF Init, LocksExclusive, Idle
<1>3. StatusMatchesEntries /\ VoucherFollowsCredit
  BY DEF Init, StatusMatchesEntries, VoucherFollowsCredit
<1>4. NoOverdraft
  BY OpeningAssumption DEF Init, NoOverdraft
<1> QED BY <1>1, <1>2, <1>3, <1>4 DEF IInv

LEMMA IInvStep == IInv /\ [Next]_vars => IInv'
<1> SUFFICES ASSUME IInv, [Next]_vars PROVE IInv'
  OBVIOUS
<1>1. CASE \E p \in Procs : Commit(p)
  BY <1>1, CommitKeeps
<1>2. CASE \A p \in Procs : ~Commit(p)
  <2>0. TypeOK'
    BY <1>2, TypeStepButCommit DEF IInv
  <2>1. CASE UNCHANGED vars
    <3>1. TypeOK' /\ LocksExclusive' /\ StatusMatchesEntries' /\ NoOverdraft' /\ VoucherFollowsCredit'
      BY <2>0, <2>1 DEF vars, IInv, LocksExclusive, StatusMatchesEntries, NoOverdraft, VoucherFollowsCredit
    <3>2. \A q \in Procs : tx'[q].pc # "idle" => Known(tx[q], held[q])'
      BY <2>1 DEF vars, IInv, Known, CallKnown, LocksKnown, DepositKnown, AccountKnown, Delta, EntryFree
    <3> QED BY <3>1, <3>2 DEF IInv
  <2>2. ASSUME NEW d \in Deposits, NEW a \in Amounts, NEW purpose \in Purposes, Create(d, a, purpose) PROVE IInv'
    BY <2>0, <2>2, CreateKeeps
  <2>3. ASSUME NEW a \in Amounts, Spend(a) PROVE IInv'
    BY <2>0, <2>3, SpendKeeps
  <2>4. ASSUME NEW p \in Procs, NEW d \in Deposits, NEW c \in Decisions, Begin(p, d, c) PROVE IInv'
    BY <2>0, <2>4, BeginKeeps
  <2>5. ASSUME NEW p \in Procs, Step(p) PROVE IInv'
    BY <1>2, <2>0, <2>5, LockDepositKeeps, ReadDepositKeeps, LockAccountKeeps, UpdateDepositKeeps,
       FindVoucherKeeps, EnqueueVoucherKeeps DEF Step
  <2>6. ASSUME NEW p \in Procs, Abort(p) \/ CrashInTail(p) PROVE IInv'
    BY <2>6, EndKeeps DEF Abort, CrashInTail
  <2> QED BY <2>1, <2>2, <2>3, <2>4, <2>5, <2>6 DEF Next
<1> QED BY <1>1, <1>2

\* What each row lock protects, and what a call that has read its deposit
\* without a lock may still rely on, hold in every interleaving of approve,
\* reject and cancelDeposit, with aborts and crashes between any two steps.
THEOREM Invariant == Spec => []IInv
BY IInvInit, IInvStep, PTL DEF Spec

\* A deposit that waits or was rejected has no ledger entry, an approved one
\* exactly its credit, a reversed one its credit and its debit.
THEOREM StatusSafe == Spec => []StatusMatchesEntries
<1>1. IInv => StatusMatchesEntries
  BY DEF IInv
<1> QED BY <1>1, Invariant, PTL

\* A deposit can be reversed only while its amount is still there:
\* applyTransaction never overdraws the account.
THEOREM NoOverdraftSafe == Spec => []NoOverdraft
<1>1. IInv => NoOverdraft
  BY DEF IInv
<1> QED BY <1>1, Invariant, PTL

\* A cash-in voucher is queued only for a deposit whose credit committed.
THEOREM VoucherSafe == Spec => []VoucherFollowsCredit
<1>1. IInv => VoucherFollowsCredit
  BY DEF IInv
<1> QED BY <1>1, Invariant, PTL

\* All but the commits leave the entries alone.
LEMMA OnlyCommitWrites ==
  ASSUME [Next]_vars, \A p \in Procs : ~Commit(p)
  PROVE  UNCHANGED <<credits, debits>>
<1>1. CASE UNCHANGED vars
  BY <1>1 DEF vars
<1>2. ASSUME NEW d \in Deposits, NEW a \in Amounts, NEW purpose \in Purposes, Create(d, a, purpose)
      PROVE  UNCHANGED <<credits, debits>>
  BY <1>2 DEF Create
<1>3. ASSUME NEW a \in Amounts, Spend(a) PROVE UNCHANGED <<credits, debits>>
  BY <1>3 DEF Spend
<1>4. ASSUME NEW p \in Procs, NEW d \in Deposits, NEW c \in Decisions, Begin(p, d, c) PROVE UNCHANGED <<credits, debits>>
  BY <1>4 DEF Begin, Go, data
<1>5. ASSUME NEW p \in Procs, Step(p), ~Commit(p) PROVE UNCHANGED <<credits, debits>>
  BY <1>5 DEF Step, LockDeposit, ReadDeposit, LockAccount, UpdateDeposit, FindVoucher, EnqueueVoucher,
     Go, End, LockAndGo, data
<1>6. ASSUME NEW p \in Procs, Abort(p) \/ CrashInTail(p) PROVE UNCHANGED <<credits, debits>>
  BY <1>6 DEF Abort, CrashInTail, End, data
<1> QED BY <1>1, <1>2, <1>3, <1>4, <1>5, <1>6 DEF Next

\* A deposit that was refused, cancelled or reversed is never credited by an
\* approval that was already running: approve's row lock, and the WHERE clause
\* of reject's update, keep them apart.
THEOREM RefusalsAreFinal == Spec => RefusalsStay
<1> DEFINE Final == \A d \in Deposits :
              deposit[d].status \in {"REJECTED", "CANCELLED", "REVERSED"} => credits'[d] = credits[d]
<1>1. IInv /\ [Next]_vars => [Final]_vars
  <2> SUFFICES ASSUME IInv, [Next]_vars PROVE Final
    OBVIOUS
  <2>1. CASE \A p \in Procs : ~Commit(p)
    BY <2>1, OnlyCommitWrites
  <2>2. ASSUME NEW p \in Procs, Commit(p), NEW d \in Deposits,
               deposit[d].status \in {"REJECTED", "CANCELLED", "REVERSED"}
        PROVE  credits'[d] = credits[d]
    BY <2>2, CommitKinds
  <2> QED BY <2>1, <2>2
<1>2. Spec => [][Final]_vars
  BY <1>1, Invariant, PTL DEF Spec
<1> QED BY <1>2 DEF RefusalsStay

----------------------------------------------------------------------------
(* The account and the ledger *)

\* What a deposit has left on the account.
Net(d) == (credits[d] - debits[d]) * deposit[d].amount

LEMMA NetType ==
  ASSUME TypeOK, TypeOK', NEW d \in Deposits
  PROVE  Net(d) \in Int /\ Net(d)' \in Int
<1>1. deposit[d].amount \in Nat /\ credits[d] \in 0..1 /\ debits[d] \in 0..1
  BY RowTypes DEF TypeOK
<1>2. deposit'[d].amount \in Nat /\ credits'[d] \in 0..1 /\ debits'[d] \in 0..1
  <2>1. deposit'[d] \in DepositRow /\ credits'[d] \in 0..1 /\ debits'[d] \in 0..1
    BY DEF TypeOK, DepositRow
  <2>2. \A a \in Amounts : a \in Nat
    BY AmountsAssumption
  <2> QED BY <2>1, <2>2 DEF DepositRow
<1> QED BY <1>1, <1>2 DEF Net

\* A step that changes what one deposit has left on the account, and the balance
\* by as much, keeps the account in step with the ledger.
LEMMA LedgerStep ==
  ASSUME TypeOK, TypeOK', AccountMatchesLedger, NEW d \in Deposits,
         \A e \in Deposits \ {d} : Net(e)' = Net(e),
         spent' = spent, account'.blocked = account.blocked,
         account'.balance = account.balance + Net(d)' - Net(d)
  PROVE  AccountMatchesLedger'
<1> DEFINE F == [e \in Deposits |-> Net(e)]
<1>1. F \in [Deposits -> Int] /\ F' \in [Deposits -> Int]
  BY NetType
<1>2. /\ \A e \in Deposits \ {d} : F'[e] = F[e]
      /\ F[d] = Net(d) /\ F'[d] = Net(d)'
  OBVIOUS
<1>3. account.balance = Opening.balance - spent + SumFunction(F) /\ account.blocked = Opening.blocked
  BY DEF AccountMatchesLedger, Net
<1>4. Opening.balance \in Int /\ spent \in Int
  BY OpeningAssumption, SpentAssumption DEF TypeOK, Account
<1>5. Net(d) \in Int /\ Net(d)' \in Int
  BY NetType
<1>6. account'.balance = Opening.balance - spent' + SumFunction(F')
  <2> HIDE DEF F
  <2>1. SumFunction(F) \in Int /\ SumFunction(F') = SumFunction(F) + F'[d] - F[d]
    BY <1>1, <1>2, SumChange, SumInt, DepositsAssumption
  <2> QED BY <1>2, <1>3, <1>4, <1>5, <2>1
<1> QED BY <1>3, <1>6 DEF AccountMatchesLedger, Net

LEMMA LedgerInit == Init => AccountMatchesLedger
<1> SUFFICES ASSUME Init PROVE AccountMatchesLedger
  OBVIOUS
<1> DEFINE F == [d \in Deposits |-> (credits[d] - debits[d]) * deposit[d].amount]
<1>1. F \in [Deposits -> {0}]
  BY DEF Init
<1>2. account = Opening /\ spent = 0 /\ Opening.balance \in Int
  BY OpeningAssumption DEF Init, Account
<1> HIDE DEF F
<1>3. SumFunction(F) = 0
  BY <1>1, SumZero, DepositsAssumption
<1> QED BY <1>2, <1>3 DEF AccountMatchesLedger, F

LEMMA CommitKeepsLedger ==
  ASSUME IInv, IInv', AccountMatchesLedger, NEW p \in Procs, Commit(p)
  PROVE  AccountMatchesLedger'
<1> SUFFICES ASSUME NEW d, d = tx[p].d PROVE AccountMatchesLedger'
  OBVIOUS
<1> DEFINE amt == deposit[d].amount
<1>1. d \in Deposits /\ amt \in Nat /\ deposit'[d].amount = amt /\ account \in Account
      /\ credits[d] \in 0..1 /\ debits[d] \in 0..1
  BY CommitKinds, RowTypes DEF IInv, TypeOK
<1>2. \A e \in Deposits \ {d} : Net(e)' = Net(e)
  BY CommitKinds DEF Net
<1>3. spent' = spent
  BY CommitKinds
<1>4. /\ Apply(account, amt).balance = account.balance + amt /\ Apply(account, amt).blocked = account.blocked
      /\ Apply(account, -amt).balance = account.balance + (-amt) /\ Apply(account, -amt).blocked = account.blocked
      /\ account.balance \in Int
  BY <1>1 DEF Apply, Account
<1>5. account'.blocked = account.blocked /\ account'.balance = account.balance + Net(d)' - Net(d)
  <2>1. CASE tx[p].call = "approve"
    <3>1. Net(d) = 0 /\ Net(d)' = amt
      BY <1>1, <2>1, CommitKinds DEF Net, Reverses
    <3>2. account' = Apply(account, amt)
      BY <2>1, CommitAccount DEF Delta
    <3> QED BY <1>1, <1>4, <3>1, <3>2
  <2>2. CASE Reverses(tx[p])
    <3>1. Net(d) = amt /\ Net(d)' = 0
      BY <1>1, <2>2, CommitKinds DEF Net, Reverses
    <3>2. account' = Apply(account, -amt)
      BY <2>2, CommitAccount DEF Delta, Reverses
    <3> QED BY <1>1, <1>4, <3>1, <3>2
  <2>3. CASE tx[p].call # "approve" /\ ~Reverses(tx[p])
    <3>1. account' = account
      BY <2>3, CommitAccount
    <3>2. credits'[d] = credits[d] /\ debits'[d] = debits[d]
      BY <2>3, CommitKinds
    <3>3. Net(d)' = Net(d) /\ Net(d) \in Int
      BY <1>1, <3>2 DEF Net
    <3> QED BY <1>4, <3>1, <3>3
  <2> QED BY <2>1, <2>2, <2>3
<1> QED BY <1>1, <1>2, <1>3, <1>5, LedgerStep DEF IInv

LEMMA BooksStep == IInv /\ IInv' /\ AccountMatchesLedger /\ [Next]_vars => AccountMatchesLedger'
<1> SUFFICES ASSUME IInv, IInv', AccountMatchesLedger, [Next]_vars PROVE AccountMatchesLedger'
  OBVIOUS
<1>1. CASE UNCHANGED vars
  BY <1>1 DEF vars, AccountMatchesLedger
<1>2. ASSUME NEW d \in Deposits, NEW a \in Amounts, NEW purpose \in Purposes, Create(d, a, purpose)
      PROVE  AccountMatchesLedger'
  <2>1. UNCHANGED <<account, credits, debits, spent>> /\ \A e \in Deposits \ {d} : deposit'[e] = deposit[e]
    BY <1>2 DEF Create, IInv, TypeOK
  <2>2. credits[d] = 0 /\ debits[d] = 0
    BY <1>2 DEF Create, IInv, StatusMatchesEntries
  <2>3. deposit[d].amount \in Int /\ deposit'[d].amount \in Int /\ account.balance \in Int
    <3>1. deposit'[d] \in DepositRow /\ \A b \in Amounts : b \in Nat
      BY AmountsAssumption DEF IInv, TypeOK, DepositRow
    <3> QED BY <3>1, RowTypes DEF IInv, TypeOK, DepositRow, Account
  <2>4. Net(d) = 0 /\ Net(d)' = 0 /\ \A e \in Deposits \ {d} : Net(e)' = Net(e)
    BY <2>1, <2>2, <2>3 DEF Net
  <2> QED BY <2>1, <2>3, <2>4, LedgerStep DEF IInv
<1>3. ASSUME NEW a \in Amounts, Spend(a) PROVE AccountMatchesLedger'
  <2> DEFINE F == [d \in Deposits |-> (credits[d] - debits[d]) * deposit[d].amount]
  <2>1. /\ UNCHANGED <<deposit, credits, debits>> /\ spent' = spent + a
        /\ account'.balance = account.balance + (-a) /\ account'.blocked = account.blocked
    BY <1>3 DEF Spend, Apply, IInv, TypeOK, Account
  <2>2. a \in Int /\ spent \in Int /\ Opening.balance \in Int
    BY AmountsAssumption, OpeningAssumption, SpentAssumption DEF IInv, TypeOK, Account
  <2>3. F \in [Deposits -> Int]
    BY NetType DEF Net, IInv
  <2>4. F' = F
    BY <2>1
  <2>5. account.balance = Opening.balance - spent + SumFunction(F) /\ account.blocked = Opening.blocked
    BY DEF AccountMatchesLedger
  <2> HIDE DEF F
  <2>6. SumFunction(F) \in Int
    BY <2>3, SumInt, DepositsAssumption
  <2>7. account'.balance = Opening.balance - spent' + SumFunction(F') /\ account'.blocked = Opening.blocked
    BY <2>1, <2>2, <2>4, <2>5, <2>6
  <2> QED BY <2>7 DEF AccountMatchesLedger, F
<1>4. ASSUME NEW p \in Procs, NEW d \in Deposits, NEW c \in Decisions, Begin(p, d, c) PROVE AccountMatchesLedger'
  BY <1>4 DEF Begin, Go, data, AccountMatchesLedger
<1>5. ASSUME NEW p \in Procs, Step(p) PROVE AccountMatchesLedger'
  <2>1. CASE Commit(p)
    BY <2>1, CommitKeepsLedger
  <2>2. CASE ~Commit(p)
    <3>1. UNCHANGED <<account, deposit, credits, debits, spent>>
      BY <1>5, <2>2 DEF Step, LockDeposit, ReadDeposit, LockAccount, UpdateDeposit, FindVoucher, EnqueueVoucher,
         Go, End, LockAndGo, data
    <3> QED BY <3>1 DEF AccountMatchesLedger
  <2> QED BY <2>1, <2>2
<1>6. ASSUME NEW p \in Procs, Abort(p) \/ CrashInTail(p) PROVE AccountMatchesLedger'
  BY <1>6 DEF Abort, CrashInTail, End, data, AccountMatchesLedger
<1> QED BY <1>1, <1>2, <1>3, <1>4, <1>5, <1>6 DEF Next

\* The balance is always what the credits of the deposits, their reversals and
\* the debits of other services leave: applyTransaction, which writes the
\* balance it has computed from its own read, loses no other's update.
THEOREM LedgerSafe == Spec => []AccountMatchesLedger
<1>1. Init => IInv /\ AccountMatchesLedger
  BY IInvInit, LedgerInit
<1>2. IInv /\ AccountMatchesLedger /\ [Next]_vars => (IInv /\ AccountMatchesLedger)'
  BY IInvStep, BooksStep
<1> QED BY <1>1, <1>2, PTL DEF Spec
=============================================================================
