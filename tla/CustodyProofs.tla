---------------------------- MODULE CustodyProofs ----------------------------
(***************************************************************************)
(* Proofs about Custody for all processes, users, movements, keys, weights *)
(* and finenesses, and for every policy.                                   *)
(***************************************************************************)
EXTENDS CustodyInvariant, BookLemmas, TLAPS

----------------------------------------------------------------------------
(* Type correctness *)

\* toEquivGram750 gives a natural number.
LEMMA AmountTypes == \A n \in Amounts \union {0} : n \in Nat
<1>1. ASSUME NEW w \in Nat, NEW a \in Nat PROVE EquivGram750(w, a) \in Nat
  <2> DEFINE n == w * a
  <2>1. n \in Nat /\ EquivGram750(w, a) = (200 * n + 750) \div 1500
    BY DEF EquivGram750
  <2> HIDE DEF n
  <2> QED BY <2>1
<1>2. Weights \subseteq Nat /\ Ayars \subseteq Nat
  BY WeightsAssumption
<1> QED BY <1>1, <1>2 DEF Amounts

\* What a step reads of a row.
LEMMA RowTypes ==
  ASSUME NEW r \in Row
  PROVE  /\ r.status \in MovementStatus /\ r.user \in Owners /\ r.kind \in MovementTypes
         /\ r.equiv \in Nat /\ r.equiv \in Int /\ -r.equiv \in Int /\ r.key \in Keys \union {NoKey}
BY AmountTypes DEF Row

LEMMA RunningRecord ==
  ASSUME TypeOK, NEW p \in Procs, tx[p].pc # "idle"
  PROVE  /\ tx[p] \in TxRecord /\ tx[p].m \in Movements /\ tx[p].row \in Row /\ tx[p].call \in Calls
         /\ tx[p].rows \in [Owners -> Account] /\ tx[p].use \in Usage
         /\ tx[p].row.user \in Owners /\ tx[p].row.kind \in MovementTypes /\ tx[p].row.equiv \in Nat
         /\ movement[tx[p].m] \in Row
BY RowTypes DEF TypeOK, Idle, TxRecord

LEMMA UntouchedType == Untouched \in [Owners -> Account]
BY OpeningAssumption DEF Untouched, Owners, Account

LEMMA NoRowType == NoRow \in Row
BY DEF NoRow, Row, MovementStatus, Owners, MovementTypes

LEMMA BegunType ==
  ASSUME NEW pc \in InTransaction \union AfterCommit, NEW call \in Calls, NEW m \in Movements, NEW row \in Row
  PROVE  Begun(pc, call, m, row) \in TxRecord
BY UntouchedType DEF Begun, TxRecord, NoUsage, Usage

LEMMA TypeInit == Init => TypeOK
BY NoRowType, UntouchedType DEF Init, TypeOK, HoldStatus, NoUsage, Usage, Idle

LEMMA LockTypes ==
  /\ \A o \in Owners : AccountLock(o) \in Locks
  /\ \A o \in Owners, k \in MovementTypes : UsageLock(o, k) \in Locks
  /\ \A m \in Movements : MovementLock(m) \in Locks
  /\ \A o \in Owners, k \in Keys : KeyLock(o, k) \in Locks
BY DEF Locks

----------------------------------------------------------------------------
(* The inductive invariant: steps that change no row *)

LEMMA LockKinds ==
  /\ \A o, q \in Owners : AccountLock(o) = AccountLock(q) => o = q
  /\ \A o, q, k, l : UsageLock(o, k) = UsageLock(q, l) => o = q /\ k = l
  /\ \A o, q, k, l : KeyLock(o, k) = KeyLock(q, l) => o = q /\ k = l
  /\ \A m, n : MovementLock(m) = MovementLock(n) => m = n
  /\ \A o, q, k : AccountLock(o) # UsageLock(q, k) /\ AccountLock(o) # KeyLock(q, k)
  /\ \A o, m : AccountLock(o) # MovementLock(m)
  /\ \A o, k, m : UsageLock(o, k) # MovementLock(m) /\ KeyLock(o, k) # MovementLock(m)
  /\ \A o, k, q, l : UsageLock(o, k) # KeyLock(q, l)
BY DEF AccountLock, UsageLock, KeyLock, MovementLock

\* What a call knows depends on the rows alone.
LEMMA SameKnown ==
  ASSUME UNCHANGED <<movement, account, usage>>, NEW t, NEW L
  PROVE  Known(t, L)' <=> Known(t, L)
<1>1. CallKnown(t)' <=> CallKnown(t)
  BY DEF CallKnown
<1>2. RowKnown(t)' <=> RowKnown(t)
  BY DEF RowKnown
<1>3. LocksKnown(t, L)' <=> LocksKnown(t, L)
  BY DEF LocksKnown
<1>4. AccountsKnown(t)' <=> AccountsKnown(t)
  BY DEF AccountsKnown, UserRow, Freed
<1>5. UsageKnown(t)' <=> UsageKnown(t)
  BY DEF UsageKnown, UseRow
<1>6. KeyKnown(t)' <=> KeyKnown(t)
  BY DEF KeyKnown, UsedKey
<1> QED BY <1>1, <1>2, <1>3, <1>4, <1>5, <1>6 DEF Known

\* A step of p that writes no row keeps the invariant when the locks it takes
\* are free, nobody else inserts its movement, and p knows what its next step
\* needs.
LEMMA LocalStep ==
  ASSUME IInv, NEW p \in Procs, NEW t \in TxRecord \union {Idle}, NEW L \in SUBSET Locks,
         UNCHANGED data, tx' = [tx EXCEPT ![p] = t], held' = [held EXCEPT ![p] = L],
         \A q \in Procs \ {p} : L \intersect held[q] = {},
         t.pc \in {"idle", "insert", "lockMovement"} \union AfterCommit => L = {},
         t.pc # "idle" /\ t.call = "request" =>
           \A q \in Procs \ {p} : tx[q].pc # "idle" /\ tx[q].call = "request" => tx[q].m # t.m,
         t.pc # "idle" => Known(t, L)
  PROVE  IInv'
<1>1. \A q \in Procs : /\ tx'[q] = IF q = p THEN t ELSE tx[q]
                       /\ held'[q] = IF q = p THEN L ELSE held[q]
  BY DEF IInv, TypeOK
<1>2. LocksExclusive'
  BY <1>1 DEF IInv, LocksExclusive
<1>3. OneInserter'
  BY <1>1 DEF IInv, OneInserter
<1>4. TypeOK'
  BY DEF IInv, TypeOK, data
<1>5. ASSUME NEW u, NEW M PROVE Known(u, M)' <=> Known(u, M)
  BY SameKnown DEF data
<1>6. ASSUME NEW q \in Procs, tx'[q].pc # "idle" PROVE Known(tx[q], held[q])'
  <2>1. CASE q = p
    BY <1>1, <1>5, <1>6, <2>1
  <2>2. CASE q # p
    BY <1>1, <1>5, <1>6, <2>2 DEF IInv
  <2> QED BY <2>1, <2>2
<1>7. StatusMatchesHolds' /\ NoOverdraft' /\ LimitsRespected' /\ OneMovementPerKey' /\ NothingToDelete' /\ RowsOfUsers'
  BY DEF IInv, data, StatusMatchesHolds, NoOverdraft, LimitsRespected, OneMovementPerKey, NothingToDelete, RowsOfUsers
<1> QED BY <1>2, <1>3, <1>4, <1>6, <1>7 DEF IInv

LEMMA EndKeeps ==
  ASSUME IInv, NEW p \in Procs, End(p)
  PROVE  IInv'
<1>1. /\ tx' = [tx EXCEPT ![p] = Idle] /\ held' = [held EXCEPT ![p] = {}] /\ UNCHANGED data
      /\ Idle \in TxRecord \union {Idle} /\ {} \in SUBSET Locks /\ Idle.pc = "idle"
  BY DEF End, Finish, Leave, Idle
<1> HIDE DEF data
<1> QED BY <1>1, LocalStep

\* A call that goes on stays the only one that inserts its movement.
LEMMA StillOneInserter ==
  ASSUME IInv, NEW p \in Procs, tx[p].pc # "idle", NEW t, t.call = tx[p].call, t.m = tx[p].m, t.call = "request",
         NEW q \in Procs \ {p}, tx[q].pc # "idle", tx[q].call = "request"
  PROVE  tx[q].m # t.m
BY DEF IInv, OneInserter

LEMMA StepKeeps ==
  ASSUME IInv, NEW p \in Procs, NEW t \in TxRecord, tx[p].pc # "idle", Step(p, t), t.call = tx[p].call, t.m = tx[p].m,
         Known(t, held[p]), t.pc \in {"idle", "insert", "lockMovement"} \union AfterCommit => held[p] = {}
  PROVE  IInv'
<1>1. held' = [held EXCEPT ![p] = held[p]] /\ held[p] \in SUBSET Locks
  BY DEF Step, Go, IInv, TypeOK
<1>2. \A q \in Procs \ {p} : held[p] \intersect held[q] = {}
  BY DEF IInv, LocksExclusive
<1>3. tx' = [tx EXCEPT ![p] = t] /\ UNCHANGED data
  BY DEF Step, Go
<1>4. t.pc # "idle" /\ t.call = "request" =>
        \A q \in Procs \ {p} : tx[q].pc # "idle" /\ tx[q].call = "request" => tx[q].m # t.m
  BY StillOneInserter
<1> QED BY <1>1, <1>2, <1>3, <1>4, LocalStep

LEMMA LockStepKeeps ==
  ASSUME IInv, NEW p \in Procs, NEW t \in TxRecord, NEW l \in Locks, tx[p].pc # "idle", LockStep(p, l, t),
         t.call = tx[p].call, t.m = tx[p].m,
         Known(t, held[p] \union {l}), t.pc \notin {"idle", "insert", "lockMovement"} \union AfterCommit
  PROVE  IInv'
<1>1. \A q \in Procs \ {p} : (held[p] \union {l}) \intersect held[q] = {}
  BY DEF IInv, LocksExclusive, LockStep, Lock, CanLock
<1>2. held[p] \union {l} \in SUBSET Locks
  BY DEF IInv, TypeOK
<1>3. tx' = [tx EXCEPT ![p] = t] /\ held' = [held EXCEPT ![p] = held[p] \union {l}] /\ UNCHANGED data
  BY DEF LockStep, Lock
<1>4. t.pc # "idle" /\ t.call = "request" =>
        \A q \in Procs \ {p} : tx[q].pc # "idle" /\ tx[q].call = "request" => tx[q].m # t.m
  BY StillOneInserter
<1> QED BY <1>1, <1>2, <1>3, <1>4, LocalStep

\* What the invariant says of a running call.
LEMMA RunningKnown ==
  ASSUME IInv, NEW p \in Procs, tx[p].pc # "idle"
  PROVE  /\ tx[p] \in TxRecord /\ tx[p].m \in Movements /\ tx[p].row \in Row /\ tx[p].call \in Calls
         /\ tx[p].row.user \in Owners /\ tx[p].row.kind \in MovementTypes
         /\ tx[p].row.equiv \in Nat /\ tx[p].row.equiv \in Int /\ tx[p].row.key \in Keys \union {NoKey}
         /\ movement[tx[p].m] \in Row /\ movement[tx[p].m].status \in MovementStatus
         /\ CallKnown(tx[p]) /\ RowKnown(tx[p]) /\ LocksKnown(tx[p], held[p])
         /\ AccountsKnown(tx[p]) /\ UsageKnown(tx[p]) /\ KeyKnown(tx[p])
         /\ tx[p].call = "request" \/ Decides(tx[p]) =>
              /\ tx[p].row.user \in Users /\ tx[p].row.user # House
              /\ account[tx[p].row.user] \in Account /\ account[House] \in Account
              /\ <<tx[p].row.user, tx[p].row.kind>> \in UsageRows /\ usage[<<tx[p].row.user, tx[p].row.kind>>] \in Usage
<1>1. /\ tx[p] \in TxRecord /\ tx[p].m \in Movements /\ tx[p].row \in Row /\ tx[p].call \in Calls
      /\ tx[p].row.user \in Owners /\ tx[p].row.kind \in MovementTypes /\ movement[tx[p].m] \in Row
      /\ tx[p].row.equiv \in Nat
  BY RunningRecord DEF IInv
<1>2. /\ CallKnown(tx[p]) /\ RowKnown(tx[p]) /\ LocksKnown(tx[p], held[p])
      /\ AccountsKnown(tx[p]) /\ UsageKnown(tx[p]) /\ KeyKnown(tx[p])
  BY DEF IInv, Known
<1>3. tx[p].row.key \in Keys \union {NoKey} /\ movement[tx[p].m].status \in MovementStatus /\ tx[p].row.equiv \in Int
  BY <1>1, RowTypes
<1>4. ASSUME tx[p].call = "request" \/ Decides(tx[p])
      PROVE  /\ tx[p].row.user \in Users /\ tx[p].row.user # House
             /\ account[tx[p].row.user] \in Account /\ account[House] \in Account
             /\ <<tx[p].row.user, tx[p].row.kind>> \in UsageRows /\ usage[<<tx[p].row.user, tx[p].row.kind>>] \in Usage
  <2>1. tx[p].row.user \in Users
    BY <1>1, <1>2, <1>4 DEF RowKnown, IInv, RowsOfUsers
  <2>2. tx[p].row.user # House /\ <<tx[p].row.user, tx[p].row.kind>> \in UsageRows
    BY <1>1, <2>1, OwnersAssumption DEF UsageRows
  <2> QED BY <2>1, <2>2 DEF IInv, TypeOK, Owners
<1> QED BY <1>1, <1>2, <1>3, <1>4

\* A pending movement has reserved, a withdrawal gold as well as limits.
LEMMA PendingHolds ==
  ASSUME IInv, NEW m \in Movements, movement[m].status = "PENDING"
  PROVE  /\ limitHold[m] = "RESERVED" /\ movement[m].user \in Users
         /\ hold[m] = IF movement[m].kind = "WITHDRAWAL" THEN "RESERVED" ELSE "none"
BY DEF IInv, StatusMatchesHolds, RowsOfUsers

LEMMA BeginRequestKeeps ==
  ASSUME IInv, NEW p \in Procs, NEW m \in Movements, NEW u \in Users, NEW kind \in Kinds, NEW w \in Weights,
         NEW a \in Ayars, NEW k \in Keys \union {NoKey}, BeginRequest(p, m, u, kind, w, a, k)
  PROVE  IInv'
<1> DEFINE row == [status |-> "PENDING", user |-> u, kind |-> kind, weight |-> w, ayar |-> a,
                   equiv |-> EquivGram750(w, a), key |-> k]
           t == Begun("insert", "request", m, row)
<1>1. row \in Row
  BY KindsAssumption DEF Row, MovementStatus, Owners, Amounts
<1>2. t \in TxRecord
  BY <1>1, BegunType DEF InTransaction, Calls
<1>3. /\ t.pc = "insert" /\ t.call = "request" /\ t.m = m /\ t.row.status = "PENDING" /\ t.row.user = u
      /\ t.row.equiv \in Amounts
  BY DEF Begun, Amounts
<1>4. /\ held[p] = {} /\ movement[m].status = "none"
      /\ \A q \in Procs : tx[q].pc # "idle" /\ tx[q].call = "request" => tx[q].m # m
  BY DEF BeginRequest, Inserting, At, IInv, LocksExclusive
<1>5. tx' = [tx EXCEPT ![p] = t] /\ held' = [held EXCEPT ![p] = {}] /\ UNCHANGED data
  BY <1>4 DEF BeginRequest, Step, Go, IInv, TypeOK
<1> HIDE DEF row, t
<1>6. Known(t, {})
  BY <1>3, <1>4 DEF Known, CallKnown, RowKnown, LocksKnown, AccountsKnown, UsageKnown, KeyKnown,
     UserLocked, HouseLocked, UsageLocked, Decides, Deciding, AfterCommit
<1> QED BY <1>2, <1>3, <1>4, <1>5, <1>6, LocalStep

LEMMA BeginKeeps ==
  ASSUME IInv, NEW p \in Procs, NEW m \in Movements, NEW c \in {"approve", "reject", "cancel"}, Begin(p, m, c)
  PROVE  IInv'
<1> DEFINE t == Begun("lockMovement", c, m, movement[m])
<1>1. t \in TxRecord
  BY BegunType DEF IInv, TypeOK, InTransaction, Calls
<1>2. t.pc = "lockMovement" /\ t.call = c /\ t.m = m
  BY DEF Begun
<1>3. held[p] = {} /\ movement[m].status # "none"
  BY DEF Begin, At, IInv, LocksExclusive
<1>4. tx' = [tx EXCEPT ![p] = t] /\ held' = [held EXCEPT ![p] = {}] /\ UNCHANGED data
  BY <1>3 DEF Begin, Step, Go, IInv, TypeOK
<1> HIDE DEF t
<1>5. Known(t, {})
  BY <1>2, <1>3 DEF Known, CallKnown, RowKnown, LocksKnown, AccountsKnown, UsageKnown, KeyKnown,
     UserLocked, HouseLocked, UsageLocked, Requesting, Decides, Deciding
<1> QED BY <1>1, <1>2, <1>3, <1>4, <1>5, LocalStep

LEMMA InsertMovementKeeps ==
  ASSUME IInv, NEW p \in Procs, InsertMovement(p)
  PROVE  IInv'
<1> DEFINE u == tx[p].row.user
           k == tx[p].row.key
           t == [tx[p] EXCEPT !.pc = "reserveLimit"]
<1>1. tx[p].pc = "insert" /\ tx[p].call = "request" /\ tx[p] \in TxRecord /\ held[p] = {}
  BY RunningKnown DEF InsertMovement, At, CallKnown, Requesting, IInv, LocksExclusive
<1>2. t \in TxRecord /\ t.pc = "reserveLimit" /\ t.call = "request" /\ t.m = tx[p].m /\ t.row = tx[p].row
  BY <1>1 DEF TxRecord, InTransaction
<1>3. CASE UsedKey(u, k)
  BY <1>3, EndKeeps DEF InsertMovement
<1>4. CASE ~UsedKey(u, k)
  <2>1. \A L : L = First(t) => Known(t, L)
    <3>1. RowKnown(tx[p])
      BY <1>1, RunningKnown
    <3> HIDE DEF t
    <3> QED BY <1>1, <1>2, <1>4, <3>1 DEF Known, CallKnown, RowKnown, LocksKnown, AccountsKnown, UsageKnown, KeyKnown,
           UserLocked, HouseLocked, UsageLocked, Requesting, Decides, Deciding, AfterCommit
  <2>2. CASE k = NoKey
    <3>1. Step(p, t) /\ First(t) = {}
      BY <1>2, <1>4, <2>2 DEF InsertMovement, First
    <3> HIDE DEF t
    <3> QED BY <1>1, <1>2, <2>1, <3>1, StepKeeps DEF AfterCommit
  <2>3. CASE k # NoKey
    <3>1. LockStep(p, KeyLock(u, k), t) /\ First(t) = {KeyLock(u, k)}
      BY <1>2, <1>4, <2>3 DEF InsertMovement, First
    <3>2. KeyLock(u, k) \in Locks
      BY <1>1, <2>3, RunningKnown, LockTypes
    <3>3. held[p] \union {KeyLock(u, k)} = First(t)
      BY <1>1, <3>1
    <3> HIDE DEF t
    <3> QED BY <1>1, <1>2, <2>1, <3>1, <3>2, <3>3, LockStepKeeps DEF AfterCommit
  <2> QED BY <2>2, <2>3
<1> QED BY <1>3, <1>4

LEMMA ReserveLimitKeeps ==
  ASSUME IInv, NEW p \in Procs, ReserveLimit(p)
  PROVE  IInv'
<1> DEFINE x == Use(p)
<1>1. /\ tx[p].pc = "reserveLimit" /\ tx[p].pc # "idle" /\ tx[p].call = "request"
      /\ x = <<tx[p].row.user, tx[p].row.kind>> /\ Equiv(p) = tx[p].row.equiv
      /\ x[1] = tx[p].row.user /\ x[2] = tx[p].row.kind
  BY RunningKnown DEF ReserveLimit, At, CallKnown, Requesting, Use, Equiv
<1>2. CASE ~WithinPolicy(usage[x], Equiv(p), Policy)
  BY <1>2, EndKeeps DEF ReserveLimit
<1>3. CASE WithinPolicy(usage[x], Equiv(p), Policy)
  <2> DEFINE pc == IF x[2] = "WITHDRAWAL" THEN "reserve" ELSE "commit"
             use == ReserveUsage(usage[x], Equiv(p))
             t == [tx[p] EXCEPT !.use = use, !.pc = pc]
             l == UsageLock(x[1], x[2])
  <2>1. LockStep(p, l, t)
    BY <1>3 DEF ReserveLimit
  <2>2. use \in Usage /\ l \in Locks /\ l = UsageLock(tx[p].row.user, tx[p].row.kind)
    BY <1>1, RunningKnown, UsageTypes, LockTypes
  <2>3. Policy.value # NoLimit => use.used + use.reserved <= Policy.value
    <3>1. SUFFICES ASSUME Policy.value # NoLimit PROVE use.used + use.reserved <= Policy.value
      OBVIOUS
    <3>2. Policy.value \in Int
      BY <3>1, PolicyAssumption
    <3>3. Projected(usage[x], tx[p].row.equiv) <= Policy.value
      BY <1>1, <1>3, <3>1 DEF WithinPolicy
    <3> QED BY <1>1, <3>2, <3>3, RunningKnown, PolicyFacts
  <2>4. /\ t \in TxRecord /\ t.pc = pc /\ t.use = use /\ t.call = "request" /\ t.m = tx[p].m /\ t.row = tx[p].row
    BY <1>1, <2>2, RunningKnown DEF TxRecord, InTransaction
  <2>5. use = ReserveUsage(usage[<<tx[p].row.user, tx[p].row.kind>>], tx[p].row.equiv)
    BY <1>1
  <2>6. pc \in {"reserve", "commit"} /\ (pc = "reserve" <=> tx[p].row.kind = "WITHDRAWAL")
    BY <1>1
  <2>7. held[p] = First(tx[p]) /\ RowKnown(tx[p]) /\ ~UsedKey(tx[p].row.user, tx[p].row.key)
    BY <1>1, RunningKnown DEF LocksKnown, KeyKnown, UsageLocked, UserLocked, HouseLocked
  <2> HIDE DEF t, use, l, pc, x
  <2>8. UsageLocked(t) /\ ~UserLocked(t) /\ ~HouseLocked(t) /\ ~Decides(t)
    BY <2>4, <2>6 DEF UsageLocked, UserLocked, HouseLocked, Decides, Deciding
  <2>9. LocksKnown(t, held[p] \union {l})
    BY <1>1, <2>2, <2>4, <2>7, <2>8 DEF LocksKnown, First, UseLock
  <2>10. CallKnown(t) /\ RowKnown(t) /\ KeyKnown(t)
    BY <1>1, <2>4, <2>6, <2>7, <2>8 DEF CallKnown, RowKnown, KeyKnown, Requesting, Deciding, AfterCommit
  <2>11. UsageKnown(t) /\ AccountsKnown(t)
    BY <2>3, <2>4, <2>5, <2>8 DEF UsageKnown, UseRow, AccountsKnown
  <2>12. t.pc \notin {"idle", "insert", "lockMovement"} \union AfterCommit
    BY <2>4, <2>6 DEF AfterCommit
  <2>13. Known(t, held[p] \union {l})
    BY <2>9, <2>10, <2>11 DEF Known
  <2> QED BY <1>1, <2>1, <2>2, <2>4, <2>12, <2>13, LockStepKeeps
<1> QED BY <1>2, <1>3

LEMMA ReserveFundsKeeps ==
  ASSUME IInv, NEW p \in Procs, ReserveFunds(p)
  PROVE  IInv'
<1> DEFINE u == tx[p].row.user
           n == tx[p].row.equiv
<1>1. /\ tx[p].pc = "reserve" /\ tx[p].pc # "idle" /\ tx[p].call = "request" /\ tx[p].row.kind = "WITHDRAWAL" /\ Equiv(p) = n
  BY RunningKnown DEF ReserveFunds, At, CallKnown, Requesting, Equiv
<1>2. CASE ~CanReserve(account[u], n)
  BY <1>1, <1>2, EndKeeps DEF ReserveFunds
<1>3. CASE CanReserve(account[u], n)
  <2> DEFINE t == [tx[p] EXCEPT !.pc = "commit", !.rows[u] = Reserve(account[u], n)]
             l == AccountLock(u)
  <2>1. LockStep(p, l, t)
    BY <1>1, <1>3 DEF ReserveFunds
  <2>2. Reserve(account[u], n) \in Account /\ l \in Locks
    BY <1>1, RunningKnown, LedgerTypes, LockTypes
  <2>3. /\ t \in TxRecord /\ t.pc = "commit" /\ t.call = "request" /\ t.m = tx[p].m /\ t.row = tx[p].row
        /\ t.use = tx[p].use /\ t.rows[u] = Reserve(account[u], n)
    BY <1>1, <2>2, RunningKnown DEF TxRecord, InTransaction
  <2>4. /\ held[p] = First(tx[p]) \union {UseLock(tx[p])} /\ RowKnown(tx[p]) /\ UsageKnown(tx[p])
        /\ ~UsedKey(tx[p].row.user, tx[p].row.key)
    BY <1>1, RunningKnown DEF LocksKnown, KeyKnown, UsageLocked, UserLocked, HouseLocked
  <2> HIDE DEF t
  <2>5. UsageLocked(tx[p]) /\ UsageLocked(t) /\ UserLocked(t) /\ ~HouseLocked(t) /\ ~Decides(t)
    BY <1>1, <2>3 DEF UsageLocked, UserLocked, HouseLocked, Decides, Deciding
  <2>6. LocksKnown(t, held[p] \union {l})
    BY <1>1, <2>3, <2>4, <2>5 DEF LocksKnown, First, UseLock, UserLock
  <2>7. CallKnown(t) /\ RowKnown(t) /\ KeyKnown(t)
    BY <1>1, <2>3, <2>4, <2>5 DEF CallKnown, RowKnown, KeyKnown, Requesting, Deciding, AfterCommit
  <2>8. UsageKnown(t) /\ AccountsKnown(t)
    BY <1>1, <1>3, <2>3, <2>4, <2>5 DEF UsageKnown, UseRow, AccountsKnown, UserRow
  <2>9. t.pc \notin {"idle", "insert", "lockMovement"} \union AfterCommit
    BY <2>3 DEF AfterCommit
  <2>10. Known(t, held[p] \union {l})
    BY <2>6, <2>7, <2>8 DEF Known
  <2> HIDE DEF l
  <2> QED BY <1>1, <2>1, <2>2, <2>3, <2>9, <2>10, LockStepKeeps
<1> QED BY <1>2, <1>3

LEMMA LockMovementKeeps ==
  ASSUME IInv, NEW p \in Procs, LockMovement(p)
  PROVE  IInv'
<1> DEFINE m == tx[p].m
           c == tx[p].call
           st == movement[m].status
<1>1. /\ tx[p].pc = "lockMovement" /\ tx[p].pc # "idle" /\ c \in {"approve", "reject", "cancel"} /\ held[p] = {} /\ m \in Movements
  BY RunningKnown DEF LockMovement, At, CallKnown, IInv, LocksExclusive, Calls
<1>2. CASE GoesOn(c, m)
  <2> DEFINE t == [tx[p] EXCEPT !.pc = IF c = "approve" THEN "unblock" ELSE "releaseLimit", !.row = movement[m]]
  <2>1. LockStep(p, MovementLock(m), t) /\ st = "PENDING" /\ MovementLock(m) \in Locks
    BY <1>1, <1>2, LockTypes DEF LockMovement, GoesOn
  <2>2. /\ t \in TxRecord /\ t.pc = (IF c = "approve" THEN "unblock" ELSE "releaseLimit") /\ t.call = c /\ t.m = m
        /\ t.row = movement[m]
    BY <1>1, RunningKnown DEF TxRecord, InTransaction
  <2>3. /\ Decides(t) /\ ~UsageLocked(t) /\ ~UserLocked(t) /\ ~HouseLocked(t)
    BY <1>1, <2>2 DEF Decides, Deciding, UsageLocked, UserLocked, HouseLocked
  <2> HIDE DEF t
  <2>4. LocksKnown(t, held[p] \union {MovementLock(m)})
    BY <1>1, <2>2, <2>3 DEF LocksKnown, First
  <2>5. CallKnown(t) /\ RowKnown(t) /\ KeyKnown(t)
    BY <1>1, <2>1, <2>2, <2>3 DEF CallKnown, RowKnown, KeyKnown, Requesting, Deciding, AfterCommit
  <2>6. UsageKnown(t) /\ AccountsKnown(t)
    BY <2>3 DEF UsageKnown, AccountsKnown
  <2>7. t.pc \notin {"idle", "insert", "lockMovement"} \union AfterCommit
    BY <2>2 DEF AfterCommit
  <2>8. Known(t, held[p] \union {MovementLock(m)})
    BY <2>4, <2>5, <2>6 DEF Known
  <2> QED BY <1>1, <2>1, <2>2, <2>7, <2>8, LockStepKeeps
<1>3. ASSUME NEW pc \in {"findVoucher", "findDeletion"}, Step(p, [tx[p] EXCEPT !.pc = pc]),
             pc = "findVoucher" => c = "approve" /\ st = "APPROVED",
             pc = "findDeletion" => c = "cancel" /\ st = "CANCELLED"
      PROVE  IInv'
  <2> DEFINE t == [tx[p] EXCEPT !.pc = pc]
  <2>1. t \in TxRecord /\ t.pc = pc /\ t.call = c /\ t.m = m
    BY <1>1, RunningKnown DEF TxRecord, AfterCommit
  <2>2. Step(p, t)
    BY <1>3
  <2> HIDE DEF t
  <2>3. Known(t, {})
    BY <1>1, <1>3, <2>1 DEF Known, CallKnown, RowKnown, LocksKnown, AccountsKnown, UsageKnown, KeyKnown,
       UserLocked, HouseLocked, UsageLocked, Requesting, Decides, Deciding, AfterCommit
  <2> QED BY <1>1, <2>1, <2>2, <2>3, StepKeeps
<1>4. CASE ~GoesOn(c, m) /\ c = "approve" /\ st = "APPROVED"
  <2>1. Step(p, [tx[p] EXCEPT !.pc = "findVoucher"])
    BY <1>4 DEF LockMovement
  <2> QED BY <1>3, <1>4, <2>1
<1>5. CASE ~GoesOn(c, m) /\ c = "cancel" /\ st = "CANCELLED"
  <2>1. Step(p, [tx[p] EXCEPT !.pc = "findDeletion"])
    BY <1>5 DEF LockMovement
  <2> QED BY <1>3, <1>5, <2>1
<1>6. CASE ~GoesOn(c, m) /\ ~(c = "approve" /\ st = "APPROVED") /\ ~(c = "cancel" /\ st = "CANCELLED")
  BY <1>6, EndKeeps DEF LockMovement
<1> QED BY <1>2, <1>4, <1>5, <1>6

LEMMA ReleaseLimitKeeps ==
  ASSUME IInv, NEW p \in Procs, ReleaseLimit(p)
  PROVE  IInv'
<1> DEFINE x == <<tx[p].row.user, tx[p].row.kind>>
           n == tx[p].row.equiv
           pc == IF x[2] = "WITHDRAWAL" THEN "unblock" ELSE "commit"
           use == ReleaseUsage(usage[x], n)
           t == [tx[p] EXCEPT !.use = use, !.pc = pc]
           l == UsageLock(x[1], x[2])
<1>1. /\ tx[p].pc = "releaseLimit" /\ tx[p].pc # "idle" /\ tx[p].call \in {"reject", "cancel"} /\ Use(p) = x /\ Equiv(p) = n
      /\ Decides(tx[p])
  BY RunningKnown DEF ReleaseLimit, At, CallKnown, Deciding, Use, Equiv, Calls, Decides
<1>2. movement[tx[p].m].status = "PENDING" /\ tx[p].row = movement[tx[p].m] /\ limitHold[tx[p].m] = "RESERVED"
  BY <1>1, RunningKnown, PendingHolds DEF RowKnown
<1>3. LockStep(p, l, t)
  BY <1>1, <1>2 DEF ReleaseLimit, LimitReleasable
<1>4. use \in Usage /\ l \in Locks
  BY <1>1, RunningKnown, UsageTypes, LockTypes
<1>5. Policy.value # NoLimit => use.used + use.reserved <= Policy.value
  <2>1. SUFFICES ASSUME Policy.value # NoLimit PROVE use.used + use.reserved <= Policy.value
    OBVIOUS
  <2>2. Policy.value \in Int
    BY <2>1, PolicyAssumption
  <2>3. usage[x].used + usage[x].reserved <= Policy.value
    BY <1>1, <2>1, RunningKnown DEF IInv, LimitsRespected
  <2> QED BY <1>1, <2>2, <2>3, RunningKnown, PolicyFacts
<1>6. /\ t \in TxRecord /\ t.pc = pc /\ t.use = use /\ t.call = tx[p].call /\ t.m = tx[p].m /\ t.row = tx[p].row
  BY <1>4, <1>1, RunningKnown DEF TxRecord, InTransaction
<1>7. pc \in {"unblock", "commit"} /\ (pc = "unblock" <=> tx[p].row.kind = "WITHDRAWAL")
  OBVIOUS
<1>8. use = ReleaseUsage(usage[<<tx[p].row.user, tx[p].row.kind>>], tx[p].row.equiv) /\ l = UsageLock(tx[p].row.user, tx[p].row.kind)
  OBVIOUS
<1>9. held[p] = First(tx[p])
  BY <1>1, RunningKnown DEF LocksKnown, Deciding, UsageLocked, UserLocked, HouseLocked
<1> HIDE DEF t, use, l, pc, x
<1>10. /\ UsageLocked(t) /\ ~HouseLocked(t) /\ Decides(t) /\ ~UserLocked(t)
  BY <1>1, <1>6, <1>7 DEF UsageLocked, UserLocked, HouseLocked, Decides, Deciding
<1>11. LocksKnown(t, held[p] \union {l})
  BY <1>1, <1>6, <1>8, <1>9, <1>10 DEF LocksKnown, First, UseLock
<1>12. CallKnown(t) /\ RowKnown(t) /\ KeyKnown(t)
  BY <1>1, <1>2, <1>6, <1>7 DEF CallKnown, RowKnown, KeyKnown, Requesting, Deciding, AfterCommit
<1>13. UsageKnown(t) /\ AccountsKnown(t)
  BY <1>1, <1>5, <1>6, <1>8, <1>10 DEF UsageKnown, UseRow, AccountsKnown
<1>14. t.pc \notin {"idle", "insert", "lockMovement"} \union AfterCommit
  BY <1>6, <1>7 DEF AfterCommit
<1>15. Known(t, held[p] \union {l})
  BY <1>11, <1>12, <1>13 DEF Known
<1> QED BY <1>1, <1>3, <1>4, <1>6, <1>14, <1>15, LockStepKeeps

LEMMA UnblockFundsKeeps ==
  ASSUME IInv, NEW p \in Procs, UnblockFunds(p)
  PROVE  IInv'
<1> DEFINE u == tx[p].row.user
           n == tx[p].row.equiv
           a == account[u]
           freed == Freed(tx[p])
           delta == Moved(tx[p])
           l == AccountLock(u)
           blocked == hold[tx[p].m] = "RESERVED"
<1>1. /\ tx[p].pc = "unblock" /\ tx[p].pc # "idle" /\ tx[p].call \in {"approve", "reject", "cancel"} /\ Equiv(p) = n
      /\ Decides(tx[p]) /\ (tx[p].call # "approve" => tx[p].row.kind = "WITHDRAWAL")
  BY RunningKnown DEF UnblockFunds, At, CallKnown, Deciding, Equiv, Calls, Decides
<1>2. /\ movement[tx[p].m].status = "PENDING" /\ tx[p].row = movement[tx[p].m]
      /\ (blocked <=> tx[p].row.kind = "WITHDRAWAL")
  BY <1>1, RunningKnown, PendingHolds DEF RowKnown
<1>3. /\ freed = (IF blocked THEN Unblock(a, n) ELSE a)
      /\ delta = (IF tx[p].row.kind = "DEPOSIT" THEN n ELSE -n)
  BY <1>2, RunningKnown, <1>1 DEF Freed, Moved, MovementTypes
<1>4. a \in Account /\ n \in Int /\ -n \in Int /\ freed \in Account /\ delta \in Int /\ l \in Locks
  <2>1. a \in Account /\ n \in Int /\ l \in Locks
    BY <1>1, RunningKnown, LockTypes
  <2>2. Unblock(a, n) \in Account
    BY <2>1, LedgerTypes
  <2>3. -n \in Int
    BY <2>1
  <2> QED BY <1>3, <2>1, <2>2, <2>3
<1>5. /\ First(tx[p]) = {MovementLock(tx[p].m)} /\ RowKnown(tx[p]) /\ UsageKnown(tx[p])
      /\ held[p] = First(tx[p]) \union (IF tx[p].call = "approve" THEN {} ELSE {UseLock(tx[p])})
  BY <1>1, RunningKnown DEF LocksKnown, First, Deciding, UsageLocked, UserLocked, HouseLocked
<1>6. \/ End(p)
      \/ /\ tx[p].call # "approve" /\ CanUnblock(a, n)
         /\ LockStep(p, l, [tx[p] EXCEPT !.pc = "commit", !.rows[u] = Unblock(a, n)])
      \/ /\ tx[p].call = "approve" /\ (tx[p].row.kind = "WITHDRAWAL" => CanUnblock(a, n)) /\ CanApply(freed, delta)
         /\ LockStep(p, l, [tx[p] EXCEPT !.pc = "house", !.rows[u] = Apply(freed, delta)])
  BY <1>1, <1>2, <1>3 DEF UnblockFunds
<1>7. ASSUME NEW pc \in {"commit", "house"}, NEW row \in Account,
             LockStep(p, l, [tx[p] EXCEPT !.pc = pc, !.rows[u] = row]),
             pc = "house" <=> tx[p].call = "approve",
             pc = "house" => /\ tx[p].row.kind = "WITHDRAWAL" => CanUnblock(a, n)
                             /\ CanApply(freed, delta) /\ row = Apply(freed, delta),
             pc = "commit" => CanUnblock(a, n) /\ row = Unblock(a, n)
      PROVE  IInv'
  <2> DEFINE t == [tx[p] EXCEPT !.pc = pc, !.rows[u] = row]
  <2>1. /\ t \in TxRecord /\ t.pc = pc /\ t.call = tx[p].call /\ t.m = tx[p].m /\ t.row = tx[p].row
        /\ t.use = tx[p].use /\ t.rows[u] = row
    BY <1>1, RunningKnown DEF TxRecord, InTransaction
  <2>2. LockStep(p, l, t)
    BY <1>7
  <2> HIDE DEF t
  <2>3. /\ (UsageLocked(t) <=> tx[p].call # "approve") /\ UserLocked(t) /\ ~HouseLocked(t) /\ Decides(t)
        /\ (UsageLocked(tx[p]) <=> tx[p].call # "approve")
    BY <1>1, <1>7, <2>1 DEF UsageLocked, UserLocked, HouseLocked, Decides, Deciding
  <2>4. LocksKnown(t, held[p] \union {l})
    BY <1>1, <1>5, <2>1, <2>3 DEF LocksKnown, First, UseLock, UserLock
  <2>5. CallKnown(t) /\ RowKnown(t) /\ KeyKnown(t)
    BY <1>1, <1>2, <1>7, <2>1 DEF CallKnown, RowKnown, KeyKnown, Requesting, Deciding, AfterCommit
  <2>6. UsageKnown(t)
    BY <1>1, <1>5, <2>1, <2>3 DEF UsageKnown, UseRow
  <2>7. Freed(t) = freed /\ Moved(t) = delta
    BY <2>1 DEF Freed, Moved
  <2>8. AccountsKnown(t)
    BY <1>1, <1>7, <2>1, <2>3, <2>7 DEF AccountsKnown, UserRow
  <2>9. t.pc \notin {"idle", "insert", "lockMovement"} \union AfterCommit
    BY <2>1, <1>7 DEF AfterCommit
  <2>10. Known(t, held[p] \union {l})
    BY <2>4, <2>5, <2>6, <2>8 DEF Known
  <2> HIDE DEF l
  <2> QED BY <1>1, <1>4, <2>1, <2>2, <2>9, <2>10, LockStepKeeps
<1>8. Unblock(a, n) \in Account /\ Apply(freed, delta) \in Account
  BY <1>4, LedgerTypes
<1> QED
  <2>1. CASE End(p)
    BY <2>1, EndKeeps
  <2>2. CASE tx[p].call # "approve" /\ CanUnblock(a, n) /\ LockStep(p, l, [tx[p] EXCEPT !.pc = "commit", !.rows[u] = Unblock(a, n)])
    BY <1>7, <1>8, <2>2
  <2>3. CASE /\ tx[p].call = "approve" /\ (tx[p].row.kind = "WITHDRAWAL" => CanUnblock(a, n)) /\ CanApply(freed, delta)
             /\ LockStep(p, l, [tx[p] EXCEPT !.pc = "house", !.rows[u] = Apply(freed, delta)])
    BY <1>7, <1>8, <2>3
  <2> QED BY <1>6, <2>1, <2>2, <2>3

LEMMA HouseLegKeeps ==
  ASSUME IInv, NEW p \in Procs, HouseLeg(p)
  PROVE  IInv'
<1> DEFINE n == tx[p].row.equiv
           a == account[House]
           delta == -Moved(tx[p])
           l == AccountLock(House)
<1>1. /\ tx[p].pc = "house" /\ tx[p].pc # "idle" /\ tx[p].call = "approve" /\ Equiv(p) = n /\ Decides(tx[p])
  BY RunningKnown DEF HouseLeg, At, CallKnown, Deciding, Equiv, Decides
<1>2. /\ n \in Int /\ a \in Account /\ l \in Locks /\ House \in Owners /\ tx[p].row.user # House
  BY <1>1, RunningKnown, LockTypes DEF Owners
<1>3. delta = (IF tx[p].row.kind = "DEPOSIT" THEN -n ELSE n) /\ delta \in Int
  BY <1>2 DEF Moved
<1>4. CASE ~CanApply(a, delta)
  BY <1>1, <1>3, <1>4, EndKeeps DEF HouseLeg
<1>5. CASE CanApply(a, delta)
  <2> DEFINE t == [tx[p] EXCEPT !.pc = "consumeLimit", !.rows[House] = Apply(a, delta)]
  <2>1. LockStep(p, l, t)
    BY <1>1, <1>3, <1>5 DEF HouseLeg
  <2>2. Apply(a, delta) \in Account
    BY <1>2, <1>3, LedgerTypes
  <2>3. /\ t \in TxRecord /\ t.pc = "consumeLimit" /\ t.call = "approve" /\ t.m = tx[p].m /\ t.row = tx[p].row
        /\ t.rows[House] = Apply(a, delta) /\ t.rows[tx[p].row.user] = tx[p].rows[tx[p].row.user]
    BY <1>1, <1>2, <2>2, RunningKnown DEF TxRecord, InTransaction
  <2>4. /\ held[p] = First(tx[p]) \union {UserLock(tx[p])} /\ RowKnown(tx[p]) /\ UserRow(tx[p])
    BY <1>1, RunningKnown DEF LocksKnown, AccountsKnown, Deciding, UsageLocked, UserLocked, HouseLocked
  <2> HIDE DEF t
  <2>5. ~UsageLocked(t) /\ UserLocked(t) /\ HouseLocked(t) /\ Decides(t)
    BY <2>3 DEF UsageLocked, UserLocked, HouseLocked, Decides, Deciding
  <2>6. LocksKnown(t, held[p] \union {l})
    BY <1>1, <2>3, <2>4, <2>5 DEF LocksKnown, First, UseLock, UserLock
  <2>7. CallKnown(t) /\ RowKnown(t) /\ KeyKnown(t) /\ UsageKnown(t)
    BY <1>1, <2>3, <2>4, <2>5 DEF CallKnown, RowKnown, KeyKnown, UsageKnown, Requesting, Deciding, AfterCommit
  <2>8. AccountsKnown(t)
    <3>1. UserRow(t)
      BY <1>1, <2>3, <2>4 DEF UserRow, Freed, Moved
    <3>2. Moved(t) = Moved(tx[p])
      BY <2>3 DEF Moved
    <3> QED BY <1>5, <2>3, <3>1, <3>2 DEF AccountsKnown
  <2>9. t.pc \notin {"idle", "insert", "lockMovement"} \union AfterCommit
    BY <2>3 DEF AfterCommit
  <2>10. Known(t, held[p] \union {l})
    BY <2>6, <2>7, <2>8 DEF Known
  <2> HIDE DEF l
  <2> QED BY <1>1, <1>2, <2>1, <2>3, <2>9, <2>10, LockStepKeeps
<1> QED BY <1>4, <1>5

LEMMA ConsumeLimitKeeps ==
  ASSUME IInv, NEW p \in Procs, ConsumeLimit(p)
  PROVE  IInv'
<1> DEFINE x == <<tx[p].row.user, tx[p].row.kind>>
           n == tx[p].row.equiv
           use == ConsumeUsage(usage[x], n)
           t == [tx[p] EXCEPT !.pc = "commit", !.use = use]
           l == UsageLock(x[1], x[2])
<1>1. /\ tx[p].pc = "consumeLimit" /\ tx[p].pc # "idle" /\ tx[p].call = "approve" /\ Use(p) = x /\ Equiv(p) = n
      /\ Decides(tx[p])
  BY RunningKnown DEF ConsumeLimit, At, CallKnown, Deciding, Use, Equiv, Decides
<1>2. movement[tx[p].m].status = "PENDING" /\ tx[p].row = movement[tx[p].m] /\ limitHold[tx[p].m] = "RESERVED"
  BY <1>1, RunningKnown, PendingHolds DEF RowKnown
<1>3. LockStep(p, l, t)
  BY <1>1, <1>2 DEF ConsumeLimit, LimitConsumable
<1>4. use \in Usage /\ l \in Locks
  BY <1>1, RunningKnown, UsageTypes, LockTypes
<1>5. Policy.value # NoLimit => use.used + use.reserved <= Policy.value
  <2>1. SUFFICES ASSUME Policy.value # NoLimit PROVE use.used + use.reserved <= Policy.value
    OBVIOUS
  <2>2. Policy.value \in Int
    BY <2>1, PolicyAssumption
  <2>3. usage[x].used + usage[x].reserved <= Policy.value
    BY <1>1, <2>1, RunningKnown DEF IInv, LimitsRespected
  <2> QED BY <1>1, <2>2, <2>3, RunningKnown, PolicyFacts
<1>6. /\ t \in TxRecord /\ t.pc = "commit" /\ t.use = use /\ t.call = "approve" /\ t.m = tx[p].m /\ t.row = tx[p].row
      /\ t.rows = tx[p].rows
  BY <1>4, <1>1, RunningKnown DEF TxRecord, InTransaction
<1>7. use = ConsumeUsage(usage[<<tx[p].row.user, tx[p].row.kind>>], tx[p].row.equiv) /\ l = UsageLock(tx[p].row.user, tx[p].row.kind)
  OBVIOUS
<1>8. /\ held[p] = First(tx[p]) \union {UserLock(tx[p])} \union {AccountLock(House)}
      /\ UserRow(tx[p]) /\ CanApply(account[House], -Moved(tx[p])) /\ tx[p].rows[House] = Apply(account[House], -Moved(tx[p]))
  BY <1>1, RunningKnown DEF LocksKnown, AccountsKnown, Deciding, UsageLocked, UserLocked, HouseLocked
<1> HIDE DEF t, use, l, x
<1>9. /\ UsageLocked(t) /\ HouseLocked(t) /\ Decides(t) /\ UserLocked(t)
  BY <1>6 DEF UsageLocked, UserLocked, HouseLocked, Decides, Deciding
<1>10. LocksKnown(t, held[p] \union {l})
  BY <1>1, <1>6, <1>7, <1>8, <1>9 DEF LocksKnown, First, UseLock, UserLock
<1>11. CallKnown(t) /\ RowKnown(t) /\ KeyKnown(t)
  BY <1>1, <1>2, <1>6 DEF CallKnown, RowKnown, KeyKnown, Requesting, Deciding, AfterCommit
<1>12. UsageKnown(t)
  BY <1>1, <1>5, <1>6, <1>7 DEF UsageKnown, UseRow
<1>13. AccountsKnown(t)
  <2>1. UserRow(t)
    BY <1>1, <1>6, <1>8 DEF UserRow, Freed, Moved
  <2>2. Moved(t) = Moved(tx[p])
    BY <1>6 DEF Moved
  <2> QED BY <1>6, <1>8, <2>1, <2>2 DEF AccountsKnown
<1>14. t.pc \notin {"idle", "insert", "lockMovement"} \union AfterCommit
  BY <1>6 DEF AfterCommit
<1>15. Known(t, held[p] \union {l})
  BY <1>10, <1>11, <1>12, <1>13 DEF Known
<1> QED BY <1>1, <1>3, <1>4, <1>6, <1>14, <1>15, LockStepKeeps

LEMMA FindVoucherKeeps ==
  ASSUME IInv, NEW p \in Procs, FindVoucher(p)
  PROVE  IInv'
<1> DEFINE t == [tx[p] EXCEPT !.pc = "enqueue"]
<1>1. /\ tx[p].pc = "findVoucher" /\ tx[p].pc # "idle" /\ tx[p].call = "approve" /\ held[p] = {} /\ RowKnown(tx[p])
  BY RunningKnown DEF FindVoucher, At, CallKnown, IInv, LocksExclusive, AfterCommit
<1>2. /\ t \in TxRecord /\ t.pc = "enqueue" /\ t.call = "approve" /\ t.m = tx[p].m
  BY <1>1, RunningKnown DEF TxRecord, AfterCommit
<1>3. End(p) \/ Step(p, t)
  BY DEF FindVoucher
<1> HIDE DEF t
<1>4. Known(t, {})
  BY <1>1, <1>2 DEF Known, CallKnown, RowKnown, LocksKnown, AccountsKnown, UsageKnown, KeyKnown,
     UserLocked, HouseLocked, UsageLocked, Requesting, Decides, Deciding
<1> QED BY <1>1, <1>2, <1>3, <1>4, EndKeeps, StepKeeps

----------------------------------------------------------------------------
(* The inductive invariant: the outbox *)

\* A step that touches the outbox alone, and with which a call may end.
LEMMA OutboxStep ==
  ASSUME IInv, UNCHANGED <<movement, hold, limitHold, account, usage>>,
         NEW S \in SUBSET Procs,
         tx' = [q \in Procs |-> IF q \in S THEN Idle ELSE tx[q]], held' = [q \in Procs |-> IF q \in S THEN {} ELSE held[q]],
         voucher' \in [Movements -> {"none", "PENDING", "SUCCESS"}], NothingToDelete'
  PROVE  IInv'
<1>1. \A q \in Procs : /\ tx'[q] = IF q \in S THEN Idle ELSE tx[q]
                       /\ held'[q] = IF q \in S THEN {} ELSE held[q]
  OBVIOUS
<1>2. LocksExclusive' /\ OneInserter'
  BY <1>1 DEF IInv, LocksExclusive, OneInserter, Idle
<1>3. TypeOK'
  <2>1. deletion' \subseteq Movements
    BY DEF NothingToDelete
  <2>2. tx' \in [Procs -> TxRecord \union {Idle}] /\ held' \in [Procs -> SUBSET Locks]
    BY DEF IInv, TypeOK
  <2> QED BY <2>1, <2>2 DEF IInv, TypeOK
<1>4. ASSUME NEW q \in Procs, tx'[q].pc # "idle" PROVE Known(tx[q], held[q])'
  <2>1. q \notin S /\ tx'[q] = tx[q] /\ held'[q] = held[q]
    BY <1>1, <1>4 DEF Idle
  <2>2. Known(tx[q], held[q])
    BY <1>4, <2>1 DEF IInv
  <2>3. ASSUME NEW t, NEW L PROVE Known(t, L)' <=> Known(t, L)
    BY SameKnown
  <2> QED BY <2>1, <2>2, <2>3
<1>5. StatusMatchesHolds' /\ NoOverdraft' /\ LimitsRespected' /\ OneMovementPerKey' /\ RowsOfUsers'
  BY DEF IInv, StatusMatchesHolds, NoOverdraft, LimitsRespected, OneMovementPerKey, RowsOfUsers
<1> QED BY <1>2, <1>3, <1>4, <1>5 DEF IInv

LEMMA EnqueueVoucherKeeps ==
  ASSUME IInv, NEW p \in Procs, EnqueueVoucher(p)
  PROVE  IInv'
<1>1. /\ tx[p].pc = "enqueue" /\ tx[p].pc # "idle" /\ tx[p].m \in Movements /\ movement[tx[p].m].status = "APPROVED"
  BY RunningKnown DEF EnqueueVoucher, At, RowKnown
<1>2. /\ tx' = [q \in Procs |-> IF q \in {p} THEN Idle ELSE tx[q]]
      /\ held' = [q \in Procs |-> IF q \in {p} THEN {} ELSE held[q]]
  BY DEF EnqueueVoucher, Finish, Leave, IInv, TypeOK
<1>3. /\ UNCHANGED <<movement, hold, limitHold, account, usage, deletion>>
      /\ voucher' = [voucher EXCEPT ![tx[p].m] = "PENDING"]
  BY DEF EnqueueVoucher
<1>4. voucher' \in [Movements -> {"none", "PENDING", "SUCCESS"}]
  BY <1>3 DEF IInv, TypeOK
<1>5. NothingToDelete'
  <2>1. \A n \in Movements : voucher'[n] = IF n = tx[p].m THEN "PENDING" ELSE voucher[n]
    BY <1>3 DEF IInv, TypeOK
  <2>2. NothingToDelete /\ movement' = movement /\ deletion' = deletion
    BY <1>3 DEF IInv
  <2> QED BY <1>1, <2>1, <2>2 DEF NothingToDelete
<1>6. UNCHANGED <<movement, hold, limitHold, account, usage>>
  BY <1>3
<1> QED BY <1>2, <1>4, <1>5, <1>6, OutboxStep

LEMMA SentKeeps ==
  ASSUME IInv, NEW m \in Movements, Sent(m)
  PROVE  IInv'
<1>1. /\ tx' = [q \in Procs |-> IF q \in {} THEN Idle ELSE tx[q]]
      /\ held' = [q \in Procs |-> IF q \in {} THEN {} ELSE held[q]]
  BY DEF Sent, IInv, TypeOK
<1>2. voucher' \in [Movements -> {"none", "PENDING", "SUCCESS"}] /\ NothingToDelete'
  BY DEF Sent, IInv, TypeOK, NothingToDelete
<1>3. UNCHANGED <<movement, hold, limitHold, account, usage>>
  BY DEF Sent
<1> QED BY <1>1, <1>2, <1>3, OutboxStep

LEMMA FindDeletionKeeps ==
  ASSUME IInv, NEW p \in Procs, FindDeletion(p)
  PROVE  IInv'
<1>1. /\ tx[p].pc = "findDeletion" /\ tx[p].pc # "idle" /\ tx[p].m \in Movements /\ movement[tx[p].m].status = "CANCELLED"
  BY RunningKnown DEF FindDeletion, At, RowKnown
<1>2. /\ tx' = [q \in Procs |-> IF q \in {p} THEN Idle ELSE tx[q]]
      /\ held' = [q \in Procs |-> IF q \in {p} THEN {} ELSE held[q]]
  BY DEF FindDeletion, Finish, Leave, IInv, TypeOK
<1>3. UNCHANGED <<movement, hold, limitHold, account, usage, voucher>>
  BY DEF FindDeletion
<1>4. voucher[tx[p].m] # "SUCCESS"
  BY <1>1 DEF IInv, NothingToDelete
<1>5. deletion' = deletion
  BY <1>4 DEF FindDeletion
<1>6. voucher' \in [Movements -> {"none", "PENDING", "SUCCESS"}] /\ NothingToDelete'
  BY <1>3, <1>5 DEF IInv, TypeOK, NothingToDelete
<1> QED BY <1>2, <1>3, <1>6, OutboxStep

----------------------------------------------------------------------------
(* The inductive invariant: commits *)

\* Who commits, and the locks it holds.
LEMMA CommitKnown ==
  ASSUME IInv, NEW p \in Procs, Commit(p)
  PROVE  /\ tx[p].pc = "commit" /\ tx[p].pc # "idle" /\ UsageLocked(tx[p]) /\ (HouseLocked(tx[p]) <=> tx[p].call = "approve")
         /\ (UserLocked(tx[p]) <=> tx[p].call = "approve" \/ tx[p].row.kind = "WITHDRAWAL")
         /\ (tx[p].call = "request" => /\ movement[tx[p].m].status = "none" /\ tx[p].row.status = "PENDING"
                                       /\ ~UsedKey(tx[p].row.user, tx[p].row.key))
         /\ (tx[p].call # "request" => /\ movement[tx[p].m].status = "PENDING" /\ tx[p].row = movement[tx[p].m]
                                       /\ MovementLock(tx[p].m) \in held[p])
         /\ tx[p].row.user \in Users /\ tx[p].row.user # House
         /\ account[tx[p].row.user] \in Account /\ account[House] \in Account
         /\ <<tx[p].row.user, tx[p].row.kind>> \in UsageRows
         /\ \A o \in Owners : AccountLock(o) \in held[p] <=>
              \/ o = tx[p].row.user /\ (tx[p].call = "approve" \/ tx[p].row.kind = "WITHDRAWAL")
              \/ o = House /\ tx[p].call = "approve"
         /\ \A o \in Owners, k \in MovementTypes : UsageLock(o, k) \in held[p] <=> o = tx[p].row.user /\ k = tx[p].row.kind
         /\ \A o \in Owners, k \in Keys : KeyLock(o, k) \in held[p] <=>
              tx[p].call = "request" /\ k = tx[p].row.key /\ o = tx[p].row.user
<1>1. tx[p].pc = "commit" /\ tx[p].pc # "idle"
  BY DEF Commit, At
<1>2. /\ UsageLocked(tx[p]) /\ (HouseLocked(tx[p]) <=> tx[p].call = "approve")
      /\ (UserLocked(tx[p]) <=> tx[p].call = "approve" \/ tx[p].row.kind = "WITHDRAWAL")
      /\ (tx[p].call # "request" <=> Decides(tx[p]))
  BY <1>1 DEF UsageLocked, UserLocked, HouseLocked, Decides, Deciding
<1>3. /\ tx[p].call = "request" => /\ movement[tx[p].m].status = "none" /\ tx[p].row.status = "PENDING"
                                   /\ ~UsedKey(tx[p].row.user, tx[p].row.key)
      /\ tx[p].call # "request" => movement[tx[p].m].status = "PENDING" /\ tx[p].row = movement[tx[p].m]
  BY <1>1, <1>2, RunningKnown DEF RowKnown, KeyKnown
<1>4. held[p] = First(tx[p]) \union {UseLock(tx[p])} \union (IF UserLocked(tx[p]) THEN {UserLock(tx[p])} ELSE {})
                  \union (IF HouseLocked(tx[p]) THEN {AccountLock(House)} ELSE {})
  BY <1>1, <1>2, RunningKnown DEF LocksKnown
<1>5. /\ tx[p].row.user \in Users /\ tx[p].row.user # House
      /\ account[tx[p].row.user] \in Account /\ account[House] \in Account
      /\ <<tx[p].row.user, tx[p].row.kind>> \in UsageRows /\ House \in Owners /\ tx[p].row.user \in Owners
      /\ tx[p].row.kind \in MovementTypes /\ tx[p].m \in Movements
  BY <1>1, <1>2, RunningKnown DEF Owners
<1>6. First(tx[p]) = IF tx[p].call # "request" THEN {MovementLock(tx[p].m)}
            ELSE IF tx[p].row.key = NoKey THEN {} ELSE {KeyLock(tx[p].row.user, tx[p].row.key)}
  BY DEF First
<1>7. \A o \in Owners : AccountLock(o) \in held[p] <=>
              \/ o = tx[p].row.user /\ (tx[p].call = "approve" \/ tx[p].row.kind = "WITHDRAWAL")
              \/ o = House /\ tx[p].call = "approve"
  BY <1>2, <1>4, <1>5, <1>6, LockKinds DEF UserLock, UseLock
<1>8. \A o \in Owners, k \in MovementTypes : UsageLock(o, k) \in held[p] <=> o = tx[p].row.user /\ k = tx[p].row.kind
  BY <1>4, <1>5, <1>6, LockKinds DEF UserLock, UseLock
<1>9. \A o \in Owners, k \in Keys : KeyLock(o, k) \in held[p] <=>
              tx[p].call = "request" /\ k = tx[p].row.key /\ o = tx[p].row.user
  BY <1>4, <1>5, <1>6, LockKinds, KeysAssumption DEF UserLock, UseLock
<1>10. tx[p].call # "request" => MovementLock(tx[p].m) \in held[p]
  BY <1>4, <1>6
<1> QED BY <1>1, <1>2, <1>3, <1>5, <1>7, <1>8, <1>9, <1>10

\* The movement it commits, and its reservations.
LEMMA CommitRows ==
  ASSUME IInv, NEW p \in Procs, Commit(p), NEW n \in Movements
  PROVE  /\ n # tx[p].m => movement'[n] = movement[n] /\ hold'[n] = hold[n] /\ limitHold'[n] = limitHold[n]
         /\ n = tx[p].m =>
              /\ movement'[n] = [tx[p].row EXCEPT !.status = IF tx[p].call = "request" THEN "PENDING" ELSE Decided(tx[p].call)]
              /\ hold'[n] = IF tx[p].row.kind = "DEPOSIT" THEN "none"
                            ELSE CASE tx[p].call = "request" -> "RESERVED" [] tx[p].call = "approve" -> "CONSUMED"
                                   [] OTHER -> "RELEASED"
              /\ limitHold'[n] = CASE tx[p].call = "request" -> "RESERVED" [] tx[p].call = "approve" -> "CONSUMED"
                                   [] OTHER -> "RELEASED"
         /\ movement' \in [Movements -> Row] /\ hold' \in [Movements -> HoldStatus] /\ limitHold' \in [Movements -> HoldStatus]
<1> DEFINE m == tx[p].m
           c == tx[p].call
           r == tx[p].row
<1>1. /\ m \in Movements /\ r \in Row /\ c \in Calls /\ r.kind \in MovementTypes
      /\ c = "request" => movement[m].status = "none" /\ r.status = "PENDING"
      /\ c # "request" => movement[m].status = "PENDING" /\ r = movement[m]
  BY CommitKnown, RunningKnown
<1>2. [r EXCEPT !.status = IF c = "request" THEN "PENDING" ELSE Decided(c)]
        = IF c = "request" THEN r ELSE [movement[m] EXCEPT !.status = Decided(c)]
  BY <1>1 DEF Row
<1>3. movement' = [movement EXCEPT ![m] = IF c = "request" THEN r ELSE [movement[m] EXCEPT !.status = Decided(c)]]
  BY DEF Commit
<1>4. [r EXCEPT !.status = IF c = "request" THEN "PENDING" ELSE Decided(c)] \in Row
  BY <1>1 DEF Row, Decided, MovementStatus
<1>5. movement \in [Movements -> Row] /\ hold \in [Movements -> HoldStatus] /\ limitHold \in [Movements -> HoldStatus]
  BY DEF IInv, TypeOK
<1>6. /\ c = "request" => hold[m] = "none" /\ limitHold[m] = "none"
      /\ c # "request" => /\ hold[m] = (IF r.kind = "WITHDRAWAL" THEN "RESERVED" ELSE "none") /\ limitHold[m] = "RESERVED"
  BY <1>1, PendingHolds DEF IInv, StatusMatchesHolds
<1>7. hold' = [hold EXCEPT ![m] = IF r.kind = "DEPOSIT" THEN "none"
                                  ELSE CASE c = "request" -> "RESERVED" [] c = "approve" -> "CONSUMED" [] OTHER -> "RELEASED"]
  <2>1. hold' = [hold EXCEPT ![m] = IF c = "request" THEN (IF r.kind = "WITHDRAWAL" THEN "RESERVED" ELSE "none")
                                     ELSE HoldAfter(hold[m], c, {"RESERVED"})]
    BY DEF Commit
  <2>2. c # "request" => HoldAfter(hold[m], c, {"RESERVED"})
          = IF r.kind = "DEPOSIT" THEN "none" ELSE IF c = "approve" THEN "CONSUMED" ELSE "RELEASED"
    BY <1>1, <1>6 DEF HoldAfter, Calls, MovementTypes
  <2> QED BY <1>1, <2>1, <2>2 DEF MovementTypes
<1>8. limitHold' = [limitHold EXCEPT ![m] = CASE c = "request" -> "RESERVED" [] c = "approve" -> "CONSUMED" [] OTHER -> "RELEASED"]
  <2>1. limitHold' = [limitHold EXCEPT ![m] = IF c = "request" THEN "RESERVED"
                        ELSE HoldAfter(limitHold[m], c, IF c = "approve" THEN LimitConsumable ELSE LimitReleasable)]
    BY DEF Commit
  <2>2. c # "request" => HoldAfter(limitHold[m], c, IF c = "approve" THEN LimitConsumable ELSE LimitReleasable)
          = IF c = "approve" THEN "CONSUMED" ELSE "RELEASED"
    BY <1>1, <1>6 DEF HoldAfter, Calls, LimitConsumable, LimitReleasable
  <2> QED BY <1>1, <2>1, <2>2
<1>9. movement' \in [Movements -> Row]
  BY <1>2, <1>3, <1>4, <1>5
<1>10. hold' \in [Movements -> HoldStatus] /\ limitHold' \in [Movements -> HoldStatus]
  BY <1>5, <1>7, <1>8 DEF HoldStatus
<1>11. n # m => movement'[n] = movement[n] /\ hold'[n] = hold[n] /\ limitHold'[n] = limitHold[n]
  BY <1>3, <1>5, <1>7, <1>8
<1>12. n = m => /\ movement'[n] = [r EXCEPT !.status = IF c = "request" THEN "PENDING" ELSE Decided(c)]
                /\ hold'[n] = IF r.kind = "DEPOSIT" THEN "none"
                              ELSE CASE c = "request" -> "RESERVED" [] c = "approve" -> "CONSUMED" [] OTHER -> "RELEASED"
                /\ limitHold'[n] = CASE c = "request" -> "RESERVED" [] c = "approve" -> "CONSUMED" [] OTHER -> "RELEASED"
  BY <1>2, <1>3, <1>5, <1>7, <1>8
<1> QED BY <1>9, <1>10, <1>11, <1>12

\* What the commit of t brings to the balance of its user (and takes from the
\* house), and what it adds to what is blocked.
Gained(t) == IF t.call = "approve" THEN Moved(t) ELSE 0
Blocking(t) ==
  IF t.row.kind # "WITHDRAWAL" THEN 0 ELSE IF t.call = "request" THEN t.row.equiv ELSE -t.row.equiv

\* The accounts it commits.
LEMMA CommitAccounts ==
  ASSUME IInv, NEW p \in Procs, Commit(p)
  PROVE  /\ account' \in [Owners -> Account]
         /\ \A o \in Owners : AccountLock(o) \notin held[p] => account'[o] = account[o]
         /\ \A o \in Users : o # tx[p].row.user => account'[o] = account[o]
         /\ Moved(tx[p]) \in Int /\ Blocking(tx[p]) \in Int /\ Gained(tx[p]) \in Int
         /\ account'[tx[p].row.user].balance = account[tx[p].row.user].balance + Gained(tx[p])
         /\ account'[tx[p].row.user].blocked = account[tx[p].row.user].blocked + Blocking(tx[p])
         /\ account'[House].balance = account[House].balance - Gained(tx[p])
         /\ account'[House].blocked = account[House].blocked
         /\ NoOverdraft'
<1> DEFINE u == tx[p].row.user
           n == tx[p].row.equiv
           a == account[u]
           b == account[House]
           c == tx[p].call
           k == tx[p].row.kind
<1>1. /\ a \in Account /\ b \in Account /\ u \in Users /\ u # House /\ u \in Owners /\ House \in Owners
      /\ n \in Nat /\ n \in Int /\ c \in Calls /\ k \in MovementTypes /\ tx[p].rows \in [Owners -> Account]
      /\ Users \subseteq Owners /\ \A o \in Users : o # House
  BY CommitKnown, RunningKnown, RunningRecord, OwnersAssumption DEF Owners, IInv
<1>2. \A o \in Owners : account'[o] = IF AccountLock(o) \in held[p] THEN tx[p].rows[o] ELSE account[o]
  BY DEF Commit
<1>3. \A o \in Owners : AccountLock(o) \in held[p] <=>
              \/ o = u /\ (c = "approve" \/ k = "WITHDRAWAL")
              \/ o = House /\ c = "approve"
  BY CommitKnown
<1>4. account' \in [Owners -> Account]
  <2>1. account' = [o \in Owners |-> IF AccountLock(o) \in held[p] THEN tx[p].rows[o] ELSE account[o]]
    BY DEF Commit
  <2> QED BY <1>1, <2>1 DEF IInv, TypeOK
<1>5. /\ c = "approve" \/ k = "WITHDRAWAL" => UserRow(tx[p])
      /\ c = "approve" => CanApply(b, -Moved(tx[p])) /\ tx[p].rows[House] = Apply(b, -Moved(tx[p]))
  BY CommitKnown, RunningKnown DEF AccountsKnown
<1>6. /\ a.balance \in Int /\ a.blocked \in Int /\ UsableCapacity(a) \in Int /\ UsableCapacity(a) >= 0 /\ a.blocked >= 0
      /\ b.balance \in Int /\ b.blocked \in Int /\ UsableCapacity(b) \in Int /\ UsableCapacity(b) >= 0 /\ b.blocked >= 0
  BY <1>1, LedgerFacts DEF IInv, NoOverdraft
<1>7. /\ Moved(tx[p]) \in Int /\ -Moved(tx[p]) \in Int /\ Blocking(tx[p]) \in Int /\ Gained(tx[p]) \in Int
  BY <1>1 DEF Moved, Blocking, Gained
<1>8. /\ account'[u].balance = a.balance + Gained(tx[p]) /\ account'[u].blocked = a.blocked + Blocking(tx[p])
      /\ UsableCapacity(account'[u]) >= 0 /\ account'[u].blocked >= 0
  <2>1. CASE c = "request" /\ k = "WITHDRAWAL"
    <3>1. account'[u] = Reserve(a, n) /\ CanReserve(a, n) /\ Gained(tx[p]) = 0 /\ Blocking(tx[p]) = n
      BY <1>1, <1>2, <1>3, <1>5, <2>1 DEF UserRow, Gained, Blocking
    <3>2. /\ Reserve(a, n).balance = a.balance /\ Reserve(a, n).blocked = a.blocked + n
          /\ UsableCapacity(Reserve(a, n)) = UsableCapacity(a) - n /\ UsableCapacity(a) >= n
      BY <1>1, <3>1, LedgerFacts
    <3> QED BY <1>1, <1>6, <3>1, <3>2
  <2>2. CASE c = "approve" /\ k = "WITHDRAWAL"
    <3>1. /\ account'[u] = Apply(Unblock(a, n), -n) /\ CanUnblock(a, n) /\ Gained(tx[p]) = -n /\ Blocking(tx[p]) = -n
      BY <1>1, <1>2, <1>3, <1>5, <2>2 DEF UserRow, Gained, Blocking, Moved, Freed
    <3>2. /\ Apply(Unblock(a, n), -n).balance = a.balance - n /\ Apply(Unblock(a, n), -n).blocked = a.blocked - n
          /\ UsableCapacity(Apply(Unblock(a, n), -n)) = UsableCapacity(a) /\ a.blocked >= n
      BY <1>1, <3>1, PaidFacts, LedgerFacts, ZenonT(60)
    <3> QED BY <1>1, <1>6, <3>1, <3>2
  <2>3. CASE c = "approve" /\ k # "WITHDRAWAL"
    <3>1. /\ account'[u] = Apply(a, n) /\ Gained(tx[p]) = n /\ Blocking(tx[p]) = 0
      BY <1>1, <1>2, <1>3, <1>5, <2>3 DEF UserRow, Gained, Blocking, Moved, Freed, MovementTypes
    <3>2. /\ Apply(a, n).balance = a.balance + n /\ Apply(a, n).blocked = a.blocked
          /\ UsableCapacity(Apply(a, n)) = UsableCapacity(a) + n
      BY <1>1, LedgerFacts
    <3> QED BY <1>1, <1>6, <3>1, <3>2
  <2>4. CASE c \notin {"request", "approve"} /\ k = "WITHDRAWAL"
    <3>1. account'[u] = Unblock(a, n) /\ CanUnblock(a, n) /\ Gained(tx[p]) = 0 /\ Blocking(tx[p]) = -n
      BY <1>1, <1>2, <1>3, <1>5, <2>4 DEF UserRow, Gained, Blocking
    <3>2. /\ Unblock(a, n).balance = a.balance /\ Unblock(a, n).blocked = a.blocked - n
          /\ UsableCapacity(Unblock(a, n)) = UsableCapacity(a) + n /\ a.blocked >= n
      BY <1>1, <3>1, LedgerFacts
    <3> QED BY <1>1, <1>6, <3>1, <3>2
  <2>5. CASE c # "approve" /\ k # "WITHDRAWAL"
    <3>1. account'[u] = a /\ Gained(tx[p]) = 0 /\ Blocking(tx[p]) = 0
      BY <1>1, <1>2, <1>3, <2>5 DEF Gained, Blocking
    <3> QED BY <1>6, <3>1
  <2> QED BY <2>1, <2>2, <2>3, <2>4, <2>5
<1>9. /\ account'[House].balance = b.balance - Gained(tx[p]) /\ account'[House].blocked = b.blocked
      /\ UsableCapacity(account'[House]) >= 0
  <2>1. CASE c = "approve"
    <3>1. /\ account'[House] = Apply(b, -Moved(tx[p])) /\ CanApply(b, -Moved(tx[p])) /\ Gained(tx[p]) = Moved(tx[p])
      BY <1>1, <1>2, <1>3, <1>5, <2>1 DEF Gained
    <3>2. /\ Apply(b, -Moved(tx[p])).balance = b.balance + (-Moved(tx[p])) /\ Apply(b, -Moved(tx[p])).blocked = b.blocked
          /\ UsableCapacity(Apply(b, -Moved(tx[p]))) = UsableCapacity(b) + (-Moved(tx[p]))
          /\ UsableCapacity(b) + (-Moved(tx[p])) >= 0
      BY <1>1, <1>7, <3>1, LedgerFacts
    <3> QED BY <1>6, <1>7, <3>1, <3>2
  <2>2. CASE c # "approve"
    <3>1. account'[House] = b /\ Gained(tx[p]) = 0
      BY <1>1, <1>2, <1>3, <2>2 DEF Gained
    <3> QED BY <1>6, <3>1
  <2> QED BY <2>1, <2>2
<1>10. \A o \in Owners \ {u, House} : account'[o] = account[o]
  BY <1>1, <1>2, <1>3
<1>11. NoOverdraft'
  <2>1. ASSUME NEW o \in Owners PROVE UsableCapacity(account'[o]) >= 0 /\ account'[o].blocked >= 0
    <3>1. CASE o = u
      BY <1>8, <3>1
    <3>2. CASE o = House
      BY <1>6, <1>9, <3>2
    <3>3. CASE o \notin {u, House}
      BY <1>10, <3>3 DEF IInv, NoOverdraft
    <3> QED BY <3>1, <3>2, <3>3
  <2> QED BY <2>1 DEF NoOverdraft, UsableCapacity
<1>12. \A o \in Owners : AccountLock(o) \notin held[p] => account'[o] = account[o]
  BY <1>2
<1>13. \A o \in Users : o # u => account'[o] = account[o]
  BY <1>1, <1>10
<1> QED BY <1>4, <1>7, <1>8, <1>9, <1>11, <1>12, <1>13

\* The usage it commits.
LEMMA CommitUsage ==
  ASSUME IInv, NEW p \in Procs, Commit(p)
  PROVE  /\ usage' \in [UsageRows -> Usage]
         /\ \A x \in UsageRows : x # <<tx[p].row.user, tx[p].row.kind>> => usage'[x] = usage[x]
         /\ usage'[<<tx[p].row.user, tx[p].row.kind>>] = UseRow(tx[p])
         /\ LimitsRespected'
<1> DEFINE y == <<tx[p].row.user, tx[p].row.kind>>
<1>1. \A x \in UsageRows : usage'[x] = IF UsageLock(x[1], x[2]) \in held[p] THEN tx[p].use ELSE usage[x]
  BY DEF Commit, IInv, TypeOK
<1>2. \A x \in UsageRows : x = <<x[1], x[2]>> /\ x[1] \in Owners /\ x[2] \in MovementTypes
  BY DEF UsageRows, Owners
<1>3. \A o \in Owners, k \in MovementTypes : UsageLock(o, k) \in held[p] <=> o = tx[p].row.user /\ k = tx[p].row.kind
  BY CommitKnown
<1>4. \A x \in UsageRows : usage'[x] = IF x = y THEN tx[p].use ELSE usage[x]
  <2>1. ASSUME NEW x \in UsageRows PROVE UsageLock(x[1], x[2]) \in held[p] <=> x = y
    BY <1>2, <1>3
  <2> QED BY <1>1, <2>1
<1>5. /\ y \in UsageRows /\ tx[p].use = UseRow(tx[p]) /\ tx[p].use \in Usage
      /\ Policy.value # NoLimit => tx[p].use.used + tx[p].use.reserved <= Policy.value
  BY CommitKnown, RunningKnown, RunningRecord DEF UsageKnown, IInv
<1>6. usage' \in [UsageRows -> Usage]
  <2>1. usage' = [x \in UsageRows |-> usage'[x]]
    BY DEF Commit, IInv, TypeOK
  <2>2. \A x \in UsageRows : usage'[x] \in Usage
    BY <1>4, <1>5 DEF IInv, TypeOK
  <2> QED BY <2>1, <2>2
<1>7. LimitsRespected'
  BY <1>4, <1>5 DEF IInv, LimitsRespected
<1> QED BY <1>4, <1>5, <1>6, <1>7

\* The other calls know what they knew: the movement they decide is another
\* one, and the rows they have read are locked.
LEMMA CommitKeepsOthers ==
  ASSUME IInv, NEW p \in Procs, Commit(p), NEW q \in Procs \ {p}, tx[q].pc # "idle"
  PROVE  Known(tx[q], held[q])'
<1> DEFINE m == tx[p].m
<1>1. /\ tx[q].m \in Movements /\ tx[q].row.user \in Owners /\ tx[q].row.kind \in MovementTypes
      /\ tx[q].row.key \in Keys \union {NoKey} /\ m \in Movements /\ House \in Owners
      /\ CallKnown(tx[q]) /\ RowKnown(tx[q]) /\ LocksKnown(tx[q], held[q])
      /\ AccountsKnown(tx[q]) /\ UsageKnown(tx[q]) /\ KeyKnown(tx[q])
  BY RunningKnown, CommitKnown DEF Owners
<1>2. held[p] \intersect held[q] = {}
  BY DEF IInv, LocksExclusive
<1>3. /\ tx'[q] = tx[q] /\ held'[q] = held[q]
  BY DEF Commit, Leave, IInv, TypeOK
<1> DEFINE t == tx[q]
           L == held[q]
<1>4. t.call = "request" \/ Decides(t) => t.m # m
  <2>1. CASE t.call = "request"
    <3>1. CASE tx[p].call = "request"
      BY <2>1, <3>1, CommitKnown DEF IInv, OneInserter
    <3>2. CASE tx[p].call # "request"
      BY <1>1, <2>1, <3>2, CommitKnown DEF RowKnown
    <3> QED BY <3>1, <3>2
  <2>2. CASE Decides(t) /\ t.call # "request"
    <3>1. CASE tx[p].call = "request"
      BY <1>1, <2>2, <3>1, CommitKnown DEF RowKnown
    <3>2. CASE tx[p].call # "request"
      <4>1. MovementLock(t.m) \in L
        BY <1>1, <2>2 DEF LocksKnown, Decides, First
      <4> QED BY <1>2, <3>2, <4>1, CommitKnown
    <3> QED BY <3>1, <3>2
  <2>3. Decides(t) => t.call # "request"
    BY <1>1 DEF Decides, CallKnown
  <2> QED BY <2>1, <2>2, <2>3
<1>5. movement'[t.m] = movement[t.m] \/ (t.m = m /\ movement'[m].status # "none" /\ movement[m].status \in {"none", "PENDING"})
  <2>1. CASE t.m # m
    BY <1>1, <2>1, CommitRows
  <2>2. CASE t.m = m
    <3>1. movement'[m] = [tx[p].row EXCEPT !.status = IF tx[p].call = "request" THEN "PENDING" ELSE Decided(tx[p].call)]
      BY <1>1, CommitRows
    <3>2. tx[p].row \in Row
      BY CommitKnown, RunningKnown
    <3>3. movement'[m].status # "none"
      BY <3>1, <3>2 DEF Row, Decided
    <3> QED BY <2>2, <3>3, CommitKnown
  <2> QED BY <2>1, <2>2
<1>6. RowKnown(t)'
  <2>1. t.call = "request" \/ Decides(t) => movement'[t.m] = movement[t.m]
    BY <1>1, <1>4, CommitRows
  <2>2. RowKnown(t)
    BY <1>1
  <2>3. Decides(t)' <=> Decides(t)
    BY <1>3 DEF Decides
  <2> QED BY <1>3, <1>5, <2>1, <2>2, <2>3 DEF RowKnown
<1>7. AccountsKnown(t)'
  <2>1. UserLocked(t) => UserLock(t) \in L /\ account'[t.row.user] = account[t.row.user]
    <3>1. UserLocked(t) => UserLock(t) \in L
      BY <1>1 DEF LocksKnown, UserLocked, Deciding
    <3> QED BY <1>1, <1>2, <3>1, CommitAccounts DEF UserLock
  <2>2. HouseLocked(t) => account'[House] = account[House]
    <3>1. HouseLocked(t) => AccountLock(House) \in L
      BY <1>1 DEF LocksKnown, HouseLocked, Deciding
    <3> QED BY <1>1, <1>2, <3>1, CommitAccounts
  <2>3. UserLocked(t) => (UserRow(t)' <=> UserRow(t))
    BY <1>3, <2>1 DEF UserRow, Freed, Moved
  <2>4. Moved(t)' = Moved(t) /\ (UserLocked(t)' <=> UserLocked(t)) /\ (HouseLocked(t)' <=> HouseLocked(t))
    BY <1>3 DEF Moved, UserLocked, HouseLocked
  <2> QED BY <1>1, <1>3, <2>2, <2>3, <2>4 DEF AccountsKnown
<1>8. UsageKnown(t)'
  <2>1. UsageLocked(t) => UseLock(t) \in L
    BY <1>1 DEF LocksKnown, UsageLocked, Deciding
  <2>2. \A o \in Owners, k \in MovementTypes : UsageLock(o, k) \in held[p] <=> o = tx[p].row.user /\ k = tx[p].row.kind
    BY CommitKnown
  <2>3. UsageLocked(t) => <<t.row.user, t.row.kind>> \in UsageRows
    <3>1. UsageLocked(t) => t.call = "request" \/ Decides(t)
      BY <1>1 DEF UsageLocked, Decides, Deciding, CallKnown, Requesting
    <3> QED BY <3>1, RunningKnown
  <2>4. UsageLocked(t) => usage'[<<t.row.user, t.row.kind>>] = usage[<<t.row.user, t.row.kind>>]
    BY <1>1, <1>2, <2>1, <2>2, <2>3, CommitUsage, ZenonT(60) DEF UseLock
  <2>5. UsageLocked(t)' <=> UsageLocked(t)
    BY <1>3 DEF UsageLocked
  <2> QED BY <1>1, <1>3, <2>4, <2>5 DEF UsageKnown, UseRow
<1>9. KeyKnown(t)'
  <2>1. SUFFICES ASSUME t.call = "request", t.pc # "insert", UsedKey(t.row.user, t.row.key)' PROVE FALSE
    BY <1>3 DEF KeyKnown
  <2>2. ~UsedKey(t.row.user, t.row.key)
    BY <1>1, <2>1 DEF KeyKnown
  <2>3. PICK n \in Movements : /\ t.row.key # NoKey /\ movement'[n].key = t.row.key /\ movement'[n].user = t.row.user
    BY <1>3, <2>1 DEF UsedKey
  <2>4. n = m
    BY <2>2, <2>3, CommitRows, ZenonT(60) DEF UsedKey
  <2>5. movement'[n].key = tx[p].row.key /\ movement'[n].user = tx[p].row.user
    <3>1. movement'[m] = [tx[p].row EXCEPT !.status = IF tx[p].call = "request" THEN "PENDING" ELSE Decided(tx[p].call)]
      BY <1>1, CommitRows
    <3>2. tx[p].row \in Row
      BY CommitKnown, RunningKnown
    <3> QED BY <2>4, <3>1, <3>2 DEF Row
  <2>6. tx[p].call = "request"
    BY <1>1, <2>2, <2>3, <2>4, <2>5, CommitKnown, ZenonT(60) DEF UsedKey
  <2>7. t.pc \in {"reserveLimit", "reserve", "commit"} \union Deciding /\ KeyLock(t.row.user, t.row.key) \in L
    <3>1. t.pc \in InTransaction \union AfterCommit
      BY RunningKnown DEF TxRecord
    <3>2. t.pc \in {"reserveLimit", "reserve", "commit"} \union Deciding
      BY <1>1, <2>1, <3>1 DEF CallKnown, InTransaction, AfterCommit, Deciding
    <3> QED BY <1>1, <2>1, <2>3, <3>2 DEF LocksKnown, First
  <2>8. KeyLock(t.row.user, t.row.key) \in held[p]
    BY <1>1, <2>3, <2>5, <2>6, CommitKnown, ZenonT(60)
  <2> QED BY <1>2, <2>7, <2>8
<1>10. CallKnown(t)' /\ LocksKnown(t, L)'
  BY <1>1, <1>3 DEF CallKnown, LocksKnown, First, UseLock, UserLock, UsageLocked, UserLocked, HouseLocked
<1> QED BY <1>3, <1>6, <1>7, <1>8, <1>9, <1>10 DEF Known

LEMMA CommitKeeps ==
  ASSUME IInv, NEW p \in Procs, Commit(p)
  PROVE  IInv'
<1> DEFINE m == tx[p].m
           c == tx[p].call
           r == tx[p].row
           t == CASE c = "approve" -> Begun("findVoucher", c, m, NoRow)
                  [] c = "cancel" -> Begun("findDeletion", c, m, NoRow)
                  [] OTHER -> Idle
<1>1. /\ m \in Movements /\ r \in Row /\ c \in Calls /\ r.user \in Users /\ r.kind \in MovementTypes
      /\ r.key \in Keys \union {NoKey}
      /\ movement'[m] = [r EXCEPT !.status = IF c = "request" THEN "PENDING" ELSE Decided(c)]
      /\ \A n \in Movements : n # m => movement'[n] = movement[n] /\ hold'[n] = hold[n] /\ limitHold'[n] = limitHold[n]
      /\ movement[m].status \in {"none", "PENDING"}
  BY CommitKnown, CommitRows, RunningKnown
<1>2. /\ tx' = [tx EXCEPT ![p] = t] /\ held' = [held EXCEPT ![p] = {}] /\ UNCHANGED <<voucher, deletion>>
  BY DEF Commit, Leave
<1>3. t \in TxRecord \union {Idle}
  BY <1>1, BegunType, NoRowType DEF AfterCommit
<1>4. /\ c = "approve" => t.pc = "findVoucher" /\ t.call = c /\ t.m = m
      /\ c = "cancel" => t.pc = "findDeletion" /\ t.call = c /\ t.m = m
      /\ c \notin {"approve", "cancel"} => t.pc = "idle"
  BY DEF Begun, Idle
<1> HIDE DEF t
<1>5. /\ movement'[m].user = r.user /\ movement'[m].kind = r.kind /\ movement'[m].key = r.key
      /\ movement'[m].status = IF c = "request" THEN "PENDING" ELSE Decided(c)
  BY <1>1 DEF Row
<1>6. \A q \in Procs : /\ tx'[q] = IF q = p THEN t ELSE tx[q]
                       /\ held'[q] = IF q = p THEN {} ELSE held[q]
  BY <1>2 DEF IInv, TypeOK
<1>7. TypeOK'
  <2>1. movement' \in [Movements -> Row] /\ hold' \in [Movements -> HoldStatus] /\ limitHold' \in [Movements -> HoldStatus]
    BY <1>1, CommitRows
  <2>2. account' \in [Owners -> Account] /\ usage' \in [UsageRows -> Usage]
    BY CommitAccounts, CommitUsage
  <2>3. tx' \in [Procs -> TxRecord \union {Idle}] /\ held' \in [Procs -> SUBSET Locks]
    BY <1>2, <1>3 DEF IInv, TypeOK
  <2> QED BY <1>2, <2>1, <2>2, <2>3 DEF IInv, TypeOK
<1>8. LocksExclusive'
  BY <1>4, <1>6 DEF IInv, LocksExclusive
<1>9. OneInserter'
  BY <1>4, <1>6 DEF IInv, OneInserter
<1>10. ASSUME NEW q \in Procs, tx'[q].pc # "idle" PROVE Known(tx[q], held[q])'
  <2>1. CASE q # p
    BY <1>6, <1>10, <2>1, CommitKeepsOthers
  <2>2. CASE q = p
    <3>1. tx'[q] = t /\ held'[q] = {} /\ c \in {"approve", "cancel"}
      BY <1>4, <1>6, <1>10, <2>2
    <3>2. /\ t.pc \in {"findVoucher", "findDeletion"} /\ t.call = c /\ t.m = m
          /\ t.pc = "findVoucher" => c = "approve" /\ movement'[m].status = "APPROVED"
          /\ t.pc = "findDeletion" => c = "cancel" /\ movement'[m].status = "CANCELLED"
      BY <1>4, <1>5, <3>1 DEF Decided
    <3>3. CallKnown(tx[q])' /\ RowKnown(tx[q])'
      BY <3>1, <3>2 DEF CallKnown, RowKnown, Requesting, Deciding, Decides, AfterCommit
    <3>4. LocksKnown(tx[q], held[q])' /\ AccountsKnown(tx[q])' /\ UsageKnown(tx[q])' /\ KeyKnown(tx[q])'
      BY <3>1, <3>2 DEF LocksKnown, AccountsKnown, UsageKnown, KeyKnown, UsageLocked, UserLocked, HouseLocked, Deciding
    <3> QED BY <3>3, <3>4 DEF Known
  <2> QED BY <2>1, <2>2
<1>11. RowsOfUsers'
  BY <1>1, <1>5 DEF IInv, RowsOfUsers
<1>12. StatusMatchesHolds'
  <2>1. ASSUME NEW n \in Movements
        PROVE  CASE movement'[n].status = "none" -> hold'[n] = "none" /\ limitHold'[n] = "none"
                 [] movement'[n].status = "PENDING" ->
                      hold'[n] = (IF movement'[n].kind = "WITHDRAWAL" THEN "RESERVED" ELSE "none") /\ limitHold'[n] = "RESERVED"
                 [] movement'[n].status = "APPROVED" ->
                      hold'[n] = (IF movement'[n].kind = "WITHDRAWAL" THEN "CONSUMED" ELSE "none") /\ limitHold'[n] = "CONSUMED"
                 [] OTHER ->
                      hold'[n] = (IF movement'[n].kind = "WITHDRAWAL" THEN "RELEASED" ELSE "none") /\ limitHold'[n] = "RELEASED"
    <3>1. CASE n # m
      BY <1>1, <3>1 DEF IInv, StatusMatchesHolds
    <3>2. CASE n = m
      <4>1. /\ hold'[n] = IF r.kind = "DEPOSIT" THEN "none"
                          ELSE CASE c = "request" -> "RESERVED" [] c = "approve" -> "CONSUMED" [] OTHER -> "RELEASED"
            /\ limitHold'[n] = CASE c = "request" -> "RESERVED" [] c = "approve" -> "CONSUMED" [] OTHER -> "RELEASED"
        BY <3>2, CommitRows
      <4> QED BY <1>1, <1>5, <3>2, <4>1 DEF Decided, MovementTypes, Calls
    <3> QED BY <3>1, <3>2
  <2> QED BY <2>1 DEF StatusMatchesHolds
<1>13. NoOverdraft' /\ LimitsRespected'
  BY CommitAccounts, CommitUsage
<1>14. OneMovementPerKey'
  <2>1. ASSUME NEW n \in Movements, NEW o \in Movements, n # o, movement'[n].key = movement'[o].key,
               movement'[n].user = movement'[o].user, movement'[n].key # NoKey
        PROVE  FALSE
    <3>1. CASE c = "request"
      <4>1. ~UsedKey(r.user, r.key)
        BY <3>1, CommitKnown
      <4>2. \A i \in Movements : ~(r.key # NoKey /\ movement[i].key = r.key /\ movement[i].user = r.user)
        BY <4>1 DEF UsedKey
      <4>3. CASE n = m
        BY <1>1, <1>5, <2>1, <4>2, <4>3
      <4>4. CASE o = m
        BY <1>1, <1>5, <2>1, <4>2, <4>4
      <4>5. CASE n # m /\ o # m
        BY <1>1, <2>1, <4>5 DEF IInv, OneMovementPerKey
      <4> QED BY <4>3, <4>4, <4>5
    <3>2. CASE c # "request"
      <4>1. \A i \in Movements : movement'[i].key = movement[i].key /\ movement'[i].user = movement[i].user
        <5>1. r = movement[m]
          BY <3>2, CommitKnown
        <5>2. movement'[m].key = movement[m].key /\ movement'[m].user = movement[m].user
          BY <1>5, <5>1
        <5> QED BY <1>1, <5>2
      <4> QED BY <2>1, <4>1 DEF IInv, OneMovementPerKey
    <3> QED BY <3>1, <3>2
  <2> QED BY <2>1 DEF OneMovementPerKey
<1>15. NothingToDelete'
  BY <1>1, <1>2 DEF IInv, NothingToDelete
<1> QED BY <1>7, <1>8, <1>9, <1>10, <1>11, <1>12, <1>13, <1>14, <1>15 DEF IInv

----------------------------------------------------------------------------
(* The invariant, and what follows from it *)

LEMMA IInvInit == Init => IInv
<1> SUFFICES ASSUME Init PROVE IInv
  OBVIOUS
<1>1. TypeOK
  BY TypeInit
<1>2. LocksExclusive /\ OneInserter /\ \A p \in Procs : tx[p].pc = "idle"
  BY DEF Init, LocksExclusive, OneInserter, Idle
<1>3. \A m \in Movements : /\ movement[m].status = "none" /\ movement[m].key = NoKey
                           /\ hold[m] = "none" /\ limitHold[m] = "none" /\ voucher[m] = "none"
  BY DEF Init, NoRow
<1>4. RowsOfUsers /\ StatusMatchesHolds /\ OneMovementPerKey /\ NothingToDelete
  <2>1. deletion = {}
    BY DEF Init
  <2> QED BY <1>3, <2>1 DEF RowsOfUsers, StatusMatchesHolds, OneMovementPerKey, NothingToDelete
<1>5. NoOverdraft
  <2>1. ASSUME NEW o \in Owners PROVE account[o].balance = Opening[o] /\ account[o].blocked = 0 /\ Opening[o] \in Nat /\ Opening[o] >= MinBalance
    BY OpeningAssumption DEF Init, Untouched, Owners
  <2> QED BY <2>1, MinBalanceAssumption DEF NoOverdraft, UsableCapacity
<1>6. LimitsRespected
  <2> SUFFICES ASSUME NEW x \in UsageRows, Policy.value # NoLimit PROVE usage[x].used + usage[x].reserved <= Policy.value
    BY DEF LimitsRespected
  <2>1. Policy.value \in Nat
    BY PolicyAssumption
  <2>2. usage[x].used = 0 /\ usage[x].reserved = 0
    BY DEF Init, NoUsage
  <2> QED BY <2>1, <2>2
<1> QED BY <1>1, <1>2, <1>4, <1>5, <1>6 DEF IInv

LEMMA IInvStep == IInv /\ [Next]_vars => IInv'
<1> SUFFICES ASSUME IInv, [Next]_vars PROVE IInv'
  OBVIOUS
<1>1. CASE UNCHANGED vars
  <2>1. /\ tx' = [q \in Procs |-> IF q \in {} THEN Idle ELSE tx[q]]
        /\ held' = [q \in Procs |-> IF q \in {} THEN {} ELSE held[q]]
    BY <1>1 DEF vars, IInv, TypeOK
  <2>2. voucher' \in [Movements -> {"none", "PENDING", "SUCCESS"}] /\ NothingToDelete'
    BY <1>1 DEF vars, IInv, TypeOK, NothingToDelete
  <2>3. UNCHANGED <<movement, hold, limitHold, account, usage>>
    BY <1>1 DEF vars
  <2> QED BY <2>1, <2>2, <2>3, OutboxStep
<1>2. ASSUME NEW p \in Procs, Call(p) PROVE IInv'
  BY <1>2, BeginRequestKeeps, BeginKeeps DEF Call
<1>3. ASSUME NEW p \in Procs, Proceed(p) PROVE IInv'
  BY <1>3, InsertMovementKeeps, ReserveLimitKeeps, ReserveFundsKeeps, LockMovementKeeps, ReleaseLimitKeeps, UnblockFundsKeeps,
     HouseLegKeeps, ConsumeLimitKeeps, CommitKeeps, FindVoucherKeeps, EnqueueVoucherKeeps, FindDeletionKeeps DEF Proceed
<1>4. ASSUME NEW p \in Procs, Abort(p) \/ CrashInTail(p) PROVE IInv'
  BY <1>4, EndKeeps DEF Abort, CrashInTail
<1>5. ASSUME NEW m \in Movements, Sent(m) PROVE IInv'
  BY <1>5, SentKeeps
<1> QED BY <1>1, <1>2, <1>3, <1>4, <1>5 DEF Next

\* What each row lock protects, what a call knows at each of its steps, and
\* what the rows say, hold in every interleaving of requestMovement,
\* approveMovement, rejectMovement and cancelMovement, with aborts and crashes
\* between any two steps.
THEOREM Invariant == Spec => []IInv
BY IInvInit, IInvStep, PTL DEF Spec

\* A movement, its funds reservation and its limit reservation agree after
\* every commit.
THEOREM StatusSafe == Spec => []StatusMatchesHolds
<1>1. IInv => StatusMatchesHolds
  BY DEF IInv
<1> QED BY <1>1, Invariant, PTL

\* Neither a user nor the house ever owes gold, and no blocked balance drops
\* below zero.
THEOREM NoOverdraftSafe == Spec => []NoOverdraft
<1>1. IInv => NoOverdraft
  BY DEF IInv
<1> QED BY <1>1, Invariant, PTL

\* No interleaving of LimitsService's reserve, consume and release takes a user
\* beyond the limit of a kind of movement.
THEOREM LimitsSafe == Spec => []LimitsRespected
<1>1. IInv => LimitsRespected
  BY DEF IInv
<1> QED BY <1>1, Invariant, PTL

\* However the requests with one idempotency key race, one row comes out.
THEOREM OneMovementSafe == Spec => []OneMovementPerKey
<1>1. IInv => OneMovementPerKey
  BY DEF IInv
<1> QED BY <1>1, Invariant, PTL

\* The document of a movement is queued for approved movements only, and the
\* deletion that cancelMovement asks for never finds one.
THEOREM NothingToDeleteSafe == Spec => []NothingToDelete
<1>1. IInv => NothingToDelete
  BY DEF IInv
<1> QED BY <1>1, Invariant, PTL

----------------------------------------------------------------------------
(* The books: accounts and usage *)

\* All but the commits leave the rows of the services alone.
LEMMA OnlyCommitWrites ==
  ASSUME [Next]_vars, \A p \in Procs : ~Commit(p)
  PROVE  UNCHANGED <<movement, hold, limitHold, account, usage>>
<1>1. CASE UNCHANGED vars
  BY <1>1 DEF vars
<1>2. ASSUME NEW m \in Movements, Sent(m) PROVE UNCHANGED <<movement, hold, limitHold, account, usage>>
  BY <1>2 DEF Sent
<1>3. ASSUME NEW p \in Procs, Call(p) PROVE UNCHANGED <<movement, hold, limitHold, account, usage>>
  BY <1>3 DEF Call, BeginRequest, Begin, Step, data
<1>4. ASSUME NEW p \in Procs, Proceed(p) PROVE UNCHANGED <<movement, hold, limitHold, account, usage>>
  <2>1. CASE InsertMovement(p) \/ ReserveLimit(p) \/ ReserveFunds(p)
    BY <2>1 DEF InsertMovement, ReserveLimit, ReserveFunds, Step, LockStep, End, data
  <2>2. CASE LockMovement(p) \/ ReleaseLimit(p) \/ UnblockFunds(p)
    BY <2>2 DEF LockMovement, ReleaseLimit, UnblockFunds, Step, LockStep, End, data
  <2>3. CASE HouseLeg(p) \/ ConsumeLimit(p)
    BY <2>3 DEF HouseLeg, ConsumeLimit, LockStep, End, data
  <2>4. CASE FindVoucher(p) \/ EnqueueVoucher(p) \/ FindDeletion(p)
    BY <2>4 DEF FindVoucher, EnqueueVoucher, FindDeletion, Step, End, data
  <2> QED BY <1>4, <2>1, <2>2, <2>3, <2>4 DEF Proceed
<1>5. ASSUME NEW p \in Procs, Abort(p) \/ CrashInTail(p) PROVE UNCHANGED <<movement, hold, limitHold, account, usage>>
  BY <1>5 DEF Abort, CrashInTail, End, data
<1> QED BY <1>1, <1>2, <1>3, <1>4, <1>5 DEF Next

LEMMA TermTypes ==
  ASSUME TypeOK, TypeOK', NEW m \in Movements
  PROVE  /\ Brought(m) \in Int /\ Blocks(m) \in Int /\ \A x, s : Counts(m, x, s) \in Int
         /\ Brought(m)' \in Int /\ Blocks(m)' \in Int /\ \A x, s : Counts(m, x, s)' \in Int
<1>1. movement[m].equiv \in Int /\ -movement[m].equiv \in Int
  BY RowTypes DEF TypeOK
<1>2. movement'[m].equiv \in Int /\ -movement'[m].equiv \in Int
  BY RowTypes DEF TypeOK
<1> QED BY <1>1, <1>2 DEF Brought, Blocks, Counts

\* How the commit of p changes the terms of its movement, and no other.
LEMMA CommitTerms ==
  ASSUME IInv, NEW p \in Procs, Commit(p), NEW m, m = tx[p].m
  PROVE  /\ m \in Movements /\ movement'[m].user = tx[p].row.user
         /\ \A n \in Movements \ {m} : /\ movement'[n] = movement[n] /\ Brought(n)' = Brought(n) /\ Blocks(n)' = Blocks(n)
                                       /\ \A x, s : Counts(n, x, s)' = Counts(n, x, s)
         /\ Brought(m) = 0 /\ Brought(m)' = Gained(tx[p])
         /\ \/ tx[p].call = "request" /\ Blocks(m) = 0 /\ Blocks(m)' = Blocking(tx[p])
            \/ movement[m].user = tx[p].row.user /\ Blocks(m)' = 0 /\ Blocks(m) = -Blocking(tx[p])
<1>1. /\ m \in Movements /\ tx[p].row \in Row /\ tx[p].row.equiv \in Int /\ tx[p].call \in Calls /\ tx[p].row.kind \in MovementTypes
  BY RunningKnown, CommitKnown
<1>2. movement'[m] = [tx[p].row EXCEPT !.status = IF tx[p].call = "request" THEN "PENDING" ELSE Decided(tx[p].call)]
  BY <1>1, CommitRows
<1>3. /\ movement'[m].user = tx[p].row.user /\ movement'[m].kind = tx[p].row.kind /\ movement'[m].equiv = tx[p].row.equiv
      /\ movement'[m].status = IF tx[p].call = "request" THEN "PENDING" ELSE Decided(tx[p].call)
  BY <1>1, <1>2 DEF Row
<1>4. \A n \in Movements \ {m} : movement'[n] = movement[n] /\ hold'[n] = hold[n] /\ limitHold'[n] = limitHold[n]
  BY CommitRows
<1>5. \A n \in Movements \ {m} : /\ movement'[n] = movement[n] /\ Brought(n)' = Brought(n) /\ Blocks(n)' = Blocks(n)
                                 /\ \A x, s : Counts(n, x, s)' = Counts(n, x, s)
  BY <1>4 DEF Brought, Blocks, Counts
<1>6. /\ tx[p].call = "request" => movement[m].status = "none"
      /\ tx[p].call # "request" => movement[m].status = "PENDING" /\ tx[p].row = movement[m]
  BY CommitKnown
<1>7. Brought(m) = 0 /\ Brought(m)' = Gained(tx[p])
  <2>1. Decided(tx[p].call) = "APPROVED" <=> tx[p].call = "approve"
    BY <1>1 DEF Decided, Calls
  <2> QED BY <1>3, <1>6, <2>1 DEF Brought, Gained, Moved
<1>8. /\ hold'[m] = IF tx[p].row.kind = "DEPOSIT" THEN "none"
                    ELSE CASE tx[p].call = "request" -> "RESERVED" [] tx[p].call = "approve" -> "CONSUMED"
                           [] OTHER -> "RELEASED"
  BY <1>1, CommitRows
<1>9. CASE tx[p].call = "request"
  <2>1. hold[m] = "none"
    BY <1>1, <1>6, <1>9 DEF IInv, StatusMatchesHolds
  <2> QED BY <1>1, <1>3, <1>5, <1>7, <1>8, <1>9, <2>1 DEF Blocks, Blocking, MovementTypes
<1>10. CASE tx[p].call # "request"
  <2>1. hold[m] = IF movement[m].kind = "WITHDRAWAL" THEN "RESERVED" ELSE "none"
    BY <1>1, <1>6, <1>10, PendingHolds
  <2>2. hold'[m] # "RESERVED"
    BY <1>8, <1>10
  <2>3. Blocks(m)' = 0 /\ Blocks(m) = -Blocking(tx[p])
    BY <1>1, <1>6, <1>10, <2>1, <2>2 DEF Blocks, Blocking
  <2> QED BY <1>1, <1>3, <1>5, <1>6, <1>7, <1>10, <2>3
<1> QED BY <1>9, <1>10

\* How the sum of a term over the movements follows the term of m.
LEMMA SumFollows ==
  ASSUME NEW m \in Movements, NEW f \in [Movements -> Int], NEW h \in [Movements -> Int], \A n \in Movements \ {m} : h[n] = f[n],
         NEW d \in Int, h[m] = f[m] + d
  PROVE  SumFunction(f) \in Int /\ SumFunction(h) = SumFunction(f) + d
<1>1. SumFunction(f) \in Int /\ SumFunction(h) = SumFunction(f) + h[m] - f[m]
  BY SumChange, SumInt, MovementsAssumption
<1>2. f[m] \in Int
  OBVIOUS
<1> QED BY <1>1, <1>2

LEMMA CommitKeepsAccounts ==
  ASSUME IInv, TypeOK', AccountsMatchMovements, NEW p \in Procs, Commit(p)
  PROVE  AccountsMatchMovements'
<1> SUFFICES ASSUME NEW m, m = tx[p].m, NEW g, g = Gained(tx[p]), NEW b, b = Blocking(tx[p]) PROVE AccountsMatchMovements'
  OBVIOUS
<1> DEFINE B(u) == [n \in Movements |-> IF movement[n].user = u THEN [i \in Movements |-> Brought(i)][n] ELSE 0]
           K(u) == [n \in Movements |-> IF movement[n].user = u THEN [i \in Movements |-> Blocks(i)][n] ELSE 0]
           H == [n \in Movements |-> Brought(n)]
           v == tx[p].row.user
<1>1. /\ m \in Movements /\ movement'[m].user = v /\ g \in Int /\ b \in Int /\ v \in Users
      /\ \A n \in Movements \ {m} : movement'[n] = movement[n] /\ Brought(n)' = Brought(n) /\ Blocks(n)' = Blocks(n)
      /\ Brought(m) = 0 /\ Brought(m)' = g
      /\ \/ Blocks(m) = 0 /\ Blocks(m)' = b
         \/ movement[m].user = v /\ Blocks(m)' = 0 /\ Blocks(m) = -b
  <2>1. /\ m \in Movements /\ movement'[m].user = v /\ Brought(m) = 0 /\ Brought(m)' = g
        /\ \A n \in Movements \ {m} : movement'[n] = movement[n] /\ Brought(n)' = Brought(n) /\ Blocks(n)' = Blocks(n)
    BY CommitTerms
  <2>2. \/ Blocks(m) = 0 /\ Blocks(m)' = b
        \/ movement[m].user = v /\ Blocks(m)' = 0 /\ Blocks(m) = -b
    BY CommitTerms
  <2>3. g \in Int /\ b \in Int /\ v \in Users
    BY CommitAccounts, CommitKnown
  <2> QED BY <2>1, <2>2, <2>3
<1>2. \A n \in Movements : /\ Brought(n) \in Int /\ Blocks(n) \in Int
                           /\ Brought(n)' \in Int /\ Blocks(n)' \in Int
  BY TermTypes DEF IInv
<1>3. \A u : \A n \in Movements :
        /\ B(u)[n] = IF movement[n].user = u THEN Brought(n) ELSE 0
        /\ B(u)'[n] = IF movement'[n].user = u THEN Brought(n)' ELSE 0
        /\ K(u)[n] = IF movement[n].user = u THEN Blocks(n) ELSE 0
        /\ K(u)'[n] = IF movement'[n].user = u THEN Blocks(n)' ELSE 0
  OBVIOUS
<1>4. \A u : /\ B(u) \in [Movements -> Int] /\ B(u)' \in [Movements -> Int] /\ K(u) \in [Movements -> Int] /\ K(u)' \in [Movements -> Int]
             /\ \A n \in Movements \ {m} : B(u)'[n] = B(u)[n] /\ K(u)'[n] = K(u)[n]
             /\ B(u)'[m] = B(u)[m] + (IF u = v THEN g ELSE 0)
             /\ K(u)'[m] = K(u)[m] + (IF u = v THEN b ELSE 0)
  <2>1. ASSUME NEW u PROVE B(u) \in [Movements -> Int] /\ B(u)' \in [Movements -> Int] /\ K(u) \in [Movements -> Int] /\ K(u)' \in [Movements -> Int]
    BY <1>2
  <2> HIDE DEF B, K
  <2>2. ASSUME NEW u, NEW n \in Movements \ {m} PROVE B(u)'[n] = B(u)[n] /\ K(u)'[n] = K(u)[n]
    BY <1>1, <1>3
  <2>3. ASSUME NEW u PROVE B(u)'[m] = B(u)[m] + (IF u = v THEN g ELSE 0)
    BY <1>1, <1>3
  <2>4. ASSUME NEW u PROVE K(u)'[m] = K(u)[m] + (IF u = v THEN b ELSE 0)
    BY <1>1, <1>3
  <2> QED BY <2>1, <2>2, <2>3, <2>4
<1>5. H \in [Movements -> Int] /\ H' \in [Movements -> Int] /\ (\A n \in Movements \ {m} : H'[n] = H[n]) /\ H'[m] = H[m] + g
  BY <1>1, <1>2
<1>6. /\ \A u \in Users : account[u].balance = Opening[u] + SumFunction(B(u)) /\ account[u].blocked = SumFunction(K(u))
      /\ account[House].balance = Opening[House] - SumFunction(H) /\ account[House].blocked = 0
  BY DEF AccountsMatchMovements
<1>7. /\ account'[v].balance = account[v].balance + g /\ account'[v].blocked = account[v].blocked + b
      /\ \A u \in Users : u # v => account'[u] = account[u]
      /\ account'[House].balance = account[House].balance - g /\ account'[House].blocked = account[House].blocked
  BY CommitAccounts
<1>8. \A u \in Users \union {House} : Opening[u] \in Int
  BY OpeningAssumption
<1> HIDE DEF B, K, H, v
<1>9. ASSUME NEW u \in Users
      PROVE  account'[u].balance = Opening[u] + SumFunction(B(u)') /\ account'[u].blocked = SumFunction(K(u)')
  <2>1. CASE u = v
    <3>1. SumFunction(B(u)) \in Int /\ SumFunction(B(u)') = SumFunction(B(u)) + g
      BY <1>1, <1>4, <2>1, SumFollows
    <3>2. SumFunction(K(u)) \in Int /\ SumFunction(K(u)') = SumFunction(K(u)) + b
      BY <1>1, <1>4, <2>1, SumFollows
    <3> QED BY <1>1, <1>6, <1>7, <1>8, <2>1, <3>1, <3>2
  <2>2. CASE u # v
    <3>1. SumFunction(B(u)) \in Int /\ SumFunction(B(u)') = SumFunction(B(u)) + 0
      BY <1>1, <1>4, <2>2, SumFollows
    <3>2. SumFunction(K(u)) \in Int /\ SumFunction(K(u)') = SumFunction(K(u)) + 0
      BY <1>1, <1>4, <2>2, SumFollows
    <3> QED BY <1>6, <1>7, <2>2, <3>1, <3>2
  <2> QED BY <2>1, <2>2
<1>10. account'[House].balance = Opening[House] - SumFunction(H') /\ account'[House].blocked = 0
  <2>1. SumFunction(H) \in Int /\ SumFunction(H') = SumFunction(H) + g
    BY <1>1, <1>5, SumFollows
  <2> QED BY <1>1, <1>6, <1>7, <1>8, <2>1
<1> QED BY <1>9, <1>10 DEF AccountsMatchMovements, B, K, H

LEMMA CommitKeepsUsage ==
  ASSUME IInv, TypeOK', UsageMatchesMovements, NEW p \in Procs, Commit(p)
  PROVE  UsageMatchesMovements'
<1> SUFFICES ASSUME NEW m, m = tx[p].m, NEW x \in UsageRows
             PROVE  usage'[x] = [used |-> SumFunction([n \in Movements |-> Counts(n, x, "CONSUMED")']),
                                 reserved |-> SumFunction([n \in Movements |-> Counts(n, x, "RESERVED")'])]
  BY DEF UsageMatchesMovements
<1> DEFINE n == tx[p].row.equiv
           y == <<tx[p].row.user, tx[p].row.kind>>
           F(s) == [i \in Movements |-> Counts(i, x, s)]
           c == tx[p].call
           used == usage[x].used
           reserved == usage[x].reserved
<1>1. /\ m \in Movements /\ n \in Int /\ usage[x] \in Usage /\ used \in Int /\ reserved \in Int
      /\ usage[x] = [used |-> used, reserved |-> reserved]
  <2>1. m \in Movements /\ n \in Int /\ usage[x] \in Usage
    BY RunningKnown, CommitKnown DEF IInv, TypeOK
  <2> QED BY <2>1, UsageFacts
<1>2. ASSUME NEW s PROVE F(s) \in [Movements -> Int] /\ F(s)' \in [Movements -> Int] /\ \A i \in Movements \ {m} : F(s)'[i] = F(s)[i]
  <2>1. \A i \in Movements : Counts(i, x, s) \in Int /\ Counts(i, x, s)' \in Int
    BY TermTypes DEF IInv
  <2>2. \A i \in Movements \ {m} : Counts(i, x, s)' = Counts(i, x, s)
    BY CommitTerms
  <2> QED BY <2>1, <2>2
<1>3. usage[x] = [used |-> SumFunction(F("CONSUMED")), reserved |-> SumFunction(F("RESERVED"))]
  BY DEF UsageMatchesMovements
<1>4. \A s : F(s)[m] = Counts(m, x, s) /\ F(s)'[m] = Counts(m, x, s)'
  BY <1>1
<1>5. /\ limitHold[m] = IF c = "request" THEN "none" ELSE "RESERVED"
      /\ limitHold'[m] = CASE c = "request" -> "RESERVED" [] c = "approve" -> "CONSUMED" [] OTHER -> "RELEASED"
      /\ c # "request" => tx[p].row = movement[m]
      /\ movement'[m].user = tx[p].row.user /\ movement'[m].kind = tx[p].row.kind /\ movement'[m].equiv = n
  <2>1. limitHold[m] = IF c = "request" THEN "none" ELSE "RESERVED"
    BY <1>1, CommitKnown, PendingHolds DEF IInv, StatusMatchesHolds
  <2>2. /\ movement'[m] = [tx[p].row EXCEPT !.status = IF c = "request" THEN "PENDING" ELSE Decided(c)]
        /\ limitHold'[m] = CASE c = "request" -> "RESERVED" [] c = "approve" -> "CONSUMED" [] OTHER -> "RELEASED"
    BY <1>1, CommitRows
  <2>3. tx[p].row \in Row
    BY CommitKnown, RunningKnown
  <2>4. c # "request" => tx[p].row = movement[m]
    BY CommitKnown
  <2> QED BY <2>1, <2>2, <2>3, <2>4 DEF Row
<1>6. /\ x # y => usage'[x] = usage[x]
      /\ x = y => usage'[x] = CASE c = "request" -> [used |-> used, reserved |-> reserved + n]
                                [] c = "approve" -> [used |-> used + n, reserved |-> reserved - n]
                                [] OTHER -> [used |-> used, reserved |-> reserved - n]
  <2>1. x # y => usage'[x] = usage[x]
    BY CommitUsage
  <2>2. x = y => usage'[x] = UseRow(tx[p])
    BY CommitUsage
  <2>3. /\ ReserveUsage(usage[x], n) = [used |-> used, reserved |-> reserved + n]
        /\ ConsumeUsage(usage[x], n) = [used |-> used + n, reserved |-> reserved - n]
        /\ ReleaseUsage(usage[x], n) = [used |-> used, reserved |-> reserved - n]
    BY <1>1, UsageFacts
  <2> QED BY <2>1, <2>2, <2>3 DEF UseRow
<1>7. /\ Counts(m, x, "CONSUMED") = 0 /\ Counts(m, x, "CONSUMED")' = (IF c = "approve" /\ x = y THEN n ELSE 0)
      /\ Counts(m, x, "RESERVED") = (IF c # "request" /\ x = y THEN n ELSE 0)
      /\ Counts(m, x, "RESERVED")' = (IF c = "request" /\ x = y THEN n ELSE 0)
  BY <1>5 DEF Counts
<1>8. c \in Calls
  BY RunningKnown, CommitKnown
<1> HIDE DEF F
<1>9. /\ SumFunction(F("CONSUMED")) = used /\ SumFunction(F("RESERVED")) = reserved
  BY <1>1, <1>3
<1>10. /\ SumFunction(F("CONSUMED")') = used + Counts(m, x, "CONSUMED")' - Counts(m, x, "CONSUMED")
       /\ SumFunction(F("RESERVED")') = reserved + Counts(m, x, "RESERVED")' - Counts(m, x, "RESERVED")
  BY <1>1, <1>2, <1>4, <1>9, SumChange, MovementsAssumption
<1>11. usage'[x] = [used |-> SumFunction(F("CONSUMED")'), reserved |-> SumFunction(F("RESERVED")')]
  <2> HIDE DEF n, used, reserved, y, c
  <2>1. CASE x # y
    BY <1>1, <1>6, <1>7, <1>10, <2>1
  <2>2. CASE x = y /\ c = "request"
    BY <1>1, <1>6, <1>7, <1>10, <2>2
  <2>3. CASE x = y /\ c = "approve"
    BY <1>1, <1>6, <1>7, <1>10, <2>3
  <2>4. CASE x = y /\ c \notin {"request", "approve"}
    BY <1>1, <1>6, <1>7, <1>10, <2>4
  <2> QED BY <2>1, <2>2, <2>3, <2>4
<1> QED BY <1>11 DEF F

LEMMA BooksInit == Init => AccountsMatchMovements /\ UsageMatchesMovements
<1> SUFFICES ASSUME Init PROVE AccountsMatchMovements /\ UsageMatchesMovements
  OBVIOUS
<1>1. \A m \in Movements : /\ Brought(m) = 0 /\ Blocks(m) = 0
                           /\ \A x : Counts(m, x, "CONSUMED") = 0 /\ Counts(m, x, "RESERVED") = 0
  BY DEF Init, NoRow, Brought, Blocks, Counts
<1>2. ASSUME NEW f \in [Movements -> {0}] PROVE SumFunction(f) = 0
  BY SumZero, MovementsAssumption
<1>3. \A o \in Users \union {House} : account[o].balance = Opening[o] /\ account[o].blocked = 0 /\ Opening[o] \in Int
  BY OpeningAssumption DEF Init, Untouched, Owners
<1>4. AccountsMatchMovements
  <2>1. ASSUME NEW u \in Users
        PROVE  /\ SumFunction([m \in Movements |-> IF movement[m].user = u THEN [n \in Movements |-> Brought(n)][m] ELSE 0]) = 0
               /\ SumFunction([m \in Movements |-> IF movement[m].user = u THEN [n \in Movements |-> Blocks(n)][m] ELSE 0]) = 0
    <3>1. /\ [m \in Movements |-> IF movement[m].user = u THEN [n \in Movements |-> Brought(n)][m] ELSE 0] \in [Movements -> {0}]
          /\ [m \in Movements |-> IF movement[m].user = u THEN [n \in Movements |-> Blocks(n)][m] ELSE 0] \in [Movements -> {0}]
      BY <1>1
    <3> QED BY <1>2, <3>1
  <2>2. SumFunction([m \in Movements |-> Brought(m)]) = 0
    <3>1. [m \in Movements |-> Brought(m)] \in [Movements -> {0}]
      BY <1>1
    <3> QED BY <1>2, <3>1
  <2> QED BY <1>3, <2>1, <2>2 DEF AccountsMatchMovements
<1>5. UsageMatchesMovements
  <2>1. ASSUME NEW x \in UsageRows, NEW s \in {"CONSUMED", "RESERVED"} PROVE SumFunction([m \in Movements |-> Counts(m, x, s)]) = 0
    <3>1. [m \in Movements |-> Counts(m, x, s)] \in [Movements -> {0}]
      BY <1>1
    <3> QED BY <1>2, <3>1
  <2> QED BY <2>1 DEF UsageMatchesMovements, Init, NoUsage
<1> QED BY <1>4, <1>5

LEMMA BooksStep ==
  ASSUME IInv, TypeOK', [Next]_vars, AccountsMatchMovements, UsageMatchesMovements
  PROVE  AccountsMatchMovements' /\ UsageMatchesMovements'
<1>1. CASE \A p \in Procs : ~Commit(p)
  <2>1. UNCHANGED <<movement, hold, limitHold, account, usage>>
    BY <1>1, OnlyCommitWrites
  <2> QED BY <2>1 DEF AccountsMatchMovements, UsageMatchesMovements, Brought, Blocks, Counts
<1>2. CASE \E p \in Procs : Commit(p)
  BY <1>2, CommitKeepsAccounts, CommitKeepsUsage
<1> QED BY <1>1, <1>2

LEMMA BooksInvariant == Spec => [](IInv /\ AccountsMatchMovements /\ UsageMatchesMovements)
<1>1. Init => IInv /\ AccountsMatchMovements /\ UsageMatchesMovements
  BY IInvInit, BooksInit
<1>2. IInv /\ AccountsMatchMovements /\ UsageMatchesMovements /\ [Next]_vars
        => (IInv /\ AccountsMatchMovements /\ UsageMatchesMovements)'
  <2> SUFFICES ASSUME IInv, AccountsMatchMovements, UsageMatchesMovements, [Next]_vars
               PROVE  (IInv /\ AccountsMatchMovements /\ UsageMatchesMovements)'
    OBVIOUS
  <2>1. IInv' /\ TypeOK'
    BY IInvStep DEF IInv
  <2> QED BY <2>1, BooksStep
<1> QED BY <1>1, <1>2, PTL DEF Spec

\* The two-sided transfers of gold between the users and the house lose
\* nothing: every account holds what the approved movements brought and took,
\* and blocks what the pending withdrawals ask for.
THEOREM AccountsSafe == Spec => []AccountsMatchMovements
BY BooksInvariant, PTL

\* The usage rows count the pending and the approved movements, and none twice.
THEOREM UsageSafe == Spec => []UsageMatchesMovements
BY BooksInvariant, PTL

----------------------------------------------------------------------------
(* Decisions, and the refinement of Holds *)

\* A commit decides a movement that was pending, or inserts one.
LEMMA DecisionsStep == IInv /\ [Next]_vars => KeepsDecisions
<1> SUFFICES ASSUME IInv, [Next]_vars, NEW n \in Movements, movement[n].status \notin {"none", "PENDING"}
             PROVE  movement'[n] = movement[n]
  BY DEF KeepsDecisions
<1>1. CASE \A p \in Procs : ~Commit(p)
  BY <1>1, OnlyCommitWrites
<1>2. ASSUME NEW p \in Procs, Commit(p) PROVE movement'[n] = movement[n]
  <2>1. movement[tx[p].m].status \in {"none", "PENDING"}
    BY <1>2, CommitKnown
  <2>2. n # tx[p].m
    BY <2>1
  <2> QED BY <1>2, <2>2, CommitRows
<1> QED BY <1>1, <1>2

\* An approved movement is never cancelled, a cancelled or rejected one never
\* approved, by whatever calls were already running.
THEOREM DecisionsStay == Spec => DecisionsAreFinal
<1>1. IInv /\ [Next]_vars => [KeepsDecisions]_vars
  BY DecisionsStep
<1> QED BY <1>1, Invariant, PTL DEF Spec, DecisionsAreFinal

\* What u holds before and after a commit, row by row: only the row that is
\* committed changes, and only if u fetches gold with it.
LEMMA CommitFetched ==
  ASSUME IInv, NEW p \in Procs, Commit(p), NEW u \in Users, NEW m, m = tx[p].m
  PROVE  /\ \A n \in Movements \ {m} : Phase(u)'[n] = Phase(u)[n] /\ Amount(u)'[n] = Amount(u)[n]
         /\ ~(tx[p].row.user = u /\ tx[p].row.kind = "WITHDRAWAL") => UNCHANGED <<Phase(u), Amount(u)>>
<1>1. /\ m \in Movements /\ tx[p].row \in Row /\ tx[p].call \in Calls
      /\ tx[p].call = "request" => movement[m].status = "none"
      /\ tx[p].call # "request" => movement[m] = tx[p].row
  BY CommitKnown, RunningKnown
<1>2. ASSUME NEW n \in Movements \ {m}
      PROVE  movement'[n] = movement[n]
  BY CommitRows
<1>3. ASSUME NEW n \in Movements \ {m}
      PROVE  Phase(u)'[n] = Phase(u)[n] /\ Amount(u)'[n] = Amount(u)[n]
  BY <1>2 DEF Phase, Amount, Fetched
<1>4. ASSUME ~(tx[p].row.user = u /\ tx[p].row.kind = "WITHDRAWAL") PROVE UNCHANGED <<Phase(u), Amount(u)>>
  <2>1. movement'[m].user = tx[p].row.user /\ movement'[m].kind = tx[p].row.kind
    <3>1. movement'[m] = [tx[p].row EXCEPT !.status = IF tx[p].call = "request" THEN "PENDING" ELSE Decided(tx[p].call)]
      BY <1>1, CommitRows
    <3> QED BY <1>1, <3>1 DEF Row
  <2>2. ~Fetched(m, u) /\ ~Fetched(m, u)'
    BY <1>1, <1>4, <2>1 DEF Fetched
  <2>3. \A n \in Movements : IF Fetched(n, u)' THEN Fetched(n, u) /\ movement'[n] = movement[n] ELSE ~Fetched(n, u)
    BY <1>2, <2>2 DEF Fetched
  <2> QED BY <2>3 DEF Phase, Amount
<1> QED BY <1>3, <1>4

\* What is left to u.
LEMMA CommitAvailable ==
  ASSUME IInv, NEW p \in Procs, Commit(p), NEW u \in Users
  PROVE  /\ Available(u) \in Int
         /\ Available(u)' = Available(u) + IF tx[p].row.user = u THEN Gained(tx[p]) - Blocking(tx[p]) ELSE 0
<1>1. /\ account[u].balance \in Int /\ account[u].blocked \in Int
      /\ account'[u].balance \in Int /\ account'[u].blocked \in Int /\ MinBalance \in Int
  BY CommitAccounts, MinBalanceAssumption DEF IInv, TypeOK, Owners, Account
<1>2. CASE tx[p].row.user = u
  BY <1>1, <1>2, CommitAccounts DEF Available, UsableCapacity
<1>3. CASE tx[p].row.user # u
  <2>1. account'[u] = account[u]
    BY <1>3, CommitAccounts
  <2> QED BY <1>1, <1>3, <2>1 DEF Available, UsableCapacity
<1> QED BY <1>2, <1>3

\* A commit of what u fetches is one step of Holds.
LEMMA CommitFetches ==
  ASSUME IInv, NEW p \in Procs, Commit(p), NEW u \in Users, tx[p].row.user = u, tx[p].row.kind = "WITHDRAWAL"
  PROVE  Abstract(u)!Next
<1> SUFFICES ASSUME NEW m, m = tx[p].m, NEW c, c = tx[p].call, NEW n, n = tx[p].row.equiv PROVE Abstract(u)!Next
  OBVIOUS
<1>1. /\ m \in Movements /\ tx[p].row \in Row /\ c \in Calls /\ n \in Int /\ n \in Nat
      /\ c = "request" => movement[m].status = "none" /\ n \in Amounts
      /\ c # "request" => movement[m] = tx[p].row /\ movement[m].status = "PENDING"
  BY CommitKnown, RunningKnown DEF RowKnown
<1>2. /\ DOMAIN Phase(u) = Movements /\ DOMAIN Amount(u) = Movements
      /\ Phase(u)' = [i \in Movements |-> Phase(u)'[i]] /\ Amount(u)' = [i \in Movements |-> Amount(u)'[i]]
      /\ Phase(u) = [i \in Movements |-> Phase(u)[i]] /\ Amount(u) = [i \in Movements |-> Amount(u)[i]]
  BY DEF Phase, Amount
<1>3. \A i \in Movements \ {m} : Phase(u)'[i] = Phase(u)[i] /\ Amount(u)'[i] = Amount(u)[i]
  BY CommitFetched
<1>4. movement'[m] = [tx[p].row EXCEPT !.status = IF c = "request" THEN "PENDING" ELSE Decided(c)]
  BY <1>1, CommitRows
<1>5. /\ movement'[m].user = u /\ movement'[m].kind = "WITHDRAWAL" /\ movement'[m].equiv = n
      /\ movement'[m].status = IF c = "request" THEN "PENDING" ELSE Decided(c)
  BY <1>1, <1>4 DEF Row
<1>6. Fetched(m, u)' /\ Amount(u)'[m] = n /\ Phase(u)'[m] = PhaseOf(IF c = "request" THEN "PENDING" ELSE Decided(c))
  BY <1>1, <1>5 DEF Fetched, Amount, Phase, Decided, Calls
<1>7. Available(u) \in Int /\ Available(u)' = Available(u) + (Gained(tx[p]) - Blocking(tx[p]))
  BY CommitAvailable
<1>8. CASE c = "request"
  <2>1. Phase(u)[m] = "free" /\ Phase(u)'[m] = "held"
    BY <1>1, <1>6, <1>8 DEF Phase, Fetched, PhaseOf
  <2>2. n <= Available(u)
    <3>1. CanReserve(account[u], n)
      BY <1>8, CommitKnown, RunningKnown DEF AccountsKnown, UserRow
    <3> QED BY <1>1, <1>7, <3>1 DEF CanReserve, Available
  <2>3. Available(u)' = Available(u) - n
    BY <1>1, <1>7, <1>8 DEF Gained, Blocking
  <2>4. Phase(u)' = [Phase(u) EXCEPT ![m] = "held"] /\ Amount(u)' = [Amount(u) EXCEPT ![m] = n]
    BY <1>1, <1>2, <1>3, <1>6, <2>1, ZenonT(60)
  <2>5. Abstract(u)!Hold(m)
    BY <1>1, <1>8, <2>1, <2>2, <2>3, <2>4 DEF Abstract!Hold
  <2> QED BY <1>1, <2>5 DEF Abstract!Next
<1>9. CASE c # "request"
  <2>1. Phase(u)[m] = "held" /\ Amount(u)[m] = n /\ Amount(u)' = Amount(u)
    <3>1. Fetched(m, u) /\ movement[m].equiv = n
      BY <1>1, <1>9 DEF Fetched
    <3>2. Phase(u)[m] = "held" /\ Amount(u)[m] = n
      BY <1>1, <1>9, <3>1 DEF Phase, Amount, PhaseOf
    <3> QED BY <1>1, <1>2, <1>3, <1>6, <3>2 DEF Amount
  <2>2. CASE c = "approve"
    <3>1. Phase(u)' = [Phase(u) EXCEPT ![m] = "paid"]
      <4>1. Phase(u)'[m] = "paid"
        BY <1>6, <2>2 DEF PhaseOf, Decided
      <4> QED BY <1>1, <1>2, <1>3, <4>1
    <3>2. Available(u)' = Available(u)
      BY <1>1, <1>7, <2>2 DEF Gained, Blocking, Moved
    <3> QED BY <1>1, <2>1, <3>1, <3>2 DEF Abstract!Next, Abstract!Pay
  <2>3. CASE c # "approve"
    <3>1. Phase(u)' = [Phase(u) EXCEPT ![m] = "returned"]
      <4>1. Phase(u)'[m] = "returned"
        BY <1>6, <1>9, <2>3 DEF PhaseOf, Decided
      <4> QED BY <1>1, <1>2, <1>3, <4>1
    <3>2. Available(u)' = Available(u) + Amount(u)[m]
      BY <1>1, <1>7, <1>9, <2>1, <2>3 DEF Gained, Blocking
    <3> QED BY <1>1, <2>1, <3>1, <3>2 DEF Abstract!Next, Abstract!Return
  <2> QED BY <2>2, <2>3
<1> QED BY <1>8, <1>9

\* Any other commit brings gold to u, or leaves u alone.
LEMMA CommitBrings ==
  ASSUME IInv, NEW p \in Procs, Commit(p), NEW u \in Users, ~(tx[p].row.user = u /\ tx[p].row.kind = "WITHDRAWAL")
  PROVE  Brings(u) \/ UNCHANGED abstractVars(u)
<1> SUFFICES ASSUME NEW m, m = tx[p].m PROVE Brings(u) \/ UNCHANGED abstractVars(u)
  OBVIOUS
<1>1. UNCHANGED <<Phase(u), Amount(u)>>
  BY CommitFetched
<1>2. /\ Available(u) \in Int
      /\ Available(u)' = Available(u) + IF tx[p].row.user = u THEN Gained(tx[p]) - Blocking(tx[p]) ELSE 0
  BY CommitAvailable
<1>3. CASE tx[p].row.user = u /\ tx[p].call = "approve"
  <2>1. /\ m \in Movements /\ movement[m] = tx[p].row /\ movement[m].status = "PENDING" /\ tx[p].row.equiv \in Int
        /\ tx[p].row.kind = "DEPOSIT" /\ tx[p].row \in Row
    BY <1>3, CommitKnown, RunningKnown DEF MovementTypes
  <2>2. movement'[m] = [tx[p].row EXCEPT !.status = "APPROVED"]
    BY <1>3, <2>1, CommitRows DEF Decided
  <2>3. movement'[m].status = "APPROVED"
    BY <2>1, <2>2 DEF Row
  <2>4. Available(u)' = Available(u) + movement[m].equiv
    BY <1>2, <1>3, <2>1 DEF Gained, Blocking, Moved
  <2> QED BY <1>1, <1>3, <2>1, <2>3, <2>4 DEF Brings
<1>4. CASE ~(tx[p].row.user = u /\ tx[p].call = "approve")
  <2>1. Available(u)' = Available(u)
    BY <1>2, <1>4 DEF Gained, Blocking
  <2> QED BY <1>1, <2>1 DEF abstractVars
<1> QED BY <1>3, <1>4

\* requestMovement, approve, reject and cancel, with their locks, transactions
\* and crashes, implement the abstract holds for every user at once: the
\* movement, the reservation and the account row change together.
THEOREM HoldsImplemented == Spec => ImplementsHolds
<1>1. Init => \A u \in Users : Abstract(u)!Init
  BY OpeningAssumption, MinBalanceAssumption
     DEF Init, Abstract!Init, Phase, Amount, Available, Fetched, NoRow, Untouched, Owners, UsableCapacity
<1>2. IInv /\ [Next]_vars => [\A u \in Users : Abstract(u)!Next \/ Brings(u) \/ UNCHANGED abstractVars(u)]_vars
  <2> SUFFICES ASSUME IInv, [Next]_vars, NEW u \in Users
               PROVE  Abstract(u)!Next \/ Brings(u) \/ UNCHANGED abstractVars(u)
    OBVIOUS
  <2>1. CASE \A p \in Procs : ~Commit(p)
    <3>1. UNCHANGED <<movement, account>>
      BY <2>1, OnlyCommitWrites
    <3> QED BY <3>1 DEF abstractVars, Phase, Amount, Available, Fetched
  <2>2. CASE \E p \in Procs : Commit(p)
    BY <2>2, CommitFetches, CommitBrings
  <2> QED BY <2>1, <2>2
<1> QED BY <1>1, <1>2, Invariant, PTL DEF Spec, ImplementsHolds
=============================================================================
