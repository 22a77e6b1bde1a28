------------------------------- MODULE Custody -------------------------------
(***************************************************************************)
(* PhysicalCustodyService over AccountsService and LimitsService: users    *)
(* bring gold to the house or fetch theirs.  A movement is requested,      *)
(* which reserves limits and, for a withdrawal, gold; then approved,       *)
(* rejected or cancelled, each under the lock of its row.  approve and     *)
(* cancel queue a document for Tahesab after their commit.                 *)
(*                                                                         *)
(* Daily and monthly usage rows move alike: one stands for both.           *)
(***************************************************************************)
EXTENDS RowLocks, Ledger, Limits, FiniteSets, Functions

CONSTANTS
  Users,           \* who requests movements
  House,           \* the house
  Movements,       \* ids of PhysicalCustodyMovement rows
  Kinds,           \* movement types asked for
  Keys, NoKey,     \* idempotency keys; NoKey when none is sent
  Weights,         \* weights asked for, in 0.0001 g
  Ayars,           \* their finenesses
  Opening,         \* balance of each gold account at the start, in 0.000001 g
  Policy           \* the limit that applies to each kind of movement

MovementTypes == {"DEPOSIT", "WITHDRAWAL"}

ASSUME MovementsAssumption == IsFiniteSet(Movements)   \* the rows of a table
ASSUME KindsAssumption == Kinds \subseteq MovementTypes
ASSUME KeysAssumption == NoKey \notin Keys
ASSUME WeightsAssumption == Weights \subseteq Nat \ {0} /\ Ayars \subseteq Nat \ {0}
ASSUME OwnersAssumption == House \notin Users
ASSUME OpeningAssumption == \A o \in Users \union {House} : Opening[o] \in Nat /\ Opening[o] >= MinBalance
ASSUME PolicyAssumption == Policy \in [value : Nat \union {NoLimit}, kycRequired : BOOLEAN]
ASSUME NoLimitAssumption == NoLimit \notin Nat

Owners == Users \union {House}

AccountLock(o) == <<"account", o>>
UsageLock(u, k) == <<"usage", u, k>>
MovementLock(m) == <<"row", m>>
KeyLock(u, k) == <<"key", u, k>>
Locks == {AccountLock(o) : o \in Owners} \union {UsageLock(o, k) : o \in Owners, k \in MovementTypes}
           \union {MovementLock(m) : m \in Movements} \union {KeyLock(o, k) : o \in Owners, k \in Keys}

VARIABLES
  movement,  \* PhysicalCustodyMovement rows
  hold,      \* AccountReservation of (PHYSICAL_CUSTODY_MOVEMENT, m): its status
  limitHold, \* LimitReservation of (PHYSICAL_CUSTODY_MOVEMENT, m): its status
  account,   \* the gold account rows
  usage,     \* the LimitUsage row of each user and kind
  voucher,   \* the DoNewSanadVKHGOLD row of m in TahesabOutbox
  deletion   \* the movements with a DoDeleteSanad row in TahesabOutbox

data == <<movement, hold, limitHold, account, usage, voucher, deletion>>
vars == <<movement, hold, limitHold, account, usage, voucher, deletion, held, tx>>

\* toEquivGram750: weight * ayar / 750, rounded half up to 0.000001 g.
EquivGram750(w, ayar) == (200 * w * ayar + 750) \div 1500

Amounts == {EquivGram750(w, a) : w \in Weights, a \in Ayars}

MovementStatus == {"none", "PENDING", "APPROVED", "REJECTED", "CANCELLED"}
Row == [status : MovementStatus, user : Owners, kind : MovementTypes,
        weight : Weights \union {0}, ayar : Ayars \union {750}, equiv : Amounts \union {0}, key : Keys \union {NoKey}]
NoRow == [status |-> "none", user |-> House, kind |-> "DEPOSIT", weight |-> 0, ayar |-> 750, equiv |-> 0, key |-> NoKey]
NoUsage == [used |-> 0, reserved |-> 0]
UsageRows == Users \X MovementTypes
Untouched == [o \in Owners |-> [balance |-> Opening[o], blocked |-> 0]]

InTransaction == {"insert", "reserveLimit", "reserve", "lockMovement", "releaseLimit", "unblock", "house", "consumeLimit", "commit"}
AfterCommit == {"findVoucher", "enqueue", "findDeletion"}

\* A transaction's local state: its arguments (row is the movement it inserts
\* or has locked), and the versions of the account rows and of the usage row
\* it will commit.
Calls == {"request", "approve", "reject", "cancel"}
TxRecord == [pc : InTransaction \union AfterCommit, call : Calls, m : Movements, row : Row,
             rows : [Owners -> Account], use : Usage]

TypeOK ==
  /\ movement \in [Movements -> Row]
  /\ hold \in [Movements -> HoldStatus] /\ limitHold \in [Movements -> HoldStatus]
  /\ account \in [Owners -> Account] /\ usage \in [UsageRows -> Usage]
  /\ voucher \in [Movements -> {"none", "PENDING", "SUCCESS"}] /\ deletion \subseteq Movements
  /\ held \in [Procs -> SUBSET Locks]
  /\ tx \in [Procs -> TxRecord \union {Idle}]

Init ==
  /\ movement = [m \in Movements |-> NoRow]
  /\ hold = [m \in Movements |-> "none"]
  /\ limitHold = [m \in Movements |-> "none"]
  /\ account = Untouched
  /\ usage = [x \in UsageRows |-> NoUsage]
  /\ voucher = [m \in Movements |-> "none"]
  /\ deletion = {}
  /\ held = [p \in Procs |-> {}]
  /\ tx = [p \in Procs |-> Idle]

----------------------------------------------------------------------------
(* The life of a transaction *)

Begun(pc, call, m, row) == [pc |-> pc, call |-> call, m |-> m, row |-> row, rows |-> Untouched, use |-> NoUsage]

Step(p, t) == Go(p, t) /\ UNCHANGED data
LockStep(p, l, t) == Lock(p, l, t) /\ UNCHANGED data
End(p) == Finish(p) /\ UNCHANGED data

Abort(p) == tx[p].pc \in InTransaction /\ End(p)
CrashInTail(p) == tx[p].pc \in AfterCommit /\ End(p)

Use(p) == <<tx[p].row.user, tx[p].row.kind>>
Equiv(p) == tx[p].row.equiv

----------------------------------------------------------------------------
(* requestMovement *)

\* Another call is inserting the row m.
Inserting(m) == \E q \in Procs : ~At(q, "idle") /\ tx[q].call = "request" /\ tx[q].m = m

BeginRequest(p, m, u, kind, w, ayar, k) ==
  /\ At(p, "idle")
  /\ movement[m].status = "none" /\ ~Inserting(m)
  /\ Step(p, Begun("insert", "request", m,
       [status |-> "PENDING", user |-> u, kind |-> kind, weight |-> w, ayar |-> ayar, equiv |-> EquivGram750(w, ayar), key |-> k]))

UsedKey(u, k) == k # NoKey /\ \E m \in Movements : movement[m].key = k /\ movement[m].user = u

InsertMovement(p) ==
  LET u == tx[p].row.user
      k == tx[p].row.key
      t == [tx[p] EXCEPT !.pc = "reserveLimit"]
  IN
  /\ At(p, "insert")
  /\ CanLock(p, KeyLock(u, k)) \/ k = NoKey
  /\ IF UsedKey(u, k) THEN End(p) ELSE IF k = NoKey THEN Step(p, t) ELSE LockStep(p, KeyLock(u, k), t)

ReserveLimit(p) ==
  LET x == Use(p) IN
  /\ At(p, "reserveLimit")
  /\ CanLock(p, UsageLock(x[1], x[2]))
  /\ IF WithinPolicy(usage[x], Equiv(p), Policy)
     THEN LockStep(p, UsageLock(x[1], x[2]), [tx[p] EXCEPT !.use = ReserveUsage(usage[x], Equiv(p)),
            !.pc = IF x[2] = "WITHDRAWAL" THEN "reserve" ELSE "commit"])
     ELSE End(p)

ReserveFunds(p) ==
  LET u == tx[p].row.user IN
  /\ At(p, "reserve")
  /\ CanLock(p, AccountLock(u))
  /\ IF CanReserve(account[u], Equiv(p))
     THEN LockStep(p, AccountLock(u), [tx[p] EXCEPT !.pc = "commit", !.rows[u] = Reserve(account[u], Equiv(p))])
     ELSE End(p)

----------------------------------------------------------------------------
(* approveMovement, rejectMovement, cancelMovement *)

Begin(p, m, call) ==
  /\ At(p, "idle")
  /\ movement[m].status # "none"
  /\ Step(p, Begun("lockMovement", call, m, movement[m]))

\* Mutant: an approved movement may be cancelled.
GoesOnApproved(call, m) == movement[m].status = "PENDING" \/ (call = "cancel" /\ movement[m].status = "APPROVED")

GoesOn(call, m) == movement[m].status = "PENDING"

\* A repeated call returns the row, and queues its document again.
LockMovement(p) ==
  LET m == tx[p].m
      c == tx[p].call
      st == movement[m].status
  IN
  /\ At(p, "lockMovement")
  /\ CanLock(p, MovementLock(m))
  /\ IF GoesOn(c, m)
     THEN LockStep(p, MovementLock(m), [tx[p] EXCEPT !.pc = IF c = "approve" THEN "unblock" ELSE "releaseLimit", !.row = movement[m]])
     ELSE IF c = "approve" /\ st = "APPROVED" THEN Step(p, [tx[p] EXCEPT !.pc = "findVoucher"])
     ELSE IF c = "cancel" /\ st = "CANCELLED" THEN Step(p, [tx[p] EXCEPT !.pc = "findDeletion"])
     ELSE End(p)

\* limits.release of rejectMovement and cancelMovement
ReleaseLimit(p) ==
  LET x == Use(p)
      row == IF limitHold[tx[p].m] \in LimitReleasable THEN ReleaseUsage(usage[x], Equiv(p)) ELSE usage[x]
  IN
  /\ At(p, "releaseLimit")
  /\ LockStep(p, UsageLock(x[1], x[2]), [tx[p] EXCEPT !.use = row,
       !.pc = IF x[2] = "WITHDRAWAL" THEN "unblock" ELSE "commit"])

\* The user's account: releaseFunds; or consumeFunds, if it is a withdrawal,
\* and applyTransaction.
UnblockFunds(p) ==
  LET u == tx[p].row.user
      n == Equiv(p)
      blocked == hold[tx[p].m] = "RESERVED"
      row == IF blocked THEN Unblock(account[u], n) ELSE account[u]
      delta == IF tx[p].row.kind = "DEPOSIT" THEN n ELSE -n
  IN
  /\ At(p, "unblock")
  /\ CanLock(p, AccountLock(u))
  /\ IF blocked /\ ~CanUnblock(account[u], n) THEN End(p)
     ELSE IF tx[p].call # "approve"
     THEN LockStep(p, AccountLock(u), [tx[p] EXCEPT !.pc = "commit", !.rows[u] = row])
     ELSE IF CanApply(row, delta)
     THEN LockStep(p, AccountLock(u), [tx[p] EXCEPT !.pc = "house", !.rows[u] = Apply(row, delta)])
     ELSE End(p)

\* The house's applyTransaction.
HouseLeg(p) ==
  LET delta == IF tx[p].row.kind = "DEPOSIT" THEN -Equiv(p) ELSE Equiv(p) IN
  /\ At(p, "house")
  /\ CanLock(p, AccountLock(House))
  /\ IF CanApply(account[House], delta)
     THEN LockStep(p, AccountLock(House), [tx[p] EXCEPT !.pc = "consumeLimit", !.rows[House] = Apply(account[House], delta)])
     ELSE End(p)

\* limits.consume of approveMovement
ConsumeLimit(p) ==
  LET x == Use(p)
      row == IF limitHold[tx[p].m] \in LimitConsumable THEN ConsumeUsage(usage[x], Equiv(p)) ELSE usage[x]
  IN
  /\ At(p, "consumeLimit")
  /\ LockStep(p, UsageLock(x[1], x[2]), [tx[p] EXCEPT !.pc = "commit", !.use = row])

----------------------------------------------------------------------------
(* Commit, and the outbox tails *)

\* Mutant: a status the table does not know.
DecidedAsTrades(call) == CASE call = "approve" -> "APPROVED" [] call = "reject" -> "REJECTED" [] OTHER -> "CANCELLED_BY_ADMIN"

\* The status a decision leaves.
Decided(call) == CASE call = "approve" -> "APPROVED" [] call = "reject" -> "REJECTED" [] OTHER -> "CANCELLED"

HoldAfter(h, call, from) ==
  CASE call = "approve" /\ h \in from -> "CONSUMED"
    [] call \in {"reject", "cancel"} /\ h \in from -> "RELEASED"
    [] OTHER -> h

Commit(p) ==
  LET m == tx[p].m
      c == tx[p].call
      r == tx[p].row
  IN
  /\ At(p, "commit")
  /\ movement' = [movement EXCEPT ![m] = IF c = "request" THEN r ELSE [@ EXCEPT !.status = Decided(c)]]
  /\ hold' = [hold EXCEPT ![m] = IF c = "request" THEN (IF r.kind = "WITHDRAWAL" THEN "RESERVED" ELSE "none")
                                   ELSE HoldAfter(@, c, {"RESERVED"})]
  /\ limitHold' = [limitHold EXCEPT ![m] = IF c = "request" THEN "RESERVED"
                                   ELSE HoldAfter(@, c, IF c = "approve" THEN LimitConsumable ELSE LimitReleasable)]
  /\ account' = [o \in Owners |-> IF AccountLock(o) \in held[p] THEN tx[p].rows[o] ELSE account[o]]
  /\ usage' = [x \in DOMAIN usage |-> IF UsageLock(x[1], x[2]) \in held[p] THEN tx[p].use ELSE usage[x]]
  /\ Leave(p, CASE c = "approve" -> Begun("findVoucher", c, m, NoRow)
                [] c = "cancel" -> Begun("findDeletion", c, m, NoRow)
                [] OTHER -> Idle)
  /\ UNCHANGED <<voucher, deletion>>

\* enqueueOnce of the document of m
FindVoucher(p) ==
  /\ At(p, "findVoucher")
  /\ IF voucher[tx[p].m] # "none" THEN End(p) ELSE Step(p, [tx[p] EXCEPT !.pc = "enqueue"])

EnqueueVoucher(p) ==
  /\ At(p, "enqueue")
  /\ voucher' = [voucher EXCEPT ![tx[p].m] = "PENDING"]
  /\ Finish(p)
  /\ UNCHANGED <<movement, hold, limitHold, account, usage, deletion>>

\* The worker of TahesabOutbox sends it and keeps the factor code.
Sent(m) ==
  /\ voucher[m] = "PENDING"
  /\ voucher' = [voucher EXCEPT ![m] = "SUCCESS"]
  /\ UNCHANGED <<movement, hold, limitHold, account, usage, deletion, held, tx>>

\* Only a document that Tahesab has is deleted, and only once.
FindDeletion(p) ==
  LET m == tx[p].m IN
  /\ At(p, "findDeletion")
  /\ deletion' = IF voucher[m] = "SUCCESS" THEN deletion \union {m} ELSE deletion
  /\ Finish(p)
  /\ UNCHANGED <<movement, hold, limitHold, account, usage, voucher>>

----------------------------------------------------------------------------
Call(p) ==
  \/ \E m \in Movements, u \in Users, kind \in Kinds, w \in Weights, a \in Ayars, k \in Keys \union {NoKey} :
       BeginRequest(p, m, u, kind, w, a, k)
  \/ \E m \in Movements, c \in {"approve", "reject", "cancel"} : Begin(p, m, c)

Proceed(p) ==
  \/ InsertMovement(p) \/ ReserveLimit(p) \/ ReserveFunds(p)
  \/ LockMovement(p) \/ ReleaseLimit(p) \/ UnblockFunds(p) \/ HouseLeg(p) \/ ConsumeLimit(p)
  \/ Commit(p) \/ FindVoucher(p) \/ EnqueueVoucher(p) \/ FindDeletion(p)

Next ==
  \/ \E p \in Procs : Call(p) \/ Proceed(p) \/ Abort(p) \/ CrashInTail(p)
  \/ \E m \in Movements : Sent(m)

Spec == Init /\ [][Next]_vars

\* The lock a call waits for.
Wanted(p) ==
  CASE At(p, "insert") -> IF tx[p].row.key = NoKey THEN {} ELSE {KeyLock(tx[p].row.user, tx[p].row.key)}
    [] tx[p].pc \in {"reserveLimit", "releaseLimit", "consumeLimit"} -> {UsageLock(Use(p)[1], Use(p)[2])}
    [] tx[p].pc \in {"reserve", "unblock"} -> {AccountLock(tx[p].row.user)}
    [] At(p, "house") -> {AccountLock(House)}
    [] At(p, "lockMovement") -> {MovementLock(tx[p].m)}
    [] OTHER -> {}

DeadlockVictim == \E p \in Procs : Deadlocked(p, Wanted) /\ Abort(p)

----------------------------------------------------------------------------
(* Properties *)

\* A movement and its reservations tell one story, whatever approve, reject
\* and cancel overlap; a deposit of gold reserves no funds.
StatusMatchesHolds ==
  \A m \in Movements :
    LET r == movement[m]
        both(s) == hold[m] = (IF r.kind = "WITHDRAWAL" THEN s ELSE "none") /\ limitHold[m] = s
    IN
    CASE r.status = "none" -> hold[m] = "none" /\ limitHold[m] = "none"
      [] r.status = "PENDING" -> both("RESERVED")
      [] r.status = "APPROVED" -> both("CONSUMED")
      [] OTHER -> both("RELEASED")

\* What a movement has brought to the account of its user, what it blocks
\* there, and what it counts in the usage row x as a reservation of status s.
Brought(m) ==
  IF movement[m].status # "APPROVED" THEN 0 ELSE IF movement[m].kind = "DEPOSIT" THEN movement[m].equiv ELSE -movement[m].equiv
Blocks(m) == IF hold[m] = "RESERVED" THEN movement[m].equiv ELSE 0
Counts(m, x, s) == IF limitHold[m] = s /\ <<movement[m].user, movement[m].kind>> = x THEN movement[m].equiv ELSE 0

\* The gold accounts hold what the approved movements brought and took, and
\* block what the pending withdrawals ask for: no update of the shared house
\* account is lost, and no gold appears or vanishes.
AccountsMatchMovements ==
  /\ \A u \in Users :
       LET sum(f) == SumFunction([m \in Movements |-> IF movement[m].user = u THEN f[m] ELSE 0]) IN
       /\ account[u].balance = Opening[u] + sum([m \in Movements |-> Brought(m)])
       /\ account[u].blocked = sum([m \in Movements |-> Blocks(m)])
  /\ account[House].balance = Opening[House] - SumFunction([m \in Movements |-> Brought(m)])
  /\ account[House].blocked = 0

\* The usage of each kind counts the pending and the approved movements.
UsageMatchesMovements ==
  \A x \in UsageRows :
    LET total(s) == SumFunction([m \in Movements |-> Counts(m, x, s)])
    IN usage[x] = [used |-> total("CONSUMED"), reserved |-> total("RESERVED")]

\* No account of gold is overdrawn, the house's included, nor its blocked
\* balance driven below zero.
NoOverdraft == \A o \in Owners : UsableCapacity(account[o]) >= 0 /\ account[o].blocked >= 0

\* However requests and decisions overlap, no user goes beyond the limit of a
\* kind of movement.
LimitsRespected == \A x \in UsageRows : Policy.value # NoLimit => usage[x].used + usage[x].reserved <= Policy.value

\* Calls of one user with one idempotency key leave one movement.
OneMovementPerKey ==
  \A m, n \in Movements : m # n /\ movement[m].key = movement[n].key /\ movement[m].user = movement[n].user
                            => movement[m].key = NoKey

\* Tahesab only ever hears of approved movements, and since no approved
\* movement is cancelled nothing is ever deleted there: the deletion that
\* cancelMovement queues has no document to delete.
NothingToDelete ==
  /\ \A m \in Movements : voucher[m] # "none" => movement[m].status = "APPROVED"
  /\ deletion = {}

\* A decided movement stays as it is, also for the calls that were running: an
\* approved one is not cancelled, a cancelled one not approved.
KeepsDecisions == \A m \in Movements : movement[m].status \notin {"none", "PENDING"} => movement'[m] = movement[m]

\* The variables of Holds, for the gold that u fetches.
Fetched(m, u) == movement[m].status # "none" /\ movement[m].user = u /\ movement[m].kind = "WITHDRAWAL"
PhaseOf(status) == CASE status = "none" -> "free" [] status = "PENDING" -> "held" [] status = "APPROVED" -> "paid" [] OTHER -> "returned"
Phase(u) == [m \in Movements |-> IF Fetched(m, u) THEN PhaseOf(movement[m].status) ELSE "free"]
Amount(u) == [m \in Movements |-> IF Fetched(m, u) THEN movement[m].equiv ELSE 0]
Available(u) == UsableCapacity(account[u])

abstractVars(u) == <<Phase(u), Amount(u), Available(u)>>

Abstract(u) ==
  INSTANCE Holds WITH
    Ids <- Movements,
    Initial <- Opening[u] - MinBalance,
    phase <- Phase(u), amount <- Amount(u), available <- Available(u)

\* Gold that u brought is approved, and becomes available.
Brings(u) ==
  \E m \in Movements :
    /\ movement[m].kind = "DEPOSIT" /\ movement[m].user = u
    /\ movement[m].status = "PENDING" /\ movement'[m].status = "APPROVED"
    /\ UNCHANGED <<Phase(u), Amount(u)>>
    /\ Available(u)' = Available(u) + movement[m].equiv

\* What a user fetches is held once and paid or returned once, as Holds says,
\* whatever he brings and others fetch meanwhile.
ImplementsHolds ==
  /\ \A u \in Users : Abstract(u)!Init
  /\ [][\A u \in Users : Abstract(u)!Next \/ Brings(u) \/ UNCHANGED abstractVars(u)]_vars

\* A decided movement stays as it is, also for the calls that were running.
DecisionsAreFinal == [][KeepsDecisions]_vars
=============================================================================
