----------------------------- MODULE Remittances -----------------------------
(***************************************************************************)
(* RemittancesService over AccountsService and LimitsService: users who    *)
(* send each other money of one instrument.                                *)
(*                                                                         *)
(* A remittance of createForUser waits, with its funds and limits          *)
(* reserved, for approve, reject or cancelByUser, which lock its row       *)
(* first.  The legs of a group are paid at once, and may settle earlier    *)
(* remittances: createGroupInternal reads those sources without a lock and *)
(* overwrites their status.                                                *)
(*                                                                         *)
(* The daily and the monthly LimitUsage row of a sender are reserved,      *)
(* consumed and released alike: one stands for both.                       *)
(***************************************************************************)
EXTENDS RowLocks, Ledger, Limits, FiniteSets, Functions

CONSTANTS
  UserCount,       \* the users, in the order of their account ids
  Remits,          \* ids of Remittance rows
  Keys, NoKey,     \* idempotency keys; NoKey when none is sent
  Routes,          \* who sends to whom
  Amounts,         \* amounts a remittance or a leg may have
  Parts,           \* amounts of a leg that may settle a source
  MaxLegs,         \* bound on the legs of a group
  Opening,         \* balance of every account at the start
  Policy           \* the limit that applies to a sender

RemitsAssumption == IsFiniteSet(Remits)
KeysAssumption == NoKey \notin Keys
UserCountAssumption == UserCount \in Nat \ {0}
RoutesAssumption == Routes \subseteq (1..UserCount) \X (1..UserCount)
AmountsAssumption == Amounts \subseteq Nat \ {0} /\ Parts \subseteq Nat \ {0}
OpeningAssumption == Opening \in Nat /\ Opening >= MinBalance
PartsAssumption == IsFiniteSet(Parts)

\* What the settlement properties assume: any two legs share an account.
SharedAssumption ==
  \A v, w \in Routes : v[1] # v[2] /\ w[1] # w[2] => {v[1], v[2]} \intersect {w[1], w[2]} # {}

Users == 1..UserCount

RemittanceStatus == {"none", "PENDING", "PARTIAL", "COMPLETED", "CANCELLED"}

AccountLock(u) == <<"account", u>>
UsageLock(u) == <<"usage", u>>
RemitLock(r) == <<"row", r>>
KeyLock(u, k) == <<"key", u, k>>

VARIABLES
  remit,     \* Remittance rows
  hold,      \* AccountReservation of (REMITTANCE, r): its status
  limitHold, \* LimitReservation of (REMITTANCE, r): its status
  account,   \* the account row of each user
  usage,     \* the LimitUsage row of each user
  paid,      \* the remittances with their two AccountTx rows
  links,     \* RemittanceSettlementLink rows
  queued     \* legs with a row in TahesabOutbox

data == <<remit, hold, limitHold, account, usage, paid, links, queued>>
vars == <<remit, hold, limitHold, account, usage, paid, links, queued, held, tx>>

Row == [status : RemittanceStatus, from : Users, to : Users, amount : Amounts \union {0}, key : Keys \union {NoKey}]
NoRow == [status |-> "none", from |-> 1, to |-> 1, amount |-> 0, key |-> NoKey]
NoUsage == [used |-> 0, reserved |-> 0]
Untouched == [u \in Users |-> [balance |-> Opening, blocked |-> 0]]

Link == [leg : Remits, source : Remits, amount : Parts]

InTransaction == {"insert", "reserveLimit", "reserve", "lockRemit", "releaseLimit", "unblock", "receive", "consumeLimit",
                  "checkFunds", "lockAccounts", "apply", "readSources", "lockSources", "commit"}
Pcs == InTransaction \union {"enqueue"}

Calls == {"create", "approve", "reject", "cancel", "group"}

\* A call that inserts or decides the remittances in D and settles those in E.
CallOn(D, E) ==
  [pc : Pcs, call : Calls, by : Users, new : [D -> Row], adds : SUBSET Link, toLock : SUBSET (Users \union Remits),
   after : [E -> {"PARTIAL", "COMPLETED"}], rows : [Users -> Account], use : Usage]

IsCall(t) ==
  /\ DOMAIN t.new \subseteq Remits /\ DOMAIN t.after \subseteq Remits
  /\ t \in CallOn(DOMAIN t.new, DOMAIN t.after)

Locks == {AccountLock(u) : u \in Users} \union {UsageLock(u) : u \in Users}
         \union {RemitLock(r) : r \in Remits} \union {KeyLock(u, k) : u \in Users, k \in Keys}

TypeOK ==
  /\ remit \in [Remits -> Row]
  /\ hold \in [Remits -> HoldStatus] /\ limitHold \in [Remits -> HoldStatus]
  /\ account \in [Users -> Account] /\ usage \in [Users -> Usage]
  /\ paid \subseteq Remits /\ links \subseteq Link /\ queued \subseteq Remits
  /\ held \in [Procs -> SUBSET Locks] /\ DOMAIN tx = Procs
  /\ \A p \in Procs : tx[p] = Idle \/ IsCall(tx[p])

Init ==
  /\ remit = [r \in Remits |-> NoRow]
  /\ hold = [r \in Remits |-> "none"]
  /\ limitHold = [r \in Remits |-> "none"]
  /\ account = Untouched
  /\ usage = [u \in Users |-> NoUsage]
  /\ paid = {}
  /\ links = {}
  /\ queued = {}
  /\ held = [p \in Procs |-> {}]
  /\ tx = [p \in Procs |-> Idle]

----------------------------------------------------------------------------
(* The life of a transaction *)

\* Its arguments (rows it inserts, links it adds), the accounts and sources
\* still to lock, the status it will give each source, and the account and
\* usage rows it will commit.
Begun(pc, call, by, new, adds) ==
  [pc |-> pc, call |-> call, by |-> by, new |-> new, adds |-> adds, toLock |-> {}, after |-> <<>>,
   rows |-> Untouched, use |-> NoUsage]

Step(p, t) == Go(p, t) /\ UNCHANGED data
LockStep(p, l, t) == Lock(p, l, t) /\ UNCHANGED data
End(p) == Finish(p) /\ UNCHANGED data

Abort(p) == tx[p].pc \in InTransaction /\ End(p)
CrashInTail(p) == At(p, "enqueue") /\ End(p)

\* The one remittance of createForUser, approve, reject and cancelByUser.
Id(p) == CHOOSE r \in DOMAIN tx[p].new : TRUE
This(p) == tx[p].new[Id(p)]

\* Ids that no row has and no running call is about to insert.
Inserting(r) == \E q \in Procs : ~At(q, "idle") /\ r \in DOMAIN tx[q].new
Fresh == {r \in Remits : remit[r].status = "none" /\ ~Inserting(r)}

----------------------------------------------------------------------------
(* createForUser *)

BeginCreate(p, r, from, to, n, k) ==
  /\ At(p, "idle")
  /\ r \in Fresh /\ to # from
  /\ Step(p, Begun("insert", "create", from,
       [x \in {r} |-> [status |-> "PENDING", from |-> from, to |-> to, amount |-> n, key |-> k]], {}))

UsedKey(u, k) == k # NoKey /\ \E r \in Remits : remit[r].key = k /\ remit[r].from = u

InsertRemittance(p) ==
  LET u == This(p).from
      k == This(p).key
      t == [tx[p] EXCEPT !.pc = "reserveLimit"]
  IN
  /\ At(p, "insert")
  /\ CanLock(p, KeyLock(u, k)) \/ k = NoKey
  /\ IF UsedKey(u, k) THEN End(p) ELSE IF k = NoKey THEN Step(p, t) ELSE LockStep(p, KeyLock(u, k), t)

ReserveLimit(p) ==
  LET u == This(p).from
      n == This(p).amount
  IN
  /\ At(p, "reserveLimit")
  /\ CanLock(p, UsageLock(u))
  /\ IF WithinPolicy(usage[u], n, Policy)
     THEN LockStep(p, UsageLock(u), [tx[p] EXCEPT !.pc = "reserve", !.use = ReserveUsage(usage[u], n)])
     ELSE End(p)

ReserveFunds(p) ==
  LET u == This(p).from
      n == This(p).amount
  IN
  /\ At(p, "reserve")
  /\ CanLock(p, AccountLock(u))
  /\ IF CanReserve(account[u], n)
     THEN LockStep(p, AccountLock(u), [tx[p] EXCEPT !.pc = "commit", !.rows[u] = Reserve(account[u], n)])
     ELSE End(p)

----------------------------------------------------------------------------
(* approve, reject, cancelByUser: the remittance is locked first *)

Begin(p, r, call, by) ==
  /\ At(p, "idle")
  /\ remit[r].status # "none"
  /\ Step(p, Begun("lockRemit", call, by, [x \in {r} |-> remit[x]], {}))

\* Mutant: a cancelled remittance may still be approved.
GoesOnCancelled(call, r, by) ==
  /\ remit[r].status = "PENDING" \/ (call = "approve" /\ remit[r].status = "CANCELLED")
  /\ call = "cancel" => remit[r].from = by

\* Only a PENDING one is decided; cancelByUser is for its sender.
GoesOn(call, r, by) ==
  /\ remit[r].status = "PENDING"
  /\ call = "cancel" => remit[r].from = by

LockRemittance(p) ==
  LET r == Id(p) IN
  /\ At(p, "lockRemit")
  /\ CanLock(p, RemitLock(r))
  /\ IF GoesOn(tx[p].call, r, tx[p].by)
     THEN LockStep(p, RemitLock(r), [tx[p] EXCEPT !.pc = IF tx[p].call = "approve" THEN "unblock" ELSE "releaseLimit", !.new[r] = remit[r]])
     ELSE End(p)

\* limits.release of reject and cancelByUser
ReleaseLimit(p) ==
  LET u == This(p).from IN
  /\ At(p, "releaseLimit")
  /\ LockStep(p, UsageLock(u), [tx[p] EXCEPT !.pc = "unblock",
       !.use = IF limitHold[Id(p)] \in LimitReleasable THEN ReleaseUsage(usage[u], This(p).amount) ELSE usage[u]])

\* releaseFunds; or consumeFunds and the sender's applyTransaction of approve
UnblockFunds(p) ==
  LET u == This(p).from
      n == This(p).amount
      row == IF hold[Id(p)] = "RESERVED" THEN Unblock(account[u], n) ELSE account[u]
  IN
  /\ At(p, "unblock")
  /\ CanLock(p, AccountLock(u))
  /\ IF hold[Id(p)] = "RESERVED" /\ ~CanUnblock(account[u], n) THEN End(p)
     ELSE IF tx[p].call # "approve"
     THEN LockStep(p, AccountLock(u), [tx[p] EXCEPT !.pc = "commit", !.rows[u] = row])
     ELSE IF CanApply(row, -n)
     THEN LockStep(p, AccountLock(u), [tx[p] EXCEPT !.pc = "receive", !.rows[u] = Apply(row, -n)])
     ELSE End(p)

\* the receiver's applyTransaction of approve
Receive(p) ==
  LET v == This(p).to
      n == This(p).amount
  IN
  /\ At(p, "receive")
  /\ CanLock(p, AccountLock(v))
  /\ IF CanApply(account[v], n)
     THEN LockStep(p, AccountLock(v), [tx[p] EXCEPT !.pc = "consumeLimit", !.rows[v] = Apply(account[v], n)])
     ELSE End(p)

\* limits.consume of approve
ConsumeLimit(p) ==
  LET u == This(p).from IN
  /\ At(p, "consumeLimit")
  /\ LockStep(p, UsageLock(u), [tx[p] EXCEPT !.pc = "commit",
       !.use = IF limitHold[Id(p)] \in LimitConsumable THEN ConsumeUsage(usage[u], This(p).amount) ELSE usage[u]])

----------------------------------------------------------------------------
(* createGroupInternal *)

LegOf(from, to, n) == [status |-> "COMPLETED", from |-> from, to |-> to, amount |-> n, key |-> NoKey]

\* The legs, and for each leg the sources it settles with a part of itself.
BeginGroup(p, from, legs, adds) ==
  /\ At(p, "idle")
  /\ \A r \in DOMAIN legs : r \in Fresh /\ legs[r].to # from
  /\ Step(p, Begun("checkFunds", "group", from, legs, adds))

LegTotal(p) == SumFunction([r \in DOMAIN tx[p].new |-> tx[p].new[r].amount])
Parties(p) == {tx[p].by} \union {tx[p].new[r].to : r \in DOMAIN tx[p].new}

\* The check before the legs are inserted reads the account without a lock.
CheckFunds(p) ==
  /\ At(p, "checkFunds")
  /\ IF UsableCapacity(account[tx[p].by]) < LegTotal(p)
     THEN End(p)
     ELSE Step(p, [tx[p] EXCEPT !.pc = "lockAccounts", !.toLock = Parties(p)])

\* The account with the lowest id.
NextAccounts(p) == {u \in tx[p].toLock : \A v \in tx[p].toLock : u <= v}

LockAccounts(p) ==
  /\ At(p, "lockAccounts")
  /\ \E u \in NextAccounts(p) :
       LockStep(p, AccountLock(u), [tx[p] EXCEPT !.rows[u] = account[u], !.toLock = @ \ {u},
                                         !.pc = IF tx[p].toLock = {u} THEN "apply" ELSE "lockAccounts"])

\* Two applyTransaction calls per leg, with every account locked.
ApplyLegs(p) ==
  LET got(u) == SumFunction([r \in DOMAIN tx[p].new |-> IF tx[p].new[r].to = u THEN tx[p].new[r].amount ELSE 0]) IN
  /\ At(p, "apply")
  /\ IF CanApply(tx[p].rows[tx[p].by], -LegTotal(p))
     THEN Step(p, [tx[p] EXCEPT !.pc = IF tx[p].adds = {} THEN "commit" ELSE "readSources",
            !.rows = [u \in Users |-> Apply(@[u], IF u = tx[p].by THEN -LegTotal(p) ELSE got(u))]])
     ELSE End(p)

Sources(p) == {l.source : l \in tx[p].adds}

\* What has been settled of r by the links in L, and what leg r has allocated.
Settled(L, r) == SumFunction([l \in {k \in L : k.source = r} |-> l.amount])
Allocated(L, r) == SumFunction([l \in {k \in L : k.leg = r} |-> l.amount])

\* The remaining amount of source r covers every link of this group.
Fits(p, r) == remit[r].status # "none" /\ Settled(links \union tx[p].adds, r) <= remit[r].amount

\* Mutant: a source counts as settled after its first link.
SettledStatusEager(p, r) == "COMPLETED"

\* Mutant: a source stays PARTIAL when its last part is settled.
SettledStatusLate(p, r) == "PARTIAL"

\* The status that follows from the links read here.
SettledStatus(p, r) == IF Settled(links \union tx[p].adds, r) = remit[r].amount THEN "COMPLETED" ELSE "PARTIAL"

\* Mutant: a leg may allocate more than it carries.
LegCoversAny(p) == TRUE

LegCovers(p) == \A r \in DOMAIN tx[p].new : Allocated(tx[p].adds, r) <= tx[p].new[r].amount

\* The sources and their links are read without a lock.
ReadSources(p) ==
  /\ At(p, "readSources")
  /\ IF LegCovers(p) /\ \A r \in Sources(p) : Fits(p, r)
     THEN Step(p, [tx[p] EXCEPT !.pc = "lockSources", !.toLock = Sources(p),
                                !.after = [r \in Sources(p) |-> SettledStatus(p, r)]])
     ELSE End(p)

\* A link and its source's status are written, one source after the other.
LockSources(p) ==
  /\ At(p, "lockSources")
  /\ \E r \in tx[p].toLock :
       LockStep(p, RemitLock(r), [tx[p] EXCEPT !.toLock = @ \ {r}, !.pc = IF tx[p].toLock = {r} THEN "commit" ELSE "lockSources"])

----------------------------------------------------------------------------
(* Commit, and the outbox tail of a group *)

\* Mutant: reject uses the status of a trade.
StatusAfterRejected(p, r) == IF tx[p].call = "reject" THEN "REJECTED" ELSE tx[p].new[r].status

\* The status a transaction leaves in each row it inserts or decides.
StatusAfter(p, r) ==
  CASE tx[p].call = "approve" -> "COMPLETED"
    [] tx[p].call \in {"reject", "cancel"} -> "CANCELLED"
    [] OTHER -> tx[p].new[r].status

HoldAfter(h, call, from) ==
  CASE call = "create" -> "RESERVED"
    [] call = "approve" /\ h \in from -> "CONSUMED"
    [] call \in {"reject", "cancel"} /\ h \in from -> "RELEASED"
    [] OTHER -> h

Commit(p) ==
  LET rs == DOMAIN tx[p].new
      c == tx[p].call
  IN
  /\ At(p, "commit")
  /\ remit' = [r \in Remits |->
       CASE r \in rs -> [tx[p].new[r] EXCEPT !.status = StatusAfter(p, r)]
         [] r \in DOMAIN tx[p].after -> [remit[r] EXCEPT !.status = tx[p].after[r]]
         [] OTHER -> remit[r]]
  /\ hold' = [r \in Remits |-> IF r \in rs THEN HoldAfter(hold[r], c, {"RESERVED"}) ELSE hold[r]]
  /\ limitHold' = [r \in Remits |-> IF r \in rs
       THEN HoldAfter(limitHold[r], c, IF c = "approve" THEN LimitConsumable ELSE LimitReleasable) ELSE limitHold[r]]
  /\ account' = [u \in Users |-> IF AccountLock(u) \in held[p] THEN tx[p].rows[u] ELSE account[u]]
  /\ usage' = [u \in Users |-> IF UsageLock(u) \in held[p] THEN tx[p].use ELSE usage[u]]
  /\ paid' = IF c \in {"approve", "group"} THEN paid \union rs ELSE paid
  /\ links' = links \union tx[p].adds
  /\ Leave(p, IF c = "group" THEN [Begun("enqueue", "group", tx[p].by, <<>>, {}) EXCEPT !.toLock = rs] ELSE Idle)
  /\ UNCHANGED queued

\* enqueueRemittanceLeg, leg after leg
Enqueue(p) ==
  /\ At(p, "enqueue")
  /\ \E r \in tx[p].toLock :
       /\ queued' = queued \union {r}
       /\ IF tx[p].toLock = {r} THEN Finish(p) ELSE Go(p, [tx[p] EXCEPT !.toLock = @ \ {r}])
  /\ UNCHANGED <<remit, hold, limitHold, account, usage, paid, links>>

----------------------------------------------------------------------------
\* A leg may settle the rows that exist, which are not its own group's.
LinksOf(legs) == [leg : DOMAIN legs, source : {r \in Remits : remit[r].status # "none"}, amount : Parts]

LegChoices(S, from) == [S -> {LegOf(from, v, n) : v \in {w \in Users : <<from, w>> \in Routes}, n \in Amounts}]

Call(p) ==
  \/ \E r \in Remits, w \in Routes, n \in Amounts, k \in Keys \union {NoKey} : BeginCreate(p, r, w[1], w[2], n, k)
  \/ \E r \in Remits, c \in {"approve", "reject"} : Begin(p, r, c, remit[r].to)
  \/ \E r \in Remits, u \in Users : Begin(p, r, "cancel", u)
  \/ \E S \in SUBSET Fresh, u \in Users :
       /\ S # {} /\ Cardinality(S) <= MaxLegs
       /\ \E legs \in LegChoices(S, u) : \E adds \in SUBSET LinksOf(legs) :
            /\ Cardinality(adds) <= MaxLegs
            /\ BeginGroup(p, u, legs, adds)

Proceed(p) ==
  \/ InsertRemittance(p) \/ ReserveLimit(p) \/ ReserveFunds(p)
  \/ LockRemittance(p) \/ ReleaseLimit(p) \/ UnblockFunds(p) \/ Receive(p) \/ ConsumeLimit(p)
  \/ CheckFunds(p) \/ LockAccounts(p) \/ ApplyLegs(p) \/ ReadSources(p) \/ LockSources(p)
  \/ Commit(p) \/ Enqueue(p)

Next == \E p \in Procs : Call(p) \/ Proceed(p) \/ Abort(p) \/ CrashInTail(p)

Spec == Init /\ [][Next]_vars

\* The lock a call waits for.
Wanted(p) ==
  CASE At(p, "insert") -> IF This(p).key = NoKey THEN {} ELSE {KeyLock(This(p).from, This(p).key)}
    [] tx[p].pc \in {"reserveLimit", "releaseLimit", "consumeLimit"} -> {UsageLock(This(p).from)}
    [] tx[p].pc \in {"reserve", "unblock"} -> {AccountLock(This(p).from)}
    [] At(p, "receive") -> {AccountLock(This(p).to)}
    [] At(p, "lockRemit") -> {RemitLock(Id(p))}
    [] At(p, "lockAccounts") -> {AccountLock(u) : u \in NextAccounts(p)}
    [] At(p, "lockSources") -> {RemitLock(r) : r \in tx[p].toLock}
    [] OTHER -> {}

DeadlockVictim == \E p \in Procs : Deadlocked(p, Wanted) /\ Abort(p)

----------------------------------------------------------------------------
(* Properties *)

\* Without settlements, a remittance, its reservations and its two ledger
\* entries tell one story, whatever approve, reject and cancelByUser overlap.
StatusMatchesHolds ==
  \A r \in Remits :
    LET story == <<hold[r], limitHold[r], r \in paid>> IN
    CASE remit[r].status = "none" -> story = <<"none", "none", FALSE>>
      [] remit[r].status = "PENDING" -> story = <<"RESERVED", "RESERVED", FALSE>>
      [] remit[r].status = "COMPLETED" -> story \in {<<"CONSUMED", "CONSUMED", TRUE>>, <<"none", "none", TRUE>>}
      [] remit[r].status = "CANCELLED" -> story = <<"RELEASED", "RELEASED", FALSE>>
      [] OTHER -> FALSE

\* What a paid remittance brings to u, and what one blocks of u's money.
Gain(row, u) == IF row.to = u THEN row.amount ELSE IF row.from = u THEN -row.amount ELSE 0
Blocks(r, u) == IF hold[r] = "RESERVED" /\ remit[r].from = u THEN remit[r].amount ELSE 0

\* Every account row is what the paid remittances and the open reservations
\* leave: approve and groups in both directions lose no update, and money
\* only moves.
AccountsMatchRemittances ==
  \A u \in Users :
    /\ account[u].balance = Opening + SumFunction([r \in Remits |-> IF r \in paid THEN Gain(remit[r], u) ELSE 0])
    /\ account[u].blocked = SumFunction([r \in Remits |-> Blocks(r, u)])

\* A group spends nothing that a pending remittance has reserved, though it
\* checks the capacity before it locks the account.
NoOverdraft == \A u \in Users : UsableCapacity(account[u]) >= 0

Counts(r, u, st) == IF limitHold[r] = st /\ remit[r].from = u THEN remit[r].amount ELSE 0

\* The usage of a sender counts its pending and its approved remittances.
UsageMatchesRemittances ==
  \A u \in Users :
    LET total(st) == SumFunction([r \in Remits |-> Counts(r, u, st)]) IN
    usage[u].reserved = total("RESERVED") /\ usage[u].used = total("CONSUMED")

\* Calls of one sender with one idempotency key leave one remittance.
OneRemittancePerKey ==
  \A r, s \in Remits : r # s /\ remit[r].key = remit[s].key /\ remit[r].from = remit[s].from => remit[r].key = NoKey

\* Without settlements a decision is final.
KeepsDecisions == \A r \in Remits : remit[r].status \in {"COMPLETED", "CANCELLED"} => remit'[r] = remit[r]

\* No remittance is settled beyond its amount: the program refuses a
\* settlement that exceeds the remaining balance of its source.  Among
\* groups that share an account its lock alone brings this about.
SettledWithinAmount == \A r \in Remits : Settled(links, r) <= remit[r].amount

\* While groups share an account, a settled remittance is COMPLETED once its
\* links add up to its amount and PARTIAL before, and approve, reject and
\* cancelByUser that run meanwhile leave that alone.
StatusFollowsLinks ==
  \A r \in Remits : Settled(links, r) > 0 =>
    remit[r].status = IF Settled(links, r) = remit[r].amount THEN "COMPLETED" ELSE "PARTIAL"

\* findOpenObligationsForUser
OpenObligations(u) ==
  {r \in Remits : /\ remit[r].status \in {"PENDING", "PARTIAL"}
                  /\ u \in {remit[r].from, remit[r].to}
                  /\ remit[r].amount - Settled(links, r) > 0}

\* While groups share an account, an open remittance is in the list of its
\* sender and of its receiver: the list drops what is settled in full, which
\* must then be closed.
OpenIsListed ==
  \A r \in Remits : remit[r].status \in {"PENDING", "PARTIAL"} =>
    r \in OpenObligations(remit[r].from) /\ r \in OpenObligations(remit[r].to)

\* A leg never settles more than the money it moved, and only legs that moved
\* money settle anything.
LegsCoverLinks == \A r \in Remits : Allocated(links, r) > 0 => r \in paid /\ Allocated(links, r) <= remit[r].amount
=============================================================================
