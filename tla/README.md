# TLA+ models of Gold-nest

Gold-nest is a NestJS backend over PostgreSQL (Prisma) for a gold dealer: users
hold rial and gold accounts, deposit and withdraw money, trade, send
remittances and move physical gold; admins decide the requests, keep the rules
and the price board; finished operations are reported to Tahesab, an external
accounting system.

All money lives in one ledger (`Account`, `AccountTx`, `AccountReservation`)
that every service changes in its own database transaction, at READ COMMITTED,
under row locks (`SELECT ... FOR UPDATE`). What can go wrong is what overlapping
transactions do to each other: a row read before its lock, a status checked on
a stale copy, two services taking the same locks in opposite orders, a retry
beside the first attempt, a crash between the commit and the report, a view
built from rows that have changed since. These models are about that.

## The system

Sources are under `src/src/modules/` of the repository unless another path is given.

| Component | State it keeps | Operations | What makes it correct |
|---|---|---|---|
| Accounts | `Account` (balance, blocked, minimum), `AccountTx`, `AccountReservation` | reserve, release, consume funds; apply a transaction | no overdraft; blocked is the sum of the open reservations; balance is what the entries leave |
| Limits | `LimitUsage` per user, metric and period; `LimitReservation` | reserve, consume, release | never beyond the policy's limit; usage counts exactly its reservations |
| Withdrawals | `WithdrawRequest` | create, approve, reject, cancel | status, holds, limits, ledger and voucher agree; a decision is final |
| Deposits | `DepositRequest` | create, approve, reject, cancel | status and ledger entries agree; nothing is credited after a refusal |
| P2P allocations | `P2PAllocation`, totals of withdrawals and deposits, idempotency rows | assign, submit proof, confirm, verify, finalize, cancel, expire (cron); lists and pages | reservations conserved; money moves once and only when confirmed; totals follow the allocations; what is offered is accepted |
| Physical custody | `PhysicalCustodyMovement` | request, approve, reject, cancel | gold holds as in withdrawals; user and house move together |
| Trades, gold lots | `Trade`, `GoldLot` | create with a quote, approve, reject, cancel, reverse, settle forward; create a lot | the legs of a trade move together, once, and are undone once |
| Remittances | `Remittance`, groups, settlement links | create, approve, reject, cancel; groups that settle earlier remittances | a source is not settled beyond its amount; status, holds and entries agree |
| Tahesab outbox | `TahesabOutbox` | enqueue, enqueueOnce, processBatch (cron), retry | what is marked sent was sent; every document gets its turn; the last edit of a user is the last one sent |
| runInTx (`src/common/db/tx.util.ts`) | none | runs a transaction, repeats it after some errors | a repeated call does nothing twice |
| Policy resolution | none | picks the rule that applies to a request | stages in order: scope, selector, priority, age |
| Policy rules, groups, KYC, limits grid | `PolicyRule`, `CustomerGroup`, `UserKyc`, audit log | create, PATCH, delete, bulk, SET and CLEAR of cells; move users | edits do what they say; no rule of a deleted group applies |
| Payment destinations | `PaymentDestination`, snapshots in withdrawals and allocations | create, PATCH, makeDefault, resolve | a number once per user; one default; money goes where it was sent |
| Files | `File`, storage objects, `Attachment`, `AttachmentLink` | upload, attach, prove, delete, list, download | row and object together; no dangling reference; who lists may read |
| Price board | products, providers, mappings, overrides | create, PATCH, replace, override, revoke; resolve a price | one mapping per provider; the first valid answer in order; one active override |
| Market quotes | quotes and quote locks in Redis | lock, consume | disabled at this commit |
| The rest | settings, auth, Tahesab client, admin queries | CRUD, I/O, layout | no concurrent state machine of its own |

The services call each other inside one transaction: Withdrawals, Custody,
Trades and Remittances call Limits (`reserve`, `consume`, `release`) and Accounts
(`reserveFunds`, `consumeFunds`, `releaseFunds`, `applyTransaction`) and, after the
commit, the outbox; Deposits calls Accounts and the outbox; P2P takes over the
reservations that `WithdrawalsService.createForUser` made for a request with
purpose P2P; Withdrawals and P2P copy a payment destination into their rows;
Limits asks Policy resolution. Two cron jobs run beside the API: the expiry of
allocations and the outbox batch. The API server may run more than once, so
nothing is serialized in the process.

`PROJECT.json` lists the components with their status and every hazard with the
line where it bites and the properties that watch it.

## Modules

    Ledger, Limits            arithmetic of one account row, of one usage row
    RowLocks                  transactions that lock rows, the deadlock detector
      Withdrawals             WithdrawalsService
      Deposits                DepositsService
      Custody                 PhysicalCustodyService
      Trades                  TradesService, GoldService.createLot
      Remittances             RemittancesService
      P2PAllocations          P2PAllocationsService: the handlers and the worker
        P2PViews              what it shows
    WithdrawalsInvariant, DepositsInvariant, CustodyInvariant, P2PInvariant,
    TradesInvariant, RemittancesInvariant, FilesInvariant
                              the inductive invariants of these services
    WithdrawalsProofs, DepositsProofs, CustodyProofs, P2PProofs, TradesProofs,
    RemittancesProofs, FilesProofs
                              theorems about them
    BookLemmas                what these proofs need of account and usage rows,
                              and of sums over finite sets
    Holds                     abstract: hold an amount, pay it or return it;
                              Withdrawals and Custody implement it
    TahesabOutbox             the outbox, its batches and who feeds it customers
    PolicyResolution          which rule applies: operators
      PolicyRules             the rows it reads and who writes them
    PaymentDestinations       destinations and the snapshots of them
    Files                     files, objects, attachments, links
    PriceBoard                the tables behind a price, and the resolver

    MCWithdrawals, MCDeposits, MCCustody, MCP2P, MCRequests, MCOffice, MCLive
                              instances for TLC

`Withdrawals` and `Deposits` name their locks themselves, in the form of `RowLocks`.

### How a transaction is modelled

A call of process p is a sequence of steps; a step takes at most one row lock,
or reads committed rows without one, which is the granularity at which
PostgreSQL interleaves the statements that matter here. `tx[p]` holds the step,
the arguments, what the call has read and the row versions it has written;
`held[p]` its locks. The commit publishes the versions and frees the locks in one
step. Versions are absolute values computed from what was read, as
`account.update({ data: { balance: newBalance } })` does, so a missing lock shows
as a lost update. A business exception and an early return end the call; a
deadlock victim, a timeout, a lost connection or a crash at any step of a
transaction is `Abort(p)`; `runInTx` repeating a call is the same call begun
again. `CrashInTail(p)` is a process that stops between its commit and the
outbox row it still had to write.

An insert into a unique index waits for an uncommitted row with the same key
and then fails; idempotency keys and hashes are modelled as locks for that
reason (`KeyLock`). The unique index of `AccountTx` is a guard of the insert.
Several rows locked by one `SELECT ... WHERE id IN (...) ORDER BY id FOR UPDATE`
are taken one after the other in that order (`LockAccounts`).

`P2PAllocations` uses larger steps. A handler that locks the allocation, reads
allocation, withdrawal and deposit, and then locks withdrawal and deposit, is
two steps: `LockAllocation` with its reads, then the commit that takes the other
locks and writes. The rows it read are kept in `seenA`, `seenW`, `seenD`, and the
totals are written from them, as in the code. Handlers without such a gap
(`SubmitPayerProof`, `ReceiverConfirm`, `AdminVerify`) are one step; two reads of
the allocation cannot be told apart there.

`TahesabOutbox`, `PolicyRules` and `PriceBoard` describe handlers that lock no row
they have read: each database call is a step, and what it returned is kept in
the call until it is used.

### Withdrawals

One user, the user's IRR account, `WithdrawRequest` rows and concurrent calls.
`BeginCreate`, `InsertRequest`, `ReserveDaily`, `ReserveMonthly`, `ReserveFunds`,
`Commit` follow `createForUser`; `BeginDecision`, `LockRequest`, `ReadHold`,
`LockAccount`, `ReadLimits`, `LockUsage`, `LimitsDone`, `Commit` follow `approve`,
`reject` and `cancelWithdrawal` (approve takes funds, then limits; the other two
limits, then funds); `FindVoucher` and `EnqueueVoucher` are the outbox tail of
approve, which an approve of an already debited request reaches directly.
`NewDay` is the day change of `PeriodKeyService`.

`Holds` is what a caller may rely on: an amount that is available is put on hold
once, and ends once, paid or returned. `ImplementsHolds` maps a request to `held`,
`paid` or `returned` by its reservation and its ledger entry, and `available` to
the usable capacity of the account row; a reservation without its ledger entry,
or the reverse, maps to `broken`, which no step of `Holds` allows.

### Deposits

The three decisions reach the row differently: `approve` locks it first
(`LockDeposit`), `reject` reads it (`ReadDeposit`) and updates it only if it is
still PENDING (`MatchesWhere`), `cancelDeposit` reads it and updates it whatever it
has become. `Spend` is what other services take from the account meanwhile, so
that a reversal can meet an account that no longer has the money. The deletion
voucher of `cancelDeposit` is left out: it needs a factor code, and
`TahesabOutboxService.dispatch` returns none for the cash-in methods.

### Custody

Users, the gold accounts of users and house, movements in both directions.
`BeginRequest`, `InsertMovement`, `ReserveLimit`, `ReserveFunds` follow
`requestMovement`; `Begin`, `LockMovement`, `ReleaseLimit`, `UnblockFunds`, `HouseLeg`,
`ConsumeLimit` follow `approve`, `reject` and `cancelMovement`. A DEPOSIT of gold
reserves limits only. The weight is turned into its 750 equivalent as the code
rounds it, so the amounts of an account are of different kinds. `FindVoucher`,
`EnqueueVoucher` and `FindDeletion` are the outbox tails, `Sent` the batch that has
sent a document.

`ImplementsHolds` looks at one user at a time: the withdrawals of that user
implement `Holds`, whatever the others do, while an approved deposit of the user
brings gold that `Holds` does not know (`Brings`). The house account takes part
in both and is abstracted away.

### Trades

One client and the house, an IRR and a gold account each. `approve` applies four
entries one by one (`ApplyLeg`), in the order that BUY or SELL gives them;
`reverseTrade`, `settleForwardTradeInCash` and `createLot` lock all accounts in the
order of their ids (`LockAccounts`), then write (`ApplyAll`, `ReverseAll`).
`ReadTrade` and `UpdateTrade` are the read without a lock and the update WHERE id
of reverse and settle; `ReadFunds` is the check of what the payer can use, on
accounts that settle reads later and without a lock. BUY and SELL have a usage row
each (`usage[side]`), as `createForUser` reserves under TRADE_BUY or TRADE_SELL. `BeginCreate` counts the open trades before the
transaction, as `TradeAccessGuard` does. A trade in `Forward` begins as an APPROVED
row: `createForUser` and `approve` refuse forward trades at this commit, while
`settleForwardTradeInCash` accepts only them.

### Remittances

Users with one account each. A remittance of `createForUser` waits with its
reservations for `approve`, `reject` or `cancelByUser`. A group (`BeginGroup`,
`CheckFunds`, `LockAccounts`, `ApplyLegs`, `ReadSources`, `LockSources`, `Commit`)
pays its legs at once and may link parts of them to earlier remittances of
any users, whose rest it reads without a lock on them; the status it writes back
comes from that read. `OpenIsListed` compares with `listOpenRemittances`.

### P2PAllocations and P2PViews

Withdrawals of one user, deposit offers of another, allocations that carry a
part of a withdrawal's reservation from `SplitReservation` (assign) to
`MergeReservationBack` (cancel, expiry) or to the money movement of
`CommitFinalize`. `Expire(a)` is `expiresAt` passing; `Worker(p)` one transaction of
the cron job. `Mode` is `P2P_CONFIRMATION_MODE`.

`P2PViews` has an operator for each flag, tab, filter and action that
`mapAllocation` and the list queries compute, and compares them with the guards
of the handlers, which are other code. `Ask`, `ReadRows`, `ReadRequests`,
`ReadAllocations`, `ReadLinks` build one list or page in the statements the code
uses, with calls committing in between; `screen` is what has been read so far.

### TahesabOutbox

Outbox rows in the order of their creation, what Tahesab has been sent, and
the users whose documents are queued. `Pick` reads the PENDING rows of a batch,
`Send` dispatches one, `Record` writes its status; `SendFails`, `CrashWorker` and
`Retry` are counted in `faults`. `CreateUser`, `UpdateUser`, `MoveUser` and `Resync`
commit their row and queue the document in further steps (`ReadUser`, `Find`,
`Enqueue`), where `CrashCall` may strike.

### PolicyResolution and PolicyRules

`PolicyResolution` translates `resolveFromRules`, `compareRules`, the requirements and
capabilities built on it, and the older `PolicyResolverService`, as operators on a
set of rules. A request carries two levels: `kyc`, which `getUserContext` takes from a
VERIFIED row only and `LimitsService` resolves with, and `level`, that of the row
whatever its status, with which the older resolver (line 97; nothing in `src/`
calls it) and the limits grid (`GridRequest`, `getGrid`, line 58) compare.
`LegacyDiffersByStatus` says that the two resolvers differ in no other way.
`PolicyRules` creates the sets: rules one by one, in bulk, by cells
of the limits grid; groups, members and KYC levels; each handler in its finds
and writes. A rule has `created` and `updated` times from a clock that may stand
still between two writes (`Tick`).

SET writes the limit of one rule of the cell, whichever `findFirst` returns, and
leaves its other columns. `SetTakesEffect` therefore has two halves: the value is
shown and applied, or, when that rule is disabled, above the user's level, or
outranked by the priority of another rule of the cell, nothing changes at all
although the call answers `updated`. `GridForms` brings rules of each of these
kinds, `GridKyc` a level that is VERIFIED or not.

### PaymentDestinations, Files, PriceBoard

A written number is a number and a way to write it; the hash finds the number,
the encrypted value is readable with its key only (`Redeploy` changes the key).
`Resolve` and `Withdraw` are the two moments between which a destination may
change; `AssignOwn` and `AssignSystem` take the snapshot of an allocation.

`Files` separates the storage object from the row, in the order the code writes
and removes them (`Put`, `Insert`; `CommitDelete`, `Remove`), and the share locks
that foreign keys take on the file's row. `Fail` stops a call at any step.

`PriceBoard` has every write of products, providers, mappings and overrides, a
constraint on each unique index, and `Resolve`, which is `QuoteResolverService` up
to its choice of a provider, with the providers' answers (`Reply`) as its input:
at this commit it returns null after that, whatever it has chosen.

## Runs

Withdrawals, Deposits, Custody and P2PAllocations have a run each, whose instance is
described by its cfg. The other services and P2PViews are checked in scenes: `scene` is
chosen in the initial state and never changes, so a behaviour plays one scene and the run
checks all of them. `MCOffice` instantiates its modules with constants of their own, one
instance per scene. `MCRequests` extends Trades, whose three scenes share the
constants of its cfg and differ in the calls that are begun, and instantiates Remittances for the
others. Variables a scene does not use have the value `"unused"`, or stay as Trades
begins. Where the scenes of a run have properties of their own, the run joins
them under one name: `RequestsAreWhole` of `MCRequests` is, scene by scene,
one trade per key, balanced settlements, no overdraft, open trades within their number,
and the status, settlement and account properties of Remittances;
`CallsKnowTheirRows` is the inductive invariant of Trades or of Remittances, in
`shared` and `legs` with the invariant of settlements; the MC module says which. Services in one run
change no table in common that matters: what others do to an account is a bound
on its money (`Spend` in Deposits), and the locks they share are each service's own.

| Run | Scenes and instance | Shows |
|---|---|---|
| `withdrawals` | 2 calls at a time, 2 requests, amounts 1 and 2, 1 key, 2 days, daily limit 2, balance 4 with minimum 1 | the inductive invariant, holds, ledger, usage, limits, no overdraft, vouchers, final decisions, and that the module implements `Holds` |
| `deposits` | 2 calls at a time, 2 deposits, amounts 1 and 2, balance 1 of which 1 is blocked, others spend up to 1 | the inductive invariant, status and entries agree, the account is what the entries leave, refusals are final |
| `custody` | 2 calls at a time, 2 users and the house with 100 each, 2 movements of both kinds, 1 key, weights of 50 and 100, limit 200 | the inductive invariant, accounts and usage are what the movements leave, final decisions, and that the withdrawals of each user implement `Holds` |
| `p2p` | 2 calls or worker runs at a time, 1 withdrawal of 2, 2 offers of 2, 2 allocations, 1 key, mode BOTH, proofs of 2 files | the inductive invariant, money conserved and retries without effect, paid only when confirmed, ends are final |
| `requests` | Trades with 3 spot trades and a forward one, opening balances 3, 2, 1, 2, limit 3, 3 open at most, settlements of -3, 0 and 3. `trades`: 2 calls on 2 spot trades, BUY and SELL, quantity 1, 1 key. `forward`: 2 calls that settle and reverse the forward trade, beside 1 spot trade and a lot. `serial`: 1 call, 3 trades of 1 or 2. Remittances: `plain`: 2 calls, 3 remittances, groups of 2 legs, 1 key. `shared`: 2 calls, groups of one leg of 1 or 2 that settle. `legs`: 1 call, groups of 2 legs that settle | the inductive invariants of Trades and Remittances; trades, reservations and entries tell one story, decisions are final, accounts and usage are what the entries leave; client and house entries of a settlement cancel out; open trades within their number if calls do not overlap; remittances agree with their holds, links and documents, settlements stay within the amount when groups share an account or do not overlap; decisions on remittances final without settlements |
| `office` | `rules`, `kyc`, `groups`, `grid`, `cells`, `edits` (PolicyRules); `own`, `defaults`, `payout` (PaymentDestinations); `files`, `lists` (Files); `mappings`, `prices` (PriceBoard); `queue`, `customers` (TahesabOutbox); P2PViews on 2 allocations: `shown` (2 calls, 1 withdrawal, mode RECEIVER), `screens` (1 call, pages read between its steps), `totals` (1 call, 2 withdrawals of 2 that share an offer of 3, mode RECEIVER_OR_ADMIN), `pair` (1 call, 1 withdrawal, 2 offers) | resolution picks stage by stage, edits do what they say, destinations keep their money, files and objects stay together, the board is ordered, the outbox loses nothing; one call at a time: totals, statuses, tabs and candidates follow the allocations; what the views offer is accepted and can be found |
| `live` | `withdrawals`, `custody`, `remittances`, `trades`: 2 calls on 2 requests each; `deposits`: 2 calls on 1. `expiry`: 2 calls or worker runs, 2 allocations of 1. `queue`: 2 batches of 1 row, 2 rows, 1 fault | every call returns, an expired unpaid allocation is released, every document gets its turn |
| `withdrawals_voucher` | 2 calls, 1 request | violation: two vouchers for one withdrawal |
| `deposits_cancelled` | 2 calls, 2 deposits | violation: a deposit CANCELLED and credited |
| `p2p_offers` | 2 calls, a withdrawal of 3, an offer of 2, 3 allocations | violation: an offer assigned beyond its amount |
| `trades_twice` | scene `forward` | violation: a forward trade settled twice |
| `remittances_settled` | scene `apart`: 2 calls, 4 users in two pairs | violation: a remittance settled beyond its amount |

Deadlock is checked wherever calls can always be made again. It is not in `office`
and `live`: an instance that has used all its ids, times and faults may stop
there, as the offices of the real system may have nothing to do.

Bounds. A lost update, a double decision, an opposite lock order or a duplicated
document needs two calls. Two requests let an amount of one be taken for the other and
compete for a limit; two days let a request be decided on a later day than it was
made; limits and balances are chosen so that both bind and both refusals occur.
Amount 2 over items of 1 makes a split reservation partial, and a leg of 2 may
settle two sources. `MaxItems` bounds the deposits of one assign call, `MaxFiles`
the files of one proof, `PageSize` a page, `Days` the days, `MaxSpent` what others
take from the account, `MaxOpen` is the guard's limit, `MaxLots` bounds the gold
lots, `MaxLegs` the legs of a group, `MaxRows`, `MaxName` and `MaxFaults` the outbox,
edits of a user and faults, `MaxTime` the clock of the rules, `MaxOverrides` the
overrides, `MaxProofs` the proofs of an allocation. `Forms` and `Patches` of the
rules contain each scope, each selector, a rule with two of them, equal and
different priorities; the KYC scene has every level and status against every
level; scene `edits` has one row, on which all calls meet. Ids of
money requests are not used twice, so their number also bounds a behaviour.

Symmetry (callers, users, ids of rows, offers, allocations) is used in safety runs
only; nothing in the modules depends on which member of these sets a `CHOOSE` or
an order picks (sums do not), and what the code orders by id (accounts) is not symmetric in the models. `live`
uses none; its calls are alike, and so are its allocations, so the property
watches one call, one allocation and each outbox row.

## Fairness

No call is ever obliged to begin, to abort or to crash.

- The calls: a running call takes its next step, and a row lock that is free again
  and again is granted (strong fairness of `Step`: PostgreSQL queues waiters); the
  deadlock detector ends a cycle of waiters (weak fairness of `DeadlockVictim`, which
  is enabled only if `Deadlocked` holds). Create of a withdrawal takes usage rows and
  then the account, approve the account and then usage rows; approve of a BUY and
  of a SELL take accounts in different orders; remittances go both ways: there the
  detector is really needed. Deposits never need it: an approve that waits for
  the account holds a deposit that is not yet APPROVED, and only a cancel of an
  APPROVED one starts with the account.
- The jobs: the cron jobs come back every minute to whatever they find (`@Cron`), to
  each expired allocation (strong fairness of `Expiring(a)`) and to the queue (weak
  fairness of `Batch(w)`); locks are granted; and from some time on the expiry's
  own transactions are not rolled back. `expireAllocations` stops at the first
  transaction that throws and the next run starts over; an allocation whose
  expiry always throws would break this assumption. Failing documents need no
  such assumption: `processBatch` marks them FAILED and goes on.

## What is proved

For any finite tables, any sets of calls, users, keys and amounts, any number of
days, any opening balances and limits:

| Module | Theorem | States |
|---|---|---|
| `WithdrawalsProofs` | `TypeCorrect`, `Invariant` | `TypeOK`, and the inductive invariant `IInv` |
| | `StatusSafe` | `StatusMatchesHolds`: status, funds hold, limit holds and ledger entry agree |
| | `NoOverdraftSafe`, `LimitsSafe` | `NoOverdraft`, `LimitsRespected` |
| | `OneRequestSafe` | `OneRequestPerKey` |
| | `VoucherSafe` | `VoucherFollowsDebit` |
| | `LedgerSafe` | `AccountMatchesLedger`: the account row is the sum of its entries and holds |
| | `UsageSafe` | `UsageMatchesReservations`: so are the usage rows |
| | `PayableSafe` | `HeldIsPayable`: the account can pay all it holds |
| | `DecisionsStay` | `DecisionsAreFinal` (an action property) |
| | `HoldsImplemented` | `Spec` implements `Holds` |
| `DepositsProofs` | `Invariant`, `StatusSafe`, `NoOverdraftSafe`, `VoucherSafe` | `IInv`, `StatusMatchesEntries`, `NoOverdraft`, `VoucherFollowsCredit` |
| | `RefusalsAreFinal` | `RefusalsStay` (an action property): nothing is credited after a refusal |
| | `LedgerSafe` | `AccountMatchesLedger` |
| `CustodyProofs` | `Invariant`, `StatusSafe`, `NoOverdraftSafe`, `LimitsSafe`, `OneMovementSafe`, `NothingToDeleteSafe` | `IInv` and the row properties |
| | `AccountsSafe`, `UsageSafe` | `AccountsMatchMovements`, `UsageMatchesMovements`: users, house and usage rows are sums over the movements |
| | `DecisionsStay` | `DecisionsAreFinal` (an action property) |
| | `HoldsImplemented` | for each user, `Spec` implements `Holds` with deposits |
| `P2PProofs` | `Invariant` | `IInv`, in every confirmation mode |
| | `MoneySafe` | `MoneyIsConserved`: splitting, settling, merging back and retrying lose and repeat nothing |
| | `AssignedWithinAmount` | no withdrawal is assigned beyond its amount |
| | `ConfirmedSafe` | `SettledWasConfirmed`: nothing is paid without a proof and the confirmations of the mode |
| | `EndsStay` | `EndsAreFinal` (an action property) |
| `TradesProofs` | `Invariant` | `IInv` |
| | `StatusSafe` | `StatusMatchesEntries`: a trade, its reservations and its legs, reversed or not, tell one story |
| | `DecisionsStay` | `DecisionsAreFinal` (an action property) |
| | `AccountsSafe`, `UsageSafe` | `AccountsMatchEntries`, `UsageMatchesTrades`: the four accounts and the usage rows of BUY and SELL are sums over entries, lots and open trades |
| | `NoOverdraftSafe`, `OneTradeSafe` | `NoOverdraft`, `OneTradePerKey` |
| | `SettlementsSafe` | `SettlementsBalance`: what the house gets of a settlement is what the client pays, and no gold moves |
| `RemittancesProofs` | `Invariant` | `IInv` |
| | `NoOverdraftSafe`, `OneRemittanceSafe` | `NoOverdraft`, `OneRemittancePerKey` |
| | `LegsCoverSafe` | `LegsCoverLinks`: a leg settles no more than it moved |
| | `AccountsSafe`, `UsageSafe` | `AccountsMatchRemittances`, `UsageMatchesRemittances`: account and usage rows are sums over the remittances |
| | `StatusSafe` | without settlements, `StatusMatchesHolds` |
| | `DecisionsStay` | without settlements, `KeepsDecisions` (an action property) |
| | `SettledSafe`, `StatusFollowsSafe`, `OpenListedSafe` | among groups that share an account, `SettledWithinAmount`, `StatusFollowsLinks`, `OpenIsListed` |
| `FilesProofs` | `Invariant` | `IInv` |
| | `ReferencesSafe` | `ReferencesHold`: what is attached or linked has its row |
| | `ObjectsSafe` | `RowsHaveObjects`: what has a row can be read, unless names collide |
| | `OrphansSafe` | `NoOrphans`: the storage keeps nothing unknown, unless a call stopped half-way |
| | `ListedSafe` | `ListedIsReadable`: who may list an entity's files may read them |
| | `DetachedByForce` | `AttachmentsStay` (an action property) |

Assumptions, all named in the modules and evaluated by TLC in the runs: a table
has finitely many rows (`RequestsAssumption`, `DepositsAssumption`,
`MovementsAssumption`, `RowsAssumption`, `TradesAssumption`; the sums need it); amounts, weights and
purities are positive integers (`AmountsAssumption`, `WeightsAssumption`,
`OffersAssumption`, `QuantitiesAssumption`; what a settlement pays may be any
integer, `SettlementsAssumption`); a trade is a BUY or a SELL (`SidesAssumption`) and the
lots are bounded (`LotsAssumption`); the confirmation mode is one of the four (`ModeAssumption`), a
proof may have a file (`FilesAssumption`); accounts start at or
above a natural minimum balance (`BalanceAssumption`, `OpeningAssumption`,
`MinBalanceAssumption`); `NoKey` is no key (`KeysAssumption`), the house is no user
(`OwnersAssumption`), a movement is a deposit or a withdrawal
(`KindsAssumption`); there is at least one day (`DaysAssumption`); a policy is a
natural limit or none (`PolicyAssumption`, `NoLimitAssumption`); what others spend is
bounded by a natural number (`SpentAssumption`).

The theorems about Files have their assumptions as hypotheses, since the two scenes of
`office` instantiate Files with different constants; `MCOffice` evaluates them for
both: files, allocations and `None` have different names (`NamesAssumption`), and
for `ListedSafe` a KYC request is one user's (`KycAssumption`). `ObjectsSafe` has
`~Collisions` as well, because the code lets two files of one name, uploaded in one
millisecond, share a key (see the disagreements below).

So have those about Remittances, for the same reason: `ConstantsAssumption` (finitely many
rows, `RemitsAssumption`; at least one user, `UserCountAssumption`; routes between
users, `RoutesAssumption`; positive amounts; `KeysAssumption`, `OpeningAssumption`),
which `MCRequests` evaluates for its scenes. "Without settlements" is `Parts = {}`, no
part of a leg settles anything: a group that settles a PENDING source makes it
COMPLETED without entries, so that `StatusMatchesHolds` and `KeepsDecisions` are false
otherwise. "Groups that share an account" is `SharedAssumption`, any two routes have a
user in common; `remittances_settled` shows what happens otherwise. `OpenListedSafe` needs
finitely many parts as well (`PartsAssumption`), for the sum of links to be a number.

The inductive invariants of Withdrawals, Deposits and Custody. None of the properties is inductive: a state in which
a call is about to commit an account version that has nothing to do with the
account satisfies all of them, and its commit breaks them. `IInv` adds what makes
a commit right. `LocksExclusive`: a lock has one holder. `Known(t, L)`: what a call
at a step has found out is still true, because it holds the lock of the row (the
status of its request, the reservation it read, the limit reservations still to
go through, an account version computed from the row as it is, usage versions
within the policy, an unused key). Each action then has a lemma `<Action>Keeps`:
it keeps what it knows itself, and what the others know, since it writes no row
they have locked. Only `Commit` writes the tables; lemmas split it into create,
approve, and giving back (`CommitKinds` of Withdrawals), and from these follow the
row properties, the action properties and the step of `Holds` that a commit
implements (`CommitImplements` of Withdrawals, `CommitFetches` of Custody). TLC checks `IInv` as an invariant of `withdrawals`,
`deposits` and `custody`.

Deposits differ: a cancel holds no lock on the deposit it has read, and an
approve may commit between its read and its commit. What such a cancel knows
about the deposit is therefore only what nobody can change any more, that the
credit it has seen stays; that a reversal is not written twice rests on the
unique index of `AccountTx`, a guard of the insert, and on the account's lock.
This is why `StatusMatchesEntries` allows a CANCELLED deposit with a credit, which
`deposits_cancelled` reaches.

The books. `AccountMatchesLedger`, `UsageMatchesReservations` and their like equate a
row with a sum over all rows of a table, a fold. `BookLemmas` proves what is
needed of it: a sum over a finite set is an integer (`SumInt`), is at least each
of its members if none is negative (`SumAtLeast`), and changes by what one
member changes (`SumChange`), or several (`SumSpread`). They rest on `SubsetInduction`, an induction over
the subsets of a finite set stated for a set of good subsets, so that no operator
has to be instantiated. The books are not inductive on their own either: a
commit writes absolute values, so each is proved together with `IInv`, which
says from which row the value was computed (`CommitTerms`).

`HoldsImplemented` of Custody needs more than that of Withdrawals: a commit of
one user's movement must be a stutter for every other user, and an approved
deposit raises what is available (`Brings`). Rows of one account are of
different weights, whence `RowsOfUsers` and the amount of a row in `IInv`.

P2PAllocations is proved the other way round: its properties hold although calls
know little. Finalize, cancel and expire lock the allocation only, so `IInv` says
that what they have read of the allocation stays (`ReadsHold`; only the expiry
time may pass), that no two of them hold one allocation (`LocksExclusive`), and
nothing of the withdrawal and the deposit they have read. The totals written from
those may be wrong, and are in `p2p_offers`; the proofs show that no money depends
on them. `Evidence` is what a status says of an allocation's proofs and
confirmations; from it follows `SettledWasConfirmed` in the modes in which
`ensureFinalizable` looks at the confirmations and not at the status. An assign
adds several allocations in one step; `SumSpread` says what that does to a sum
(`AssignMoney`), `SumChange` what settling and releasing one does (`FinalizeMoney`,
`ReleaseMoney`). `RowChange` and `EndKeeps` show the rest of `IInv` for all steps
that change one allocation. TLC checks `IInv` in `p2p`.

Trades has both kinds of calls. What approve, reject and cancelTrade know they
owe to the lock of the trade. reverseTrade and settleForwardTradeInCash read the trade
and its entries without it, so `RowKnown` and `ReversalKnown` say only what
nobody can undo: the trade was approved, and is still, or has been reversed since; the
entries it has read are the legs, perhaps already with their reversal. That a second
reversal writes nothing comes from the accounts: both reversals lock all four before they
look for reversed entries, and `LocksKnown` says exactly which accounts a call holds at each step
(`LockedAccounts`). `LegsKnown` follows an approval through its four entries, the account versions
it has so far being the committed ones with the legs applied that are not to do any more.
`EntryFree`, the unique index, is what two settlements run into. For a commit the
proof has two halves: what the committing call knew makes the new rows right
(`CommitStatus`, `CommitRowsKnown`, `CommitOnePerSide`, `CommitOneKey`), and what the
other calls know is about rows they have locked, or cannot be undone, and stays
(`CommitKeepsOthers`). `AccountsSafe` sums entries per account and side; `SumFollows` says how a sum
follows a commit that changes one trade, `NetAdds` what the entries it adds are worth.
An earlier form of `IInv` held in every run and was not inductive: it let a call
that has just begun carry entries, one at `apply` have accounts left to lock, and a
settlement book entries of nothing. `CallKnown` and `RowsKnown` exclude that; TLC
checks the result in `requests`.

Remittances has one lock discipline for what waits and another for what is paid at
once. A decision holds the row it decides, which `RowKnown` says is PENDING and as it
was read; what a create or a group inserts is nobody else's (`OneInserter`). A group holds the
accounts of all its legs, and `GroupKnown` that its versions are the committed rows
with what the legs bring (`LegsGain`); CanApply was checked once for the total, which
`LegsSum` splits into a loss of the sender and gains of the others. Of the sources it
settles it knows only that they have rows (`AddsKnown`): it reads them without a lock
and locks them while it writes. `RowsKnown` therefore allows a settled row the
reservations and entries of any status, and `StatusSafe` has to exclude settlements. What
settlements need is in `SharedInv`: a group that has read its sources knows their links
(`SettlesKnown`), since another group that would add some holds an account of the same
legs (`GroupsExclude`), and the status of a settled row follows from its links
(`StatusKnown`). `AccountsSafe` compares each account with the terms of one remittance
after the other: a single call changes one term (`SingleAccount`), a group as
many as it has legs (`GroupAccount`, by `SumSpread`). TLC checks `IInv` and `SharedInv`
in `plain`, `shared` and `legs` of `requests`.

Files has no transaction around an object and its row, so its invariant is about
order. An id arrives once (`ArrivalsKnown`): after its upload has ended the row can
only go (`Settled`), so whoever has seen a file and finds no row knows that
there will be none again. An upload puts the object before the row (`UploadKnown`), and a
delete removes the row before the object (`DeleteKnown`), so a row never lacks its
object; that the object is still the file's own needs keys that belong to one
file, which is where `Collisions` enters. A reference and a delete meet at the row's
lock: the foreign key shares it, the delete takes it alone (`LocksExclusive`), so what
a reference has found stays until its commit (`ReferKnown`), and a delete that holds the row
has no attachment left that it has not cleared. `AttachmentsFit` is what
`ListedIsReadable` rests on for KYC requests: their files are their user's own. TLC
checks `IInv` in the scenes `files` and `lists` of `office`.

## Only model-checked

- P2PViews, TahesabOutbox, PolicyRules, PaymentDestinations
  and PriceBoard: the proofs of some of them are in the plan; TahesabOutbox
  picks its batches with `SelectSeq`, of whose result nothing can be proved without
  an induction over sequences. Of P2PAllocations the totals (`TotalsMatchAllocations`, `StatusMatchesAllocations`):
  they hold for one call at a time only.
- Liveness (`CallsAndJobsFinish`): fairness and ENABLED are out of the prover's
  reach. That deadlocked calls are the only ones stuck is part of it.
- Recursive definitions, which no module with a theorem uses, and what a fold
  over a sequence computes (the ordering of rules, of a price's candidates).

## Disagreements between code and documentation

Shown by a run:

1. An assign that overlaps a cancel or an expiry of the same deposit lets an offer
   be assigned beyond its amount (`p2p_offers`): totals are written from rows read
   before the locks. On the withdrawal the same stale read leaves
   `assignedAmountTotal` wrong for good, although `docs/p2p-flow.md:13` says the
   amount is merged back.
2. `enqueueOnce` may enqueue twice (`withdrawals_voucher`).
3. A cancel that overlaps an approve leaves a credited deposit CANCELLED, out of
   reach of any call (`deposits_cancelled`).
4. Two overlapping cash settlements of a forward trade are both booked
   (`trades_twice`). A reversal that overlaps a settlement overwrites SETTLED with
   CANCELLED_BY_ADMIN (line 928), although the comment at `trades.service.ts:64-69`
   says that SETTLED is terminal.
5. Groups whose legs share no account settle one remittance beyond its amount
   (`remittances_settled`).

Met while modelling, without a run of their own:

- P2P handlers: in mode RECEIVER an allocation verified by an admin before the
  receiver confirmed cannot be finalized, because `receiverConfirm` keeps
  ADMIN_VERIFIED (`p2p-allocations.service.ts:1534`, `docs/p2p-flow.md:17`). Proof
  attempts are counted in files, so one proof of two files uses both, while a
  request may carry five (lines 1382-1385). The answer to a proof reads its
  attachments outside the transaction, before the commit, and shows none of them
  (line 1425, `docs/p2p-flow.md:35`).
- P2P views: FINALIZE is offered for a CANCELLED allocation that was confirmed
  (lines 155-206); in RECEIVER_OR_ADMIN the receiver is not offered to confirm
  (line 416); the operations summary counts cancelled and expired allocations as
  finalizable (lines 636-638, `docs/p2p-flow.md:98`); CANCEL is offered for
  withdrawals on which `cancelWithdrawal` does nothing (line 1891,
  `withdrawals.service.ts:473-475`); the filters hasDispute and hasProof with
  false find no withdrawal without allocations, whose aggregates are NULL (lines
  721-745, `docs/p2p-flow.md:73`). The properties of `P2PViews` leave out exactly
  these cases, by their wording or by the mode of their scene.
- Outbox: methods that `dispatch` does not know return null and are marked SUCCESS
  without having been sent, although its comment says the other cases are
  unchanged (`tahesab-outbox.service.ts:83`); `SuccessWasSent` is about the methods
  that are dispatched. FAILED rows are retried by an admin only (line 159).
- Remittances: a group that settles a PENDING remittance makes it COMPLETED
  without entries and leaves its reservations open (`remittances.service.ts:1032`,
  while `schema.prisma:1010` has COMPLETED after both entries); hence
  `StatusMatchesHolds` of Remittances is checked in the scene without settlements.
- Custody: `cancelMovement` queues the deletion of a document that never exists,
  because only a PENDING movement is cancelled and only an APPROVED one has a
  document (`NothingToDelete`).
- Policy: a group deleted while a user is moved into it leaves that user without
  a group (the foreign key sets NULL), although the handler says "Group has users;
  move them first" (`customer-groups.admin.controller.ts:155-160`). Overlapping
  PATCHes lose updates (the rows stay well formed, as scene `edits` checks),
  overlapping bulk or grid calls leave duplicate rules, overlapping overrides of a
  product are both active (`price-overrides.service.ts:53-63`), overlapping creates
  leave two default destinations: `NoDuplicateRules`, `OneActiveOverride` and
  `OneDefault` are about one call at a time. SET on a cell whose rule is disabled, needs a higher level or is outranked
  changes nothing that applies and still counts as `updated`
  (`user-product-limits.admin.controller.ts:148-160`). The older resolver
  (`policy-resolver.service.ts:97`) and the limits grid
  (`user-product-limits.admin.controller.ts:58`) take the level of a user's KYC
  whatever its status: for "PENDING/BASIC KYC (effective NONE for gating)"
  (`docs/foundation-modules.md:174`) they find the limit of a rule that needs
  BASIC, while `reserve` refuses with KYC_REQUIRED or holds to another rule.
- Prices: `applyOverride` and `resolve` return null at this commit
  (`quote-resolver.service.ts:110` and 184), while `test/market.spec.ts:70` expects
  the override to win.
- Files: the links of a proof go with the file on delete (ON DELETE CASCADE,
  migration 20251224120000, line 174), so a delete that overlaps a proof takes it
  away (`files.service.ts:274`, 339). Two files of one name in one millisecond share
  a storage key (lines 59-61), and the second overwrites the first, while
  `test/app.e2e.test.ts:1485-1486` reads back what was uploaded.

## Not modelled

- Market quotes and quote locks: `RedisService.isEnabled` returns false, the
  scripts that lock and consume are commented out or return nothing, and the
  vendored client ignores NX. A trade's quote is therefore external in `Trades`,
  handed out once; ingestion never reaches the resolver, which `PriceBoard` models.
- Authentication and rate limiting, the Tahesab SOAP client and the pages over it,
  admin queries, DTOs and mappers (except those of the P2P pages), settings
  merging: I/O and layout without a state machine of their own.
- Accounts are taken to exist: their creation on first use is a separate race
  on a unique index that ends in an error of one caller.
- Remittances on behalf of another user, which differ in who is asked for limits.
- The order in which PostgreSQL locks the rows of one `IN (...) FOR UPDATE`
  without ORDER BY (P2P assign), and which errors `runInTx` retries.
- Bulk calls have one item and grid calls one cell: their transactions write
  nothing before the last statement of each item.
- Where one call changes daily and monthly usage rows alike (Custody, Trades,
  Remittances) one row stands for both; Withdrawals has both.
- Decimal arithmetic is exact in the code (`Decimal`, columns of 18 digits) and
  integers in the models; names, addresses and texts are values that are equal
  or not.

## Plan

Done: all modules above, and the proofs of Withdrawals, Deposits, Custody,
P2PAllocations, Trades, Remittances and Files.

Left: proofs about the small modules, `RowsAreWellFormed` of PolicyRules and
`OneMappingPerProvider` of PriceBoard.
