-------------------------------- MODULE MCLive --------------------------------
(***************************************************************************)
(* Calls of the five services that lock rows one by one return, and the    *)
(* two cron jobs finish what is theirs.  A behaviour plays one scene, an   *)
(* instance with constants of its own:                                     *)
(*   withdrawals, deposits, custody, remittances, trades                   *)
(*               two calls at a time on the requests of one service        *)
(*   expiry      calls on allocations, and the worker that expires them    *)
(*   queue       two batches at a time, an edit and vouchers, one fault    *)
(***************************************************************************)
EXTENDS Integers

CONSTANTS p1, p2, Clerk, Rows, a1, a2, NoKey, NoLimit, House

VARIABLES request, debits, today,                                              \* Withdrawals
          deposit, credits, spent,                                             \* Deposits
          movement, deletion,                                                  \* Custody
          remit, paid, links, queued,                                          \* Remittances
          trade, entries, lots,                                                \* Trades
          withdrawal, alloc, allocHold, idempotency,                           \* P2PAllocations
          user, outbox, customer, sent, batch, call, faults,                   \* TahesabOutbox
          account, hold, limitHold, usage, voucher, held, tx,
          scene,
          document                                                             \* the outbox row that is watched

withdrawalTables == <<request, debits, today>>
depositTables == <<deposit, credits, spent>>
custodyTables == <<movement, deletion>>
remittanceTables == <<remit, paid, links, queued>>
tradeTables == <<trade, entries, lots>>
allocationTables == <<withdrawal, alloc, allocHold, idempotency>>
outboxTables == <<user, outbox, customer, sent, batch, call, faults>>
jobTables == <<allocationTables, outboxTables>>
serviceTables == <<withdrawalTables, credits, spent, custodyTables, remittanceTables, tradeTables>>
holds == <<hold, limitHold, usage>>
vars == <<serviceTables, deposit, jobTables, account, holds, voucher, held, tx, scene, document>>

Callers == {p1, p2}
Allocations == {a1, a2}
UpTo(n) == [value |-> n, kycRequired |-> FALSE]

Withdrawing == INSTANCE Withdrawals WITH
  Procs <- Callers, Requests <- Rows, Keys <- {}, Amounts <- {1}, InitialBalance <- 4, MinBalance <- 1, Days <- 1,
  Policy <- [DAILY |-> UpTo(2), MONTHLY |-> UpTo(NoLimit)]

Depositing == INSTANCE Deposits WITH
  Procs <- Callers, Deposits <- {"d"}, Amounts <- {1}, Opening <- [balance |-> 1, blocked |-> 1], MaxSpent <- 0, MinBalance <- 0

Keeping == INSTANCE Custody WITH
  Procs <- Callers, Users <- {"u"}, Movements <- Rows, Kinds <- {"WITHDRAWAL"}, Keys <- {}, Weights <- {1},
  Ayars <- {750}, Opening <- [o \in {"u", House} |-> 100], Policy <- UpTo(200), MinBalance <- 0

Remitting == INSTANCE Remittances WITH
  Procs <- Callers, UserCount <- 2, Routes <- {<<1, 2>>, <<2, 1>>}, Remits <- Rows, Keys <- {}, Amounts <- {1},
  Parts <- {1}, MaxLegs <- 1, Opening <- 1, Policy <- UpTo(2), MinBalance <- 0

Trading == INSTANCE Trades WITH
  Procs <- Callers, Trades <- Rows, Forward <- {}, Keys <- {}, Sides <- {"BUY", "SELL"}, Quantities <- {1}, Price <- 1,
  Settlements <- {}, Policy <- [s \in {"BUY", "SELL"} |-> UpTo(1)], MaxOpen <- 2, MaxLots <- 0, MinBalance <- 0,
  Opening <- [a \in {"clientIRR", "houseIRR", "clientGold", "houseGold"} |->
                [balance |-> IF a = "houseIRR" THEN 0 ELSE 1, blocked |-> 0]]

Allocating == INSTANCE P2PAllocations WITH
  Procs <- Callers, Withdrawals <- {"w"}, WithdrawAmount <- [w |-> 1], Deposits <- {"d"}, DepositAmount <- [d |-> 1],
  Amounts <- {1}, Keys <- {}, Mode <- "RECEIVER", MaxItems <- 1, MaxFiles <- 1, MinBalance <- 0

Sending == INSTANCE TahesabOutbox WITH
  Workers <- Callers, Callers <- Clerk, Users <- {"u"}, Groups <- {"g1", "g2"}, FirstGroup <- "g1",
  Limit <- 1, MaxName <- 1, MaxRows <- 2, MaxFaults <- 1

----------------------------------------------------------------------------
Unused == "unused"

NoWithdrawals == request = Unused /\ today = Unused
NoDeposits == credits = Unused /\ spent = Unused
NoCustody == movement = Unused /\ deletion = Unused
NoRemittances == remit = Unused /\ paid = Unused /\ links = Unused /\ queued = Unused
NoTrades == trade = Unused /\ entries = Unused /\ lots = Unused
NoHolds == hold = Unused /\ limitHold = Unused /\ usage = Unused
NoServices ==
  /\ NoWithdrawals /\ NoDeposits /\ NoCustody /\ NoRemittances /\ NoTrades
  /\ debits = Unused /\ limitHold = Unused /\ voucher = Unused /\ held = Unused
NoAllocations == withdrawal = Unused /\ alloc = Unused /\ allocHold = Unused /\ idempotency = Unused
NoOutbox ==
  /\ user = Unused /\ outbox = Unused /\ customer = Unused /\ sent = Unused
  /\ batch = Unused /\ call = Unused /\ faults = Unused

ServiceInit ==
  \/ /\ scene = "withdrawals" /\ Withdrawing!Init
     /\ NoDeposits /\ NoCustody /\ NoRemittances /\ NoTrades /\ deposit = Unused
  \/ /\ scene = "deposits" /\ Depositing!Init
     /\ NoWithdrawals /\ NoCustody /\ NoRemittances /\ NoTrades /\ NoHolds
  \/ /\ scene = "custody" /\ Keeping!Init
     /\ NoWithdrawals /\ NoDeposits /\ NoRemittances /\ NoTrades
     /\ debits = Unused /\ deposit = Unused
  \/ /\ scene = "remittances" /\ Remitting!Init
     /\ NoWithdrawals /\ NoDeposits /\ NoCustody /\ NoTrades
     /\ debits = Unused /\ deposit = Unused /\ voucher = Unused
  \/ /\ scene = "trades" /\ Trading!Init
     /\ NoWithdrawals /\ NoDeposits /\ NoCustody /\ NoRemittances
     /\ debits = Unused /\ deposit = Unused

Init ==
  \/ document = 1 /\ ServiceInit /\ NoAllocations /\ NoOutbox
  \/ document = 1 /\ scene = "expiry" /\ Allocating!Init /\ NoServices /\ NoOutbox
  \/ /\ document \in 1..2 /\ scene = "queue" /\ Sending!Init /\ NoServices /\ NoAllocations
     /\ deposit = Unused /\ account = Unused /\ hold = Unused /\ usage = Unused /\ tx = Unused

\* What a step of a scene leaves alone.
KeepForWithdrawals == UNCHANGED <<depositTables, custodyTables, remittanceTables, tradeTables, jobTables, scene, document>>
KeepForDeposits == UNCHANGED <<request, today, custodyTables, remittanceTables, tradeTables, holds, jobTables, scene, document>>
KeepForCustody == UNCHANGED <<withdrawalTables, depositTables, remittanceTables, tradeTables, jobTables, scene, document>>
KeepForRemittances == UNCHANGED <<withdrawalTables, depositTables, custodyTables, tradeTables, voucher, jobTables, scene, document>>
KeepForTrades == UNCHANGED <<withdrawalTables, depositTables, custodyTables, remittanceTables, jobTables, scene, document>>
KeepForAllocations == UNCHANGED <<serviceTables, outboxTables, limitHold, voucher, held, scene, document>>
KeepForOutbox == UNCHANGED <<serviceTables, deposit, allocationTables, account, holds, voucher, held, tx, scene, document>>

Next ==
  \/ scene = "withdrawals" /\ Withdrawing!Next /\ KeepForWithdrawals
  \/ scene = "deposits" /\ Depositing!Next /\ KeepForDeposits
  \/ scene = "custody" /\ Keeping!Next /\ KeepForCustody
  \/ scene = "remittances" /\ Remitting!Next /\ KeepForRemittances
  \/ scene = "trades" /\ Trading!Next /\ KeepForTrades
  \/ scene = "expiry" /\ Allocating!Next /\ KeepForAllocations
  \/ scene = "queue" /\ Sending!Next /\ KeepForOutbox

----------------------------------------------------------------------------
(* Fairness.  A running call takes its next step, and PostgreSQL queues    *)
(* the waiters of a row lock, so a lock that is free again and again is    *)
(* granted; its detector ends a circle of waiters.  The cron jobs come     *)
(* back every minute to whatever they find, and from some time on the      *)
(* transactions of the one that expires allocations are not rolled back.   *)
(* Nobody is obliged to call, to abort or to crash.                        *)

Step(p) ==
  \/ scene = "withdrawals" /\ Withdrawing!Step(p) /\ KeepForWithdrawals
  \/ scene = "deposits" /\ Depositing!Step(p) /\ KeepForDeposits
  \/ scene = "custody" /\ Keeping!Proceed(p) /\ KeepForCustody
  \/ scene = "remittances" /\ Remitting!Proceed(p) /\ KeepForRemittances
  \/ scene = "trades" /\ Trading!Proceed(p) /\ KeepForTrades
  \/ scene = "expiry" /\ Allocating!Step(p) /\ KeepForAllocations

\* Deposits never wait in a circle.
DeadlockVictim ==
  \/ scene = "withdrawals" /\ Withdrawing!DeadlockVictim /\ KeepForWithdrawals
  \/ scene = "custody" /\ Keeping!DeadlockVictim /\ KeepForCustody
  \/ scene = "remittances" /\ Remitting!DeadlockVictim /\ KeepForRemittances
  \/ scene = "trades" /\ Trading!DeadlockVictim /\ KeepForTrades

Expiring(a) == scene = "expiry" /\ (\E p \in Callers : Allocating!BeginOn(p, a, "expire")) /\ KeepForAllocations
ExpiryAborts == scene = "expiry" /\ \E p \in Callers : Allocating!WorkerAborts(p)
Batch(w) == scene = "queue" /\ Sending!Worker(w) /\ KeepForOutbox

\* A circle of waiters and a batch are never in one scene.
Spec ==
  /\ Init /\ [][Next]_vars
  /\ \A p \in Callers : SF_vars(Step(p))
  /\ WF_vars(DeadlockVictim \/ Batch(p1)) /\ WF_vars(Batch(p2))
  /\ \A a \in Allocations : SF_vars(Expiring(a))
  /\ <>[][~ExpiryAborts]_vars

----------------------------------------------------------------------------
\* A call that runs, an expired allocation without a proof, a queued document:
\* what should not stay so.  The calls are alike, and so are the allocations:
\* one stands for each.
Unfinished ==
  CASE scene = "expiry" -> alloc[a1].status = "ASSIGNED" /\ alloc[a1].expired
    [] scene = "queue" -> Sending!Waiting(document)
    [] OTHER -> tx[p1].pc # "idle"

\* Every call returns, whatever rows the calls wait for, in whatever order
\* approve, reject, cancel, reverse and the creates of the services take them.
\* An allocation that expired without a proof is released, and every queued
\* document is tried: no call that comes in between and no older document
\* that fails keeps it from its turn (expireAllocations, processBatch).
CallsAndJobsFinish == Unfinished ~> ~Unfinished
=============================================================================
