--------------------------- MODULE P2PAllocations ---------------------------
(***************************************************************************)
(* P2PAllocationsService: an admin matches P2P withdrawals with deposit    *)
(* offers; an allocation carries a part of the withdrawal's reservations   *)
(* until it is settled, cancelled or expired by the cron worker.           *)
(*                                                                         *)
(* Every handler is one transaction at READ COMMITTED.  assignAllocations  *)
(* locks the withdrawal and the deposits and reads them under the lock;    *)
(* finalize, cancel and expire lock the allocation, read allocation,       *)
(* withdrawal and deposit, and lock withdrawal and deposit only then: the  *)
(* totals they write come from the rows they read before (seenW, seenD).   *)
(* The committing step takes the locks of withdrawal and deposit, reads    *)
(* and writes what they guard and commits: nothing is read between two of  *)
(* those locks that another transaction could change, so only the          *)
(* allocation's lock is ever seen held.  All withdrawals are of one user   *)
(* and all deposit offers of another.                                      *)
(***************************************************************************)
EXTENDS Ledger, Limits, FiniteSets, Functions

CONSTANTS
  Procs,          \* concurrent API calls and worker runs
  Withdrawals, WithdrawAmount,  \* P2P withdrawals and their amounts
  Deposits, DepositAmount,      \* P2P deposit offers and their amounts
  Allocations,    \* ids of P2PAllocation rows
  Amounts,        \* amounts an admin may assign
  Keys, NoKey,    \* idempotency keys of the assign call
  Mode,           \* P2P_CONFIRMATION_MODE
  MaxItems,       \* bound: deposits one assign call may name
  MaxFiles        \* bound: files one payment proof may have

Modes == {"RECEIVER", "ADMIN", "BOTH", "RECEIVER_OR_ADMIN"}

ASSUME ModeAssumption == Mode \in Modes
ASSUME RowsAssumption == IsFiniteSet(Withdrawals) /\ IsFiniteSet(Deposits) /\ IsFiniteSet(Allocations)   \* rows of tables
ASSUME AmountsAssumption == Amounts \subseteq Nat \ {0}
ASSUME KeysAssumption == NoKey \notin Keys
ASSUME FilesAssumption == MaxFiles \in Nat \ {0}
ASSUME OffersAssumption == /\ WithdrawAmount \in [Withdrawals -> Nat \ {0}]
                           /\ DepositAmount \in [Deposits -> Nat \ {0}]

Receiver == "receiver"   \* the user of the withdrawals
Payer == "payer"         \* the user of the deposits

AllocationStatus == {"none", "ASSIGNED", "PROOF_SUBMITTED", "RECEIVER_CONFIRMED", "ADMIN_VERIFIED",
                     "SETTLED", "DISPUTED", "CANCELLED", "EXPIRED"}
RequestStatus == {"WAITING_ASSIGNMENT", "PARTIALLY_ASSIGNED", "FULLY_ASSIGNED", "PARTIALLY_SETTLED", "SETTLED"}

VARIABLES
  withdrawal,  \* WithdrawRequest: assignedAmountTotal, settledAmountTotal, status
  deposit,     \* DepositRequest: the same and remainingAmount
  alloc,       \* P2PAllocation rows; proofs counts their proof files
  hold,        \* AccountReservation (WITHDRAW, w): the amount left in it
  allocHold,   \* AccountReservation (WITHDRAW_ALLOCATION, a): its status
  account,     \* the two users' IRR accounts
  usage,       \* the withdrawer's LimitUsage row
  idempotency, \* P2PAssignmentIdempotency rows of (key, withdrawal): how many
  tx           \* each call: its step, arguments and reads

tables == <<withdrawal, deposit, alloc, hold, allocHold, account, usage, idempotency>>
vars == <<withdrawal, deposit, alloc, hold, allocHold, account, usage, idempotency, tx>>

NoAllocation == [status |-> "none", w |-> "none", d |-> "none", amount |-> 0, proofs |-> 0,
                 confirmed |-> FALSE, verified |-> FALSE, expired |-> FALSE]
Idle == [pc |-> "idle"]

WithdrawRow == [assigned : Int, settled : Int, status : RequestStatus]
AllocationRow == [status : AllocationStatus \ {"none"}, w : Withdrawals, d : Deposits, amount : Amounts,
                  proofs : 0..(1 + MaxFiles), confirmed : BOOLEAN, verified : BOOLEAN, expired : BOOLEAN]
DepositRow == [assigned : Int, settled : Int, remaining : Int, status : RequestStatus]

\* The items of an assign call: an amount for each deposit it names.
Assignments == UNION {[S -> Amounts] : S \in {S \in SUBSET Deposits : S # {} /\ Cardinality(S) <= MaxItems}}

\* A call before its last step, and with what it has read.
TxRecord ==
  {Idle} \union [pc : {"lockAllocation"}, call : {"finalize", "cancel", "expire"}, a : Allocations]
    \union [pc : {"commit"}, call : {"assign"}, w : Withdrawals, items : Assignments, key : Keys \union {NoKey}]
    \union [pc : {"commit"}, call : {"finalize", "cancel", "expire"}, a : Allocations,
            seenA : AllocationRow, seenW : WithdrawRow, seenD : DepositRow]

TypeOK ==
  /\ withdrawal \in [Withdrawals -> WithdrawRow]
  /\ deposit \in [Deposits -> DepositRow]
  /\ alloc \in [Allocations -> AllocationRow \union {NoAllocation}]
  /\ hold \in [Withdrawals -> Nat]
  /\ allocHold \in [Allocations -> HoldStatus]
  /\ account \in [{Receiver, Payer} -> Account]
  /\ usage \in Usage
  /\ idempotency \in [Withdrawals \X Keys -> Nat]
  /\ tx \in [Procs -> TxRecord]

\* P2P requests as createForUser of both services leaves them: waiting, with
\* the withdrawals' amounts reserved on the account and on the limit.
TotalHeld == SumFunction(WithdrawAmount)

Init ==
  /\ withdrawal = [w \in Withdrawals |-> [assigned |-> 0, settled |-> 0, status |-> "WAITING_ASSIGNMENT"]]
  /\ deposit = [d \in Deposits |-> [assigned |-> 0, settled |-> 0, remaining |-> DepositAmount[d],
                                    status |-> "WAITING_ASSIGNMENT"]]
  /\ alloc = [a \in Allocations |-> NoAllocation]
  /\ hold = WithdrawAmount
  /\ allocHold = [a \in Allocations |-> "none"]
  /\ account = [u \in {Receiver, Payer} |->
                  [balance |-> MinBalance + IF u = Receiver THEN TotalHeld ELSE 0,
                   blocked |-> IF u = Receiver THEN TotalHeld ELSE 0]]
  /\ usage = [used |-> 0, reserved |-> TotalHeld]
  /\ idempotency = [r \in Withdrawals \X Keys |-> 0]
  /\ tx = [p \in Procs |-> Idle]

----------------------------------------------------------------------------
(* p2p-status.util *)

\* Mutant: a request assigned to the last unit still counts as partial.
DeriveStatusStrict(amount, assigned, settled) ==
  CASE settled >= amount -> "SETTLED"
    [] settled > 0 /\ settled < amount -> "PARTIALLY_SETTLED"
    [] settled <= 0 /\ assigned > amount -> "FULLY_ASSIGNED"
    [] settled <= 0 /\ assigned > 0 /\ assigned <= amount -> "PARTIALLY_ASSIGNED"
    [] OTHER -> "WAITING_ASSIGNMENT"

DeriveStatus(amount, assigned, settled) ==
  CASE settled >= amount -> "SETTLED"
    [] settled > 0 /\ settled < amount -> "PARTIALLY_SETTLED"
    [] settled <= 0 /\ assigned >= amount -> "FULLY_ASSIGNED"
    [] settled <= 0 /\ assigned > 0 /\ assigned < amount -> "PARTIALLY_ASSIGNED"
    [] OTHER -> "WAITING_ASSIGNMENT"

----------------------------------------------------------------------------
(* Row locks and the life of a transaction *)

At(p, pc) == tx[p].pc = pc

\* Mutant: cancel and expire read the allocation without locking it.
CanLockAllocationNoLock(p, a) == a \in Allocations

\* SELECT ... FOR UPDATE of an allocation returns when nobody else holds it.
CanLockAllocation(p, a) == \A q \in Procs \ {p} : ~(At(q, "commit") /\ tx[q].call # "assign" /\ tx[q].a = a)

GoTo(p, t) == tx' = [tx EXCEPT ![p] = t] /\ UNCHANGED tables

Finish(p) == tx' = [tx EXCEPT ![p] = Idle]

\* A rollback: a business exception, a deadlock, a timeout or a crash.
Abort(p) == ~At(p, "idle") /\ GoTo(p, Idle)

----------------------------------------------------------------------------
(* assignAllocations *)

\* The idempotency row is looked up before any lock is taken.
BeginAssign(p, w, items, key) ==
  /\ At(p, "idle")
  /\ key # NoKey => idempotency[<<w, key>>] = 0
  /\ GoTo(p, [pc |-> "commit", call |-> "assign", w |-> w, items |-> items, key |-> key])

Total(items) == SumFunction(items)

\* Mutant: no unique index on (key, withdrawal).
CanAssignNoKey(w, items, key) ==
  /\ Total(items) <= WithdrawAmount[w] - withdrawal[w].assigned
  /\ \A d \in DOMAIN items : items[d] <= deposit[d].remaining
  /\ Total(items) <= hold[w]

\* Neither the sum, nor a deposit's remaining amount, nor the withdrawal's
\* reservation is exceeded, and the idempotency row can be inserted.
CanAssign(w, items, key) ==
  /\ Total(items) <= WithdrawAmount[w] - withdrawal[w].assigned
  /\ \A d \in DOMAIN items : items[d] <= deposit[d].remaining
  /\ Total(items) <= hold[w]
  /\ key # NoKey => idempotency[<<w, key>>] = 0

\* splitReservationForAllocation, once per item: the new reservations have
\* the status of the withdrawal's, the account and usage rows do not change.
SplitReservation(w, items, ids) ==
  /\ hold' = [hold EXCEPT ![w] = @ - Total(items)]
  /\ allocHold' = [a \in Allocations |-> IF a \in ids THEN "RESERVED" ELSE allocHold[a]]

\* Bound: the ids of Allocations not used yet.
FreeIds == {a \in Allocations : alloc[a].status = "none"}

CommitAssign(p) ==
  LET w == tx[p].w
      items == tx[p].items
      assigned == withdrawal[w].assigned + Total(items)
  IN
  /\ At(p, "commit")
  /\ tx[p].call = "assign"
  /\ CanAssign(w, items, tx[p].key)
  /\ \E id \in Injection(DOMAIN items, FreeIds) :
       LET ids == {id[d] : d \in DOMAIN items} IN
       /\ SplitReservation(w, items, ids)
       /\ alloc' = [a \in Allocations |->
            IF a \notin ids THEN alloc[a]
            ELSE LET d == CHOOSE d \in DOMAIN items : id[d] = a IN
                 [NoAllocation EXCEPT !.status = "ASSIGNED", !.w = w, !.d = d, !.amount = items[d]]]
  /\ withdrawal' = [withdrawal EXCEPT ![w].assigned = assigned,
       ![w].status = DeriveStatus(WithdrawAmount[w], assigned, withdrawal[w].settled)]
  /\ deposit' = [d \in Deposits |->
       IF d \notin DOMAIN items THEN deposit[d]
       ELSE [deposit[d] EXCEPT !.assigned = @ + items[d], !.remaining = @ - items[d],
               !.status = DeriveStatus(DepositAmount[d], deposit[d].assigned + items[d], deposit[d].settled)]]
  /\ idempotency' = IF tx[p].key = NoKey THEN idempotency ELSE [idempotency EXCEPT ![<<w, tx[p].key>>] = @ + 1]
  /\ Finish(p)
  /\ UNCHANGED <<account, usage>>

----------------------------------------------------------------------------
(* submitPayerProof, receiverConfirm, adminVerify: they read and write the  *)
(* allocation under its lock, and nothing else.                             *)

Update(p, a, row) ==
  /\ At(p, "idle")
  /\ CanLockAllocation(p, a)
  /\ alloc' = [alloc EXCEPT ![a] = row]
  /\ UNCHANGED <<withdrawal, deposit, hold, allocHold, account, usage, idempotency, tx>>

\* Mutant: no maximum of proof attempts.
ProofAcceptedUnbounded(r) ==
  /\ r.status \in {"ASSIGNED", "PROOF_SUBMITTED"}
  /\ ~(r.status = "ASSIGNED" /\ r.expired)

\* The two "attempts" are counted in files: one attachment link each.
ProofAccepted(r) ==
  /\ r.status \in {"ASSIGNED", "PROOF_SUBMITTED"}
  /\ ~r.confirmed /\ ~r.verified
  /\ ~(r.status = "ASSIGNED" /\ r.expired)
  /\ r.proofs < 2

SubmitPayerProof(p, a, files) ==
  /\ ProofAccepted(alloc[a])
  /\ Update(p, a, [alloc[a] EXCEPT !.status = "PROOF_SUBMITTED", !.proofs = @ + files])

ConfirmAccepted(r) == r.status \in {"PROOF_SUBMITTED", "ADMIN_VERIFIED"} /\ Mode # "ADMIN"

ReceiverConfirm(p, a, yes) ==
  /\ ConfirmAccepted(alloc[a])
  /\ Update(p, a, IF yes THEN [alloc[a] EXCEPT !.confirmed = TRUE,
                                 !.status = IF @ = "ADMIN_VERIFIED" THEN @ ELSE "RECEIVER_CONFIRMED"]
                         ELSE [alloc[a] EXCEPT !.status = "DISPUTED"])

VerifyAccepted(r) == r.status \in {"PROOF_SUBMITTED", "RECEIVER_CONFIRMED"}

AdminVerify(p, a, yes) ==
  /\ VerifyAccepted(alloc[a])
  /\ Update(p, a, [alloc[a] EXCEPT !.verified = TRUE, !.status = IF yes THEN "ADMIN_VERIFIED" ELSE "DISPUTED"])

----------------------------------------------------------------------------
(* finalizeAllocation, cancelAllocation, expireAllocations *)

\* Mutant: one confirmation is enough in every mode.
FinalizableByEither(r) ==
  /\ r.status \notin {"none", "SETTLED", "CANCELLED", "EXPIRED", "DISPUTED"}
  /\ r.confirmed \/ r.verified

\* ensureFinalizable and the checks before it.
Finalizable(r) ==
  /\ r.status \notin {"none", "SETTLED", "CANCELLED", "EXPIRED", "DISPUTED"}
  /\ ~(r.status = "ASSIGNED" /\ r.expired)
  /\ CASE Mode = "RECEIVER" -> r.status = "RECEIVER_CONFIRMED"
       [] Mode = "ADMIN" -> r.status = "ADMIN_VERIFIED"
       [] Mode = "BOTH" -> r.confirmed /\ r.verified
       [] OTHER -> r.confirmed \/ r.verified

\* Mutant: an expired allocation can be cancelled once more.
CancellableExpired(r) == r.status \notin {"none", "SETTLED", "CANCELLED"}

Cancellable(r) == r.status \notin {"none", "SETTLED", "CANCELLED", "EXPIRED"}

\* Mutant: the worker takes proven allocations instead.
ExpirableProofOnly(r) == r.status = "PROOF_SUBMITTED"

\* The worker's transaction looks at the status again.
Expirable(r) == r.status = "ASSIGNED"

BeginOn(p, a, call) ==
  /\ At(p, "idle")
  /\ alloc[a].status # "none"
  /\ call = "expire" => alloc[a].status = "ASSIGNED" /\ alloc[a].expired
  /\ GoTo(p, [pc |-> "lockAllocation", call |-> call, a |-> a])

\* findUnique includes withdrawal and deposit, which are not locked yet.
LockAllocation(p) ==
  LET a == tx[p].a IN
  /\ At(p, "lockAllocation")
  /\ CanLockAllocation(p, a)
  /\ GoTo(p, [pc |-> "commit", call |-> tx[p].call, a |-> a,
              seenA |-> alloc[a], seenW |-> withdrawal[alloc[a].w], seenD |-> deposit[alloc[a].d]])

\* What consumeFunds leaves of the withdrawer's account.
AfterConsume(a, amount) ==
  IF allocHold[a] = "RESERVED" THEN Unblock(account[Receiver], amount) ELSE account[Receiver]

\* The checks of consumeFunds and of the debit; the credit cannot fail.
CanPay(a, amount) ==
  /\ allocHold[a] = "RESERVED" => CanUnblock(account[Receiver], amount)
  /\ CanApply(AfterConsume(a, amount), -amount)

CommitFinalize(p) ==
  LET a == tx[p].a
      r == tx[p].seenA
      settledW == tx[p].seenW.settled + r.amount
      settledD == tx[p].seenD.settled + r.amount
  IN
  /\ At(p, "commit")
  /\ tx[p].call = "finalize"
  /\ Finalizable(r)
  /\ CanPay(a, r.amount)
  /\ account' = [account EXCEPT ![Receiver] = Apply(AfterConsume(a, r.amount), -r.amount), ![Payer] = Apply(@, r.amount)]
  /\ usage' = ConsumeUsage(usage, r.amount)
  /\ allocHold' = [allocHold EXCEPT ![a] = "CONSUMED"]
  /\ alloc' = [alloc EXCEPT ![a].status = "SETTLED"]
  /\ withdrawal' = [withdrawal EXCEPT ![r.w].settled = settledW,
       ![r.w].status = DeriveStatus(WithdrawAmount[r.w], tx[p].seenW.assigned, settledW)]
  /\ deposit' = [deposit EXCEPT ![r.d].settled = settledD,
       ![r.d].status = DeriveStatus(DepositAmount[r.d], tx[p].seenD.assigned, settledD)]
  /\ Finish(p)
  /\ UNCHANGED <<hold, idempotency>>

\* mergeReservationBack: the allocation's reservations are deleted and their
\* amounts added to the withdrawal's; account and usage do not change.
MergeReservationBack(a) ==
  /\ hold' = [hold EXCEPT ![alloc[a].w] = @ + alloc[a].amount]
  /\ allocHold' = [allocHold EXCEPT ![a] = "none"]

\* Mutant: the offer does not get its amount back.
RemainingAfterReleaseKept(seen, amount) == seen.remaining

RemainingAfterRelease(seen, amount) == seen.remaining + amount

CommitRelease(p) ==
  LET a == tx[p].a
      r == tx[p].seenA
      assignedW == tx[p].seenW.assigned - r.amount
      assignedD == tx[p].seenD.assigned - r.amount
  IN
  /\ At(p, "commit")
  /\ tx[p].call \in {"cancel", "expire"}
  /\ IF tx[p].call = "cancel" THEN Cancellable(r) ELSE Expirable(r)
  /\ MergeReservationBack(a)
  /\ alloc' = [alloc EXCEPT ![a].status = IF tx[p].call = "cancel" THEN "CANCELLED" ELSE "EXPIRED"]
  /\ withdrawal' = [withdrawal EXCEPT ![r.w].assigned = assignedW,
       ![r.w].status = DeriveStatus(WithdrawAmount[r.w], assignedW, tx[p].seenW.settled)]
  /\ deposit' = [deposit EXCEPT ![r.d].assigned = assignedD, ![r.d].remaining = RemainingAfterRelease(tx[p].seenD, r.amount),
       ![r.d].status = DeriveStatus(DepositAmount[r.d], assignedD, tx[p].seenD.settled)]
  /\ Finish(p)
  /\ UNCHANGED <<account, usage, idempotency>>

\* A check fails, or there is nothing left to do: no effect.
Refuse(p) ==
  /\ At(p, "commit")
  /\ CASE tx[p].call = "assign" -> ~CanAssign(tx[p].w, tx[p].items, tx[p].key)
                                     \/ Cardinality(DOMAIN tx[p].items) > Cardinality(FreeIds)
       [] tx[p].call = "finalize" -> ~(Finalizable(tx[p].seenA) /\ CanPay(tx[p].a, tx[p].seenA.amount))
       [] tx[p].call = "cancel" -> ~Cancellable(tx[p].seenA)
       [] OTHER -> ~Expirable(tx[p].seenA)
  /\ GoTo(p, Idle)

\* expiresAt passes; nothing looks at it unless the status is ASSIGNED.
Expire(a) ==
  /\ alloc[a].status = "ASSIGNED" /\ ~alloc[a].expired
  /\ alloc' = [alloc EXCEPT ![a].expired = TRUE]
  /\ UNCHANGED <<withdrawal, deposit, hold, allocHold, account, usage, idempotency, tx>>

----------------------------------------------------------------------------
Call(p) ==
  \/ \E w \in Withdrawals, items \in Assignments, k \in Keys \union {NoKey} : BeginAssign(p, w, items, k)
  \/ \E a \in Allocations : \/ \E files \in 1..MaxFiles : SubmitPayerProof(p, a, files)
                            \/ \E yes \in BOOLEAN : ReceiverConfirm(p, a, yes) \/ AdminVerify(p, a, yes)
                            \/ BeginOn(p, a, "finalize") \/ BeginOn(p, a, "cancel")

Worker(p) == \E a \in Allocations : BeginOn(p, a, "expire")

Step(p) ==
  \/ CommitAssign(p) \/ LockAllocation(p) \/ CommitFinalize(p) \/ CommitRelease(p) \/ Refuse(p)

Next ==
  \/ \E p \in Procs : Call(p) \/ Worker(p) \/ Step(p) \/ Abort(p)
  \/ \E a \in Allocations : Expire(a)

Spec == Init /\ [][Next]_vars

\* A transaction of the cron worker is rolled back although nothing was wrong.
WorkerAborts(p) == Abort(p) /\ tx[p].call = "expire" /\ ~Refuse(p)

----------------------------------------------------------------------------
(* Properties that hold however the calls interleave *)

Released == {"none", "CANCELLED", "EXPIRED"}
Carried(S) == SumFunction([a \in Allocations |-> IF a \in S THEN alloc[a].amount ELSE 0])
Live(w) == {a \in Allocations : alloc[a].status \notin Released /\ alloc[a].w = w}
Settled == {a \in Allocations : alloc[a].status = "SETTLED"}

\* Splitting and merging loses nothing: what is left in a withdrawal's
\* reservation and what its allocations carry always make up its amount, so no
\* withdrawal is ever assigned beyond it, whatever the totals say.
ReservationsConserved ==
  /\ \A w \in Withdrawals : hold[w] + Carried(Live(w)) = WithdrawAmount[w]
  /\ \A a \in Allocations :
       allocHold[a] = IF alloc[a].status \in Released THEN "none"
                      ELSE IF a \in Settled THEN "CONSUMED" ELSE "RESERVED"

\* Every settled allocation moved its amount from the receiver's account to
\* the payer's once, and blocked funds and limit usage follow.
MoneyMatchesAllocations ==
  /\ account[Receiver] = [balance |-> MinBalance + TotalHeld - Carried(Settled),
                          blocked |-> TotalHeld - Carried(Settled)]
  /\ account[Payer].balance = MinBalance + Carried(Settled)
  /\ usage = [used |-> Carried(Settled), reserved |-> TotalHeld - Carried(Settled)]

\* Reservations, accounts and usage agree with the allocations.
MoneyAgrees == ReservationsConserved /\ MoneyMatchesAllocations

\* Money only moves after a proof and the confirmations the mode asks for.
SettledWasConfirmed ==
  \A a \in Settled :
    /\ alloc[a].proofs > 0
    /\ CASE Mode = "RECEIVER" -> alloc[a].confirmed
         [] Mode = "ADMIN" -> alloc[a].verified
         [] Mode = "BOTH" -> alloc[a].confirmed /\ alloc[a].verified
         [] OTHER -> alloc[a].confirmed \/ alloc[a].verified

\* A repeated assign call with the same idempotency key assigns once.
RetriedAssignRunsOnce == \A r \in Withdrawals \X Keys : idempotency[r] <= 1

\* Splitting, merging, settling, releasing and retrying lose and repeat nothing,
\* however the calls interleave.
MoneyIsConserved == MoneyAgrees /\ RetriedAssignRunsOnce

\* A settled, cancelled or expired allocation stays so, and the worker never
\* expires an allocation whose payer has submitted a proof.
KeepsEnds ==
  \A a \in Allocations :
    /\ alloc[a].status \in {"SETTLED", "CANCELLED", "EXPIRED"} => alloc'[a] = alloc[a]
    /\ alloc'[a].status = "EXPIRED" => alloc[a].proofs = 0

\* Ends are final, also for the calls that were running.
EndsAreFinal == [][KeepsEnds]_vars

----------------------------------------------------------------------------
(* Properties of the totals: true when no two calls overlap, and refuted by *)
(* the stale reads of finalize, cancel and expire when they do.             *)

Taken(d) == {a \in Allocations : alloc[a].status \notin Released /\ alloc[a].d = d}

\* The totals of both requests are the sums over their allocations.
TotalsMatchAllocations ==
  /\ \A w \in Withdrawals :
       /\ withdrawal[w].assigned = Carried(Live(w))
       /\ withdrawal[w].settled = Carried(Live(w) \intersect Settled)
  /\ \A d \in Deposits :
       /\ deposit[d].assigned = Carried(Taken(d))
       /\ deposit[d].settled = Carried(Taken(d) \intersect Settled)
       /\ deposit[d].remaining = DepositAmount[d] - Carried(Taken(d))

\* A withdrawal reads SETTLED exactly when all of it is settled, FULLY_ASSIGNED
\* when all of it is assigned and nothing settled yet.
StatusMatchesAllocations ==
  \A w \in Withdrawals :
    LET paid == Carried(Live(w) \intersect Settled) IN
    /\ withdrawal[w].status = "SETTLED" <=> paid = WithdrawAmount[w]
    /\ withdrawal[w].status = "FULLY_ASSIGNED" <=> paid = 0 /\ Carried(Live(w)) = WithdrawAmount[w]

\* "Assigned amount exceeds deposit remaining amount": an offer is never
\* assigned beyond its amount.
OffersNotOversubscribed == \A d \in Deposits : Carried(Taken(d)) <= DepositAmount[d]
=============================================================================
