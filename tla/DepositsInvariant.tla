------------------------- MODULE DepositsInvariant -------------------------
(***************************************************************************)
(* The inductive invariant of Deposits: what the locks of a call protect,  *)
(* and what a call that reads the deposit without a lock may still rely on *)
(* when it commits.  MCDeposits checks it, DepositsProofs proves it.       *)
(*                                                                         *)
(* t is the local state of a call (tx[p]) and L the locks it holds         *)
(* (held[p]).                                                              *)
(***************************************************************************)
EXTENDS Deposits

\* A row lock has one holder, and nobody holds one outside a transaction.
LocksExclusive ==
  /\ \A p, q \in Procs : p # q => held[p] \intersect held[q] = {}
  /\ \A p \in Procs : tx[p].pc \in {"idle", "read", "lockDeposit"} \union AfterCommit => held[p] = {}

Reverses(t) == t.call = "cancel" /\ t.seen = "APPROVED"

\* Which call is at which step, and what it has read of its deposit.
CallKnown(t) ==
  /\ deposit[t.d].status # "none"
  /\ t.pc = "lockDeposit" \/ t.pc \in AfterCommit => t.call = "approve"
  /\ t.pc \in {"read", "update"} => t.call # "approve"
  /\ t.pc = "lockAccount" => t.call = "approve" \/ Reverses(t)
  /\ t.pc \in {"update", "commit"} /\ t.call = "cancel" => t.seen \in {"PENDING", "REJECTED", "APPROVED"}

\* The locks it holds there.
LocksKnown(t, L) ==
  LET row == IF t.call = "approve" \/ t.pc = "commit" THEN {DepositLock(t.d)} ELSE {}
      acct == IF t.pc # "lockAccount" /\ (t.call = "approve" \/ Reverses(t)) THEN {AccountLock} ELSE {}
  IN t.pc \in {"lockAccount", "update", "commit"} => L = row \union acct

\* Its row lock keeps an approval's deposit PENDING and without an entry, and
\* the WHERE clause of reject's update finds it PENDING.  cancelDeposit may
\* overwrite any status, but a credit it has seen stays.
DepositKnown(t) ==
  LET s == deposit[t.d].status IN
  /\ t.pc \in {"lockAccount", "commit"} /\ t.call = "approve" => s = "PENDING"
  /\ t.pc = "commit" /\ t.call = "reject" => s = "PENDING"
  /\ t.pc \in AfterCommit => credits[t.d] = 1
  /\ t.pc \in {"lockAccount", "update", "commit"} /\ Reverses(t) => credits[t.d] = 1

\* The account version it will commit is computed from the row as it still
\* is, and the entry that goes with it is still free.
Delta(t) == IF t.call = "approve" THEN deposit[t.d].amount ELSE -deposit[t.d].amount

AccountKnown(t, L) ==
  AccountLock \in L =>
    CanApply(account, Delta(t)) /\ t.acct = Apply(account, Delta(t)) /\ EntryFree(t.call, t.d)

Known(t, L) == CallKnown(t) /\ LocksKnown(t, L) /\ DepositKnown(t) /\ AccountKnown(t, L)

\* The strengthening of the safety properties that the steps preserve.
IInv ==
  /\ TypeOK
  /\ LocksExclusive
  /\ \A p \in Procs : tx[p].pc # "idle" => Known(tx[p], held[p])
  /\ StatusMatchesEntries /\ NoOverdraft /\ VoucherFollowsCredit
=============================================================================
