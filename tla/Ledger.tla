------------------------------- MODULE Ledger -------------------------------
(***************************************************************************)
(* The arithmetic of AccountsService: what reserveFunds, releaseFunds,     *)
(* consumeFunds and applyTransaction compute on the account row they have  *)
(* locked and read again.  The locks, the stale reads before them and the  *)
(* commits belong to the modules that use these operators.                 *)
(*                                                                         *)
(* An account row is [balance, blocked]; minBalance is 0 in the rows the   *)
(* program creates, non-negative in seeded ones, and never updated: a      *)
(* constant here.                                                          *)
(***************************************************************************)
EXTENDS Integers

CONSTANT MinBalance

ASSUME MinBalanceAssumption == MinBalance \in Nat

Account == [balance : Int, blocked : Int]

\* A reservation row: "none" stands for the absent row.
HoldStatus == {"none", "RESERVED", "RELEASED", "CONSUMED"}

\* Mutant: the minimum balance is forgotten.
UsableCapacityNoMin(a) == a.balance - a.blocked

UsableCapacity(a) == a.balance - a.blocked - MinBalance

----------------------------------------------------------------------------
(* reserveFunds *)

\* Mutant: what is blocked already counts as usable.
CanReserveBlocked(a, amount) == a.balance - MinBalance >= amount

CanReserve(a, amount) == UsableCapacity(a) >= amount

Reserve(a, amount) == [a EXCEPT !.blocked = @ + amount]

----------------------------------------------------------------------------
(* The common part of releaseFunds and consumeFunds *)

\* "Blocked balance cannot be negative"
CanUnblock(a, amount) == a.blocked - amount >= 0

\* Mutant: the whole blocked balance is freed.
UnblockAll(a, amount) == [a EXCEPT !.blocked = 0]

Unblock(a, amount) == [a EXCEPT !.blocked = @ - amount]

----------------------------------------------------------------------------
(* applyTransaction *)

\* Mutant: the blocked balance may be spent.
CanApplyUnblocked(a, delta) == a.balance + delta >= MinBalance

CanApply(a, delta) == a.balance + delta >= a.blocked + MinBalance

Apply(a, delta) == [a EXCEPT !.balance = @ + delta]
=============================================================================
