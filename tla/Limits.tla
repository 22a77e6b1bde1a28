------------------------------- MODULE Limits -------------------------------
(***************************************************************************)
(* The arithmetic of LimitsService on one LimitUsage row                   *)
(* [used, reserved] and the check of a projected total against the policy  *)
(* that applies.  A policy is [value, kycRequired]; value NoLimit is a     *)
(* rule without a limit.  The usage lock and the reads before it belong to *)
(* the modules that use these operators.                                   *)
(***************************************************************************)
EXTENDS Integers

CONSTANT NoLimit

Usage == [used : Int, reserved : Int]

Projected(u, amount) == u.used + u.reserved + amount

\* Mutant: only what has been used counts, not what is reserved.
WithinPolicyUsedOnly(u, amount, policy) ==
  IF policy.value = NoLimit THEN ~policy.kycRequired ELSE u.used + amount <= policy.value

\* Neither KYC_REQUIRED nor LIMIT_EXCEEDED is thrown.
WithinPolicy(u, amount, policy) ==
  IF policy.value = NoLimit THEN ~policy.kycRequired
                            ELSE Projected(u, amount) <= policy.value

ReserveUsage(u, amount) == [u EXCEPT !.reserved = @ + amount]

ConsumeUsage(u, amount) ==
  [u EXCEPT !.reserved = @ - amount, !.used = @ + amount]

ReleaseUsage(u, amount) == [u EXCEPT !.reserved = @ - amount]

\* Reservations LimitsService.consume goes through: every one not CONSUMED.
LimitConsumable == {"RESERVED", "RELEASED"}

\* Reservations LimitsService.release goes through: RESERVED ones only.
LimitReleasable == {"RESERVED"}
=============================================================================
