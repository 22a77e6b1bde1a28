------------------------------- MODULE MCP2P -------------------------------
(***************************************************************************)
(* P2PInvariant for TLC: two calls at a time on one withdrawal.  MCP2P.cfg *)
(* has two offers and an idempotency key, MCP2POffers.cfg a withdrawal     *)
(* that is larger than the only offer.                                     *)
(***************************************************************************)
EXTENDS P2PInvariant, TLC

MCWithdrawAmount == [w \in Withdrawals |-> 2]
MCLargeWithdrawal == [w \in Withdrawals |-> 3]
MCDepositAmount == [d \in Deposits |-> 2]
Symmetry == Permutations(Procs) \union Permutations(Deposits) \union Permutations(Allocations)
=============================================================================
