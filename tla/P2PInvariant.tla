---------------------------- MODULE P2PInvariant ----------------------------
(***************************************************************************)
(* The inductive invariant of P2PAllocations: a row lock keeps what        *)
(* finalize, cancel and expire have read of their allocation, and an       *)
(* allocation carries the evidence of the steps it has gone through.  Of   *)
(* the withdrawal and the deposit a call has read it says nothing: those   *)
(* rows may have changed.  MCP2P checks it, P2PProofs proves it.           *)
(***************************************************************************)
EXTENDS P2PAllocations

\* Process p holds the lock of the allocation tx[p].a and has read it.
Holds(p) == At(p, "commit") /\ tx[p].call # "assign"

LocksExclusive == \A p, q \in Procs : p # q /\ Holds(p) /\ Holds(q) => tx[p].a # tx[q].a

\* What it has read is still so; only the time may have passed.
SameRow(r, s) ==
  /\ r.status = s.status /\ r.w = s.w /\ r.d = s.d /\ r.amount = s.amount
  /\ r.proofs = s.proofs /\ r.confirmed = s.confirmed /\ r.verified = s.verified

ReadsHold ==
  \A p \in Procs :
    /\ ~At(p, "idle") /\ tx[p].call # "assign" => alloc[tx[p].a].status # "none"
    /\ Holds(p) => SameRow(alloc[tx[p].a], tx[p].seenA)

\* An allocation that only waits has no proof; one that was confirmed, verified
\* or disputed has; and its status names no confirmation that was not given.
Evidence(r) ==
  /\ r.status \in {"none", "ASSIGNED", "EXPIRED"} => r.proofs = 0 /\ ~r.confirmed /\ ~r.verified
  /\ r.status \in {"PROOF_SUBMITTED", "RECEIVER_CONFIRMED", "ADMIN_VERIFIED", "DISPUTED"} => r.proofs > 0
  /\ r.status = "RECEIVER_CONFIRMED" => r.confirmed
  /\ r.status = "ADMIN_VERIFIED" => r.verified

\* The strengthening of the safety properties that the steps preserve.
IInv ==
  /\ TypeOK
  /\ LocksExclusive /\ ReadsHold
  /\ \A a \in Allocations : Evidence(alloc[a])
  /\ MoneyAgrees /\ RetriedAssignRunsOnce /\ SettledWasConfirmed
=============================================================================
