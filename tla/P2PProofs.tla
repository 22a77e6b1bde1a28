------------------------------ MODULE P2PProofs ------------------------------
(***************************************************************************)
(* Proofs about P2PAllocations for all processes, withdrawals, offers,     *)
(* allocations, amounts and keys, and for every confirmation mode.         *)
(***************************************************************************)
EXTENDS P2PInvariant, BookLemmas, TLAPS

----------------------------------------------------------------------------
(* Types *)

LEMMA AmountTypes == \A n \in Amounts : n \in Nat /\ n \in Int /\ n > 0
BY AmountsAssumption

LEMMA NoAllocationFacts ==
  /\ NoAllocation.status = "none" /\ NoAllocation.amount = 0 /\ NoAllocation.proofs = 0
  /\ ~NoAllocation.confirmed /\ ~NoAllocation.verified
BY DEF NoAllocation

\* What a row that is there may contain.
LEMMA RowTypes ==
  ASSUME NEW r \in AllocationRow
  PROVE  /\ r.status \in AllocationStatus \ {"none"} /\ r.w \in Withdrawals /\ r.d \in Deposits
         /\ r.amount \in Amounts /\ r.amount \in Nat
         /\ r.proofs \in 0..(1 + MaxFiles) /\ r.proofs \in Nat
         /\ r.confirmed \in BOOLEAN /\ r.verified \in BOOLEAN /\ r.expired \in BOOLEAN
<1>1. /\ r.status \in AllocationStatus \ {"none"} /\ r.w \in Withdrawals /\ r.d \in Deposits
      /\ r.amount \in Amounts /\ r.proofs \in 0..(1 + MaxFiles)
      /\ r.confirmed \in BOOLEAN /\ r.verified \in BOOLEAN /\ r.expired \in BOOLEAN
  BY DEF AllocationRow
<1> QED BY <1>1, AmountTypes

LEMMA AllocTypes ==
  ASSUME TypeOK, NEW a \in Allocations
  PROVE  /\ alloc[a].status # "none" => alloc[a] \in AllocationRow
         /\ alloc[a].status = "none" => alloc[a] = NoAllocation
         /\ alloc[a].amount \in Nat
<1>1. alloc[a] \in AllocationRow \union {NoAllocation}
  BY DEF TypeOK
<1> QED BY <1>1, RowTypes, NoAllocationFacts

\* What a call is about, and what it has read.
LEMMA CallTypes ==
  ASSUME TypeOK, NEW p \in Procs
  PROVE  /\ tx[p] \in TxRecord
         /\ At(p, "idle") \/ At(p, "lockAllocation") \/ At(p, "commit")
         /\ At(p, "idle") => tx[p] = Idle
         /\ At(p, "lockAllocation") => tx[p].a \in Allocations /\ tx[p].call \in {"finalize", "cancel", "expire"}
         /\ At(p, "commit") /\ tx[p].call = "assign" =>
              tx[p].w \in Withdrawals /\ tx[p].items \in Assignments /\ tx[p].key \in Keys \union {NoKey}
         /\ Holds(p) => /\ tx[p].a \in Allocations /\ tx[p].call \in {"finalize", "cancel", "expire"}
                        /\ tx[p].seenA \in AllocationRow /\ tx[p].seenW \in WithdrawRow /\ tx[p].seenD \in DepositRow
<1>1. tx[p] \in TxRecord
  BY DEF TypeOK
<1>2. CASE tx[p] = Idle
  BY <1>1, <1>2 DEF At, Holds, Idle
<1>3. CASE tx[p] \in [pc : {"lockAllocation"}, call : {"finalize", "cancel", "expire"}, a : Allocations]
  BY <1>1, <1>3 DEF At, Holds
<1>4. CASE tx[p] \in [pc : {"commit"}, call : {"assign"}, w : Withdrawals, items : Assignments, key : Keys \union {NoKey}]
  BY <1>1, <1>4 DEF At, Holds
<1>5. CASE tx[p] \in [pc : {"commit"}, call : {"finalize", "cancel", "expire"}, a : Allocations,
                      seenA : AllocationRow, seenW : WithdrawRow, seenD : DepositRow]
  BY <1>1, <1>5 DEF At, Holds
<1> QED BY <1>1, <1>2, <1>3, <1>4, <1>5 DEF TxRecord

LEMMA StatusType == \A amount, assigned, settled \in Int : DeriveStatus(amount, assigned, settled) \in RequestStatus
BY DEF DeriveStatus, RequestStatus

\* The items of an assign call are amounts of finitely many offers.
LEMMA ItemTypes ==
  ASSUME NEW items \in Assignments
  PROVE  /\ DOMAIN items \subseteq Deposits /\ IsFiniteSet(DOMAIN items) /\ items \in [DOMAIN items -> Int]
         /\ \A d \in DOMAIN items : items[d] \in Amounts
         /\ Total(items) \in Int
<1>1. PICK S \in SUBSET Deposits : items \in [S -> Amounts]
  BY DEF Assignments
<1>2. IsFiniteSet(S)
  BY RowsAssumption, FS_Subset
<1>3. items \in [S -> Int] /\ DOMAIN items = S
  BY <1>1, AmountTypes
<1>4. Total(items) \in Int
  BY <1>2, <1>3, SumInt DEF Total
<1> QED BY <1>1, <1>2, <1>3, <1>4

LEMMA TotalHeldType == TotalHeld \in Int
<1>1. WithdrawAmount \in [Withdrawals -> Int]
  BY OffersAssumption
<1> QED BY <1>1, SumInt, RowsAssumption DEF TotalHeld

----------------------------------------------------------------------------
(* What the conjuncts of IInv need of a step *)

\* Locks and reads of the calls that go on or end, when no row that is locked
\* is written.
LEMMA ReadsStay ==
  ASSUME LocksExclusive, ReadsHold, \A q \in Procs : tx'[q] = tx[q] \/ tx'[q] = Idle,
         \A q \in Procs : Holds(q) /\ tx'[q] = tx[q] => SameRow(alloc'[tx[q].a], alloc[tx[q].a]),
         \A q \in Procs : ~At(q, "idle") /\ tx[q].call # "assign" /\ alloc[tx[q].a].status # "none"
                            => alloc'[tx[q].a].status # "none"
  PROVE  LocksExclusive' /\ ReadsHold'
<1>1. \A q \in Procs : At(q, "idle")' \/ (tx'[q] = tx[q] /\ ~At(q, "idle"))
  BY DEF At, Idle
<1>2. \A q \in Procs : Holds(q)' => Holds(q) /\ tx'[q] = tx[q]
  BY <1>1 DEF Holds, At
<1>3. LocksExclusive'
  BY <1>2 DEF LocksExclusive
<1>4. ASSUME NEW q \in Procs
      PROVE  /\ (~At(q, "idle") /\ tx[q].call # "assign")' => alloc'[tx'[q].a].status # "none"
             /\ Holds(q)' => SameRow(alloc'[tx'[q].a], tx'[q].seenA)
  BY <1>1, <1>2 DEF ReadsHold, SameRow, At
<1> QED BY <1>3, <1>4 DEF ReadsHold

\* An allocation that a step leaves where it is.
Stays(a) ==
  /\ alloc'[a].w = alloc[a].w /\ alloc'[a].amount = alloc[a].amount
  /\ alloc'[a].status \in Released <=> alloc[a].status \in Released
  /\ alloc'[a].status = "SETTLED" <=> alloc[a].status = "SETTLED"

\* If all do, the sums over them stay too.
LEMMA CarriedStays ==
  ASSUME \A a \in Allocations : Stays(a)
  PROVE  /\ \A w : Carried(Live(w))' = Carried(Live(w))
         /\ Carried(Settled)' = Carried(Settled) /\ Settled' = Settled
<1>1. ASSUME NEW w PROVE Live(w)' = Live(w) 
  BY DEF Stays, Live
<1>2. Settled' = Settled
  BY DEF Stays, Settled
<1>3. \A a \in Allocations : alloc'[a].amount = alloc[a].amount
  BY DEF Stays
<1> QED BY <1>1, <1>2, <1>3 DEF Carried

LEMMA MoneyStays ==
  ASSUME MoneyAgrees, UNCHANGED <<hold, allocHold, account, usage>>, \A a \in Allocations : Stays(a)
  PROVE  MoneyAgrees'
<1>1. /\ \A w : Carried(Live(w))' = Carried(Live(w))
      /\ Carried(Settled)' = Carried(Settled) /\ Settled' = Settled
  BY CarriedStays
<1>2. ReservationsConserved'
  BY <1>1 DEF MoneyAgrees, ReservationsConserved, Stays
<1>3. MoneyMatchesAllocations'
  BY <1>1 DEF MoneyAgrees, MoneyMatchesAllocations, TotalHeld
<1> QED BY <1>2, <1>3 DEF MoneyAgrees

LEMMA SettledStays ==
  ASSUME SettledWasConfirmed, \A a \in Allocations : alloc'[a].status = "SETTLED" => alloc'[a] = alloc[a]
  PROVE  SettledWasConfirmed'
<1>1. \A a \in Settled' : a \in Settled /\ alloc'[a] = alloc[a]
  BY DEF Settled
<1> QED BY <1>1 DEF SettledWasConfirmed

----------------------------------------------------------------------------
(* Steps that change no table *)

LEMMA TablesStay ==
  ASSUME IInv, UNCHANGED tables, tx' \in [Procs -> TxRecord], LocksExclusive', ReadsHold'
  PROVE  IInv' /\ KeepsEnds
<1>1. UNCHANGED <<withdrawal, deposit, alloc, hold, allocHold, account, usage, idempotency>>
  BY DEF tables
<1>2. TypeOK'
  BY <1>1 DEF IInv, TypeOK
<1>3. MoneyAgrees'
  BY <1>1, MoneyStays DEF Stays, IInv
<1>4. SettledWasConfirmed' /\ RetriedAssignRunsOnce'
  BY <1>1, SettledStays DEF IInv, RetriedAssignRunsOnce
<1>5. \A a \in Allocations : Evidence(alloc[a])'
  BY <1>1 DEF IInv, Evidence
<1>6. KeepsEnds
  BY <1>1 DEF KeepsEnds, IInv, Evidence
<1> QED BY <1>2, <1>3, <1>4, <1>5, <1>6 DEF IInv

LEMMA AbortKeeps ==
  ASSUME IInv, NEW p \in Procs, GoTo(p, Idle)
  PROVE  IInv' /\ KeepsEnds
<1>1. UNCHANGED tables /\ tx' = [tx EXCEPT ![p] = Idle] /\ tx \in [Procs -> TxRecord] /\ alloc' = alloc
  BY DEF GoTo, IInv, TypeOK, tables
<1>2. tx' \in [Procs -> TxRecord] /\ \A q \in Procs : tx'[q] = tx[q] \/ tx'[q] = Idle
  BY <1>1 DEF TxRecord
<1>3. LocksExclusive' /\ ReadsHold'
  BY <1>1, <1>2, ReadsStay DEF IInv, SameRow
<1> QED BY <1>1, <1>2, <1>3, TablesStay

\* A call begins: it holds nothing and has read nothing yet.
LEMMA BeginKeeps ==
  ASSUME IInv, NEW p \in Procs, NEW t \in TxRecord, GoTo(p, t), t.pc # "idle",
         t.call # "assign" => t.pc = "lockAllocation" /\ alloc[t.a].status # "none"
  PROVE  IInv' /\ KeepsEnds
<1>1. /\ UNCHANGED tables /\ alloc' = alloc /\ tx' \in [Procs -> TxRecord]
      /\ tx'[p] = t /\ \A q \in Procs \ {p} : tx'[q] = tx[q]
  BY DEF GoTo, IInv, TypeOK, tables
<1>2. \A q \in Procs : Holds(q)' => q # p /\ Holds(q) /\ tx'[q] = tx[q]
  BY <1>1 DEF Holds, At
<1>3. LocksExclusive'
  BY <1>2 DEF LocksExclusive, IInv
<1>4. ASSUME NEW q \in Procs
      PROVE  /\ (~At(q, "idle") /\ tx[q].call # "assign")' => alloc'[tx'[q].a].status # "none"
             /\ Holds(q)' => SameRow(alloc'[tx'[q].a], tx'[q].seenA)
  BY <1>1, <1>2 DEF ReadsHold, IInv, At, SameRow
<1>5. ReadsHold'
  BY <1>4 DEF ReadsHold
<1> QED BY <1>1, <1>3, <1>5, TablesStay

LEMMA BeginAssignKeeps ==
  ASSUME IInv, NEW p \in Procs, NEW w \in Withdrawals, NEW items \in Assignments, NEW k \in Keys \union {NoKey},
         BeginAssign(p, w, items, k)
  PROVE  IInv' /\ KeepsEnds
<1> DEFINE t == [pc |-> "commit", call |-> "assign", w |-> w, items |-> items, key |-> k]
<1>1. t \in TxRecord /\ t.pc # "idle" /\ t.call = "assign"
  BY DEF TxRecord
<1>2. GoTo(p, t)
  BY DEF BeginAssign
<1> HIDE DEF t
<1> QED BY <1>1, <1>2, BeginKeeps

LEMMA BeginOnKeeps ==
  ASSUME IInv, NEW p \in Procs, NEW a \in Allocations, NEW call \in {"finalize", "cancel", "expire"}, BeginOn(p, a, call)
  PROVE  IInv' /\ KeepsEnds
<1> DEFINE t == [pc |-> "lockAllocation", call |-> call, a |-> a]
<1>1. t \in TxRecord /\ t.pc = "lockAllocation" /\ t.a = a
  BY DEF TxRecord
<1>2. GoTo(p, t) /\ alloc[a].status # "none"
  BY DEF BeginOn
<1> HIDE DEF t
<1> QED BY <1>1, <1>2, BeginKeeps

\* Locking the allocation, which nobody else holds, and reading it.
LEMMA LockKeeps ==
  ASSUME IInv, NEW p \in Procs, LockAllocation(p)
  PROVE  IInv' /\ KeepsEnds
<1> DEFINE a == tx[p].a
           t == [pc |-> "commit", call |-> tx[p].call, a |-> a,
                 seenA |-> alloc[a], seenW |-> withdrawal[alloc[a].w], seenD |-> deposit[alloc[a].d]]
<1>1. GoTo(p, t) /\ At(p, "lockAllocation") /\ CanLockAllocation(p, a)
  BY DEF LockAllocation
<1>2. a \in Allocations /\ tx[p].call \in {"finalize", "cancel", "expire"}
  BY <1>1, CallTypes DEF IInv
<1>3. alloc[a].status # "none"
  BY <1>1, <1>2 DEF IInv, ReadsHold, At
<1>4. alloc[a] \in AllocationRow /\ alloc[a].w \in Withdrawals /\ alloc[a].d \in Deposits
  BY <1>2, <1>3, AllocTypes, RowTypes DEF IInv
<1>5. t \in TxRecord /\ t.pc = "commit" /\ t.call # "assign" /\ t.a = a /\ t.seenA = alloc[a]
  BY <1>2, <1>4 DEF TxRecord, IInv, TypeOK
<1>6. /\ UNCHANGED tables /\ alloc' = alloc /\ tx' \in [Procs -> TxRecord]
      /\ tx'[p] = t /\ \A q \in Procs \ {p} : tx'[q] = tx[q]
  BY <1>1, <1>5 DEF GoTo, IInv, TypeOK, tables
<1> HIDE DEF t, a
<1>7. \A q \in Procs \ {p} : (Holds(q)' => Holds(q)) /\ (Holds(q) => tx[q].a # a)
  BY <1>1, <1>6 DEF Holds, At, CanLockAllocation
<1>8. LocksExclusive'
  BY <1>5, <1>6, <1>7 DEF LocksExclusive, IInv
<1>9. ASSUME NEW q \in Procs
      PROVE  /\ (~At(q, "idle") /\ tx[q].call # "assign")' => alloc'[tx'[q].a].status # "none"
             /\ Holds(q)' => SameRow(alloc'[tx'[q].a], tx'[q].seenA)
  BY <1>3, <1>5, <1>6, <1>7 DEF ReadsHold, IInv, At, SameRow
<1>10. ReadsHold'
  BY <1>9 DEF ReadsHold
<1> QED BY <1>6, <1>8, <1>10, TablesStay

----------------------------------------------------------------------------
(* Steps that change one allocation and move nothing *)

LEMMA RowChange ==
  ASSUME IInv, NEW a \in Allocations, NEW row \in AllocationRow, alloc' = [alloc EXCEPT ![a] = row],
         UNCHANGED <<withdrawal, deposit, hold, allocHold, account, usage, idempotency, tx>>,
         \A q \in Procs : Holds(q) /\ tx[q].a = a => SameRow(row, alloc[a]),
         alloc[a].status \notin Released \union {"SETTLED"}, row.status \notin Released \union {"SETTLED"},
         row.w = alloc[a].w, row.amount = alloc[a].amount, Evidence(row)
  PROVE  IInv' /\ KeepsEnds
<1>1. alloc \in [Allocations -> AllocationRow \union {NoAllocation}]
  BY DEF IInv, TypeOK
<1>2. alloc'[a] = row /\ \A b \in Allocations \ {a} : alloc'[b] = alloc[b]
  BY <1>1
<1>3. TypeOK'
  <2>1. alloc' \in [Allocations -> AllocationRow \union {NoAllocation}]
    BY <1>1
  <2> QED BY <2>1 DEF IInv, TypeOK
<1>4. LocksExclusive' /\ ReadsHold'
  <2>1. \A q \in Procs : ~At(q, "idle") /\ tx[q].call # "assign" => tx[q].a \in Allocations
    BY CallTypes DEF IInv, Holds
  <2>2. \A q \in Procs : Holds(q) => SameRow(alloc'[tx[q].a], alloc[tx[q].a])
    BY <1>2, <2>1, CallTypes DEF SameRow, IInv
  <2>3. \A q \in Procs : ~At(q, "idle") /\ tx[q].call # "assign" /\ alloc[tx[q].a].status # "none"
                            => alloc'[tx[q].a].status # "none"
    BY <1>2, <2>1 DEF Released
  <2> QED BY <2>2, <2>3, ReadsStay DEF IInv
<1>5. \A b \in Allocations : Evidence(alloc[b])'
  BY <1>2 DEF IInv, Evidence
<1>6. MoneyAgrees'
  <2>1. \A b \in Allocations : Stays(b)
    BY <1>2 DEF Stays
  <2> QED BY <2>1, MoneyStays DEF IInv
<1>7. SettledWasConfirmed'
  BY <1>2, SettledStays DEF IInv
<1>8. RetriedAssignRunsOnce'
  BY DEF IInv, RetriedAssignRunsOnce
<1>9. KeepsEnds
  BY <1>2 DEF KeepsEnds, Released, IInv, Evidence
<1> QED BY <1>3, <1>4, <1>5, <1>6, <1>7, <1>8, <1>9 DEF IInv

\* Nobody else holds the row of an update.
LEMMA UpdateFrees ==
  ASSUME IInv, NEW p \in Procs, NEW a \in Allocations, NEW row \in AllocationRow, Update(p, a, row)
  PROVE  /\ alloc' = [alloc EXCEPT ![a] = row]
         /\ UNCHANGED <<withdrawal, deposit, hold, allocHold, account, usage, idempotency, tx>>
         /\ \A q \in Procs : ~(Holds(q) /\ tx[q].a = a)
BY DEF Update, CanLockAllocation, Holds, At

LEMMA ProofKeeps ==
  ASSUME IInv, NEW p \in Procs, NEW a \in Allocations, NEW files \in 1..MaxFiles, SubmitPayerProof(p, a, files)
  PROVE  IInv' /\ KeepsEnds
<1> DEFINE r == alloc[a]
           row == [r EXCEPT !.status = "PROOF_SUBMITTED", !.proofs = @ + files]
<1>1. /\ Update(p, a, row)
      /\ r.status \in {"ASSIGNED", "PROOF_SUBMITTED"} /\ r.proofs < 2
  BY DEF SubmitPayerProof, ProofAccepted
<1>2. r \in AllocationRow /\ r.proofs \in Nat
  BY <1>1, AllocTypes, RowTypes DEF IInv
<1>3. /\ row.status = "PROOF_SUBMITTED" /\ row.proofs = r.proofs + files /\ row.w = r.w /\ row.d = r.d /\ row.amount = r.amount
      /\ row.confirmed = r.confirmed /\ row.verified = r.verified /\ row.expired = r.expired
      /\ row = [status |-> row.status, w |-> row.w, d |-> row.d, amount |-> row.amount, proofs |-> row.proofs,
                confirmed |-> row.confirmed, verified |-> row.verified, expired |-> row.expired]
  <2> DEFINE s == [r EXCEPT !.status = "PROOF_SUBMITTED"]
  <2>1. row = [s EXCEPT !.proofs = r.proofs + files]
    BY <1>2 DEF AllocationRow
  <2>2. /\ s \in AllocationRow /\ s.status = "PROOF_SUBMITTED" /\ s.w = r.w /\ s.d = r.d /\ s.amount = r.amount
        /\ s.confirmed = r.confirmed /\ s.verified = r.verified /\ s.expired = r.expired
    BY <1>2 DEF AllocationRow, AllocationStatus
  <2> HIDE DEF s, row
  <2> QED BY <2>1, <2>2 DEF AllocationRow
<1>4. row.proofs \in 0..(1 + MaxFiles) /\ row.proofs > 0
  BY <1>1, <1>2, <1>3, FilesAssumption
<1>5. row \in AllocationRow /\ Evidence(row)
  <2> HIDE DEF row
  <2>1. row \in AllocationRow
    BY <1>2, <1>3, <1>4, RowTypes DEF AllocationRow, AllocationStatus
  <2> QED BY <1>3, <1>4, <2>1 DEF Evidence
<1> HIDE DEF row
<1> QED BY <1>1, <1>3, <1>5, UpdateFrees, RowChange DEF Released

LEMMA ConfirmKeeps ==
  ASSUME IInv, NEW p \in Procs, NEW a \in Allocations, NEW yes \in BOOLEAN, ReceiverConfirm(p, a, yes)
  PROVE  IInv' /\ KeepsEnds
<1> DEFINE r == alloc[a]
           row == IF yes THEN [r EXCEPT !.confirmed = TRUE, !.status = IF @ = "ADMIN_VERIFIED" THEN @ ELSE "RECEIVER_CONFIRMED"]
                         ELSE [r EXCEPT !.status = "DISPUTED"]
<1>1. Update(p, a, row) /\ r.status \in {"PROOF_SUBMITTED", "ADMIN_VERIFIED"}
  BY DEF ReceiverConfirm, ConfirmAccepted
<1>2. r \in AllocationRow /\ Evidence(r)
  BY <1>1, AllocTypes DEF IInv
<1>3. /\ row \in AllocationRow /\ row.w = r.w /\ row.amount = r.amount /\ row.proofs = r.proofs
      /\ row.status \in {"ADMIN_VERIFIED", "RECEIVER_CONFIRMED", "DISPUTED"}
      /\ row.status = "RECEIVER_CONFIRMED" => row.confirmed
      /\ row.status = "ADMIN_VERIFIED" => r.status = "ADMIN_VERIFIED"
      /\ row.verified = r.verified
  BY <1>1, <1>2 DEF AllocationRow, AllocationStatus
<1>4. Evidence(row)
  BY <1>1, <1>2, <1>3 DEF Evidence
<1> HIDE DEF row
<1> QED BY <1>1, <1>3, <1>4, UpdateFrees, RowChange DEF Released

LEMMA VerifyKeeps ==
  ASSUME IInv, NEW p \in Procs, NEW a \in Allocations, NEW yes \in BOOLEAN, AdminVerify(p, a, yes)
  PROVE  IInv' /\ KeepsEnds
<1> DEFINE r == alloc[a]
           row == [r EXCEPT !.verified = TRUE, !.status = IF yes THEN "ADMIN_VERIFIED" ELSE "DISPUTED"]
<1>1. Update(p, a, row) /\ r.status \in {"PROOF_SUBMITTED", "RECEIVER_CONFIRMED"}
  BY DEF AdminVerify, VerifyAccepted
<1>2. r \in AllocationRow /\ Evidence(r)
  BY <1>1, AllocTypes DEF IInv
<1>3. row \in AllocationRow /\ row.w = r.w /\ row.amount = r.amount /\ row.proofs = r.proofs
      /\ row.status \in {"ADMIN_VERIFIED", "DISPUTED"} /\ row.verified
  BY <1>1, <1>2 DEF AllocationRow, AllocationStatus
<1>4. Evidence(row)
  BY <1>1, <1>2, <1>3 DEF Evidence
<1> HIDE DEF row
<1> QED BY <1>1, <1>3, <1>4, UpdateFrees, RowChange DEF Released

\* Time passing is all that a lock does not keep out.
LEMMA ExpireKeeps ==
  ASSUME IInv, NEW a \in Allocations, Expire(a)
  PROVE  IInv' /\ KeepsEnds
<1> DEFINE r == alloc[a]
           row == [r EXCEPT !.expired = TRUE]
<1>1. /\ alloc' = [alloc EXCEPT ![a].expired = TRUE] /\ r.status = "ASSIGNED"
      /\ UNCHANGED <<withdrawal, deposit, hold, allocHold, account, usage, idempotency, tx>>
  BY DEF Expire
<1>2. alloc' = [alloc EXCEPT ![a] = row]
  BY <1>1
<1>3. r \in AllocationRow /\ Evidence(r)
  BY <1>1, AllocTypes DEF IInv
<1>4. row \in AllocationRow /\ SameRow(row, r)
  BY <1>3 DEF AllocationRow, SameRow
<1>5. Evidence(row)
  BY <1>3, <1>4 DEF Evidence, SameRow
<1> HIDE DEF row
<1> QED BY <1>1, <1>2, <1>4, <1>5, RowChange DEF Released, SameRow

----------------------------------------------------------------------------
(* assignAllocations *)

\* The row for an item, and where the rows of a call are put.
NewRow(p, d) == [NoAllocation EXCEPT !.status = "ASSIGNED", !.w = tx[p].w, !.d = d, !.amount = tx[p].items[d]]

PutAt(p, id) ==
  /\ \A d, e \in DOMAIN tx[p].items : id[d] = id[e] => d = e
  /\ \A d \in DOMAIN tx[p].items :
       /\ id[d] \in Allocations /\ alloc[id[d]].status = "none"
       /\ alloc'[id[d]] = NewRow(p, d) /\ allocHold'[id[d]] = "RESERVED"
  /\ \A a \in Allocations : (\A d \in DOMAIN tx[p].items : id[d] # a) => alloc'[a] = alloc[a] /\ allocHold'[a] = allocHold[a]

LEMMA NewRowIs ==
  ASSUME NEW p, NEW d
  PROVE  NewRow(p, d) = [status |-> "ASSIGNED", w |-> tx[p].w, d |-> d, amount |-> tx[p].items[d], proofs |-> 0,
                         confirmed |-> FALSE, verified |-> FALSE, expired |-> FALSE]
<1> DEFINE n == tx[p].items[d]
           u == tx[p].w
           no == FALSE
           one == [NoAllocation EXCEPT !.status = "ASSIGNED"]
           two == [one EXCEPT !.w = u]
           three == [two EXCEPT !.d = d]
<1>1. NoAllocation = [status |-> "none", w |-> "none", d |-> "none", amount |-> 0, proofs |-> 0,
                      confirmed |-> no, verified |-> no, expired |-> no]
  BY DEF NoAllocation
<1>2. NewRow(p, d) = [three EXCEPT !.amount = n]
  BY DEF NewRow
<1> HIDE DEF n, u, no
<1>3. one = [status |-> "ASSIGNED", w |-> "none", d |-> "none", amount |-> 0, proofs |-> 0,
             confirmed |-> no, verified |-> no, expired |-> no]
  BY <1>1
<1> HIDE DEF one
<1>4. two = [status |-> "ASSIGNED", w |-> u, d |-> "none", amount |-> 0, proofs |-> 0,
             confirmed |-> no, verified |-> no, expired |-> no]
  BY <1>3
<1> HIDE DEF two
<1>5. three = [status |-> "ASSIGNED", w |-> u, d |-> d, amount |-> 0, proofs |-> 0,
               confirmed |-> no, verified |-> no, expired |-> no]
  BY <1>4
<1> HIDE DEF three
<1>6. NewRow(p, d) = [status |-> "ASSIGNED", w |-> u, d |-> d, amount |-> n, proofs |-> 0,
                      confirmed |-> no, verified |-> no, expired |-> no]
  BY <1>2, <1>5
<1> QED BY <1>6 DEF n, u, no

LEMMA NewRowTypes ==
  ASSUME NEW p, NEW d \in Deposits, tx[p].w \in Withdrawals, tx[p].items[d] \in Amounts
  PROVE  /\ NewRow(p, d) \in AllocationRow /\ NewRow(p, d).status = "ASSIGNED" /\ NewRow(p, d).w = tx[p].w
         /\ NewRow(p, d).amount = tx[p].items[d] /\ Evidence(NewRow(p, d))
<1> DEFINE no == FALSE
<1>1. NewRow(p, d) = [status |-> "ASSIGNED", w |-> tx[p].w, d |-> d, amount |-> tx[p].items[d], proofs |-> 0,
                      confirmed |-> no, verified |-> no, expired |-> no]
  BY NewRowIs
<1>2. no \in BOOLEAN /\ ~no /\ 0 \in 0..(1 + MaxFiles)
  BY FilesAssumption
<1> HIDE DEF no
<1>3. NewRow(p, d) \in AllocationRow
  BY <1>1, <1>2 DEF AllocationRow, AllocationStatus
<1> QED BY <1>1, <1>2, <1>3 DEF Evidence

\* Its rows: one new allocation for each item, in a place that was free.
LEMMA AssignRows ==
  ASSUME IInv, NEW p \in Procs, CommitAssign(p)
  PROVE  \E id \in [DOMAIN tx[p].items -> Allocations] : PutAt(p, id)
<1> DEFINE T == DOMAIN tx[p].items
           ids(id) == {id[d] : d \in T}
<1>1. PICK id \in Injection(T, FreeIds) :
        /\ allocHold' = [a \in Allocations |-> IF a \in ids(id) THEN "RESERVED" ELSE allocHold[a]]
        /\ alloc' = [a \in Allocations |-> IF a \notin ids(id) THEN alloc[a] ELSE NewRow(p, CHOOSE d \in T : id[d] = a)]
  BY DEF CommitAssign, SplitReservation, NewRow
<1>2. id \in [T -> FreeIds] /\ \A d, e \in T : id[d] = id[e] => d = e
  BY DEF Injection, IsInjective
<1>3. \A d \in T : id[d] \in Allocations /\ alloc[id[d]].status = "none" /\ id[d] \in ids(id)
  BY <1>2 DEF FreeIds
<1>4. \A d \in T : (CHOOSE e \in T : id[e] = id[d]) = d
  BY <1>2
<1>5. \A d \in T : alloc'[id[d]] = NewRow(p, d) /\ allocHold'[id[d]] = "RESERVED"
  BY <1>1, <1>3, <1>4
<1>6. \A a \in Allocations : (\A d \in T : id[d] # a) => alloc'[a] = alloc[a] /\ allocHold'[a] = allocHold[a]
  BY <1>1
<1>7. id \in [T -> Allocations]
  BY <1>2, <1>3
<1>8. PutAt(p, id)
  BY <1>2, <1>3, <1>5, <1>6 DEF PutAt
<1> QED BY <1>7, <1>8

\* What the other tables become.
LEMMA AssignTables ==
  ASSUME IInv, NEW p \in Procs, CommitAssign(p)
  PROVE  /\ tx[p].w \in Withdrawals /\ tx[p].items \in Assignments /\ At(p, "commit") /\ tx[p].call = "assign"
         /\ Total(tx[p].items) \in Int /\ Total(tx[p].items) <= hold[tx[p].w]
         /\ hold' = [hold EXCEPT ![tx[p].w] = @ - Total(tx[p].items)]
         /\ account' = account /\ usage' = usage
         /\ \A q \in Procs : tx'[q] = IF q = p THEN Idle ELSE tx[q]
         /\ RetriedAssignRunsOnce'
<1>1. /\ At(p, "commit") /\ tx[p].call = "assign" /\ CanAssign(tx[p].w, tx[p].items, tx[p].key)
      /\ hold' = [hold EXCEPT ![tx[p].w] = @ - Total(tx[p].items)]
      /\ account' = account /\ usage' = usage /\ tx' = [tx EXCEPT ![p] = Idle]
      /\ idempotency' = IF tx[p].key = NoKey THEN idempotency ELSE [idempotency EXCEPT ![<<tx[p].w, tx[p].key>>] = @ + 1]
  BY DEF CommitAssign, SplitReservation, Finish
<1>2. tx[p].w \in Withdrawals /\ tx[p].items \in Assignments /\ tx[p].key \in Keys \union {NoKey}
  BY <1>1, CallTypes DEF IInv
<1>3. Total(tx[p].items) \in Int
  BY <1>2, ItemTypes
<1>4. RetriedAssignRunsOnce'
  <2>1. CASE tx[p].key = NoKey
    BY <1>1, <2>1 DEF IInv, RetriedAssignRunsOnce
  <2>2. CASE tx[p].key # NoKey
    <3>1. idempotency[<<tx[p].w, tx[p].key>>] = 0 /\ idempotency \in [Withdrawals \X Keys -> Nat]
      BY <1>1, <2>2 DEF CanAssign, IInv, TypeOK
    <3> QED BY <1>1, <2>2, <3>1 DEF IInv, RetriedAssignRunsOnce
  <2> QED BY <2>1, <2>2
<1> QED BY <1>1, <1>2, <1>3, <1>4 DEF IInv, TypeOK, CanAssign

LEMMA AssignType ==
  ASSUME IInv, NEW p \in Procs, CommitAssign(p)
  PROVE  TypeOK'
<1> DEFINE w == tx[p].w
           items == tx[p].items
           assigned == withdrawal[w].assigned + Total(items)
<1>1. /\ w \in Withdrawals /\ items \in Assignments /\ Total(items) \in Int /\ Total(items) <= hold[w]
      /\ \A d \in DOMAIN items : items[d] \in Amounts /\ items[d] \in Int
      /\ DOMAIN items \subseteq Deposits
  BY AssignTables, ItemTypes, AmountTypes
<1>2. TypeOK
  BY DEF IInv
<1>3. withdrawal' \in [Withdrawals -> WithdrawRow]
  <2>1. withdrawal' = [withdrawal EXCEPT ![w].assigned = assigned, ![w].status = DeriveStatus(WithdrawAmount[w], assigned, withdrawal[w].settled)]
    BY DEF CommitAssign
  <2>2. withdrawal[w] \in WithdrawRow /\ withdrawal[w].settled \in Int /\ assigned \in Int /\ WithdrawAmount[w] \in Int
    BY <1>1, <1>2, OffersAssumption DEF TypeOK, WithdrawRow
  <2>3. DeriveStatus(WithdrawAmount[w], assigned, withdrawal[w].settled) \in RequestStatus
    BY <2>2, StatusType
  <2> HIDE DEF assigned
  <2> QED BY <1>1, <1>2, <2>1, <2>2, <2>3 DEF TypeOK, WithdrawRow
<1>4. deposit' \in [Deposits -> DepositRow]
  <2>1. ASSUME NEW d \in Deposits PROVE deposit'[d] \in DepositRow
    <3>1. deposit'[d] = IF d \notin DOMAIN items THEN deposit[d]
                        ELSE [deposit[d] EXCEPT !.assigned = @ + items[d], !.remaining = @ - items[d],
                                !.status = DeriveStatus(DepositAmount[d], deposit[d].assigned + items[d], deposit[d].settled)]
      BY DEF CommitAssign
    <3>2. /\ deposit[d] \in DepositRow /\ deposit[d].settled \in Int /\ deposit[d].assigned \in Int /\ deposit[d].remaining \in Int
          /\ DepositAmount[d] \in Int
      BY <1>2, OffersAssumption DEF TypeOK, DepositRow
    <3>3. CASE d \notin DOMAIN items
      BY <3>1, <3>2, <3>3
    <3>4. CASE d \in DOMAIN items
      <4> DEFINE n == items[d]
                 s == DeriveStatus(DepositAmount[d], deposit[d].assigned + n, deposit[d].settled)
                 one == [deposit[d] EXCEPT !.assigned = deposit[d].assigned + n]
                 two == [one EXCEPT !.remaining = deposit[d].remaining - n]
      <4>1. n \in Int /\ s \in RequestStatus
        BY <1>1, <3>2, <3>4, StatusType
      <4>2. deposit'[d] = [two EXCEPT !.status = s]
        BY <3>1, <3>2, <3>4 DEF DepositRow
      <4> HIDE DEF n, s
      <4>3. one \in DepositRow
        BY <3>2, <4>1 DEF DepositRow
      <4>4. two \in DepositRow
        <5> HIDE DEF one
        <5> QED BY <3>2, <4>1, <4>3 DEF DepositRow
      <4> HIDE DEF two
      <4> QED BY <4>1, <4>2, <4>4 DEF DepositRow
    <3> QED BY <3>3, <3>4
  <2>2. deposit' = [d \in Deposits |-> deposit'[d]]
    BY DEF CommitAssign
  <2> QED BY <2>1, <2>2
<1>5. alloc' \in [Allocations -> AllocationRow \union {NoAllocation}] /\ allocHold' \in [Allocations -> HoldStatus]
  <2>1. PICK id \in [DOMAIN items -> Allocations] : PutAt(p, id)
    BY AssignRows
  <2>2. \A d \in DOMAIN items : NewRow(p, d) \in AllocationRow
    BY <1>1, NewRowTypes
  <2>3. \A a \in Allocations : alloc'[a] \in AllocationRow \union {NoAllocation} /\ allocHold'[a] \in HoldStatus
    BY <1>2, <2>1, <2>2 DEF TypeOK, HoldStatus, PutAt
  <2>4. alloc' = [a \in Allocations |-> alloc'[a]] /\ allocHold' = [a \in Allocations |-> allocHold'[a]]
    BY DEF CommitAssign, SplitReservation
  <2> QED BY <2>3, <2>4
<1>6. hold' \in [Withdrawals -> Nat]
  <2>1. hold' = [hold EXCEPT ![w] = @ - Total(items)]
    BY AssignTables
  <2> QED BY <1>1, <1>2, <2>1 DEF TypeOK
<1>7. idempotency' \in [Withdrawals \X Keys -> Nat]
  <2>1. idempotency' = IF tx[p].key = NoKey THEN idempotency ELSE [idempotency EXCEPT ![<<w, tx[p].key>>] = @ + 1]
    BY DEF CommitAssign
  <2>2. CASE tx[p].key = NoKey
    BY <1>2, <2>1, <2>2 DEF TypeOK
  <2>3. CASE tx[p].key # NoKey
    <3> DEFINE i == <<w, tx[p].key>>
    <3>1. i \in Withdrawals \X Keys
      BY <1>1, <1>2, <2>3, AssignTables, CallTypes
    <3>2. idempotency' = [idempotency EXCEPT ![i] = @ + 1]
      BY <2>1, <2>3
    <3> HIDE DEF i
    <3> QED BY <1>2, <3>1, <3>2 DEF TypeOK
  <2> QED BY <2>2, <2>3
<1>8. account' = account /\ usage' = usage /\ tx' \in [Procs -> TxRecord]
  BY <1>2 DEF CommitAssign, Finish, TypeOK, TxRecord
<1> QED BY <1>2, <1>3, <1>4, <1>5, <1>6, <1>7, <1>8 DEF TypeOK

\* What an allocation adds to the amount that those of S carry.
Term(S) == [a \in Allocations |-> IF a \in S THEN alloc[a].amount ELSE 0]

LEMMA AmountsOfRows == \A r \in AllocationRow \union {NoAllocation} : r.amount \in Int
BY RowTypes, NoAllocationFacts

\* Every new allocation is live and carries what its item names, and the
\* withdrawal's reservation has lost the sum of that.
LEMMA AssignMoney ==
  ASSUME IInv, NEW p \in Procs, CommitAssign(p)
  PROVE  MoneyAgrees'
<1> DEFINE w == tx[p].w
           items == tx[p].items
           T == DOMAIN items
<1>1. PICK id \in [T -> Allocations] : PutAt(p, id)
  BY AssignRows
<1>2. /\ w \in Withdrawals /\ Total(items) \in Int /\ hold' = [hold EXCEPT ![w] = @ - Total(items)]
      /\ account' = account /\ usage' = usage /\ IsFiniteSet(T) /\ items \in [T -> Int]
      /\ \A d \in T : d \in Deposits /\ items[d] \in Amounts
  BY AssignTables, ItemTypes
<1>3. TypeOK /\ TypeOK' /\ MoneyAgrees /\ hold \in [Withdrawals -> Nat]
  BY AssignType DEF IInv, TypeOK
<1>4. \A a \in Allocations : alloc[a].amount \in Int /\ alloc'[a].amount \in Int
  BY <1>3, AmountsOfRows DEF TypeOK
<1>5. \A d \in T : /\ id[d] \in Allocations /\ alloc[id[d]].status = "none" /\ allocHold'[id[d]] = "RESERVED"
                   /\ alloc'[id[d]].status = "ASSIGNED" /\ alloc'[id[d]].w = w /\ alloc'[id[d]].amount = items[d]
  BY <1>1, <1>2, NewRowTypes DEF PutAt
<1>6. \A a \in Allocations : (\A d \in T : id[d] # a) => alloc'[a] = alloc[a] /\ allocHold'[a] = allocHold[a]
  BY <1>1 DEF PutAt
<1>7. \A d, e \in T : id[d] = id[e] => d = e
  BY <1>1 DEF PutAt
<1> HIDE DEF w, items
<1>8. ASSUME NEW v \in Withdrawals
      PROVE  hold'[v] + Carried(Live(v))' = WithdrawAmount[v]
  <2> DEFINE f == Term(Live(v))
             h == Term(Live(v))'
  <2>1. /\ Carried(Live(v)) = SumFunction(f) /\ Carried(Live(v))' = SumFunction(h)
        /\ f \in [Allocations -> Int] /\ h \in [Allocations -> Int]
        /\ \A a \in Allocations : /\ f[a] = IF a \in Live(v) THEN alloc[a].amount ELSE 0
                                  /\ h[a] = IF a \in Live(v)' THEN alloc'[a].amount ELSE 0
    BY <1>4 DEF Carried, Term
  <2>2. hold[v] + Carried(Live(v)) = WithdrawAmount[v]
    BY <1>3 DEF MoneyAgrees, ReservationsConserved
  <2>3. /\ SumFunction(f) \in Int /\ hold[v] \in Int
        /\ hold'[v] = IF v = w THEN hold[v] - Total(items) ELSE hold[v]
    BY <1>2, <1>3, <2>1, SumInt, RowsAssumption
  <2>4. \A a \in Allocations : (\A d \in T : id[d] # a) => h[a] = f[a]
    BY <1>6, <2>1 DEF Live
  <2>5. CASE v = w
    <3>1. \A d \in T : h[id[d]] = f[id[d]] + items[d]
      <4>1. \A d \in T : id[d] \notin Live(v) /\ id[d] \in Live(v)'
        BY <1>5, <2>5 DEF Live, Released
      <4>2. \A d \in T : f[id[d]] = 0 /\ h[id[d]] = items[d]
        BY <1>5, <2>1, <4>1
      <4> HIDE DEF f, h
      <4> QED BY <1>2, <4>2
    <3> HIDE DEF f, h, T
    <3>2. SumFunction(h) = SumFunction(f) + SumFunction(items)
      <4>1. /\ IsFiniteSet(Allocations) /\ f \in [Allocations -> Int] /\ h \in [Allocations -> Int]
            /\ IsFiniteSet(T) /\ items \in [T -> Int] /\ id \in [T -> Allocations]
        BY <1>1, <1>2, <2>1, RowsAssumption
      <4> QED BY <1>7, <2>4, <3>1, <4>1, SumSpread
    <3> QED BY <1>2, <2>1, <2>2, <2>3, <2>5, <3>2 DEF Total
  <2>6. CASE v # w
    <3>1. \A d \in T : id[d] \notin Live(v) /\ id[d] \notin Live(v)'
      BY <1>5, <2>6 DEF Live, Released
    <3>2. \A a \in Allocations : h[a] = f[a]
      BY <2>1, <2>4, <3>1
    <3> HIDE DEF f, h
    <3>3. h = f
      BY <2>1, <3>2
    <3> QED BY <2>1, <2>2, <2>3, <2>6, <3>3
  <2> QED BY <2>5, <2>6
<1>9. ASSUME NEW a \in Allocations
      PROVE  allocHold'[a] = IF alloc'[a].status \in Released THEN "none" ELSE IF a \in Settled' THEN "CONSUMED" ELSE "RESERVED"
  <2>1. allocHold[a] = IF alloc[a].status \in Released THEN "none" ELSE IF a \in Settled THEN "CONSUMED" ELSE "RESERVED"
    BY <1>3 DEF MoneyAgrees, ReservationsConserved
  <2>2. CASE \E d \in T : id[d] = a
    BY <1>5, <2>2 DEF Settled, Released
  <2>3. CASE ~\E d \in T : id[d] = a
    BY <1>6, <2>1, <2>3 DEF Settled
  <2> QED BY <2>2, <2>3
<1>10. Carried(Settled)' = Carried(Settled)
  <2>1. \A a \in Allocations : /\ a \in Settled' <=> a \in Settled
                               /\ a \in Settled => alloc'[a].amount = alloc[a].amount
    BY <1>5, <1>6 DEF Settled
  <2> QED BY <2>1 DEF Carried
<1>11. MoneyMatchesAllocations'
  BY <1>2, <1>3, <1>10 DEF MoneyAgrees, MoneyMatchesAllocations, TotalHeld
<1> QED BY <1>8, <1>9, <1>11 DEF MoneyAgrees, ReservationsConserved

LEMMA AssignKeeps ==
  ASSUME IInv, NEW p \in Procs, CommitAssign(p)
  PROVE  IInv' /\ KeepsEnds
<1> DEFINE T == DOMAIN tx[p].items
<1>1. PICK id \in [T -> Allocations] : PutAt(p, id)
  BY AssignRows
<1>2. /\ tx[p].w \in Withdrawals /\ \A q \in Procs : tx'[q] = IF q = p THEN Idle ELSE tx[q]
      /\ \A d \in T : d \in Deposits /\ tx[p].items[d] \in Amounts
      /\ RetriedAssignRunsOnce'
  BY AssignTables, ItemTypes
<1>3. \A d \in T : /\ alloc[id[d]].status = "none" /\ alloc'[id[d]] \in AllocationRow
                   /\ alloc'[id[d]].status = "ASSIGNED" /\ Evidence(alloc'[id[d]])
  BY <1>1, <1>2, NewRowTypes DEF PutAt
<1>4. \A a \in Allocations : \/ alloc'[a] = alloc[a]
                             \/ /\ alloc[a].status = "none" /\ alloc'[a] \in AllocationRow
                                /\ alloc'[a].status = "ASSIGNED" /\ Evidence(alloc'[a])
  BY <1>1, <1>3 DEF PutAt
<1> HIDE DEF T
<1>5. LocksExclusive' /\ ReadsHold'
  <2>1. \A q \in Procs : ~At(q, "idle") /\ tx[q].call # "assign" => tx[q].a \in Allocations /\ alloc[tx[q].a].status # "none"
    BY CallTypes DEF IInv, ReadsHold, Holds
  <2>2. \A q \in Procs : Holds(q) => SameRow(alloc'[tx[q].a], alloc[tx[q].a])
    BY <1>4, <2>1 DEF SameRow, Holds, At
  <2>3. \A q \in Procs : ~At(q, "idle") /\ tx[q].call # "assign" /\ alloc[tx[q].a].status # "none"
                            => alloc'[tx[q].a].status # "none"
    BY <1>4, <2>1
  <2> QED BY <1>2, <2>2, <2>3, ReadsStay DEF IInv
<1>6. \A a \in Allocations : Evidence(alloc[a])'
  BY <1>4 DEF IInv, Evidence
<1>7. SettledWasConfirmed'
  BY <1>4, SettledStays DEF IInv
<1>8. KeepsEnds
  <2>1. \A a \in Allocations : Evidence(alloc[a])
    BY DEF IInv
  <2> QED BY <1>4, <2>1 DEF KeepsEnds, Evidence
<1> QED BY <1>2, <1>5, <1>6, <1>7, <1>8, AssignType, AssignMoney DEF IInv

----------------------------------------------------------------------------
(* finalizeAllocation, cancelAllocation, expireAllocations *)

\* The row a committing call has locked is the one it has read.
LEMMA HeldRow ==
  ASSUME IInv, NEW p \in Procs, Holds(p)
  PROVE  /\ tx[p].a \in Allocations /\ tx[p].seenA \in AllocationRow /\ alloc[tx[p].a] \in AllocationRow
         /\ tx[p].seenW \in WithdrawRow /\ tx[p].seenD \in DepositRow
         /\ tx[p].seenA.status = alloc[tx[p].a].status /\ tx[p].seenA.w = alloc[tx[p].a].w
         /\ tx[p].seenA.amount = alloc[tx[p].a].amount /\ tx[p].seenA.proofs = alloc[tx[p].a].proofs
         /\ tx[p].seenA.confirmed = alloc[tx[p].a].confirmed /\ tx[p].seenA.verified = alloc[tx[p].a].verified
         /\ Evidence(alloc[tx[p].a])
<1>1. /\ tx[p].a \in Allocations /\ tx[p].seenA \in AllocationRow
      /\ tx[p].seenW \in WithdrawRow /\ tx[p].seenD \in DepositRow
  BY CallTypes DEF IInv
<1>2. alloc[tx[p].a].status # "none" /\ SameRow(alloc[tx[p].a], tx[p].seenA)
  BY DEF IInv, ReadsHold, Holds, At
<1>3. alloc[tx[p].a] \in AllocationRow
  BY <1>1, <1>2, AllocTypes DEF IInv
<1> QED BY <1>1, <1>2, <1>3 DEF SameRow, IInv

LEMMA NewStatus ==
  ASSUME NEW r \in AllocationRow, NEW s \in AllocationStatus \ {"none"}
  PROVE  LET n == [r EXCEPT !.status = s] IN
         /\ n \in AllocationRow /\ n.status = s /\ n.w = r.w /\ n.d = r.d /\ n.amount = r.amount
         /\ n.proofs = r.proofs /\ n.confirmed = r.confirmed /\ n.verified = r.verified
BY DEF AllocationRow

\* Such a call ends with its row: nobody else has read that, and of the
\* conjuncts of IInv only the money is left to show.
LEMMA EndKeeps ==
  ASSUME IInv, NEW p \in Procs, Holds(p), tx' = [tx EXCEPT ![p] = Idle],
         NEW s \in {"SETTLED", "CANCELLED", "EXPIRED"}, alloc' = [alloc EXCEPT ![tx[p].a].status = s],
         alloc[tx[p].a].status \notin {"SETTLED", "CANCELLED", "EXPIRED"},
         s = "EXPIRED" => alloc[tx[p].a].status = "ASSIGNED",
         s = "SETTLED" => Finalizable(tx[p].seenA), UNCHANGED idempotency
  PROVE  /\ tx' \in [Procs -> TxRecord] /\ alloc' \in [Allocations -> AllocationRow \union {NoAllocation}]
         /\ alloc'[tx[p].a].status = s /\ alloc'[tx[p].a].w = alloc[tx[p].a].w
         /\ alloc'[tx[p].a].amount = alloc[tx[p].a].amount
         /\ \A b \in Allocations \ {tx[p].a} : alloc'[b] = alloc[b]
         /\ LocksExclusive' /\ ReadsHold' /\ \A b \in Allocations : Evidence(alloc[b])'
         /\ SettledWasConfirmed' /\ RetriedAssignRunsOnce' /\ KeepsEnds
<1> DEFINE a == tx[p].a
           r == tx[p].seenA
           new == [alloc[a] EXCEPT !.status = s]
<1>1. /\ a \in Allocations /\ r \in AllocationRow /\ alloc[a] \in AllocationRow /\ Evidence(alloc[a])
      /\ r.status = alloc[a].status /\ r.proofs = alloc[a].proofs
      /\ r.confirmed = alloc[a].confirmed /\ r.verified = alloc[a].verified
  BY HeldRow
<1>2. /\ new \in AllocationRow /\ new.status = s /\ new.w = alloc[a].w /\ new.amount = alloc[a].amount
      /\ new.proofs = alloc[a].proofs /\ new.confirmed = alloc[a].confirmed /\ new.verified = alloc[a].verified
  BY <1>1, NewStatus DEF AllocationStatus
<1>3. /\ alloc \in [Allocations -> AllocationRow \union {NoAllocation}] /\ tx \in [Procs -> TxRecord]
      /\ alloc' = [alloc EXCEPT ![a] = new]
  BY DEF IInv, TypeOK
<1> HIDE DEF new
<1>4. /\ alloc' \in [Allocations -> AllocationRow \union {NoAllocation}] /\ tx' \in [Procs -> TxRecord]
      /\ alloc'[a] = new /\ \A b \in Allocations \ {a} : alloc'[b] = alloc[b]
  BY <1>1, <1>2, <1>3 DEF TxRecord
<1>5. LocksExclusive' /\ ReadsHold'
  <2>1. \A q \in Procs : ~At(q, "idle") /\ tx[q].call # "assign" => tx[q].a \in Allocations
    BY CallTypes DEF IInv, Holds
  <2>2. \A q \in Procs : tx'[q] = IF q = p THEN Idle ELSE tx[q]
    BY <1>3
  <2>3. \A q \in Procs : Holds(q) /\ tx'[q] = tx[q] => q # p
    BY <2>2 DEF Holds, At, Idle
  <2>4. \A q \in Procs : Holds(q) /\ tx'[q] = tx[q] => tx[q].a # a /\ tx[q].a \in Allocations
    BY <2>3, HeldRow DEF IInv, LocksExclusive
  <2>5. \A q \in Procs : Holds(q) /\ tx'[q] = tx[q] => SameRow(alloc'[tx[q].a], alloc[tx[q].a])
    BY <1>4, <2>4 DEF SameRow
  <2>6. \A q \in Procs : ~At(q, "idle") /\ tx[q].call # "assign" /\ alloc[tx[q].a].status # "none"
                            => alloc'[tx[q].a].status # "none"
    BY <1>2, <1>4, <2>1
  <2> QED BY <2>2, <2>5, <2>6, ReadsStay DEF IInv
<1>6. \A b \in Allocations : Evidence(alloc[b])'
  BY <1>1, <1>2, <1>4 DEF IInv, Evidence
<1>7. SettledWasConfirmed'
  <2>1. ASSUME s = "SETTLED"
        PROVE  /\ new.proofs > 0
               /\ CASE Mode = "RECEIVER" -> new.confirmed
                    [] Mode = "ADMIN" -> new.verified
                    [] Mode = "BOTH" -> new.confirmed /\ new.verified
                    [] OTHER -> new.confirmed \/ new.verified
    <3>1. Finalizable(r) /\ r.status \in AllocationStatus
      BY <1>1, <2>1, RowTypes
    <3>2. CASE Mode = "RECEIVER"
      BY <1>1, <1>2, <3>1, <3>2 DEF Finalizable, Evidence
    <3>3. CASE Mode = "ADMIN"
      BY <1>1, <1>2, <3>1, <3>3 DEF Finalizable, Evidence
    <3>4. CASE Mode = "BOTH"
      BY <1>1, <1>2, <3>1, <3>4 DEF Finalizable, Evidence, AllocationStatus
    <3>5. CASE Mode = "RECEIVER_OR_ADMIN"
      BY <1>1, <1>2, <3>1, <3>5 DEF Finalizable, Evidence, AllocationStatus
    <3> QED BY <3>2, <3>3, <3>4, <3>5, ModeAssumption DEF Modes
  <2>2. \A b \in Settled' : b = a \/ (b \in Settled /\ alloc'[b] = alloc[b])
    BY <1>4 DEF Settled
  <2>3. a \in Settled' => s = "SETTLED"
    BY <1>2, <1>4 DEF Settled
  <2> QED BY <1>4, <2>1, <2>2, <2>3 DEF SettledWasConfirmed, IInv
<1>8. RetriedAssignRunsOnce'
  BY DEF IInv, RetriedAssignRunsOnce
<1>9. KeepsEnds
  <2>1. \A b \in Allocations : Evidence(alloc[b])
    BY DEF IInv
  <2> QED BY <1>1, <1>2, <1>4, <2>1 DEF KeepsEnds, Evidence
<1> QED BY <1>2, <1>4, <1>5, <1>6, <1>7, <1>8, <1>9

\* The rows of the two requests that a committing call writes: whatever it has
\* read of them, their types hold.
LEMMA RequestTypes ==
  ASSUME TypeOK, NEW w \in Withdrawals, NEW d \in Deposits, NEW x \in Int, NEW y \in Int,
         NEW s \in RequestStatus, NEW t \in RequestStatus
  PROVE  /\ [withdrawal EXCEPT ![w].settled = x, ![w].status = s] \in [Withdrawals -> WithdrawRow]
         /\ [withdrawal EXCEPT ![w].assigned = x, ![w].status = s] \in [Withdrawals -> WithdrawRow]
         /\ [deposit EXCEPT ![d].settled = x, ![d].status = t] \in [Deposits -> DepositRow]
         /\ [deposit EXCEPT ![d].assigned = x, ![d].remaining = y, ![d].status = t] \in [Deposits -> DepositRow]
<1>1. withdrawal[w] \in WithdrawRow /\ deposit[d] \in DepositRow
  BY DEF TypeOK
<1>2. /\ [withdrawal[w] EXCEPT !.settled = x, !.status = s] \in WithdrawRow
      /\ [withdrawal[w] EXCEPT !.assigned = x, !.status = s] \in WithdrawRow
  BY <1>1 DEF WithdrawRow
<1>3. [deposit[d] EXCEPT !.settled = x, !.status = t] \in DepositRow
  BY <1>1 DEF DepositRow
<1>4. [deposit[d] EXCEPT !.assigned = x, !.remaining = y, !.status = t] \in DepositRow
  <2> DEFINE one == [deposit[d] EXCEPT !.assigned = x]
             two == [one EXCEPT !.remaining = y]
  <2>1. one \in DepositRow
    BY <1>1 DEF DepositRow
  <2> HIDE DEF one
  <2>2. two \in DepositRow
    BY <2>1 DEF DepositRow
  <2> HIDE DEF two
  <2>3. [two EXCEPT !.status = t] \in DepositRow
    BY <2>2 DEF DepositRow
  <2> QED BY <2>3 DEF one, two
<1>5. withdrawal \in [Withdrawals -> WithdrawRow] /\ deposit \in [Deposits -> DepositRow]
  BY DEF TypeOK
<1> QED BY <1>2, <1>3, <1>4, <1>5

\* A call settles a row that was reserved: it pays its amount once, from the
\* blocked funds and the reserved usage.
LEMMA FinalizeMoney ==
  ASSUME IInv, NEW p \in Procs, CommitFinalize(p)
  PROVE  /\ MoneyAgrees' /\ account' \in [{Receiver, Payer} -> Account] /\ usage' \in Usage
         /\ hold' = hold /\ allocHold' \in [Allocations -> HoldStatus]
<1> DEFINE a == tx[p].a
           n == alloc[a].amount
<1>1. /\ Holds(p) /\ Finalizable(tx[p].seenA) /\ alloc' = [alloc EXCEPT ![a].status = "SETTLED"]
      /\ allocHold' = [allocHold EXCEPT ![a] = "CONSUMED"] /\ hold' = hold /\ idempotency' = idempotency
      /\ tx' = [tx EXCEPT ![p] = Idle]
  BY DEF CommitFinalize, Holds, Finish
<1>2. /\ a \in Allocations /\ alloc[a] \in AllocationRow /\ n \in Nat /\ tx[p].seenA.amount = n
      /\ alloc[a].status \notin Released \union {"SETTLED"}
  BY <1>1, HeldRow, RowTypes DEF Finalizable, Released
<1>3. /\ alloc'[a].status = "SETTLED" /\ alloc'[a].w = alloc[a].w /\ alloc'[a].amount = n
      /\ \A b \in Allocations \ {a} : alloc'[b] = alloc[b]
      /\ alloc' \in [Allocations -> AllocationRow \union {NoAllocation}]
  BY <1>1, <1>2, EndKeeps DEF Released
<1>4. TypeOK /\ ReservationsConserved /\ MoneyMatchesAllocations
  BY DEF IInv, MoneyAgrees
<1>5. allocHold[a] = "RESERVED"
  BY <1>2, <1>4 DEF ReservationsConserved, Settled
<1>6. /\ account' = [account EXCEPT ![Receiver] = Apply(Unblock(account[Receiver], n), -n), ![Payer] = Apply(@, n)]
      /\ usage' = ConsumeUsage(usage, n)
  BY <1>2, <1>5 DEF CommitFinalize, AfterConsume
<1> HIDE DEF a, n
<1>7. /\ account \in [{Receiver, Payer} -> Account] /\ account[Receiver] \in Account /\ account[Payer] \in Account
      /\ usage \in Usage /\ n \in Int /\ allocHold \in [Allocations -> HoldStatus]
  BY <1>2, <1>4 DEF TypeOK
<1>8. /\ account'[Receiver] = Apply(Unblock(account[Receiver], n), -n) /\ account'[Payer] = Apply(account[Payer], n)
      /\ account' \in [{Receiver, Payer} -> Account]
  <2>1. Apply(Unblock(account[Receiver], n), -n) \in Account /\ Apply(account[Payer], n) \in Account
    BY <1>2, <1>7, PaidFacts, LedgerTypes
  <2> QED BY <1>6, <1>7, <2>1 DEF Receiver, Payer
<1>9. Carried(Settled) \in Int /\ Carried(Settled)' = Carried(Settled) + n
  <2> DEFINE f == Term(Settled)
             h == Term(Settled)'
  <2>1. \A b \in Allocations : alloc[b].amount \in Int /\ alloc'[b].amount \in Int
    BY <1>3, <1>4, AmountsOfRows DEF TypeOK
  <2>2. /\ Carried(Settled) = SumFunction(f) /\ Carried(Settled)' = SumFunction(h)
        /\ f \in [Allocations -> Int] /\ h \in [Allocations -> Int]
        /\ \A b \in Allocations : /\ f[b] = IF b \in Settled THEN alloc[b].amount ELSE 0
                                  /\ h[b] = IF b \in Settled' THEN alloc'[b].amount ELSE 0
    BY <2>1 DEF Carried, Term
  <2>3. f[a] = 0 /\ h[a] = n
    BY <1>2, <1>3, <2>2 DEF Settled
  <2>4. \A b \in Allocations \ {a} : h[b] = f[b]
    BY <1>3, <2>2 DEF Settled
  <2> HIDE DEF f, h
  <2>5. SumFunction(f) \in Int /\ SumFunction(h) = SumFunction(f) + h[a] - f[a]
    BY <1>2, <2>2, <2>4, SumChange, SumInt, RowsAssumption
  <2> QED BY <1>7, <2>2, <2>3, <2>5
<1>10. MoneyMatchesAllocations'
  <2> DEFINE S == Carried(Settled)
             S1 == Carried(Settled)'
             after == Apply(Unblock(account[Receiver], n), -n)
  <2>1. /\ S \in Int /\ S1 = S + n /\ TotalHeld \in Int /\ MinBalance \in Int
    BY <1>9, TotalHeldType, MinBalanceAssumption
  <2>2. /\ account[Receiver].balance = MinBalance + TotalHeld - S /\ account[Receiver].blocked = TotalHeld - S
        /\ account[Payer].balance = MinBalance + S
        /\ usage.used = S /\ usage.reserved = TotalHeld - S
    BY <1>4 DEF MoneyMatchesAllocations
  <2>3. /\ after.balance = account[Receiver].balance - n /\ after.blocked = account[Receiver].blocked - n
        /\ after = [balance |-> after.balance, blocked |-> after.blocked]
        /\ Apply(account[Payer], n).balance = account[Payer].balance + n
    <3>1. after \in Account
      BY <1>2, <1>7, PaidFacts
    <3>2. after = [balance |-> after.balance, blocked |-> after.blocked]
      BY <3>1 DEF Account
    <3> QED BY <1>2, <1>7, <3>2, PaidFacts, LedgerFacts
  <2>4. usage' = [used |-> usage.used + n, reserved |-> usage.reserved - n]
    BY <1>6, <1>7, UsageFacts
  <2> HIDE DEF S, S1, after
  <2>5. account'[Receiver] = [balance |-> MinBalance + TotalHeld - S1, blocked |-> TotalHeld - S1]
    <3>1. after.balance = MinBalance + TotalHeld - S1 /\ after.blocked = TotalHeld - S1
      BY <1>7, <2>1, <2>2, <2>3
    <3> QED BY <1>8, <2>3, <3>1 DEF after
  <2>6. account'[Payer].balance = MinBalance + S1
    BY <1>7, <1>8, <2>1, <2>2, <2>3
  <2>7. usage' = [used |-> S1, reserved |-> TotalHeld - S1]
    <3>1. usage.used + n = S1 /\ usage.reserved - n = TotalHeld - S1
      BY <1>7, <2>1, <2>2
    <3> QED BY <2>4, <3>1
  <2> QED BY <2>5, <2>6, <2>7 DEF MoneyMatchesAllocations, S1, TotalHeld
<1>11. ReservationsConserved'
  <2>1. ASSUME NEW v PROVE Carried(Live(v))' = Carried(Live(v))
    <3>1. \A b \in Allocations : (b \in Live(v)' <=> b \in Live(v)) /\ alloc'[b].amount = alloc[b].amount
      BY <1>2, <1>3 DEF Live, Released, n
    <3> QED BY <3>1 DEF Carried
  <2>2. ASSUME NEW b \in Allocations
        PROVE  allocHold'[b] = IF alloc'[b].status \in Released THEN "none" ELSE IF b \in Settled' THEN "CONSUMED" ELSE "RESERVED"
    BY <1>1, <1>2, <1>3, <1>4, <1>7 DEF ReservationsConserved, Settled, Released
  <2> QED BY <1>1, <1>4, <2>1, <2>2 DEF ReservationsConserved
<1>12. usage' \in Usage
  BY <1>6, <1>7, UsageTypes
<1>13. allocHold' \in [Allocations -> HoldStatus]
  BY <1>1, <1>7 DEF HoldStatus
<1> QED BY <1>1, <1>8, <1>10, <1>11, <1>12, <1>13 DEF MoneyAgrees

LEMMA FinalizeKeeps ==
  ASSUME IInv, NEW p \in Procs, CommitFinalize(p)
  PROVE  IInv' /\ KeepsEnds
<1> DEFINE r == tx[p].seenA
           x == tx[p].seenW.settled + r.amount
           y == tx[p].seenD.settled + r.amount
           s == DeriveStatus(WithdrawAmount[r.w], tx[p].seenW.assigned, x)
           t == DeriveStatus(DepositAmount[r.d], tx[p].seenD.assigned, y)
<1>1. /\ Holds(p) /\ Finalizable(r) /\ alloc' = [alloc EXCEPT ![tx[p].a].status = "SETTLED"]
      /\ idempotency' = idempotency /\ tx' = [tx EXCEPT ![p] = Idle]
      /\ withdrawal' = [withdrawal EXCEPT ![r.w].settled = x, ![r.w].status = s]
      /\ deposit' = [deposit EXCEPT ![r.d].settled = y, ![r.d].status = t]
  BY DEF CommitFinalize, Holds, Finish
<1>2. /\ r \in AllocationRow /\ r.w \in Withdrawals /\ r.d \in Deposits /\ r.amount \in Int
      /\ tx[p].seenW \in WithdrawRow /\ tx[p].seenD \in DepositRow
      /\ alloc[tx[p].a].status \notin {"SETTLED", "CANCELLED", "EXPIRED"}
  <2>1. Holds(p)
    BY <1>1
  <2>2. /\ r \in AllocationRow /\ tx[p].seenW \in WithdrawRow /\ tx[p].seenD \in DepositRow
        /\ alloc[tx[p].a].status = r.status
    BY <2>1, HeldRow
  <2>3. r.w \in Withdrawals /\ r.d \in Deposits /\ r.amount \in Nat
    BY <2>2, RowTypes
  <2>4. r.status \notin {"SETTLED", "CANCELLED", "EXPIRED"}
    BY <1>1 DEF Finalizable
  <2> QED BY <2>2, <2>3, <2>4
<1>3. x \in Int /\ y \in Int /\ s \in RequestStatus /\ t \in RequestStatus
  <2>1. /\ tx[p].seenW.settled \in Int /\ tx[p].seenW.assigned \in Int
        /\ tx[p].seenD.settled \in Int /\ tx[p].seenD.assigned \in Int
    BY <1>2 DEF WithdrawRow, DepositRow
  <2>2. WithdrawAmount[r.w] \in Int /\ DepositAmount[r.d] \in Int
    BY <1>2, OffersAssumption
  <2>3. x \in Int /\ y \in Int
    BY <1>2, <2>1
  <2> HIDE DEF x, y
  <2> QED BY <2>1, <2>2, <2>3, StatusType
<1>4. withdrawal' \in [Withdrawals -> WithdrawRow]
  <2> HIDE DEF x, s
  <2> QED BY <1>1, <1>2, <1>3, RequestTypes DEF IInv
<1>5. deposit' \in [Deposits -> DepositRow]
  <2> HIDE DEF y, t
  <2> QED BY <1>1, <1>2, <1>3, RequestTypes DEF IInv
<1>6. /\ tx' \in [Procs -> TxRecord] /\ alloc' \in [Allocations -> AllocationRow \union {NoAllocation}]
      /\ LocksExclusive' /\ ReadsHold' /\ \A b \in Allocations : Evidence(alloc[b])'
      /\ SettledWasConfirmed' /\ RetriedAssignRunsOnce' /\ KeepsEnds
  BY <1>1, <1>2, EndKeeps
<1>7. TypeOK'
  BY <1>1, <1>4, <1>5, <1>6, FinalizeMoney DEF TypeOK, IInv
<1> QED BY <1>6, <1>7, FinalizeMoney DEF IInv

\* A call releases a row that was reserved: its amount is the withdrawal's again.
LEMMA ReleaseMoney ==
  ASSUME IInv, NEW p \in Procs, CommitRelease(p)
  PROVE  /\ MoneyAgrees' /\ hold' \in [Withdrawals -> Nat] /\ allocHold' \in [Allocations -> HoldStatus]
         /\ account' = account /\ usage' = usage
<1> DEFINE a == tx[p].a
           n == alloc[a].amount
           w == alloc[a].w
<1>1. PICK s \in {"CANCELLED", "EXPIRED"} :
        /\ alloc' = [alloc EXCEPT ![a].status = s]
        /\ s = "EXPIRED" => tx[p].seenA.status = "ASSIGNED"
  BY DEF CommitRelease, Expirable
<1>2. /\ Holds(p) /\ tx[p].seenA.status \notin {"none", "SETTLED", "CANCELLED", "EXPIRED"}
      /\ hold' = [hold EXCEPT ![w] = @ + n] /\ allocHold' = [allocHold EXCEPT ![a] = "none"]
      /\ account' = account /\ usage' = usage /\ idempotency' = idempotency /\ tx' = [tx EXCEPT ![p] = Idle]
  BY DEF CommitRelease, Holds, Finish, MergeReservationBack, Cancellable, Expirable
<1>3. /\ a \in Allocations /\ alloc[a] \in AllocationRow /\ n \in Nat /\ w \in Withdrawals
      /\ alloc[a].status \notin Released \union {"SETTLED"} /\ tx[p].seenA.status = alloc[a].status
  BY <1>2, HeldRow, RowTypes DEF Released
<1>4. /\ alloc'[a].status = s /\ alloc'[a].w = w /\ alloc'[a].amount = n
      /\ \A b \in Allocations \ {a} : alloc'[b] = alloc[b]
      /\ alloc' \in [Allocations -> AllocationRow \union {NoAllocation}]
  BY <1>1, <1>2, <1>3, EndKeeps DEF Released
<1>5. TypeOK /\ ReservationsConserved /\ MoneyMatchesAllocations
  BY DEF IInv, MoneyAgrees
<1>6. s \in Released /\ s # "SETTLED"
  BY <1>1 DEF Released
<1> HIDE DEF a, n, w
<1>7. hold \in [Withdrawals -> Nat] /\ allocHold \in [Allocations -> HoldStatus] /\ n \in Int
  BY <1>3, <1>5 DEF TypeOK
<1>8. hold' \in [Withdrawals -> Nat] /\ allocHold' \in [Allocations -> HoldStatus]
  BY <1>2, <1>3, <1>7 DEF HoldStatus
<1>9. ASSUME NEW v \in Withdrawals
      PROVE  hold'[v] + Carried(Live(v))' = WithdrawAmount[v]
  <2> DEFINE f == Term(Live(v))
             h == Term(Live(v))'
  <2>1. \A b \in Allocations : alloc[b].amount \in Int /\ alloc'[b].amount \in Int
    BY <1>4, <1>5, AmountsOfRows DEF TypeOK
  <2>2. /\ Carried(Live(v)) = SumFunction(f) /\ Carried(Live(v))' = SumFunction(h)
        /\ f \in [Allocations -> Int] /\ h \in [Allocations -> Int]
        /\ \A b \in Allocations : /\ f[b] = IF b \in Live(v) THEN alloc[b].amount ELSE 0
                                  /\ h[b] = IF b \in Live(v)' THEN alloc'[b].amount ELSE 0
    BY <2>1 DEF Carried, Term
  <2>3. h[a] = 0 /\ f[a] = IF v = w THEN n ELSE 0
    BY <1>3, <1>4, <1>6, <2>2 DEF Live, n, w
  <2>4. \A b \in Allocations \ {a} : h[b] = f[b]
    BY <1>4, <2>2 DEF Live
  <2> HIDE DEF f, h
  <2>5. SumFunction(f) \in Int /\ SumFunction(h) = SumFunction(f) + h[a] - f[a]
    BY <1>3, <2>2, <2>4, SumChange, SumInt, RowsAssumption
  <2>6. hold[v] + SumFunction(f) = WithdrawAmount[v] /\ hold[v] \in Int
    BY <1>5, <1>7, <2>2 DEF ReservationsConserved
  <2>7. hold'[v] = IF v = w THEN hold[v] + n ELSE hold[v]
    BY <1>2, <1>7
  <2> QED BY <1>7, <2>2, <2>3, <2>5, <2>6, <2>7
<1>10. ASSUME NEW b \in Allocations
       PROVE  allocHold'[b] = IF alloc'[b].status \in Released THEN "none" ELSE IF b \in Settled' THEN "CONSUMED" ELSE "RESERVED"
  <2>1. allocHold[b] = IF alloc[b].status \in Released THEN "none" ELSE IF b \in Settled THEN "CONSUMED" ELSE "RESERVED"
    BY <1>5 DEF ReservationsConserved
  <2> QED BY <1>2, <1>4, <1>6, <1>7, <2>1 DEF Settled
<1>11. Carried(Settled)' = Carried(Settled)
  <2>1. \A b \in Allocations : (b \in Settled' <=> b \in Settled) /\ alloc'[b].amount = alloc[b].amount
    BY <1>3, <1>4, <1>6 DEF Settled, n
  <2> QED BY <2>1 DEF Carried
<1>12. MoneyMatchesAllocations'
  BY <1>2, <1>5, <1>11 DEF MoneyMatchesAllocations, TotalHeld
<1> QED BY <1>2, <1>8, <1>9, <1>10, <1>12 DEF MoneyAgrees, ReservationsConserved

LEMMA ReleaseKeeps ==
  ASSUME IInv, NEW p \in Procs, CommitRelease(p)
  PROVE  IInv' /\ KeepsEnds
<1> DEFINE r == tx[p].seenA
           x == tx[p].seenW.assigned - r.amount
           y == tx[p].seenD.assigned - r.amount
           z == tx[p].seenD.remaining + r.amount
           s == DeriveStatus(WithdrawAmount[r.w], x, tx[p].seenW.settled)
           t == DeriveStatus(DepositAmount[r.d], y, tx[p].seenD.settled)
<1>1. PICK e \in {"CANCELLED", "EXPIRED"} :
        /\ alloc' = [alloc EXCEPT ![tx[p].a].status = e]
        /\ e = "EXPIRED" => r.status = "ASSIGNED"
  BY DEF CommitRelease, Expirable
<1>2. /\ Holds(p) /\ r.status \notin {"none", "SETTLED", "CANCELLED", "EXPIRED"}
      /\ idempotency' = idempotency /\ tx' = [tx EXCEPT ![p] = Idle]
      /\ withdrawal' = [withdrawal EXCEPT ![r.w].assigned = x, ![r.w].status = s]
      /\ deposit' = [deposit EXCEPT ![r.d].assigned = y, ![r.d].remaining = z, ![r.d].status = t]
  BY DEF CommitRelease, Holds, Finish, Cancellable, Expirable, RemainingAfterRelease
<1>3. /\ r \in AllocationRow /\ r.w \in Withdrawals /\ r.d \in Deposits /\ r.amount \in Int
      /\ tx[p].seenW \in WithdrawRow /\ tx[p].seenD \in DepositRow
      /\ alloc[tx[p].a].status = r.status
  <2>1. Holds(p)
    BY <1>2
  <2>2. /\ r \in AllocationRow /\ tx[p].seenW \in WithdrawRow /\ tx[p].seenD \in DepositRow
        /\ alloc[tx[p].a].status = r.status
    BY <2>1, HeldRow
  <2>3. r.w \in Withdrawals /\ r.d \in Deposits /\ r.amount \in Nat
    BY <2>2, RowTypes
  <2> QED BY <2>2, <2>3
<1>4. x \in Int /\ y \in Int /\ z \in Int /\ s \in RequestStatus /\ t \in RequestStatus
  <2>1. /\ tx[p].seenW.settled \in Int /\ tx[p].seenW.assigned \in Int
        /\ tx[p].seenD.settled \in Int /\ tx[p].seenD.assigned \in Int /\ tx[p].seenD.remaining \in Int
    BY <1>3 DEF WithdrawRow, DepositRow
  <2>2. WithdrawAmount[r.w] \in Int /\ DepositAmount[r.d] \in Int
    BY <1>3, OffersAssumption
  <2>3. x \in Int /\ y \in Int /\ z \in Int
    BY <1>3, <2>1
  <2> HIDE DEF x, y, z
  <2> QED BY <2>1, <2>2, <2>3, StatusType
<1>5. withdrawal' \in [Withdrawals -> WithdrawRow]
  <2> HIDE DEF x, s
  <2> QED BY <1>2, <1>3, <1>4, RequestTypes DEF IInv
<1>6. deposit' \in [Deposits -> DepositRow]
  <2> HIDE DEF y, z, t
  <2> QED BY <1>2, <1>3, <1>4, RequestTypes DEF IInv
<1>7. /\ tx' \in [Procs -> TxRecord] /\ alloc' \in [Allocations -> AllocationRow \union {NoAllocation}]
      /\ LocksExclusive' /\ ReadsHold' /\ \A b \in Allocations : Evidence(alloc[b])'
      /\ SettledWasConfirmed' /\ RetriedAssignRunsOnce' /\ KeepsEnds
  BY <1>1, <1>2, <1>3, EndKeeps
<1>8. TypeOK'
  BY <1>2, <1>5, <1>6, <1>7, ReleaseMoney DEF TypeOK, IInv
<1> QED BY <1>7, <1>8, ReleaseMoney DEF IInv

----------------------------------------------------------------------------
(* The theorems *)

\* The requests as created: nothing assigned, everything reserved.
LEMMA IInvInit == Init => IInv
<1> SUFFICES ASSUME Init PROVE IInv
  OBVIOUS
<1>1. /\ \A a \in Allocations : alloc[a] = NoAllocation /\ allocHold[a] = "none"
      /\ \A p \in Procs : tx[p] = Idle
      /\ hold = WithdrawAmount /\ usage = [used |-> 0, reserved |-> TotalHeld]
      /\ idempotency = [r \in Withdrawals \X Keys |-> 0]
      /\ alloc = [a \in Allocations |-> NoAllocation] /\ allocHold = [a \in Allocations |-> "none"]
      /\ tx = [p \in Procs |-> Idle]
  BY DEF Init
<1>2. /\ account = [u \in {Receiver, Payer} |-> [balance |-> MinBalance + IF u = Receiver THEN TotalHeld ELSE 0,
                                                 blocked |-> IF u = Receiver THEN TotalHeld ELSE 0]]
      /\ MinBalance \in Int /\ TotalHeld \in Int
  BY MinBalanceAssumption, TotalHeldType DEF Init
<1>3. TypeOK
  <2>1. withdrawal \in [Withdrawals -> WithdrawRow]
    BY DEF Init, WithdrawRow, RequestStatus
  <2>2. deposit \in [Deposits -> DepositRow]
    BY OffersAssumption DEF Init, DepositRow, RequestStatus
  <2>3. hold \in [Withdrawals -> Nat]
    BY <1>1, OffersAssumption
  <2>4. account \in [{Receiver, Payer} -> Account]
    BY <1>2 DEF Account
  <2>5. usage \in Usage
    BY <1>1, <1>2 DEF Usage
  <2>6. allocHold \in [Allocations -> HoldStatus] /\ tx \in [Procs -> TxRecord]
    BY <1>1 DEF HoldStatus, TxRecord
  <2>7. /\ idempotency \in [Withdrawals \X Keys -> Nat]
        /\ alloc \in [Allocations -> AllocationRow \union {NoAllocation}]
    BY <1>1
  <2> QED BY <2>1, <2>2, <2>3, <2>4, <2>5, <2>6, <2>7 DEF TypeOK
<1>4. LocksExclusive /\ ReadsHold
  BY <1>1 DEF LocksExclusive, ReadsHold, Holds, At, Idle
<1>5. \A a \in Allocations : Evidence(alloc[a])
  BY <1>1, NoAllocationFacts DEF Evidence
<1>6. \A S : Carried(S) = 0
  <2> SUFFICES ASSUME NEW S PROVE Carried(S) = 0
    OBVIOUS
  <2>1. [a \in Allocations |-> IF a \in S THEN alloc[a].amount ELSE 0] \in [Allocations -> {0}]
    BY <1>1, NoAllocationFacts
  <2> QED BY <2>1, SumZero, RowsAssumption DEF Carried
<1>7. ReservationsConserved
  <2>1. \A w \in Withdrawals : hold[w] + Carried(Live(w)) = WithdrawAmount[w]
    BY <1>1, <1>6, OffersAssumption
  <2> QED BY <1>1, <2>1, NoAllocationFacts DEF ReservationsConserved, Released
<1>8. MoneyMatchesAllocations
  <2>1. account[Receiver] = [balance |-> MinBalance + TotalHeld, blocked |-> TotalHeld] /\ account[Payer].balance = MinBalance
    BY <1>2 DEF Receiver, Payer
  <2>2. Carried(Settled) = 0
    BY <1>6
  <2> QED BY <1>1, <1>2, <2>1, <2>2 DEF MoneyMatchesAllocations
<1>9. SettledWasConfirmed /\ RetriedAssignRunsOnce
  BY <1>1, NoAllocationFacts DEF SettledWasConfirmed, RetriedAssignRunsOnce, Settled
<1> QED BY <1>3, <1>4, <1>5, <1>7, <1>8, <1>9 DEF IInv, MoneyAgrees

LEMMA IInvStep == IInv /\ [Next]_vars => IInv' /\ (KeepsEnds \/ UNCHANGED vars)
<1> SUFFICES ASSUME IInv, [Next]_vars PROVE IInv' /\ (KeepsEnds \/ UNCHANGED vars)
  OBVIOUS
<1>1. ASSUME NEW p \in Procs, Call(p) PROVE IInv' /\ KeepsEnds
  <2>1. ASSUME NEW w \in Withdrawals, NEW items \in Assignments, NEW k \in Keys \union {NoKey}, BeginAssign(p, w, items, k)
        PROVE  IInv' /\ KeepsEnds
    BY <2>1, BeginAssignKeeps
  <2>2. ASSUME NEW a \in Allocations, NEW files \in 1..MaxFiles, SubmitPayerProof(p, a, files)
        PROVE  IInv' /\ KeepsEnds
    BY <2>2, ProofKeeps
  <2>3. ASSUME NEW a \in Allocations, NEW yes \in BOOLEAN, ReceiverConfirm(p, a, yes) \/ AdminVerify(p, a, yes)
        PROVE  IInv' /\ KeepsEnds
    BY <2>3, ConfirmKeeps, VerifyKeeps
  <2>4. ASSUME NEW a \in Allocations, BeginOn(p, a, "finalize") \/ BeginOn(p, a, "cancel")
        PROVE  IInv' /\ KeepsEnds
    BY <2>4, BeginOnKeeps
  <2> QED BY <1>1, <2>1, <2>2, <2>3, <2>4 DEF Call
<1>2. ASSUME NEW p \in Procs, Worker(p) PROVE IInv' /\ KeepsEnds
  BY <1>2, BeginOnKeeps DEF Worker
<1>3. ASSUME NEW p \in Procs, Step(p) PROVE IInv' /\ KeepsEnds
  <2>1. CASE CommitAssign(p)
    BY <2>1, AssignKeeps
  <2>2. CASE LockAllocation(p)
    BY <2>2, LockKeeps
  <2>3. CASE CommitFinalize(p)
    BY <2>3, FinalizeKeeps
  <2>4. CASE CommitRelease(p)
    BY <2>4, ReleaseKeeps
  <2>5. CASE Refuse(p)
    BY <2>5, AbortKeeps DEF Refuse
  <2> QED BY <1>3, <2>1, <2>2, <2>3, <2>4, <2>5 DEF Step
<1>4. ASSUME NEW p \in Procs, Abort(p) PROVE IInv' /\ KeepsEnds
  BY <1>4, AbortKeeps DEF Abort
<1>5. ASSUME NEW a \in Allocations, Expire(a) PROVE IInv' /\ KeepsEnds
  BY <1>5, ExpireKeeps
<1>6. CASE UNCHANGED vars
  <2>1. UNCHANGED tables /\ tx' = tx /\ alloc' = alloc /\ tx \in [Procs -> TxRecord]
    BY <1>6 DEF vars, tables, IInv, TypeOK
  <2>2. LocksExclusive' /\ ReadsHold'
    BY <2>1, ReadsStay DEF IInv, SameRow
  <2> QED BY <1>6, <2>1, <2>2, TablesStay
<1> QED BY <1>1, <1>2, <1>3, <1>4, <1>5, <1>6 DEF Next

\* The inductive invariant holds: whatever calls, workers and rollbacks
\* interleave, what finalize, cancel and expire have read of their allocation
\* under its lock stays so.
THEOREM Invariant == Spec => []IInv
<1>1. Init => IInv
  BY IInvInit
<1>2. IInv /\ [Next]_vars => IInv'
  BY IInvStep
<1> QED BY <1>1, <1>2, PTL DEF Spec

\* assignAllocations, finalizeAllocation and mergeReservationBack lose and
\* repeat no money: what is left of a withdrawal's reservation and what its
\* allocations carry make up its amount, and the accounts and the limit usage
\* have moved by exactly what the settled allocations carry.  A repeated assign
\* call assigns once, although its key is looked up before any lock is taken.
THEOREM MoneySafe == Spec => []MoneyIsConserved
<1>1. IInv => MoneyIsConserved
  BY DEF IInv, MoneyIsConserved
<1> QED BY <1>1, Invariant, PTL

\* Whatever the totals of its row say, a withdrawal is never assigned beyond its
\* amount: splitReservationForAllocation takes from what is left of it.
THEOREM AssignedWithinAmount == Spec => [](\A w \in Withdrawals : Carried(Live(w)) <= WithdrawAmount[w])
<1>1. ASSUME IInv, NEW w \in Withdrawals PROVE Carried(Live(w)) <= WithdrawAmount[w]
  <2>1. hold[w] + Carried(Live(w)) = WithdrawAmount[w] /\ hold[w] \in Nat
    BY <1>1 DEF IInv, TypeOK, MoneyAgrees, ReservationsConserved
  <2>2. Carried(Live(w)) \in Int
    <3>1. \A a \in Allocations : alloc[a].amount \in Int
      BY <1>1, AmountsOfRows DEF IInv, TypeOK
    <3> QED BY <3>1, SumInt, RowsAssumption DEF Carried
  <2>3. WithdrawAmount[w] \in Int
    BY OffersAssumption
  <2> QED BY <2>1, <2>2, <2>3
<1>2. IInv => \A w \in Withdrawals : Carried(Live(w)) <= WithdrawAmount[w]
  BY <1>1
<1> QED BY <1>2, Invariant, PTL

\* finalizeAllocation pays nothing without a payment proof and the
\* confirmations that P2P_CONFIRMATION_MODE asks for, in every mode.
THEOREM ConfirmedSafe == Spec => []SettledWasConfirmed
<1>1. IInv => SettledWasConfirmed
  BY DEF IInv
<1> QED BY <1>1, Invariant, PTL

\* No call that was already running changes a settled, cancelled or expired
\* allocation, and the worker expires none that has a proof.
THEOREM EndsStay == Spec => EndsAreFinal
<1>1. IInv /\ [Next]_vars => [KeepsEnds]_vars
  BY IInvStep
<1> QED BY <1>1, Invariant, PTL DEF Spec, EndsAreFinal

=============================================================================
