------------------------------ MODULE P2PViews ------------------------------
(***************************************************************************)
(* What P2PAllocationsService shows of the state P2PAllocations keeps: the *)
(* view models of withdrawals, offers and allocations with the actions     *)
(* they offer, the lists of admin, payer and receiver, the detail pages    *)
(* and the operations summary.                                             *)
(*                                                                         *)
(* A view model is an operator on the rows it is built from.  A list or a  *)
(* detail page reads in several statements between which other calls       *)
(* commit: ids, then rows, then the proof links of those rows; `screen` is *)
(* the one being built.  Sorting decides only which rows make a page: a    *)
(* page is any subset of the matching rows of the size it has.             *)
(***************************************************************************)
EXTENDS P2PAllocations
LOCAL INSTANCE TLC

CONSTANT PageSize
PageAssumption == PageSize \in Nat \ {0}

VARIABLE screen


Actors == {"ADMIN", "PAYER", "RECEIVER"}
Blank == [step |-> "blank"]

ScreenTypeOK ==
  \/ screen = Blank
  \/ screen.step = "requests" /\ screen.ids \subseteq Withdrawals
  \/ screen.step = "allocations" /\ screen.ids \subseteq Allocations
  \/ /\ screen.step \in {"detail", "links", "answered"}
     /\ screen.actor \in Actors
     /\ DOMAIN screen.requests \subseteq Withdrawals
     /\ DOMAIN screen.rows \subseteq Allocations
     /\ DOMAIN screen.links \subseteq DOMAIN screen.rows

----------------------------------------------------------------------------
(* buildAllocationVm: the flags and allowedActions of one allocation row    *)
(* and the number of proof links read for it.                               *)

IsExpired(r) == r.status = "ASSIGNED" /\ r.expired

\* ensureFinalizable alone, without the checks finalizeAllocation makes first.
IsFinalizable(r) ==
  /\ r.status # "DISPUTED"
  /\ CASE Mode = "RECEIVER" -> r.status = "RECEIVER_CONFIRMED"
       [] Mode = "ADMIN" -> r.status = "ADMIN_VERIFIED"
       [] Mode = "BOTH" -> r.confirmed /\ r.verified
       [] OTHER -> r.confirmed \/ r.verified

\* Mutant: an expired assignment still asks for a proof.
PayerCanSubmitProofLate(r, links) ==
  links < 2 /\ r.status \in {"ASSIGNED", "PROOF_SUBMITTED"} /\ ~r.confirmed /\ ~r.verified

PayerCanSubmitProof(r, links) ==
  /\ links < 2
  /\ r.status \in {"ASSIGNED", "PROOF_SUBMITTED"}
  /\ ~r.confirmed /\ ~r.verified
  /\ ~IsExpired(r)

ReceiverCanConfirm(r) == Mode \in {"RECEIVER", "BOTH"} /\ r.status = "PROOF_SUBMITTED"

\* Mutant: any confirmation is enough to offer it.
AdminCanFinalizeUnsettled(r) == r.status # "SETTLED" /\ (r.confirmed \/ r.verified)

AdminCanFinalize(r) == IsFinalizable(r) /\ r.status # "SETTLED"

\* Mutant: in the modes with a receiver the admin is not asked.
AdminCanVerifyNever(r) == r.status \in {"PROOF_SUBMITTED", "RECEIVER_CONFIRMED"} /\ Mode = "ADMIN"

AdminCanVerify(r) == r.status \in {"PROOF_SUBMITTED", "RECEIVER_CONFIRMED"}

AllowedActions(r, links, actor) ==
  CASE actor = "PAYER" -> IF PayerCanSubmitProof(r, links) THEN {"SUBMIT_PROOF"} ELSE {}
    [] actor = "RECEIVER" -> IF ReceiverCanConfirm(r) THEN {"RECEIVER_CONFIRM", "DISPUTE"} ELSE {}
    [] OTHER -> {k \in {"ADMIN_VERIFY", "FINALIZE", "CANCEL"} :
                   CASE k = "ADMIN_VERIFY" -> AdminCanVerify(r)
                     [] k = "FINALIZE" -> AdminCanFinalize(r)
                     [] OTHER -> r.status \in {"ASSIGNED", "PROOF_SUBMITTED", "RECEIVER_CONFIRMED", "ADMIN_VERIFIED"}}

\* What buildAllocationVm makes of a proof: SUBMITTED when there is a link or
\* proofSubmittedAt is set.
HasProof(r, links) == links > 0 \/ r.proofs > 0

RiskFlags(r, links) ==
  {f \in {"EXPIRED", "DISPUTED", "MISSING_PROOF"} :
     CASE f = "EXPIRED" -> IsExpired(r)
       [] f = "DISPUTED" -> r.status = "DISPUTED"
       [] OTHER -> ~HasProof(r, links) /\ r.status \in {"ASSIGNED", "PROOF_SUBMITTED"}}

----------------------------------------------------------------------------
(* buildWithdrawalVm and buildDepositVm.  A P2P request is never CANCELLED  *)
(* or EXPIRED: nothing writes these statuses to it.                         *)

RemainingToAssign(w) == WithdrawAmount[w] - withdrawal[w].assigned

\* Mutant: what is left to settle is offered, not what is left to assign.
CanAssignMoreLeft(w) == WithdrawAmount[w] > withdrawal[w].settled /\ withdrawal[w].status # "SETTLED"

CanAssignMore(w) == RemainingToAssign(w) > 0 /\ withdrawal[w].status # "SETTLED"

CanBeAssigned(d) == deposit[d].remaining > 0 /\ deposit[d].status # "SETTLED"

----------------------------------------------------------------------------
(* The admin's list of withdrawals.  SQL's BOOL_OR over the LEFT JOIN is    *)
(* NULL when there is no allocation, and NULL equals neither TRUE nor FALSE.*)

Of(w) == {a \in Allocations : alloc[a].status # "none" /\ alloc[a].w = w}

BoolOr(w, P(_)) ==
  IF Of(w) = {} THEN "NULL" ELSE IF \E a \in Of(w) : P(alloc[a]) THEN "true" ELSE "false"

HasDisputeSql(w) == BoolOr(w, LAMBDA r : r.status = "DISPUTED")

ProofStatus == {"PROOF_SUBMITTED", "RECEIVER_CONFIRMED", "ADMIN_VERIFIED", "SETTLED"}

\* Mutant: proofs are told from the status, links are not joined.
HasProofSqlByStatus(w) == BoolOr(w, LAMBDA r : r.status \in ProofStatus)

\* Mutant: only proofs that wait for somebody count.
HasProofSqlPending(w) == BoolOr(w, LAMBDA r : r.status \in {"PROOF_SUBMITTED", "RECEIVER_CONFIRMED"})

\* "al.id IS NOT NULL OR a.status IN (...)": false OR NULL is NULL.
HasProofSql(w) == BoolOr(w, LAMBDA r : r.proofs > 0 \/ r.status \in ProofStatus)

\* The flags on the row: NULL is shown as false.
ShownFlag(value) == value = "true"

WithdrawalsListed(flag, value) ==
  {w \in Withdrawals : (IF flag = "hasDispute" THEN HasDisputeSql(w) ELSE HasProofSql(w)) = value}

\* getAdminWithdrawalDetail computes the same flags from the rows.
DetailHasProof(w) == \E a \in Of(w) : alloc[a].proofs > 0

DetailHasDispute(w) == \E a \in Of(w) : alloc[a].status = "DISPUTED"

----------------------------------------------------------------------------
(* listCandidates: the offers of other users that have something left, in   *)
(* any status when none is asked for.  (All offers are of the payer.)       *)

Candidates(statuses) == {d \in Deposits : deposit[d].remaining > 0 /\ (statuses # {} => deposit[d].status \in statuses)}

----------------------------------------------------------------------------
(* getOpsSummary *)

OpsWaiting == {w \in Withdrawals : withdrawal[w].assigned = 0 /\ RemainingToAssign(w) > 0}

\* Mutant: withdrawals partly assigned are told from what is settled.
OpsPartiallyUnsettled == {w \in Withdrawals : withdrawal[w].assigned > 0 /\ withdrawal[w].settled < WithdrawAmount[w]}

OpsPartially == {w \in Withdrawals : withdrawal[w].assigned > 0 /\ withdrawal[w].assigned < WithdrawAmount[w]}

\* Mutant: in every mode the admin's verification is what counts.
OpsFinalizableVerified == {a \in Allocations : alloc[a].status \notin {"none", "SETTLED", "DISPUTED"} /\ alloc[a].verified}

\* buildOpsFinalizableWhere
OpsFinalizable ==
  {a \in Allocations :
     /\ alloc[a].status \notin {"none", "SETTLED", "DISPUTED"}
     /\ CASE Mode = "RECEIVER" -> alloc[a].confirmed
          [] Mode = "ADMIN" -> alloc[a].verified
          [] Mode = "BOTH" -> alloc[a].confirmed /\ alloc[a].verified
          [] OTHER -> alloc[a].confirmed \/ alloc[a].verified}

----------------------------------------------------------------------------
(* Lists and detail pages, statement by statement *)

Exists == {a \in Allocations : alloc[a].status # "none"}
RowsOf(ids) == [a \in ids |-> alloc[a]]

\* One page of the matching rows, in whatever order they are sorted.
Pages(S) == {P \in SUBSET S : Cardinality(P) = IF Cardinality(S) < PageSize THEN Cardinality(S) ELSE PageSize}

Show(s) == screen' = s /\ UNCHANGED vars

\* Prisma's findMany returns the rows that match, in one statement.
ShowRows(actor, ids) ==
  Show([step |-> "links", actor |-> actor, requests |-> <<>>, rows |-> RowsOf(ids), links |-> <<>>])

\* parseStatusFilter of the default, query.status absent.
PayerStatuses == {"ASSIGNED", "PROOF_SUBMITTED"}
ReceiverStatuses == {"PROOF_SUBMITTED"}

\* Mutant: the receiver's list has what he already confirmed.
OnReceiverListConfirmed == {a \in Exists : alloc[a].status = "RECEIVER_CONFIRMED"}

OnPayerList == {a \in Exists : alloc[a].status \in PayerStatuses}
OnReceiverList == {a \in Exists : alloc[a].status \in ReceiverStatuses}

ListMyAllocationsAsPayer == \E P \in Pages(OnPayerList) : ShowRows("PAYER", P)
ListMyAllocationsAsReceiver == \E P \in Pages(OnReceiverList) : ShowRows("RECEIVER", P)

\* The filters of the admin's list that look at what other calls change.
Matches(r, filter) ==
  CASE filter = "hasProof" -> r.proofs > 0
    [] filter = "noProof" -> r.proofs = 0
    [] filter = "receiverConfirmed" -> r.confirmed
    [] filter = "adminVerified" -> r.verified
    [] filter = "expired" -> IsExpired(r)
    [] OTHER -> TRUE

AllocationFilters == {"none", "hasProof", "noProof", "receiverConfirmed", "adminVerified", "expired"}

\* Count and ids come from one query, the rows from the next.
ListAdminAllocations(filter) ==
  \E P \in Pages({a \in Exists : Matches(alloc[a], filter)}) :
    Show([step |-> "allocations", ids |-> P])

ReadRows == screen.step = "allocations" /\ ShowRows("ADMIN", screen.ids)

GetAdminAllocationDetail(a) == a \in Exists /\ ShowRows("ADMIN", {a})

\* What a list shows of a withdrawal: its row and its flags, in one statement.
WithdrawalVm(w) == [settled |-> withdrawal[w].settled, hasProof |-> ShownFlag(HasProofSql(w))]

\* Count and ids, then rows and flags once more.
ListAdminWithdrawals(flag, value) ==
  \E P \in Pages(WithdrawalsListed(flag, value)) : Show([step |-> "requests", ids |-> P])

ReadRequests ==
  /\ screen.step = "requests"
  /\ Show([step |-> "answered", actor |-> "ADMIN", requests |-> [w \in screen.ids |-> WithdrawalVm(w)],
           rows |-> <<>>, links |-> <<>>])

\* The withdrawal, then its allocations: the flags are told from the latter.
GetAdminWithdrawalDetail(w) ==
  Show([step |-> "detail", actor |-> "ADMIN", requests |-> w :> WithdrawalVm(w), rows |-> <<>>, links |-> <<>>])

ReadAllocations ==
  /\ screen.step = "detail"
  /\ \E w \in DOMAIN screen.requests :
       Show([screen EXCEPT !.step = "links", !.rows = RowsOf(Of(w)), !.requests[w].hasProof = DetailHasProof(w)])

\* Mutant: the links are loaded before the rows.
AnsweredLinksFirst(s) == [s EXCEPT !.step = "answered", !.rows = RowsOf(DOMAIN s.rows),
                                   !.links = [a \in DOMAIN s.rows |-> s.rows[a].proofs]]

\* loadAllocationAttachments, after the rows: the links there are by now.
Answered(s) == [s EXCEPT !.step = "answered", !.links = [a \in DOMAIN s.rows |-> alloc[a].proofs]]

ReadLinks == screen.step = "links" /\ Show(Answered(screen))

Dismiss == screen.step = "answered" /\ Show(Blank)

Ask ==
  /\ screen.step = "blank"
  /\ \/ ListMyAllocationsAsPayer
     \/ ListMyAllocationsAsReceiver
     \/ \E f \in AllocationFilters : ListAdminAllocations(f)
     \/ \E a \in Allocations : GetAdminAllocationDetail(a)
     \/ \E w \in Withdrawals : GetAdminWithdrawalDetail(w)
     \/ \E flag \in {"hasDispute", "hasProof"}, value \in {"true", "false"} : ListAdminWithdrawals(flag, value)

ViewInit == Init /\ screen = Blank

ViewNext ==
  \/ Next /\ UNCHANGED screen
  \/ Ask \/ ReadRows \/ ReadRequests \/ ReadAllocations \/ ReadLinks \/ Dismiss

----------------------------------------------------------------------------
(* What is offered and what the handlers accept: two pieces of code that     *)
(* must agree in every state the calls can reach.                            *)

\* Each action the views offer to payer, receiver or admin is one its handler
\* accepts at that moment; FINALIZE apart, which depends on the mode.
OfferedIsAccepted ==
  \A a \in Exists :
    LET r == alloc[a]
        offered(actor) == AllowedActions(r, r.proofs, actor)
    IN
    /\ "SUBMIT_PROOF" \in offered("PAYER") => ProofAccepted(r)
    /\ {"RECEIVER_CONFIRM", "DISPUTE"} \intersect offered("RECEIVER") # {} => ConfirmAccepted(r)
    /\ "ADMIN_VERIFY" \in offered("ADMIN") => VerifyAccepted(r)
    /\ "CANCEL" \in offered("ADMIN") => Cancellable(r)

\* "FINALIZE" offered: finalizeAllocation does not answer "Allocation cannot be
\* finalized", and the receiver's reserved money pays for it.
FinalizeIsAccepted ==
  \A a \in Exists : AdminCanFinalize(alloc[a]) => Finalizable(alloc[a]) /\ CanPay(a, alloc[a].amount)

\* Whoever is asked for something finds it on the list that opens by default,
\* and what is on the receiver's list is something the receiver is asked for.
OfferedIsListed ==
  \A a \in Exists :
    /\ PayerCanSubmitProof(alloc[a], alloc[a].proofs) => a \in OnPayerList
    /\ ReceiverCanConfirm(alloc[a]) => a \in OnReceiverList

\* An open, undisputed allocation never waits for an action nobody is offered:
\* payer, receiver or admin can bring it on, or the worker expires it.
\* docs/p2p-flow.md, steps 4 to 6: payer submits, receiver and/or admin confirm
\* "based on policy", admin finalizes.
ProgressIsOffered ==
  \A a \in Exists :
    LET r == alloc[a] IN
    r.status \notin {"SETTLED", "CANCELLED", "EXPIRED", "DISPUTED"} =>
      \/ IsExpired(r)
      \/ AllowedActions(r, r.proofs, "PAYER") \union AllowedActions(r, r.proofs, "RECEIVER")
           \union (AllowedActions(r, r.proofs, "ADMIN") \ {"CANCEL"}) # {}

\* The flags of the withdrawals' list, told in SQL from links and statuses, are
\* those of the detail page, told from proofSubmittedAt.
FlagsAgree ==
  \A w \in Withdrawals :
    /\ ShownFlag(HasProofSql(w)) = DetailHasProof(w)
    /\ ShownFlag(HasDisputeSql(w)) = DetailHasDispute(w)

\* A page that shows a proof as submitted shows the proof: links are read after
\* the rows, so no call that commits in between leaves them behind.
ProofsAreShown ==
  screen.step = "answered" =>
    \A a \in DOMAIN screen.rows :
      /\ screen.rows[a].status \in ProofStatus => screen.links[a] > 0
      /\ "MISSING_PROOF" \in RiskFlags(screen.rows[a], screen.links[a]) => screen.rows[a].status = "ASSIGNED"

\* Money is never shown as settled without the proof it was settled on: a list
\* reads the flags again with the rows, a detail page the allocations after the
\* withdrawal, and settled amounts and proofs are not taken back.
SettledIsShownProven ==
  screen.step = "answered" =>
    \A w \in DOMAIN screen.requests : screen.requests[w].settled > 0 => screen.requests[w].hasProof

\* The tab "finalizable" misses nothing an admin could finalize.
FinalizableIsCounted == {a \in Exists : Finalizable(alloc[a])} \subseteq OpsFinalizable

----------------------------------------------------------------------------
(* True when no two calls overlap: they rest on the totals, which overlapping *)
(* releases leave wrong (TotalsMatchAllocations).                             *)

\* A candidate shown for a withdrawal that shows "assign" can be assigned some
\* amount of it: totals, offers and the reservation agree.
CandidatesFit ==
  \A w \in Withdrawals, d \in Candidates({}) :
    CanAssignMore(w) /\ CanBeAssigned(d) => CanAssign(w, d :> 1, NoKey)

\* The tabs of the operations page hold the withdrawals of these statuses.
TabsFollowStatus ==
  /\ OpsWaiting = {w \in Withdrawals : withdrawal[w].status = "WAITING_ASSIGNMENT"}
  /\ {w \in Withdrawals : withdrawal[w].status = "PARTIALLY_ASSIGNED"} \subseteq OpsPartially
  /\ OpsPartially \intersect {w \in Withdrawals : withdrawal[w].status \in {"FULLY_ASSIGNED", "SETTLED"}} = {}
=============================================================================
