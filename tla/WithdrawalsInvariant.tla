------------------------ MODULE WithdrawalsInvariant ------------------------
(***************************************************************************)
(* The inductive invariant of Withdrawals: what each lock protects, what a *)
(* transaction knows at each of its steps, and why that makes its commit   *)
(* safe.  MCWithdrawals checks it, WithdrawalsProofs proves it.            *)
(*                                                                         *)
(* t is the local state of a call (tx[p]) and L the locks it holds         *)
(* (held[p]).                                                              *)
(***************************************************************************)
EXTENDS Withdrawals

Creating == {"insert", "limitDaily", "limitMonthly", "reserve"}
Deciding == {"readHold", "lockAccount", "readLimits", "lockUsage"}
CommitsCreate(t) == t.pc = "commit" /\ t.call = "create"
CommitsDecision(t) == t.pc = "commit" /\ t.call # "create"

\* A row lock has one holder, and nobody holds one outside a transaction.
LocksExclusive ==
  /\ \A p, q \in Procs : p # q => held[p] \intersect held[q] = {}
  /\ \A p \in Procs : tx[p].pc \in {"idle", "lockRequest"} \union AfterCommit => held[p] = {}

\* Which call is at which step, and that it has locked its request there.
CallKnown(t, L) ==
  /\ t.pc \in Creating => t.call = "create"
  /\ t.pc \in Deciding \union {"lockRequest"} => t.call # "create"
  /\ t.pc \in AfterCommit => t.call = "approve"
  /\ t.pc \in Creating \union Deciding \union {"commit"} => RequestLock(t.w) \in L

\* While its lock is held, a request keeps the status the call found.
RequestKnown(t) ==
  LET s == request[t.w].status IN
  /\ t.pc \in Creating \/ CommitsCreate(t) =>
       s = "none" /\ t.row.status \in {"PENDING", "WAITING_ASSIGNMENT"} /\ t.row.amount \in Amounts
  /\ t.pc = "lockRequest" => s # "none"
  /\ t.pc \in Deciding \/ CommitsDecision(t) =>
       \/ t.call \in {"approve", "reject"} /\ s = "PENDING"
       \/ t.call = "cancel" /\ s \in {"PENDING", "REJECTED"}
  /\ t.pc \in AfterCommit => debits[t.w] = 1

\* The reservation a decision has read is still what the row says.
HoldKnown(t) ==
  /\ t.pc = "lockAccount" \/ CommitsDecision(t) => t.seenHold = hold[t.w]
  /\ t.pc \in {"readLimits", "lockUsage"} /\ t.call = "approve" => t.seenHold = hold[t.w]

\* The usage rows a call has locked are those it creates reservations on, or
\* those of the reservations it goes through.
UsageIn(L) == {u \in UsageRows : UsageLock(u) \in L}
From(call) == IF call = "approve" THEN LimitConsumable ELSE LimitReleasable
ToDo(t) == {u \in UsageRows : limitHold[t.w][u] \in From(t.call)}

UsageKnown(t, L) ==
  /\ t.pc \in {"insert", "limitDaily", "readLimits"} => UsageIn(L) = {}
  /\ t.pc = "limitMonthly" => \E d \in 1..Days : UsageIn(L) = {<<"DAILY", d>>}
  /\ t.pc = "reserve" \/ CommitsCreate(t) => \E d \in 1..Days : UsageIn(L) = {<<"DAILY", d>>, <<"MONTHLY", 1>>}
  /\ t.pc \in {"readHold", "lockAccount"} => UsageIn(L) = IF t.call = "approve" THEN {} ELSE ToDo(t)
  /\ t.pc = "lockUsage" => UsageIn(L) \union t.todo = ToDo(t)
  /\ CommitsDecision(t) => UsageIn(L) = ToDo(t)

\* The account version a call will commit is computed from the row as it
\* still is; a create or an approval always has one.
PaidFrom(t) == Apply(Unblock(account, request[t.w].amount), -request[t.w].amount)

AccountKnown(t, L) ==
  /\ t.pc \in Creating \union {"readHold", "lockAccount"} => AccountLock \notin L
  /\ t.pc \in {"readLimits", "lockUsage"} /\ t.call # "approve" => AccountLock \notin L
  /\ CommitsCreate(t) =>
       /\ AccountLock \in L
       /\ CanReserve(account, t.row.amount)
       /\ t.acct = Reserve(account, t.row.amount)
  /\ (t.pc \in {"readLimits", "lockUsage"} \/ CommitsDecision(t)) /\ t.call = "approve" =>
       /\ AccountLock \in L
       /\ CanUnblock(account, request[t.w].amount)
       /\ t.acct = PaidFrom(t)
  /\ CommitsDecision(t) /\ t.call # "approve" =>
       IF t.seenHold = "RESERVED"
       THEN /\ AccountLock \in L
            /\ CanUnblock(account, request[t.w].amount)
            /\ t.acct = Unblock(account, request[t.w].amount)
       ELSE AccountLock \in L => t.acct = account

\* The version of a locked usage row counts the call's own amount on what the
\* row still says, and respects the policy of its period.
UsageFrom(t, u) ==
  CASE t.call = "create" -> ReserveUsage(usage[u], t.row.amount)
    [] t.call = "approve" -> ConsumeUsage(usage[u], request[t.w].amount)
    [] OTHER -> ReleaseUsage(usage[u], request[t.w].amount)

UsageVersionKnown(t, L) ==
  \A u \in UsageIn(L) :
    /\ t.use[u] = UsageFrom(t, u)
    /\ Policy[u[1]].value # NoLimit => t.use[u].used + t.use[u].reserved <= Policy[u[1]].value

\* A key whose index entry a create has inserted belongs to no request yet.
KeyKnown(t, L) ==
  (t.pc \in Creating \ {"insert"} \/ CommitsCreate(t)) /\ t.row.key # NoKey =>
    KeyLock(t.row.key) \in L /\ ~UsedKey(t.row.key)

Known(t, L) ==
  /\ CallKnown(t, L) /\ RequestKnown(t) /\ HoldKnown(t) /\ UsageKnown(t, L)
  /\ AccountKnown(t, L) /\ UsageVersionKnown(t, L) /\ KeyKnown(t, L)

\* The strengthening of the safety properties that the steps preserve: what
\* the rows say, who holds which lock, and what every running call knows.
RowsConsistent == StatusMatchesHolds /\ NoOverdraft /\ LimitsRespected /\ OneRequestPerKey /\ VoucherFollowsDebit

IInv ==
  /\ TypeOK
  /\ LocksExclusive
  /\ \A p \in Procs : tx[p].pc # "idle" => Known(tx[p], held[p])
  /\ RowsConsistent
=============================================================================
