------------------------- MODULE RemittancesInvariant -------------------------
(***************************************************************************)
(* The inductive invariant of Remittances: what the locks of a call        *)
(* protect, and what the call knows at each of its steps.  MCRequests      *)
(* checks it, RemittancesProofs proves it.                                 *)
(*                                                                         *)
(* A group overwrites the status of the sources it settles from links it   *)
(* has read without their locks, so little can be said about that status.  *)
(* What remains true is that a source is never PENDING again, and that a   *)
(* decision, made with the row locked and PENDING, is the only one.        *)
(*                                                                         *)
(* t is the local state of a call (tx[p]) and L the locks it holds         *)
(* (held[p]).                                                              *)
(***************************************************************************)
EXTENDS Remittances

ConstantsAssumption ==
  RemitsAssumption /\ KeysAssumption /\ UserCountAssumption /\ RoutesAssumption /\ AmountsAssumption /\ OpeningAssumption

Unlocked == {"idle", "insert", "lockRemit", "checkFunds", "enqueue"}
Creating == {"insert", "reserveLimit", "reserve"}
Approving == {"receive", "consumeLimit"}
Deciding == {"lockRemit", "releaseLimit", "unblock"} \union Approving
Grouping == {"checkFunds", "lockAccounts", "apply", "readSources", "lockSources"}
Decisions == {"approve", "reject", "cancel"}
Commits(t, calls) == t.pc = "commit" /\ t.call \in calls
Inserts(t) == t.pc \notin {"idle", "enqueue"} /\ t.call \in {"create", "group"}
Decides(t) == t.pc \in Deciding \ {"lockRemit"} \/ Commits(t, Decisions)
HasRead(t) == t.pc = "lockSources" \/ Commits(t, {"group"})
HasApplied(t) == t.pc = "readSources" \/ HasRead(t)

Senders(t) == {t.new[r].from : r \in DOMAIN t.new}
Receivers(t) == {t.new[r].to : r \in DOMAIN t.new}

\* A row lock has one holder, and nobody holds one before the first or after
\* the last step of a transaction that takes any.
LocksExclusive ==
  /\ \A p, q \in Procs : p # q => held[p] \intersect held[q] = {}
  /\ \A p \in Procs : tx[p].pc \in Unlocked => held[p] = {}

\* A remittance is inserted by one call.
OneInserter ==
  \A p, q \in Procs : p # q /\ Inserts(tx[p]) /\ Inserts(tx[q]) => DOMAIN tx[p].new \intersect DOMAIN tx[q].new = {}

\* Which call is at which step, and with what it begins.
CallKnown(t) ==
  /\ t.pc \in Creating => t.call = "create"
  /\ t.pc \in Deciding => t.call \in Decisions
  /\ t.pc \in Approving => t.call = "approve"
  /\ t.pc = "releaseLimit" => t.call # "approve"
  /\ t.pc \in Grouping \union {"enqueue"} => t.call = "group"
  /\ t.pc = "enqueue" => DOMAIN t.new = {} /\ t.toLock \subseteq Remits
  /\ t.pc # "enqueue" => DOMAIN t.new # {}
  /\ t.call # "group" => \E r \in Remits : DOMAIN t.new = {r}
  /\ t.pc = "lockAccounts" => t.toLock \subseteq Senders(t) \union Receivers(t)
  /\ t.pc = "apply" => t.toLock = {}
  /\ Commits(t, {"group"}) => t.toLock = {}
  /\ t.pc = "lockSources" => t.toLock \subseteq DOMAIN t.after

\* The settlements of a group: of what is there, and with what its legs carry.
AddsKnown(t) ==
  /\ t.call # "group" \/ t.pc = "enqueue" => t.adds = {}
  /\ \A l \in t.adds : l.leg \in DOMAIN t.new /\ remit[l.source].status # "none"
  /\ DOMAIN t.after \subseteq {l.source : l \in t.adds}
  /\ HasRead(t) => \A r \in DOMAIN t.new : Allocated(t.adds, r) <= t.new[r].amount
  /\ HasRead(t) => DOMAIN t.after = {l.source : l \in t.adds}

\* The rows it inserts are not there yet; a decision has locked a pending row
\* and read it.
RowKnown(t) ==
  \A r \in DOMAIN t.new :
    LET row == t.new[r] IN
    /\ row.amount \in Amounts /\ row.from # row.to
    /\ Inserts(t) => remit[r].status = "none" /\ row.from = t.by
    /\ Inserts(t) /\ t.call = "create" => row.status = "PENDING"
    /\ t.call = "group" => row.status = "COMPLETED" /\ row.key = NoKey
    /\ t.pc = "lockRemit" => remit[r].status # "none"
    /\ Decides(t) => remit[r].status = "PENDING" /\ row = remit[r]

\* The locks it holds at each step.
UsageLocked(t) ==
  t.pc = "reserve" \/ (t.pc = "unblock" /\ t.call # "approve") \/ Commits(t, {"create"} \union Decisions)

LockedAccounts(t) ==
  CASE t.pc \in Approving -> Senders(t) \union (IF t.pc = "consumeLimit" THEN Receivers(t) ELSE {})
    [] Commits(t, {"create", "reject", "cancel"}) -> Senders(t)
    [] Commits(t, {"approve"}) -> Senders(t) \union Receivers(t)
    [] t.pc = "lockAccounts" -> (Senders(t) \union Receivers(t)) \ t.toLock
    [] t.pc = "apply" \/ HasApplied(t) -> Senders(t) \union Receivers(t)
    [] OTHER -> {}

OwnLocks(t, L) ==
  /\ t.call = "create" => \A r \in DOMAIN t.new : t.new[r].key # NoKey => KeyLock(t.new[r].from, t.new[r].key) \in L
  /\ t.call \in Decisions => \A r \in DOMAIN t.new : RemitLock(r) \in L
  /\ HasRead(t) => \A r \in DOMAIN t.after \ t.toLock : RemitLock(r) \in L

LocksKnown(t, L) ==
  t.pc \notin Unlocked =>
    /\ OwnLocks(t, L)
    /\ \A u \in Users : UsageLock(u) \in L <=> UsageLocked(t) /\ u \in Senders(t)
    /\ \A u \in Users : AccountLock(u) \in L <=> u \in LockedAccounts(t)

\* The account versions it will commit are computed from the rows as they
\* still are.
FundsKnown(t) ==
  \A r \in DOMAIN t.new :
    LET u == t.new[r].from
        v == t.new[r].to
        n == t.new[r].amount
    IN
    /\ Commits(t, {"create"}) => CanReserve(account[u], n) /\ t.rows[u] = Reserve(account[u], n)
    /\ Commits(t, {"reject", "cancel"}) => CanUnblock(account[u], n) /\ t.rows[u] = Unblock(account[u], n)
    /\ t.pc \in Approving \/ Commits(t, {"approve"}) =>
         CanUnblock(account[u], n) /\ t.rows[u] = Apply(Unblock(account[u], n), -n)
    /\ t.pc = "consumeLimit" \/ Commits(t, {"approve"}) => t.rows[v] = Apply(account[v], n)

\* What the legs of a group bring to u.
LegsGain(legs, u) == SumFunction([r \in DOMAIN legs |-> Gain(legs[r], u)])

GroupKnown(t) ==
  /\ t.pc \in {"lockAccounts", "apply"} => \A u \in LockedAccounts(t) : t.rows[u] = account[u]
  /\ HasApplied(t) =>
       \A u \in LockedAccounts(t) :
         /\ t.rows[u] = Apply(account[u], LegsGain(t.new, u))
         /\ CanApply(account[u], LegsGain(t.new, u)) \/ LegsGain(t.new, u) >= 0

UsageKnown(t) ==
  UsageLocked(t) =>
    \A r \in DOMAIN t.new :
      LET u == t.new[r].from
          n == t.new[r].amount
      IN
      t.use = CASE t.call = "create" -> ReserveUsage(usage[u], n)
                [] t.call = "approve" -> ConsumeUsage(usage[u], n)
                [] OTHER -> ReleaseUsage(usage[u], n)

\* A key whose index entry a create has inserted belongs to no remittance yet.
KeyKnown(t) ==
  t.call = "create" /\ t.pc # "insert" => \A r \in DOMAIN t.new : ~UsedKey(t.new[r].from, t.new[r].key)

Known(t, L) ==
  /\ CallKnown(t) /\ AddsKnown(t) /\ RowKnown(t) /\ LocksKnown(t, L) /\ FundsKnown(t) /\ GroupKnown(t)
  /\ UsageKnown(t) /\ KeyKnown(t)

\* A row is from one user to another; one that a group has settled has kept
\* the reservations and entries of the status it had before.
Unsettled(r) == \A l \in links : l.source # r

RowsKnown ==
  \A r \in Remits :
    LET story == <<hold[r], limitHold[r], r \in paid>>
        s == remit[r].status
    IN
    /\ s # "none" => remit[r].amount \in Amounts /\ remit[r].from # remit[r].to
    /\ s = "none" => story = <<"none", "none", FALSE>>
    /\ s = "PENDING" => story = <<"RESERVED", "RESERVED", FALSE>>
    /\ s = "CANCELLED" => story = <<"RELEASED", "RELEASED", FALSE>>
    /\ s \in {"PARTIAL", "COMPLETED"} =>
         story \in {<<"RESERVED", "RESERVED", FALSE>>, <<"RELEASED", "RELEASED", FALSE>>,
                    <<"CONSUMED", "CONSUMED", TRUE>>, <<"none", "none", TRUE>>}
    /\ Unsettled(r) => s # "PARTIAL" /\ (s = "COMPLETED" => r \in paid)

LinksKnown == \A l \in links : l.leg \in paid /\ remit[l.source].status # "none"

\* The strengthening of the safety properties that the steps preserve.
IInv ==
  /\ TypeOK
  /\ LocksExclusive /\ OneInserter /\ RowsKnown /\ LinksKnown
  /\ \A p \in Procs : tx[p].pc # "idle" => Known(tx[p], held[p])
  /\ LegsCoverLinks /\ NoOverdraft /\ OneRemittancePerKey

----------------------------------------------------------------------------
(* Settlements among groups that share an account *)

\* Only the accounts that a group has locked keep the other groups from adding
\* links: what it has read of its sources and their links is still true, though
\* it does not lock the sources before it has read them.
SettlesKnown(t) ==
  t.call = "group" =>
    /\ \A r \in DOMAIN t.new : <<t.new[r].from, t.new[r].to>> \in Routes
    /\ HasRead(t) => \A r \in DOMAIN t.after :
         LET settled == Settled(links \union t.adds, r) IN
         /\ settled <= remit[r].amount
         /\ t.after[r] = IF settled = remit[r].amount THEN "COMPLETED" ELSE "PARTIAL"

StatusKnown ==
  \A r \in Remits : ~Unsettled(r) =>
    remit[r].status = IF Settled(links, r) = remit[r].amount THEN "COMPLETED" ELSE "PARTIAL"

SharedInv ==
  /\ \A p \in Procs : tx[p].pc # "idle" => SettlesKnown(tx[p])
  /\ SettledWithinAmount /\ StatusKnown
=============================================================================
