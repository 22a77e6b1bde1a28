-------------------------- MODULE RemittancesProofs --------------------------
(***************************************************************************)
(* Proofs about Remittances for all processes, users, remittances, keys,   *)
(* routes, amounts and settlements, and for every policy.                  *)
(***************************************************************************)
EXTENDS RemittancesInvariant, BookLemmas, TLAPS

----------------------------------------------------------------------------
(* Type correctness *)

LEMMA AmountTypes ==
  ASSUME ConstantsAssumption
  PROVE  Amounts \union {0} \subseteq Nat /\ \A n \in Amounts : n \in Nat /\ n # 0 /\ -n \in Int
<1>1. \A n \in Amounts : n \in Nat /\ n # 0
  BY DEF ConstantsAssumption, AmountsAssumption
<1> QED BY <1>1

LEMMA RowTypes ==
  ASSUME ConstantsAssumption, NEW row \in Row
  PROVE  /\ row.status \in RemittanceStatus /\ row.from \in Users /\ row.to \in Users /\ row.amount \in Nat
         /\ row.amount \in Amounts \union {0} /\ row.key \in Keys \union {NoKey}
         /\ \A s \in RemittanceStatus : /\ [row EXCEPT !.status = s] \in Row
                                        /\ [row EXCEPT !.status = s].status = s
                                        /\ [row EXCEPT !.status = s].from = row.from
                                        /\ [row EXCEPT !.status = s].to = row.to
                                        /\ [row EXCEPT !.status = s].amount = row.amount
                                        /\ [row EXCEPT !.status = s].key = row.key
<1>1. /\ row.status \in RemittanceStatus /\ row.from \in Users /\ row.to \in Users
      /\ row.amount \in Amounts \union {0} /\ row.key \in Keys \union {NoKey}
  BY DEF Row
<1>2. row.amount \in Nat
  BY <1>1, AmountTypes
<1>3. \A s \in RemittanceStatus : /\ [row EXCEPT !.status = s] \in Row
                                  /\ [row EXCEPT !.status = s].status = s
                                  /\ [row EXCEPT !.status = s].from = row.from
                                  /\ [row EXCEPT !.status = s].to = row.to
                                  /\ [row EXCEPT !.status = s].amount = row.amount
                                  /\ [row EXCEPT !.status = s].key = row.key
  BY DEF Row
<1> QED BY <1>1, <1>2, <1>3

\* The fields of a running call.
LEMMA CallFields ==
  ASSUME NEW t, IsCall(t)
  PROVE  /\ t.pc \in Pcs /\ t.call \in Calls /\ t.by \in Users /\ t.new \in [DOMAIN t.new -> Row]
         /\ DOMAIN t.new \in SUBSET Remits /\ DOMAIN t.after \in SUBSET Remits
         /\ t.adds \in SUBSET Link /\ t.toLock \in SUBSET (Users \union Remits)
         /\ t.after \in [DOMAIN t.after -> {"PARTIAL", "COMPLETED"}]
         /\ t.rows \in [Users -> Account] /\ t.use \in Usage
         /\ t \in CallOn(DOMAIN t.new, DOMAIN t.after)
<1> DEFINE D == DOMAIN t.new
           E == DOMAIN t.after
<1>1. t \in CallOn(D, E) /\ D \subseteq Remits /\ E \subseteq Remits
  BY DEF IsCall
<1> HIDE DEF D, E
<1>2. /\ t.pc \in Pcs /\ t.call \in Calls /\ t.by \in Users /\ t.new \in [D -> Row]
      /\ t.adds \in SUBSET Link /\ t.toLock \in SUBSET (Users \union Remits)
      /\ t.after \in [E -> {"PARTIAL", "COMPLETED"}]
      /\ t.rows \in [Users -> Account] /\ t.use \in Usage
  BY <1>1 DEF CallOn
<1> QED BY <1>1, <1>2 DEF D, E

LEMMA CallOnIsCall ==
  ASSUME NEW D \in SUBSET Remits, NEW E \in SUBSET Remits, NEW t \in CallOn(D, E)
  PROVE  IsCall(t) /\ DOMAIN t.new = D /\ DOMAIN t.after = E
<1>1. DOMAIN t.new = D /\ DOMAIN t.after = E
  BY DEF CallOn
<1> QED BY <1>1 DEF IsCall

LEMMA UntouchedType ==
  ASSUME ConstantsAssumption
  PROVE  Untouched \in [Users -> Account] /\ NoUsage \in Usage /\ 1 \in Users
<1>1. Opening \in Int /\ 1 \in Users
  BY DEF Users, ConstantsAssumption, OpeningAssumption, UserCountAssumption
<1>2. NoUsage \in Usage
  BY DEF NoUsage, Usage
<1>3. Untouched \in [Users -> Account]
  BY <1>1 DEF Untouched, Account
<1> QED BY <1>1, <1>2, <1>3

LEMMA EmptyFunction == \A S : <<>> \in [{} -> S] /\ DOMAIN <<>> = {}
OBVIOUS

LEMMA BegunType ==
  ASSUME ConstantsAssumption, NEW pc \in Pcs, NEW call \in Calls, NEW by \in Users, NEW D \in SUBSET Remits, NEW new \in [D -> Row],
         NEW adds \in SUBSET Link
  PROVE  LET t == Begun(pc, call, by, new, adds) IN
         /\ t \in CallOn(D, {}) /\ t.pc = pc /\ t.call = call /\ t.by = by /\ t.new = new /\ t.adds = adds
         /\ t.toLock = {} /\ DOMAIN t.after = {}
BY UntouchedType, EmptyFunction DEF Begun, CallOn

LEMMA LockTypes ==
  /\ \A u \in Users : AccountLock(u) \in Locks /\ UsageLock(u) \in Locks
  /\ \A r \in Remits : RemitLock(r) \in Locks
  /\ \A u \in Users, k \in Keys : KeyLock(u, k) \in Locks
BY DEF Locks

LEMMA LockKinds ==
  /\ \A u, v : AccountLock(u) = AccountLock(v) => u = v
  /\ \A u, v : UsageLock(u) = UsageLock(v) => u = v
  /\ \A r, s : RemitLock(r) = RemitLock(s) => r = s
  /\ \A u, v, k, l : KeyLock(u, k) = KeyLock(v, l) => u = v /\ k = l
  /\ \A u, v, k : /\ AccountLock(u) # UsageLock(v) /\ AccountLock(u) # RemitLock(v) /\ AccountLock(u) # KeyLock(v, k)
                  /\ UsageLock(u) # RemitLock(v) /\ UsageLock(u) # KeyLock(v, k) /\ RemitLock(u) # KeyLock(v, k)
BY DEF AccountLock, UsageLock, RemitLock, KeyLock

\* Which kinds of calls and steps there are.
LEMMA StepKinds ==
  ASSUME NEW t, IsCall(t)
  PROVE  t.pc # "idle"
BY CallFields DEF Pcs, InTransaction


----------------------------------------------------------------------------
(* The inductive invariant: steps that change no row *)

\* What a call knows depends on the rows alone.
LEMMA SameKnown ==
  ASSUME UNCHANGED <<remit, account, usage>>, NEW t, NEW L
  PROVE  Known(t, L)' <=> Known(t, L)
<1>1. CallKnown(t)' <=> CallKnown(t)
  BY DEF CallKnown, Senders, Receivers
<1>2. AddsKnown(t)' <=> AddsKnown(t)
  BY DEF AddsKnown
<1>3. RowKnown(t)' <=> RowKnown(t)
  BY DEF RowKnown
<1>4. LocksKnown(t, L)' <=> LocksKnown(t, L)
  BY DEF LocksKnown
<1>5. FundsKnown(t)' <=> FundsKnown(t)
  BY DEF FundsKnown
<1>6. GroupKnown(t)' <=> GroupKnown(t)
  BY DEF GroupKnown
<1>7. UsageKnown(t)' <=> UsageKnown(t)
  BY DEF UsageKnown
<1>8. KeyKnown(t)' <=> KeyKnown(t)
  BY DEF KeyKnown, UsedKey
<1> QED BY <1>1, <1>2, <1>3, <1>4, <1>5, <1>6, <1>7, <1>8 DEF Known

\* A step of p that writes the outbox at most keeps the invariant when the locks it takes
\* are free, nobody else inserts the same rows, and p knows what its next step
\* needs.
LEMMA LocalStep ==
  ASSUME IInv, NEW p \in Procs, NEW t, t = Idle \/ IsCall(t), NEW L \in SUBSET Locks,
         UNCHANGED <<remit, hold, limitHold, account, usage, paid, links>>, queued' \in SUBSET Remits,
         tx' = [tx EXCEPT ![p] = t], held' = [held EXCEPT ![p] = L],
         \A q \in Procs \ {p} : L \intersect held[q] = {},
         t.pc \in Unlocked => L = {},
         Inserts(t) => \A q \in Procs \ {p} : Inserts(tx[q]) => DOMAIN t.new \intersect DOMAIN tx[q].new = {},
         t.pc # "idle" => Known(t, L)
  PROVE  IInv'
<1>1. \A q \in Procs : /\ tx'[q] = IF q = p THEN t ELSE tx[q]
                       /\ held'[q] = IF q = p THEN L ELSE held[q]
  BY DEF IInv, TypeOK
<1>2. LocksExclusive'
  BY <1>1 DEF IInv, LocksExclusive
<1>3. OneInserter'
  <2>1. ASSUME NEW q \in Procs, NEW o \in Procs, q # o, Inserts(tx'[q]), Inserts(tx'[o])
        PROVE  DOMAIN tx'[q].new \intersect DOMAIN tx'[o].new = {}
    <3>1. CASE q = p
      BY <1>1, <2>1, <3>1
    <3>2. CASE o = p
      BY <1>1, <2>1, <3>2
    <3>3. CASE q # p /\ o # p
      BY <1>1, <2>1, <3>3 DEF IInv, OneInserter
    <3> QED BY <3>1, <3>2, <3>3
  <2> QED BY <2>1 DEF OneInserter, Inserts
<1>4. TypeOK'
  <2>1. DOMAIN tx' = Procs /\ held' \in [Procs -> SUBSET Locks]
    BY DEF IInv, TypeOK
  <2>2. \A q \in Procs : tx'[q] = Idle \/ IsCall(tx'[q])
    BY <1>1 DEF IInv, TypeOK
  <2> QED BY <2>1, <2>2 DEF IInv, TypeOK, IsCall
<1>5. ASSUME NEW u, NEW M PROVE Known(u, M)' <=> Known(u, M)
  BY SameKnown
<1>6. ASSUME NEW q \in Procs, tx'[q].pc # "idle" PROVE Known(tx[q], held[q])'
  <2>1. CASE q = p
    BY <1>1, <1>5, <1>6, <2>1
  <2>2. CASE q # p
    BY <1>1, <1>5, <1>6, <2>2 DEF IInv
  <2> QED BY <2>1, <2>2
<1>7. RowsKnown' /\ LinksKnown'
  BY DEF IInv, RowsKnown, LinksKnown, Unsettled
<1>8. LegsCoverLinks' /\ NoOverdraft' /\ OneRemittancePerKey'
  BY DEF IInv, LegsCoverLinks, Allocated, NoOverdraft, OneRemittancePerKey
<1> QED BY <1>2, <1>3, <1>4, <1>6, <1>7, <1>8 DEF IInv

LEMMA EndKeeps ==
  ASSUME IInv, NEW p \in Procs, End(p)
  PROVE  IInv'
<1>1. /\ tx' = [tx EXCEPT ![p] = Idle] /\ held' = [held EXCEPT ![p] = {}] /\ UNCHANGED <<remit, hold, limitHold, account, usage, paid, links>> /\ queued' \in SUBSET Remits
      /\ {} \in SUBSET Locks /\ Idle.pc = "idle" /\ ~Inserts(Idle)
  BY DEF End, Finish, Leave, Idle, Inserts, data, IInv, TypeOK
<1> QED BY <1>1, LocalStep

\* A call that goes on stays the only one that inserts its rows.
LEMMA StillOneInserter ==
  ASSUME IInv, NEW p \in Procs, NEW t, Inserts(t) => Inserts(tx[p]), DOMAIN t.new \subseteq DOMAIN tx[p].new,
         NEW q \in Procs \ {p}, Inserts(t), Inserts(tx[q])
  PROVE  DOMAIN t.new \intersect DOMAIN tx[q].new = {}
<1>1. DOMAIN tx[p].new \intersect DOMAIN tx[q].new = {}
  BY DEF IInv, OneInserter
<1> QED BY <1>1

LEMMA StepKeeps ==
  ASSUME IInv, NEW p \in Procs, NEW t, IsCall(t), Step(p, t),
         Inserts(t) => Inserts(tx[p]), DOMAIN t.new \subseteq DOMAIN tx[p].new,
         Known(t, held[p]), t.pc \in Unlocked => held[p] = {}
  PROVE  IInv'
<1>1. held' = [held EXCEPT ![p] = held[p]] /\ held[p] \in SUBSET Locks
  BY DEF Step, Go, IInv, TypeOK
<1>2. \A q \in Procs \ {p} : held[p] \intersect held[q] = {}
  BY DEF IInv, LocksExclusive
<1>3. tx' = [tx EXCEPT ![p] = t] /\ UNCHANGED <<remit, hold, limitHold, account, usage, paid, links>> /\ queued' \in SUBSET Remits
  BY DEF Step, Go, data, IInv, TypeOK
<1>4. Inserts(t) => \A q \in Procs \ {p} : Inserts(tx[q]) => DOMAIN t.new \intersect DOMAIN tx[q].new = {}
  BY StillOneInserter
<1> QED BY <1>1, <1>2, <1>3, <1>4, LocalStep

LEMMA LockStepKeeps ==
  ASSUME IInv, NEW p \in Procs, NEW t, IsCall(t), NEW l \in Locks, LockStep(p, l, t),
         Inserts(t) => Inserts(tx[p]), DOMAIN t.new \subseteq DOMAIN tx[p].new,
         Known(t, held[p] \union {l}), t.pc \notin Unlocked
  PROVE  IInv'
<1>1. \A q \in Procs \ {p} : (held[p] \union {l}) \intersect held[q] = {}
  BY DEF IInv, LocksExclusive, LockStep, Lock, CanLock
<1>2. held[p] \union {l} \in SUBSET Locks
  BY DEF IInv, TypeOK
<1>3. tx' = [tx EXCEPT ![p] = t] /\ held' = [held EXCEPT ![p] = held[p] \union {l}] /\ UNCHANGED <<remit, hold, limitHold, account, usage, paid, links>> /\ queued' \in SUBSET Remits
  BY DEF LockStep, Lock, data, IInv, TypeOK
<1>4. Inserts(t) => \A q \in Procs \ {p} : Inserts(tx[q]) => DOMAIN t.new \intersect DOMAIN tx[q].new = {}
  BY StillOneInserter
<1> QED BY <1>1, <1>2, <1>3, <1>4, LocalStep

\* A call begins with no lock, and with rows that nobody else inserts.
LEMMA BeginStep ==
  ASSUME IInv, NEW p \in Procs, NEW t, IsCall(t), At(p, "idle"), Step(p, t), Known(t, {}),
         Inserts(t) => DOMAIN t.new \subseteq Fresh
  PROVE  IInv'
<1>1. held[p] = {}
  BY DEF IInv, LocksExclusive, At, Unlocked
<1>2. tx' = [tx EXCEPT ![p] = t] /\ held' = [held EXCEPT ![p] = {}] /\ UNCHANGED <<remit, hold, limitHold, account, usage, paid, links>> /\ queued' \in SUBSET Remits
  BY <1>1 DEF Step, Go, data, IInv, TypeOK
<1>3. \A q \in Procs \ {p} : {} \intersect held[q] = {}
  OBVIOUS
<1>4. Inserts(t) => \A q \in Procs \ {p} : Inserts(tx[q]) => DOMAIN t.new \intersect DOMAIN tx[q].new = {}
  BY DEF Fresh, Inserting, Inserts, At
<1> QED BY <1>2, <1>3, <1>4, LocalStep

\* What the invariant says of a running call.
LEMMA RunningKnown ==
  ASSUME IInv, NEW p \in Procs, tx[p].pc # "idle"
  PROVE  /\ IsCall(tx[p]) /\ account \in [Users -> Account] /\ usage \in [Users -> Usage] /\ remit \in [Remits -> Row]
         /\ CallKnown(tx[p]) /\ AddsKnown(tx[p]) /\ RowKnown(tx[p]) /\ LocksKnown(tx[p], held[p])
         /\ FundsKnown(tx[p]) /\ GroupKnown(tx[p]) /\ UsageKnown(tx[p]) /\ KeyKnown(tx[p])
<1>1. IsCall(tx[p])
  BY DEF IInv, TypeOK, Idle
<1>2. account \in [Users -> Account] /\ usage \in [Users -> Usage] /\ remit \in [Remits -> Row]
  BY DEF IInv, TypeOK
<1>3. Known(tx[p], held[p])
  BY DEF IInv
<1> QED BY <1>1, <1>2, <1>3 DEF Known

\* The one remittance of createForUser, approve, reject and cancelByUser.
LEMMA SingleRow ==
  ASSUME ConstantsAssumption, IInv, NEW p \in Procs, tx[p].pc # "idle", tx[p].call # "group"
  PROVE  /\ Id(p) \in Remits /\ DOMAIN tx[p].new = {Id(p)} /\ This(p) = tx[p].new[Id(p)] /\ This(p) \in Row
         /\ This(p).from \in Users /\ This(p).to \in Users /\ This(p).amount \in Amounts /\ This(p).amount \in Nat
         /\ This(p).amount \in Int /\ -This(p).amount \in Int /\ This(p).from # This(p).to
<1>1. PICK r \in Remits : DOMAIN tx[p].new = {r}
  BY RunningKnown DEF CallKnown
<1>2. Id(p) = r
  BY <1>1 DEF Id
<1>3. tx[p].new \in [{r} -> Row]
  BY <1>1, RunningKnown, CallFields
<1>4. This(p) = tx[p].new[Id(p)] /\ This(p) \in Row
  BY <1>2, <1>3 DEF This
<1>5. This(p).amount \in Amounts /\ This(p).from # This(p).to
  BY <1>1, <1>2, <1>4, RunningKnown DEF RowKnown
<1> QED BY <1>1, <1>2, <1>4, <1>5, RowTypes, AmountTypes


\* What a call need not know yet.
LEMMA NothingDue ==
  ASSUME NEW t, NEW L
  PROVE  /\ t.pc \notin Approving \union {"commit"} => FundsKnown(t)
         /\ t.call = "group" /\ t.pc \notin Approving => FundsKnown(t)
         /\ t.call # "group" /\ t.pc \notin Grouping => GroupKnown(t)
         /\ t.pc \notin Grouping \union {"commit"} => GroupKnown(t)
         /\ t.pc \in {"checkFunds"} => GroupKnown(t)
         /\ t.pc \in Unlocked => LocksKnown(t, L)
         /\ ~UsageLocked(t) => UsageKnown(t)
         /\ t.pc \in Unlocked => UsageKnown(t)
         /\ t.call # "create" => KeyKnown(t)
<1>1. t.pc \notin Approving \union {"commit"} => FundsKnown(t)
  BY DEF FundsKnown, Commits, Approving
<1>2. t.call = "group" /\ t.pc \notin Approving => FundsKnown(t)
  BY DEF FundsKnown, Commits, Approving
<1>3. t.call # "group" /\ t.pc \notin Grouping => GroupKnown(t)
  BY DEF GroupKnown, HasApplied, HasRead, Commits, Grouping
<1>4. t.pc \notin Grouping \union {"commit"} => GroupKnown(t)
  BY DEF GroupKnown, HasApplied, HasRead, Commits, Grouping
<1>5. t.pc \in {"checkFunds"} => GroupKnown(t)
  BY DEF GroupKnown, HasApplied, HasRead, Commits
<1>6. t.pc \in Unlocked => LocksKnown(t, L)
  BY DEF LocksKnown
<1>7. ~UsageLocked(t) => UsageKnown(t)
  BY DEF UsageKnown
<1>8. t.pc \in Unlocked => UsageKnown(t)
  BY DEF UsageKnown, UsageLocked, Unlocked, Commits
<1>9. t.call # "create" => KeyKnown(t)
  BY DEF KeyKnown
<1> QED BY <1>1, <1>2, <1>3, <1>4, <1>5, <1>6, <1>7, <1>8, <1>9

\* Calls without settlements.
LEMMA NoAdds ==
  ASSUME NEW t, t.adds = {}, DOMAIN t.after = {}, ~HasRead(t)
  PROVE  AddsKnown(t)
BY DEF AddsKnown

----------------------------------------------------------------------------
(* createForUser *)

LEMMA BeginCreateKeeps ==
  ASSUME ConstantsAssumption, IInv, NEW p \in Procs, NEW r \in Remits, NEW from \in Users, NEW to \in Users, NEW n \in Amounts,
         NEW k \in Keys \union {NoKey}, BeginCreate(p, r, from, to, n, k)
  PROVE  IInv'
<1> DEFINE row == [status |-> "PENDING", from |-> from, to |-> to, amount |-> n, key |-> k]
           new == [x \in {r} |-> row]
           t == Begun("insert", "create", from, new, {})
<1>1. At(p, "idle") /\ r \in Fresh /\ from # to /\ Step(p, t)
  BY DEF BeginCreate
<1>2. row \in Row /\ new \in [{r} -> Row] /\ new[r] = row /\ DOMAIN new = {r}
  BY DEF Row, RemittanceStatus
<1>3. /\ t \in CallOn({r}, {}) /\ t.pc = "insert" /\ t.call = "create" /\ t.by = from /\ t.new = new /\ t.adds = {}
      /\ t.toLock = {} /\ DOMAIN t.after = {}
  <2> HIDE DEF new
  <2>1. "insert" \in Pcs /\ "create" \in Calls /\ {} \in SUBSET Link /\ {r} \in SUBSET Remits
    BY DEF Pcs, InTransaction, Calls
  <2> QED BY <1>2, <2>1, BegunType
<1>4. row.status = "PENDING" /\ row.from = from /\ row.to = to /\ row.amount = n /\ row.key = k
  OBVIOUS
<1> HIDE DEF t, new, row
<1>5. IsCall(t)
  BY <1>3, CallOnIsCall
<1>6. t.pc \in Unlocked /\ DOMAIN t.new = {r} /\ t.new[r] = row /\ t.pc \notin Approving /\ t.pc \notin Grouping
  BY <1>2, <1>3 DEF Unlocked, Approving, Grouping
<1>7. CallKnown(t)
  BY <1>3, <1>6 DEF CallKnown, Creating, Deciding, Approving, Grouping, Commits
<1>8. AddsKnown(t)
  BY <1>3, NoAdds DEF HasRead, Commits
<1>9. RowKnown(t)
  <2>1. remit[r].status = "none"
    BY <1>1 DEF Fresh
  <2> QED BY <1>1, <1>3, <1>4, <1>6, <2>1 DEF RowKnown, Decides, Deciding, Commits, Approving, Decisions
<1>10. KeyKnown(t)
  BY <1>3 DEF KeyKnown
<1>11. Known(t, {})
  BY <1>3, <1>6, <1>7, <1>8, <1>9, <1>10, NothingDue DEF Known
<1> QED BY <1>1, <1>5, <1>6, <1>11, BeginStep

LEMMA InsertRemittanceKeeps ==
  ASSUME ConstantsAssumption, IInv, NEW p \in Procs, InsertRemittance(p)
  PROVE  IInv'
<1> DEFINE r == Id(p)
           u == This(p).from
           k == This(p).key
           t == [tx[p] EXCEPT !.pc = "reserveLimit"]
<1>1. /\ tx[p].pc = "insert" /\ tx[p].pc # "idle" /\ tx[p].pc \in Unlocked /\ held[p] = {}
  BY DEF InsertRemittance, At, IInv, LocksExclusive, Unlocked
<1>2. /\ IsCall(tx[p]) /\ CallKnown(tx[p]) /\ AddsKnown(tx[p]) /\ RowKnown(tx[p]) /\ tx[p].call = "create"
  BY <1>1, RunningKnown DEF CallKnown, Creating
<1>3. /\ r \in Remits /\ DOMAIN tx[p].new = {r} /\ This(p) = tx[p].new[r] /\ u \in Users /\ k \in Keys \union {NoKey}
  BY <1>1, <1>2, SingleRow, RowTypes
<1>4. /\ t \in CallOn(DOMAIN tx[p].new, DOMAIN tx[p].after) /\ t.pc = "reserveLimit" /\ t.call = "create"
      /\ t.new = tx[p].new /\ t.by = tx[p].by /\ t.adds = tx[p].adds /\ t.after = tx[p].after /\ t.toLock = tx[p].toLock
  <2>1. "reserveLimit" \in Pcs
    BY DEF Pcs, InTransaction
  <2> QED BY <1>2, <2>1, CallFields DEF CallOn
<1>5. /\ UsedKey(u, k) => End(p)
      /\ ~UsedKey(u, k) /\ k = NoKey => Step(p, t)
      /\ ~UsedKey(u, k) /\ k # NoKey => LockStep(p, KeyLock(u, k), t)
  BY DEF InsertRemittance
<1> HIDE DEF t
<1>6. IsCall(t) /\ t.pc \notin Unlocked /\ t.pc \notin Approving /\ t.pc \notin Grouping \union {"commit"}
      /\ ~UsageLocked(t) /\ LockedAccounts(t) = {} /\ (Inserts(t) => Inserts(tx[p])) /\ ~Decides(t)
  <2>1. IsCall(t)
    BY <1>2, <1>4, CallOnIsCall, CallFields
  <2> QED BY <1>1, <1>2, <1>4, <2>1 DEF Unlocked, Approving, Grouping, UsageLocked, LockedAccounts, Commits, Inserts, HasApplied, HasRead, Decides, Deciding
<1>7. CallKnown(t)
  BY <1>2, <1>4, <1>6 DEF CallKnown, Creating, Deciding, Approving, Grouping, Commits
<1>8. AddsKnown(t)
  BY <1>2, <1>4, <1>6 DEF AddsKnown, HasRead, Grouping, Commits
<1>9. RowKnown(t)
  BY <1>1, <1>2, <1>4, <1>6 DEF RowKnown, Inserts
<1>10. CASE UsedKey(u, k)
  BY <1>5, <1>10, EndKeeps
<1>11. ~UsedKey(u, k) => KeyKnown(t)
  BY <1>3, <1>4 DEF KeyKnown
<1>12. ASSUME NEW L, k # NoKey => KeyLock(u, k) \in L, \A v \in Users : UsageLock(v) \notin L /\ AccountLock(v) \notin L
       PROVE  LocksKnown(t, L)
  <2>1. OwnLocks(t, L)
    BY <1>3, <1>4, <1>6, <1>12 DEF OwnLocks, HasRead, Commits, Decisions, Grouping
  <2> QED BY <1>6, <1>12, <2>1 DEF LocksKnown
<1>14. CASE ~UsedKey(u, k) /\ k = NoKey
  <2>1. LocksKnown(t, held[p])
    BY <1>1, <1>12, <1>14
  <2>2. Known(t, held[p])
    BY <1>4, <1>6, <1>7, <1>8, <1>9, <1>11, <1>14, <2>1, NothingDue DEF Known
  <2> QED BY <1>4, <1>5, <1>6, <1>14, <2>2, StepKeeps
<1>15. CASE ~UsedKey(u, k) /\ k # NoKey
  <2>1. LocksKnown(t, held[p] \union {KeyLock(u, k)})
    BY <1>1, <1>12, <1>15, LockKinds
  <2>2. Known(t, held[p] \union {KeyLock(u, k)})
    BY <1>4, <1>6, <1>7, <1>8, <1>9, <1>11, <1>15, <2>1, NothingDue DEF Known
  <2>3. KeyLock(u, k) \in Locks
    BY <1>3, <1>15, LockTypes
  <2> QED BY <1>4, <1>5, <1>6, <1>15, <2>2, <2>3, LockStepKeeps
<1> QED BY <1>10, <1>14, <1>15


LEMMA SingleSets ==
  ASSUME NEW t, NEW r, DOMAIN t.new = {r}
  PROVE  Senders(t) = {t.new[r].from} /\ Receivers(t) = {t.new[r].to}
BY DEF Senders, Receivers

\* A step that takes the lock l holds what the next one needs.
LEMMA LocksGrow ==
  ASSUME NEW t, NEW u, NEW L, NEW l, LocksKnown(t, L), t.pc \in Unlocked => L = {}, OwnLocks(u, L \union {l}),
         \A x \in Users : /\ UsageLocked(u) /\ x \in Senders(u) <=> (UsageLocked(t) /\ x \in Senders(t)) \/ l = UsageLock(x)
                          /\ x \in LockedAccounts(u) <=> x \in LockedAccounts(t) \/ l = AccountLock(x)
  PROVE  LocksKnown(u, L \union {l})
<1>1. t.pc \in Unlocked => ~UsageLocked(t) /\ LockedAccounts(t) = {}
  BY DEF Unlocked, UsageLocked, LockedAccounts, Commits, HasApplied, HasRead, Approving
<1>2. \A x \in Users : /\ UsageLock(x) \in L <=> UsageLocked(t) /\ x \in Senders(t)
                       /\ AccountLock(x) \in L <=> x \in LockedAccounts(t)
  BY <1>1 DEF LocksKnown
<1> QED BY <1>2 DEF LocksKnown

\* The own locks of a call that is not a group's stay.
LEMMA OwnLocksStay ==
  ASSUME NEW t, NEW u, NEW L, NEW l, OwnLocks(t, L), u.new = t.new, u.call = t.call, ~HasRead(u)
  PROVE  OwnLocks(u, L \union {l})
BY DEF OwnLocks

Changed(t, pc, rows, use, new) == [t EXCEPT !.pc = pc, !.rows = rows, !.use = use, !.new = new]

LEMMA ChangedFields ==
  ASSUME NEW D, NEW E, NEW o \in CallOn(D, E), NEW pc \in Pcs, NEW rows \in [Users -> Account], NEW use \in Usage,
         NEW new \in [D -> Row]
  PROVE  LET t == Changed(o, pc, rows, use, new) IN
         /\ t \in CallOn(D, E) /\ t.pc = pc /\ t.rows = rows /\ t.use = use /\ t.new = new
         /\ t.call = o.call /\ t.by = o.by /\ t.adds = o.adds /\ t.after = o.after /\ t.toLock = o.toLock
BY DEF CallOn, Changed

\* A step of createForUser, approve, reject or cancelByUser.
LEMMA SingleStep ==
  ASSUME ConstantsAssumption, IInv, NEW p \in Procs, tx[p].call # "group", tx[p].pc \notin {"idle", "enqueue", "insert"},
         NEW pc \in Pcs, pc \notin {"enqueue", "insert"}, pc \notin Grouping, NEW rows \in [Users -> Account], NEW use \in Usage,
         NEW new \in [DOMAIN tx[p].new -> Row], NEW t, t = Changed(tx[p], pc, rows, use, new)
  PROVE  /\ IsCall(t) /\ t.pc = pc /\ t.rows = rows /\ t.use = use /\ t.new = new /\ t.call = tx[p].call /\ t.by = tx[p].by
         /\ t.adds = tx[p].adds /\ t.after = tx[p].after /\ t.toLock = tx[p].toLock
         /\ Inserts(t) => Inserts(tx[p])
         /\ ~HasRead(t) /\ ~HasApplied(t) /\ AddsKnown(t) /\ GroupKnown(t)
<1>1. IsCall(tx[p]) /\ AddsKnown(tx[p])
  BY RunningKnown
<1>2. /\ t \in CallOn(DOMAIN tx[p].new, DOMAIN tx[p].after) /\ t.pc = pc /\ t.rows = rows /\ t.use = use /\ t.new = new
      /\ t.call = tx[p].call /\ t.by = tx[p].by
      /\ t.adds = tx[p].adds /\ t.after = tx[p].after /\ t.toLock = tx[p].toLock
  <2>1. tx[p] \in CallOn(DOMAIN tx[p].new, DOMAIN tx[p].after)
    BY <1>1, CallFields
  <2> QED BY <2>1, ChangedFields
<1>3. IsCall(t) /\ DOMAIN t.new = DOMAIN tx[p].new
  BY <1>1, <1>2, CallOnIsCall, CallFields
<1>4. ~HasRead(t) /\ ~HasApplied(t) /\ (Inserts(t) => Inserts(tx[p]))
  BY <1>2 DEF HasRead, HasApplied, Commits, Inserts, Grouping
<1>5. AddsKnown(t)
  <2>1. tx[p].adds = {}
    BY <1>1 DEF AddsKnown
  <2>2. DOMAIN t.after \subseteq {l.source : l \in t.adds}
    BY <1>1, <1>2 DEF AddsKnown
  <2> QED BY <1>2, <1>4, <2>1, <2>2 DEF AddsKnown
<1>6. GroupKnown(t)
  BY <1>2, NothingDue
<1> QED BY <1>2, <1>3, <1>4, <1>5, <1>6

LEMMA ReserveLimitKeeps ==
  ASSUME ConstantsAssumption, IInv, NEW p \in Procs, ReserveLimit(p)
  PROVE  IInv'
<1> DEFINE r == Id(p)
           u == This(p).from
           n == This(p).amount
           use == ReserveUsage(usage[u], n)
           l == UsageLock(u)
           t == [tx[p] EXCEPT !.pc = "reserve", !.use = use]
<1>1. /\ tx[p].pc = "reserveLimit" /\ tx[p].pc \notin {"idle", "insert", "enqueue"} /\ tx[p].pc \notin Unlocked
  BY DEF ReserveLimit, At, Unlocked
<1>2. /\ IsCall(tx[p]) /\ CallKnown(tx[p]) /\ RowKnown(tx[p]) /\ tx[p].call = "create"
      /\ LocksKnown(tx[p], held[p]) /\ KeyKnown(tx[p]) /\ usage \in [Users -> Usage]
  BY <1>1, RunningKnown DEF CallKnown, Creating
<1>3. /\ r \in Remits /\ DOMAIN tx[p].new = {r} /\ This(p) = tx[p].new[r] /\ u \in Users /\ n \in Int
  BY <1>1, <1>2, SingleRow
<1>4. use \in Usage /\ l \in Locks
  BY <1>2, <1>3, UsageTypes, LockTypes
<1>5. End(p) \/ LockStep(p, l, t)
  BY DEF ReserveLimit
<1>6. t = Changed(tx[p], "reserve", tx[p].rows, use, tx[p].new)
  BY <1>2, CallFields DEF CallOn, Changed
<1> HIDE DEF t, use
<1>7. /\ IsCall(t) /\ t.pc = "reserve" /\ t.use = use /\ t.new = tx[p].new /\ t.call = "create" /\ t.by = tx[p].by
      /\ t.toLock = tx[p].toLock /\ t.after = tx[p].after /\ t.adds = tx[p].adds
      /\ Inserts(t) => Inserts(tx[p])
      /\ ~HasRead(t) /\ AddsKnown(t) /\ GroupKnown(t)
  <2>1. "reserve" \in Pcs /\ "reserve" \notin {"enqueue", "insert"} /\ "reserve" \notin Grouping /\ tx[p].rows \in [Users -> Account] /\ tx[p].new \in [DOMAIN tx[p].new -> Row]
    BY <1>2, CallFields DEF Pcs, InTransaction, Grouping
  <2> QED BY <1>1, <1>2, <1>4, <1>6, <2>1, SingleStep
<1>8. CallKnown(t)
  BY <1>2, <1>7 DEF CallKnown, Creating, Deciding, Approving, Grouping, Commits
<1>9. RowKnown(t)
  BY <1>1, <1>2, <1>7 DEF RowKnown, Inserts, Decides, Deciding, Commits, Approving, Decisions
<1>10. LocksKnown(t, held[p] \union {l})
  <2>1. Senders(t) = {u}
    BY <1>3, <1>7, SingleSets
  <2>2. UsageLocked(t) /\ ~UsageLocked(tx[p]) /\ LockedAccounts(t) = {} /\ LockedAccounts(tx[p]) = {}
    BY <1>1, <1>2, <1>7 DEF UsageLocked, LockedAccounts, Commits, HasApplied, HasRead, Approving
  <2>3. OwnLocks(t, held[p] \union {l})
    BY <1>1, <1>2, <1>7, OwnLocksStay DEF LocksKnown
  <2>4. \A x \in Users : /\ UsageLocked(t) /\ x \in Senders(t) <=> (UsageLocked(tx[p]) /\ x \in Senders(tx[p])) \/ l = UsageLock(x)
                         /\ x \in LockedAccounts(t) <=> x \in LockedAccounts(tx[p]) \/ l = AccountLock(x)
    BY <2>1, <2>2, LockKinds
  <2> HIDE DEF l
  <2> QED BY <1>1, <1>2, <2>3, <2>4, LocksGrow
<1>11. UsageKnown(t) /\ KeyKnown(t)
  BY <1>1, <1>2, <1>3, <1>7 DEF UsageKnown, KeyKnown, use
<1>12. Known(t, held[p] \union {l})
  BY <1>7, <1>8, <1>9, <1>10, <1>11, NothingDue DEF Known, Approving
<1> QED BY <1>4, <1>5, <1>7, <1>12, EndKeeps, LockStepKeeps DEF Unlocked

LEMMA ReserveFundsKeeps ==
  ASSUME ConstantsAssumption, IInv, NEW p \in Procs, ReserveFunds(p)
  PROVE  IInv'
<1> DEFINE r == Id(p)
           u == This(p).from
           n == This(p).amount
           rows == [tx[p].rows EXCEPT ![u] = Reserve(account[u], n)]
           l == AccountLock(u)
           t == [tx[p] EXCEPT !.pc = "commit", !.rows[u] = Reserve(account[u], n)]
<1>1. /\ tx[p].pc = "reserve" /\ tx[p].pc \notin {"idle", "insert", "enqueue"} /\ tx[p].pc \notin Unlocked
  BY DEF ReserveFunds, At, Unlocked
<1>2. /\ IsCall(tx[p]) /\ CallKnown(tx[p]) /\ RowKnown(tx[p]) /\ tx[p].call = "create"
      /\ LocksKnown(tx[p], held[p]) /\ UsageKnown(tx[p]) /\ KeyKnown(tx[p]) /\ account \in [Users -> Account]
  BY <1>1, RunningKnown DEF CallKnown, Creating
<1>3. /\ r \in Remits /\ DOMAIN tx[p].new = {r} /\ This(p) = tx[p].new[r] /\ u \in Users /\ n \in Int
  BY <1>1, <1>2, SingleRow
<1>4. rows \in [Users -> Account] /\ rows[u] = Reserve(account[u], n) /\ l \in Locks
  BY <1>2, <1>3, LedgerTypes, LockTypes, CallFields
<1>5. End(p) \/ (CanReserve(account[u], n) /\ LockStep(p, l, t))
  BY DEF ReserveFunds
<1>6. t = Changed(tx[p], "commit", rows, tx[p].use, tx[p].new)
  BY <1>2, CallFields DEF CallOn, Changed
<1> HIDE DEF t, rows
<1>7. /\ IsCall(t) /\ t.pc = "commit" /\ t.rows = rows /\ t.use = tx[p].use /\ t.new = tx[p].new /\ t.call = "create"
      /\ t.by = tx[p].by /\ t.toLock = tx[p].toLock /\ t.after = tx[p].after /\ t.adds = tx[p].adds
      /\ Inserts(t) => Inserts(tx[p])
      /\ ~HasRead(t) /\ AddsKnown(t) /\ GroupKnown(t)
  <2>1. /\ "commit" \in Pcs /\ "commit" \notin {"enqueue", "insert"} /\ "commit" \notin Grouping /\ tx[p].use \in Usage
        /\ tx[p].new \in [DOMAIN tx[p].new -> Row]
    BY <1>2, CallFields DEF Pcs, InTransaction, Grouping
  <2> QED BY <1>1, <1>2, <1>4, <1>6, <2>1, SingleStep
<1>8. CallKnown(t)
  BY <1>2, <1>7 DEF CallKnown, Creating, Deciding, Approving, Grouping, Commits
<1>9. RowKnown(t)
  BY <1>1, <1>2, <1>7 DEF RowKnown, Inserts, Decides, Deciding, Commits, Approving, Decisions
<1>10. LocksKnown(t, held[p] \union {l})
  <2>1. Senders(t) = {u}
    BY <1>3, <1>7, SingleSets
  <2>2. UsageLocked(t) /\ UsageLocked(tx[p]) /\ LockedAccounts(t) = {u} /\ LockedAccounts(tx[p]) = {} /\ Senders(tx[p]) = {u}
    BY <1>1, <1>2, <1>3, <1>7, <2>1, SingleSets DEF UsageLocked, LockedAccounts, Commits, HasApplied, HasRead, Approving
  <2>3. OwnLocks(t, held[p] \union {l})
    BY <1>1, <1>2, <1>7, OwnLocksStay DEF LocksKnown
  <2>4. \A x \in Users : /\ UsageLocked(t) /\ x \in Senders(t) <=> (UsageLocked(tx[p]) /\ x \in Senders(tx[p])) \/ l = UsageLock(x)
                         /\ x \in LockedAccounts(t) <=> x \in LockedAccounts(tx[p]) \/ l = AccountLock(x)
    BY <2>1, <2>2, LockKinds
  <2> HIDE DEF l
  <2> QED BY <1>1, <1>2, <2>3, <2>4, LocksGrow
<1>11. UsageKnown(t) /\ KeyKnown(t)
  BY <1>1, <1>2, <1>3, <1>7 DEF UsageKnown, KeyKnown, UsageLocked
<1>12. CanReserve(account[u], n) => FundsKnown(t)
  BY <1>3, <1>4, <1>7 DEF FundsKnown, Commits, Approving
<1>13. CanReserve(account[u], n) => Known(t, held[p] \union {l})
  BY <1>7, <1>8, <1>9, <1>10, <1>11, <1>12, NothingDue DEF Known, Approving
<1> QED BY <1>4, <1>5, <1>7, <1>13, EndKeeps, LockStepKeeps DEF Unlocked


----------------------------------------------------------------------------
(* approve, reject, cancelByUser *)

\* What a decision that has locked its row knows.
LEMMA DecidingKnown ==
  ASSUME ConstantsAssumption, IInv, NEW p \in Procs, Decides(tx[p])
  PROVE  /\ tx[p].call \in Decisions /\ tx[p].call # "group" /\ tx[p].call # "create" /\ tx[p].pc \notin Unlocked
         /\ tx[p].pc \notin {"idle", "enqueue", "insert"}
         /\ remit[Id(p)] = This(p) /\ This(p).status = "PENDING"
         /\ hold[Id(p)] = "RESERVED" /\ limitHold[Id(p)] = "RESERVED" /\ Id(p) \notin paid
<1>1. tx[p].pc # "idle"
  BY DEF Decides, Deciding, Approving, Commits
<1>2. CallKnown(tx[p]) /\ RowKnown(tx[p])
  BY <1>1, RunningKnown
<1>3. /\ tx[p].call \in Decisions /\ tx[p].call # "group" /\ tx[p].call # "create" /\ tx[p].pc \notin Unlocked
      /\ tx[p].pc \notin {"idle", "enqueue", "insert"}
  BY <1>1, <1>2 DEF CallKnown, Decides, Deciding, Approving, Commits, Decisions, Unlocked
<1>4. Id(p) \in Remits /\ DOMAIN tx[p].new = {Id(p)} /\ This(p) = tx[p].new[Id(p)]
  BY <1>1, <1>3, SingleRow
<1>5. remit[Id(p)] = This(p) /\ This(p).status = "PENDING"
  BY <1>2, <1>4 DEF RowKnown
<1>6. hold[Id(p)] = "RESERVED" /\ limitHold[Id(p)] = "RESERVED" /\ Id(p) \notin paid
  BY <1>4, <1>5 DEF IInv, RowsKnown
<1> QED BY <1>3, <1>5, <1>6

LEMMA BeginKeeps ==
  ASSUME ConstantsAssumption, IInv, NEW p \in Procs, NEW r \in Remits, NEW call \in Decisions, NEW by \in Users, Begin(p, r, call, by)
  PROVE  IInv'
<1> DEFINE new == [x \in {r} |-> remit[x]]
           t == Begun("lockRemit", call, by, new, {})
<1>1. At(p, "idle") /\ remit[r].status # "none" /\ Step(p, t)
  BY DEF Begin
<1>2. new \in [{r} -> Row] /\ new[r] = remit[r] /\ DOMAIN new = {r}
  BY DEF IInv, TypeOK
<1>3. /\ t \in CallOn({r}, {}) /\ t.pc = "lockRemit" /\ t.call = call /\ t.by = by /\ t.new = new /\ t.adds = {}
      /\ t.toLock = {} /\ DOMAIN t.after = {}
  <2> HIDE DEF new
  <2>1. "lockRemit" \in Pcs /\ call \in Calls /\ {} \in SUBSET Link /\ {r} \in SUBSET Remits
    BY DEF Pcs, InTransaction, Calls, Decisions
  <2> QED BY <1>2, <2>1, BegunType
<1> HIDE DEF t, new
<1>4. IsCall(t)
  BY <1>3, CallOnIsCall
<1>5. /\ t.pc \in Unlocked /\ DOMAIN t.new = {r} /\ t.new[r] = remit[r] /\ t.pc \notin Approving /\ t.pc \notin Grouping
      /\ call \notin {"create", "group"} /\ ~HasRead(t) /\ ~Inserts(t) /\ ~Decides(t)
  BY <1>2, <1>3 DEF Unlocked, Approving, Grouping, Decisions, HasRead, Commits, Inserts, Decides
<1>6. CallKnown(t)
  BY <1>3, <1>5 DEF CallKnown, Creating, Deciding, Approving, Grouping, Commits
<1>7. AddsKnown(t)
  BY <1>3, <1>5, NoAdds
<1>8. RowKnown(t)
  <2>1. remit[r].amount \in Amounts /\ remit[r].from # remit[r].to
    BY <1>1 DEF IInv, RowsKnown
  <2> QED BY <1>1, <1>3, <1>5, <2>1 DEF RowKnown
<1>9. Known(t, {})
  BY <1>3, <1>5, <1>6, <1>7, <1>8, NothingDue DEF Known
<1> QED BY <1>1, <1>4, <1>5, <1>9, BeginStep

LEMMA LockRemittanceKeeps ==
  ASSUME ConstantsAssumption, IInv, NEW p \in Procs, LockRemittance(p)
  PROVE  IInv'
<1> DEFINE r == Id(p)
           pc == IF tx[p].call = "approve" THEN "unblock" ELSE "releaseLimit"
           new == [tx[p].new EXCEPT ![r] = remit[r]]
           l == RemitLock(r)
           t == [tx[p] EXCEPT !.pc = IF tx[p].call = "approve" THEN "unblock" ELSE "releaseLimit", !.new[r] = remit[r]]
<1>1. tx[p].pc = "lockRemit" /\ tx[p].pc \notin {"idle", "insert", "enqueue"} /\ held[p] = {} /\ tx[p].pc \in Unlocked
  BY DEF LockRemittance, At, Unlocked, IInv, LocksExclusive
<1>2. /\ IsCall(tx[p]) /\ CallKnown(tx[p]) /\ RowKnown(tx[p]) /\ tx[p].call \in Decisions /\ tx[p].call \notin {"group", "create"}
      /\ LocksKnown(tx[p], held[p]) /\ remit \in [Remits -> Row]
  BY <1>1, RunningKnown DEF CallKnown, Deciding, Decisions
<1>3. r \in Remits /\ DOMAIN tx[p].new = {r}
  BY <1>1, <1>2, SingleRow
<1>4. new \in [DOMAIN tx[p].new -> Row] /\ new[r] = remit[r] /\ DOMAIN new = {r} /\ l \in Locks
  BY <1>2, <1>3, CallFields, LockTypes
<1>5. End(p) \/ (remit[r].status = "PENDING" /\ LockStep(p, l, t))
  BY DEF LockRemittance, GoesOn
<1>6. t = Changed(tx[p], pc, tx[p].rows, tx[p].use, new)
  BY <1>2, CallFields DEF CallOn, Changed
<1>7. pc \in {"unblock", "releaseLimit"} /\ (pc = "unblock" <=> tx[p].call = "approve")
  OBVIOUS
<1> HIDE DEF t, new, pc
<1>8. /\ IsCall(t) /\ t.pc = pc /\ t.new = new /\ t.call = tx[p].call /\ t.by = tx[p].by
      /\ t.toLock = tx[p].toLock /\ t.after = tx[p].after /\ t.adds = tx[p].adds
      /\ Inserts(t) => Inserts(tx[p])
      /\ ~HasRead(t) /\ AddsKnown(t) /\ GroupKnown(t)
  <2>1. /\ pc \in Pcs /\ pc \notin {"enqueue", "insert"} /\ pc \notin Grouping
        /\ tx[p].rows \in [Users -> Account] /\ tx[p].use \in Usage
    BY <1>2, <1>7, CallFields DEF Pcs, InTransaction, Grouping
  <2> QED BY <1>1, <1>2, <1>4, <1>6, <2>1, SingleStep
<1>9. CallKnown(t)
  BY <1>2, <1>3, <1>4, <1>7, <1>8 DEF CallKnown, Creating, Deciding, Approving, Grouping, Commits
<1>10. remit[r].status = "PENDING" => RowKnown(t)
  <2>1. remit[r].status = "PENDING" => remit[r].amount \in Amounts /\ remit[r].from # remit[r].to
    BY <1>3 DEF IInv, RowsKnown
  <2> QED BY <1>2, <1>4, <1>7, <1>8, <2>1 DEF RowKnown, Inserts
<1>11. t.pc \notin Unlocked /\ ~UsageLocked(t) /\ t.pc \notin Approving \union {"commit"}
  BY <1>2, <1>7, <1>8 DEF Unlocked, UsageLocked, Approving, Commits
<1>12. LocksKnown(t, held[p] \union {l})
  <2>1. ~UsageLocked(t) /\ ~UsageLocked(tx[p]) /\ LockedAccounts(t) = {} /\ LockedAccounts(tx[p]) = {}
    BY <1>1, <1>2, <1>7, <1>8, <1>11 DEF UsageLocked, LockedAccounts, Commits, HasApplied, HasRead, Approving
  <2>2. OwnLocks(t, held[p] \union {l})
    BY <1>2, <1>4, <1>8 DEF OwnLocks
  <2>3. \A x \in Users : /\ UsageLocked(t) /\ x \in Senders(t) <=> (UsageLocked(tx[p]) /\ x \in Senders(tx[p])) \/ l = UsageLock(x)
                         /\ x \in LockedAccounts(t) <=> x \in LockedAccounts(tx[p]) \/ l = AccountLock(x)
    BY <2>1, LockKinds
  <2> HIDE DEF l
  <2> QED BY <1>1, <1>2, <2>2, <2>3, LocksGrow
<1>13. remit[r].status = "PENDING" => Known(t, held[p] \union {l})
  BY <1>2, <1>8, <1>9, <1>10, <1>11, <1>12, NothingDue DEF Known
<1> QED BY <1>3, <1>4, <1>5, <1>8, <1>11, <1>13, EndKeeps, LockStepKeeps

LEMMA ReleaseLimitKeeps ==
  ASSUME ConstantsAssumption, IInv, NEW p \in Procs, ReleaseLimit(p)
  PROVE  IInv'
<1> DEFINE r == Id(p)
           u == This(p).from
           n == This(p).amount
           use == ReleaseUsage(usage[u], n)
           l == UsageLock(u)
           t == [tx[p] EXCEPT !.pc = "unblock", !.use = use]
<1>1. tx[p].pc = "releaseLimit" /\ Decides(tx[p])
  BY DEF ReleaseLimit, At, Decides, Deciding
<1>2. /\ tx[p].call \in Decisions /\ tx[p].call \notin {"group", "create"} /\ tx[p].pc \notin Unlocked
      /\ tx[p].pc \notin {"idle", "enqueue", "insert"} /\ limitHold[r] = "RESERVED"
  BY <1>1, DecidingKnown
<1>3. /\ IsCall(tx[p]) /\ CallKnown(tx[p]) /\ RowKnown(tx[p])
      /\ LocksKnown(tx[p], held[p]) /\ usage \in [Users -> Usage] /\ tx[p].call # "approve"
  BY <1>1, <1>2, RunningKnown DEF CallKnown
<1>4. /\ r \in Remits /\ DOMAIN tx[p].new = {r} /\ This(p) = tx[p].new[r] /\ u \in Users /\ n \in Int
  BY <1>2, SingleRow
<1>5. use \in Usage /\ l \in Locks
  BY <1>3, <1>4, UsageTypes, LockTypes
<1>6. LockStep(p, l, t)
  BY <1>2 DEF ReleaseLimit, LimitReleasable
<1>7. t = Changed(tx[p], "unblock", tx[p].rows, use, tx[p].new)
  BY <1>3, CallFields DEF CallOn, Changed
<1> HIDE DEF t, use
<1>8. /\ IsCall(t) /\ t.pc = "unblock" /\ t.use = use /\ t.new = tx[p].new /\ t.call = tx[p].call /\ t.by = tx[p].by
      /\ t.toLock = tx[p].toLock /\ t.after = tx[p].after /\ t.adds = tx[p].adds
      /\ Inserts(t) => Inserts(tx[p])
      /\ ~HasRead(t) /\ AddsKnown(t) /\ GroupKnown(t)
  <2>1. /\ "unblock" \in Pcs /\ "unblock" \notin {"enqueue", "insert"} /\ "unblock" \notin Grouping
        /\ tx[p].rows \in [Users -> Account] /\ tx[p].new \in [DOMAIN tx[p].new -> Row]
    BY <1>3, CallFields DEF Pcs, InTransaction, Grouping
  <2> QED BY <1>2, <1>5, <1>7, <2>1, SingleStep
<1>9. CallKnown(t)
  BY <1>2, <1>3, <1>8 DEF CallKnown, Creating, Deciding, Approving, Grouping, Commits
<1>10. RowKnown(t)
  BY <1>1, <1>2, <1>3, <1>8 DEF RowKnown, Inserts
<1>11. LocksKnown(t, held[p] \union {l})
  <2>1. Senders(t) = {u}
    BY <1>4, <1>8, SingleSets
  <2>2. UsageLocked(t) /\ ~UsageLocked(tx[p]) /\ LockedAccounts(t) = {} /\ LockedAccounts(tx[p]) = {}
    BY <1>1, <1>2, <1>3, <1>8 DEF UsageLocked, LockedAccounts, Commits, HasApplied, HasRead, Approving
  <2>3. OwnLocks(t, held[p] \union {l})
    BY <1>2, <1>3, <1>8, OwnLocksStay DEF LocksKnown
  <2>4. \A x \in Users : /\ UsageLocked(t) /\ x \in Senders(t) <=> (UsageLocked(tx[p]) /\ x \in Senders(tx[p])) \/ l = UsageLock(x)
                         /\ x \in LockedAccounts(t) <=> x \in LockedAccounts(tx[p]) \/ l = AccountLock(x)
    BY <2>1, <2>2, LockKinds
  <2> HIDE DEF l
  <2> QED BY <1>2, <1>3, <2>3, <2>4, LocksGrow
<1>12. UsageKnown(t)
  BY <1>2, <1>3, <1>4, <1>8 DEF UsageKnown, use
<1>13. Known(t, held[p] \union {l})
  BY <1>2, <1>8, <1>9, <1>10, <1>11, <1>12, NothingDue DEF Known, Approving
<1> QED BY <1>5, <1>6, <1>8, <1>13, LockStepKeeps DEF Unlocked

LEMMA UnblockFundsKeeps ==
  ASSUME ConstantsAssumption, IInv, NEW p \in Procs, UnblockFunds(p)
  PROVE  IInv'
<1> DEFINE r == Id(p)
           u == This(p).from
           n == This(p).amount
           approves == tx[p].call = "approve"
           pc == IF approves THEN "receive" ELSE "commit"
           row == IF approves THEN Apply(Unblock(account[u], n), -n) ELSE Unblock(account[u], n)
           rows == [tx[p].rows EXCEPT ![u] = row]
           l == AccountLock(u)
           t == [tx[p] EXCEPT !.pc = pc, !.rows[u] = row]
<1>1. tx[p].pc = "unblock" /\ Decides(tx[p])
  BY DEF UnblockFunds, At, Decides, Deciding
<1>2. /\ tx[p].call \in Decisions /\ tx[p].call \notin {"group", "create"} /\ tx[p].pc \notin Unlocked
      /\ tx[p].pc \notin {"idle", "enqueue", "insert"} /\ hold[r] = "RESERVED"
  BY <1>1, DecidingKnown
<1>3. /\ IsCall(tx[p]) /\ CallKnown(tx[p]) /\ RowKnown(tx[p])
      /\ LocksKnown(tx[p], held[p]) /\ UsageKnown(tx[p]) /\ account \in [Users -> Account]
  BY <1>1, <1>2, RunningKnown DEF CallKnown
<1>4. /\ r \in Remits /\ DOMAIN tx[p].new = {r} /\ This(p) = tx[p].new[r] /\ u \in Users /\ n \in Int /\ -n \in Int /\ n \in Nat
  BY <1>2, SingleRow
<1>5. row \in Account
  BY <1>3, <1>4, LedgerTypes, PaidFacts
<1>6. rows \in [Users -> Account] /\ rows[u] = row /\ l \in Locks
  <2> HIDE DEF row
  <2> QED BY <1>3, <1>4, <1>5, LockTypes, CallFields
<1>7. End(p) \/ (CanUnblock(account[u], n) /\ LockStep(p, l, t))
  BY <1>2 DEF UnblockFunds
<1>8. t = Changed(tx[p], pc, rows, tx[p].use, tx[p].new)
  <2> HIDE DEF row, pc
  <2> QED BY <1>3, CallFields DEF CallOn, Changed
<1>9. /\ pc \in {"receive", "commit"} /\ (pc = "receive" <=> tx[p].call = "approve")
      /\ row = IF tx[p].call = "approve" THEN Apply(Unblock(account[u], n), -n) ELSE Unblock(account[u], n)
  OBVIOUS
<1> HIDE DEF t, rows, row, pc
<1>10. /\ IsCall(t) /\ t.pc = pc /\ t.rows = rows /\ t.use = tx[p].use /\ t.new = tx[p].new /\ t.call = tx[p].call /\ t.by = tx[p].by
       /\ t.toLock = tx[p].toLock /\ t.after = tx[p].after /\ t.adds = tx[p].adds
       /\ Inserts(t) => Inserts(tx[p])
       /\ ~HasRead(t) /\ ~HasApplied(t) /\ AddsKnown(t) /\ GroupKnown(t)
  <2>1. /\ pc \in Pcs /\ pc \notin {"enqueue", "insert"} /\ pc \notin Grouping
        /\ tx[p].use \in Usage /\ tx[p].new \in [DOMAIN tx[p].new -> Row]
    BY <1>3, <1>9, CallFields DEF Pcs, InTransaction, Grouping
  <2> QED BY <1>2, <1>6, <1>8, <2>1, SingleStep
<1>11. t.pc \notin Unlocked /\ (t.pc \in Approving <=> t.call = "approve") /\ (t.pc = "commit" <=> t.call # "approve")
       /\ t.pc # "consumeLimit"
  BY <1>2, <1>9, <1>10 DEF Unlocked, Approving
<1>12. CallKnown(t)
  BY <1>2, <1>3, <1>9, <1>10 DEF CallKnown, Creating, Deciding, Approving, Grouping, Commits
<1>13. RowKnown(t)
  BY <1>1, <1>2, <1>3, <1>9, <1>10 DEF RowKnown, Inserts
<1>14. (UsageLocked(t) <=> UsageLocked(tx[p])) /\ UsageKnown(t)
  <2>1. UsageLocked(t) <=> UsageLocked(tx[p])
    BY <1>1, <1>2, <1>9, <1>10 DEF UsageLocked, Commits, Decisions
  <2> QED BY <1>3, <1>10, <2>1 DEF UsageKnown
<1>15. LocksKnown(t, held[p] \union {l})
  <2>1. Senders(t) = {u} /\ Senders(tx[p]) = {u}
    BY <1>4, <1>10, SingleSets
  <2>2. LockedAccounts(t) = {u} /\ LockedAccounts(tx[p]) = {}
    BY <1>1, <1>2, <1>10, <1>11, <2>1 DEF LockedAccounts, Commits, HasApplied, HasRead, Approving, Decisions
  <2>3. OwnLocks(t, held[p] \union {l})
    BY <1>2, <1>3, <1>10, OwnLocksStay DEF LocksKnown
  <2>4. \A x \in Users : /\ UsageLocked(t) /\ x \in Senders(t) <=> (UsageLocked(tx[p]) /\ x \in Senders(tx[p])) \/ l = UsageLock(x)
                         /\ x \in LockedAccounts(t) <=> x \in LockedAccounts(tx[p]) \/ l = AccountLock(x)
    BY <1>14, <2>1, <2>2, LockKinds
  <2> HIDE DEF l
  <2> QED BY <1>2, <1>3, <2>3, <2>4, LocksGrow
<1>16. CanUnblock(account[u], n) => FundsKnown(t)
  BY <1>2, <1>4, <1>6, <1>9, <1>10, <1>11 DEF FundsKnown, Commits
<1>17. CanUnblock(account[u], n) => Known(t, held[p] \union {l})
  BY <1>2, <1>10, <1>12, <1>13, <1>14, <1>15, <1>16, NothingDue DEF Known
<1> QED BY <1>6, <1>7, <1>10, <1>11, <1>17, EndKeeps, LockStepKeeps

LEMMA ReceiveKeeps ==
  ASSUME ConstantsAssumption, IInv, NEW p \in Procs, Receive(p)
  PROVE  IInv'
<1> DEFINE r == Id(p)
           v == This(p).to
           n == This(p).amount
           rows == [tx[p].rows EXCEPT ![v] = Apply(account[v], n)]
           l == AccountLock(v)
           t == [tx[p] EXCEPT !.pc = "consumeLimit", !.rows[v] = Apply(account[v], n)]
<1>1. tx[p].pc = "receive" /\ Decides(tx[p])
  BY DEF Receive, At, Decides, Deciding, Approving
<1>2. /\ tx[p].call = "approve" /\ tx[p].pc \notin Unlocked /\ tx[p].pc \notin {"idle", "enqueue", "insert"}
      /\ IsCall(tx[p]) /\ CallKnown(tx[p]) /\ RowKnown(tx[p]) /\ FundsKnown(tx[p])
      /\ LocksKnown(tx[p], held[p]) /\ account \in [Users -> Account]
  BY <1>1, RunningKnown, DecidingKnown DEF CallKnown, Approving
<1>3. /\ r \in Remits /\ DOMAIN tx[p].new = {r} /\ This(p) = tx[p].new[r] /\ v \in Users /\ n \in Int /\ This(p).from # v
  BY <1>1, <1>2, SingleRow
<1>4. /\ rows \in [Users -> Account] /\ rows[v] = Apply(account[v], n) /\ l \in Locks
      /\ rows[This(p).from] = tx[p].rows[This(p).from]
  BY <1>2, <1>3, LedgerTypes, LockTypes, CallFields
<1>5. End(p) \/ LockStep(p, l, t)
  BY DEF Receive
<1>6. t = Changed(tx[p], "consumeLimit", rows, tx[p].use, tx[p].new)
  BY <1>2, CallFields DEF CallOn, Changed
<1> HIDE DEF t, rows
<1>7. /\ IsCall(t) /\ t.pc = "consumeLimit" /\ t.rows = rows /\ t.use = tx[p].use /\ t.new = tx[p].new /\ t.call = "approve"
      /\ t.by = tx[p].by /\ t.toLock = tx[p].toLock /\ t.after = tx[p].after /\ t.adds = tx[p].adds
      /\ Inserts(t) => Inserts(tx[p])
      /\ ~HasRead(t) /\ AddsKnown(t) /\ GroupKnown(t)
  <2>1. /\ "consumeLimit" \in Pcs /\ "consumeLimit" \notin {"enqueue", "insert"} /\ "consumeLimit" \notin Grouping
        /\ tx[p].use \in Usage /\ tx[p].new \in [DOMAIN tx[p].new -> Row] /\ tx[p].call # "group"
    BY <1>2, CallFields DEF Pcs, InTransaction, Grouping
  <2> QED BY <1>2, <1>4, <1>6, <2>1, SingleStep
<1>8. CallKnown(t)
  BY <1>2, <1>7 DEF CallKnown, Creating, Deciding, Approving, Grouping, Commits, Decisions
<1>9. RowKnown(t)
  BY <1>1, <1>2, <1>7 DEF RowKnown, Inserts
<1>10. LocksKnown(t, held[p] \union {l})
  <2>1. Senders(t) = Senders(tx[p]) /\ Receivers(t) = {v}
    BY <1>3, <1>7 DEF Senders, Receivers
  <2>2. /\ ~UsageLocked(t) /\ ~UsageLocked(tx[p])
        /\ LockedAccounts(tx[p]) = Senders(tx[p]) /\ LockedAccounts(t) = Senders(tx[p]) \union {v}
    BY <1>1, <1>2, <1>7, <2>1 DEF UsageLocked, LockedAccounts, Commits, HasApplied, HasRead, Approving
  <2>3. OwnLocks(t, held[p] \union {l})
    BY <1>2, <1>7, OwnLocksStay DEF LocksKnown
  <2>4. \A x \in Users : /\ UsageLocked(t) /\ x \in Senders(t) <=> (UsageLocked(tx[p]) /\ x \in Senders(tx[p])) \/ l = UsageLock(x)
                         /\ x \in LockedAccounts(t) <=> x \in LockedAccounts(tx[p]) \/ l = AccountLock(x)
    BY <2>2, LockKinds
  <2> HIDE DEF l
  <2> QED BY <1>2, <2>3, <2>4, LocksGrow
<1>11. FundsKnown(t)
  <2>1. /\ CanUnblock(account[This(p).from], n)
        /\ tx[p].rows[This(p).from] = Apply(Unblock(account[This(p).from], n), -n)
    BY <1>1, <1>2, <1>3 DEF FundsKnown, Approving
  <2>2. /\ t.pc = "consumeLimit" /\ t.call = "approve" /\ DOMAIN t.new = {r} /\ t.new[r] = This(p)
        /\ t.rows[v] = Apply(account[v], n) /\ t.rows[This(p).from] = Apply(Unblock(account[This(p).from], n), -n)
    BY <1>3, <1>4, <1>7, <2>1
  <2> HIDE DEF r
  <2> QED BY <2>1, <2>2 DEF FundsKnown, Commits
<1>12. UsageKnown(t) /\ KeyKnown(t)
  BY <1>7, NothingDue DEF UsageLocked, Commits
<1>13. Known(t, held[p] \union {l})
  BY <1>7, <1>8, <1>9, <1>10, <1>11, <1>12 DEF Known
<1> QED BY <1>4, <1>5, <1>7, <1>13, EndKeeps, LockStepKeeps DEF Unlocked

LEMMA ConsumeLimitKeeps ==
  ASSUME ConstantsAssumption, IInv, NEW p \in Procs, ConsumeLimit(p)
  PROVE  IInv'
<1> DEFINE r == Id(p)
           u == This(p).from
           n == This(p).amount
           use == ConsumeUsage(usage[u], n)
           l == UsageLock(u)
           t == [tx[p] EXCEPT !.pc = "commit", !.use = use]
<1>1. tx[p].pc = "consumeLimit" /\ Decides(tx[p])
  BY DEF ConsumeLimit, At, Decides, Deciding, Approving
<1>2. /\ tx[p].call = "approve" /\ tx[p].pc \notin Unlocked /\ tx[p].pc \notin {"idle", "enqueue", "insert"}
      /\ IsCall(tx[p]) /\ CallKnown(tx[p]) /\ RowKnown(tx[p]) /\ FundsKnown(tx[p])
      /\ LocksKnown(tx[p], held[p]) /\ usage \in [Users -> Usage] /\ limitHold[r] = "RESERVED"
  BY <1>1, RunningKnown, DecidingKnown DEF CallKnown, Approving
<1>3. /\ r \in Remits /\ DOMAIN tx[p].new = {r} /\ This(p) = tx[p].new[r] /\ u \in Users /\ n \in Int
  BY <1>1, <1>2, SingleRow
<1>4. use \in Usage /\ l \in Locks
  BY <1>2, <1>3, UsageTypes, LockTypes
<1>5. LockStep(p, l, t)
  BY <1>2 DEF ConsumeLimit, LimitConsumable
<1>6. t = Changed(tx[p], "commit", tx[p].rows, use, tx[p].new)
  BY <1>2, CallFields DEF CallOn, Changed
<1> HIDE DEF t, use
<1>7. /\ IsCall(t) /\ t.pc = "commit" /\ t.use = use /\ t.rows = tx[p].rows /\ t.new = tx[p].new /\ t.call = "approve"
      /\ t.by = tx[p].by /\ t.toLock = tx[p].toLock /\ t.after = tx[p].after /\ t.adds = tx[p].adds
      /\ Inserts(t) => Inserts(tx[p])
      /\ ~HasRead(t) /\ AddsKnown(t) /\ GroupKnown(t)
  <2>1. /\ "commit" \in Pcs /\ "commit" \notin {"enqueue", "insert"} /\ "commit" \notin Grouping
        /\ tx[p].rows \in [Users -> Account] /\ tx[p].new \in [DOMAIN tx[p].new -> Row] /\ tx[p].call # "group"
    BY <1>2, CallFields DEF Pcs, InTransaction, Grouping
  <2> QED BY <1>2, <1>4, <1>6, <2>1, SingleStep
<1>8. CallKnown(t)
  BY <1>2, <1>7 DEF CallKnown, Creating, Deciding, Approving, Grouping, Commits, Decisions
<1>9. RowKnown(t)
  BY <1>1, <1>2, <1>7 DEF RowKnown, Inserts
<1>10. LocksKnown(t, held[p] \union {l})
  <2>1. Senders(t) = {u} /\ Senders(tx[p]) = {u} /\ Receivers(t) = Receivers(tx[p])
    BY <1>3, <1>7 DEF Senders, Receivers
  <2>2. /\ UsageLocked(t) /\ ~UsageLocked(tx[p]) /\ LockedAccounts(tx[p]) = LockedAccounts(t)
    BY <1>1, <1>2, <1>7, <2>1 DEF UsageLocked, LockedAccounts, Commits, HasApplied, HasRead, Approving, Decisions
  <2>3. OwnLocks(t, held[p] \union {l})
    BY <1>2, <1>7, OwnLocksStay DEF LocksKnown
  <2>4. \A x \in Users : /\ UsageLocked(t) /\ x \in Senders(t) <=> (UsageLocked(tx[p]) /\ x \in Senders(tx[p])) \/ l = UsageLock(x)
                         /\ x \in LockedAccounts(t) <=> x \in LockedAccounts(tx[p]) \/ l = AccountLock(x)
    BY <2>1, <2>2, LockKinds
  <2> HIDE DEF l
  <2> QED BY <1>2, <2>3, <2>4, LocksGrow
<1>11. FundsKnown(t)
  BY <1>1, <1>2, <1>7 DEF FundsKnown, Approving, Commits
<1>12. UsageKnown(t) /\ KeyKnown(t)
  BY <1>3, <1>7 DEF UsageKnown, KeyKnown, use
<1>13. Known(t, held[p] \union {l})
  BY <1>7, <1>8, <1>9, <1>10, <1>11, <1>12 DEF Known
<1> QED BY <1>4, <1>5, <1>7, <1>13, LockStepKeeps DEF Unlocked

----------------------------------------------------------------------------
(* createGroupInternal *)

LEMMA BeginGroupKeeps ==
  ASSUME ConstantsAssumption, IInv, NEW p \in Procs, NEW S \in SUBSET Fresh, S # {}, NEW u \in Users,
         NEW legs \in LegChoices(S, u), NEW adds \in SUBSET LinksOf(legs), BeginGroup(p, u, legs, adds)
  PROVE  IInv'
<1> DEFINE t == Begun("checkFunds", "group", u, legs, adds)
<1>1. /\ At(p, "idle") /\ Step(p, t) /\ DOMAIN legs = S /\ S \subseteq Fresh /\ S \in SUBSET Remits
      /\ \A r \in S : legs[r].to # u
  BY DEF BeginGroup, LegChoices, Fresh
<1>2. ASSUME NEW r \in S
      PROVE  /\ legs[r] \in Row /\ legs[r].from = u /\ legs[r].amount \in Amounts /\ legs[r].status = "COMPLETED"
             /\ legs[r].key = NoKey
  <2> DEFINE V == {w \in Users : <<u, w>> \in Routes}
  <2>1. legs[r] \in {LegOf(u, v, n) : v \in V, n \in Amounts} /\ \A v \in V : v \in Users
    BY DEF LegChoices
  <2> HIDE DEF V
  <2>2. PICK v \in Users, n \in Amounts : legs[r] = LegOf(u, v, n)
    BY <2>1
  <2> QED BY <2>2 DEF LegOf, Row, RemittanceStatus
<1>3. legs \in [S -> Row] /\ adds \in SUBSET Link
  <2>1. legs = [r \in S |-> legs[r]]
    BY DEF LegChoices
  <2>2. legs \in [S -> Row]
    <3>1. \A r \in S : legs[r] \in Row
      BY <1>2
    <3> QED BY <2>1, <3>1
  <2>3. adds \in SUBSET Link
    BY <1>1 DEF LinksOf, Link
  <2> QED BY <2>2, <2>3
<1>4. /\ t \in CallOn(S, {}) /\ t.pc = "checkFunds" /\ t.call = "group" /\ t.by = u /\ t.new = legs /\ t.adds = adds
      /\ t.toLock = {} /\ DOMAIN t.after = {}
  <2>1. "checkFunds" \in Pcs /\ "group" \in Calls
    BY DEF Pcs, InTransaction, Calls
  <2> QED BY <1>1, <1>3, <2>1, BegunType
<1> HIDE DEF t
<1>5. IsCall(t)
  BY <1>1, <1>4, CallOnIsCall
<1>6. /\ t.pc \in Unlocked /\ DOMAIN t.new = S /\ t.pc \notin Approving
      /\ ~HasRead(t) /\ ~Decides(t)
  BY <1>1, <1>4 DEF Unlocked, Approving, HasRead, Commits, Decides, Deciding
<1>7. CallKnown(t)
  BY <1>4, <1>6 DEF CallKnown, Creating, Deciding, Approving, Grouping, Commits
<1>8. AddsKnown(t)
  <2>1. \A l \in adds : l.leg \in S /\ remit[l.source].status # "none"
    BY <1>1 DEF LinksOf
  <2> QED BY <1>4, <1>6, <2>1 DEF AddsKnown
<1>9. RowKnown(t)
  <2>1. \A r \in S : remit[r].status = "none"
    BY <1>1 DEF Fresh
  <2> QED BY <1>1, <1>2, <1>4, <1>6, <2>1 DEF RowKnown
<1>10. Known(t, {})
  BY <1>4, <1>6, <1>7, <1>8, <1>9, NothingDue DEF Known
<1> QED BY <1>1, <1>4, <1>5, <1>6, <1>10, BeginStep

Moved(t, pc, rows, toLock, after) == [t EXCEPT !.pc = pc, !.rows = rows, !.toLock = toLock, !.after = after]

LEMMA MovedFields ==
  ASSUME NEW D, NEW E, NEW o \in CallOn(D, E), NEW pc \in Pcs, NEW rows \in [Users -> Account],
         NEW toLock \in SUBSET (Users \union Remits), NEW F, NEW after \in [F -> {"PARTIAL", "COMPLETED"}]
  PROVE  LET t == Moved(o, pc, rows, toLock, after) IN
         /\ t \in CallOn(D, F) /\ t.pc = pc /\ t.rows = rows /\ t.toLock = toLock /\ t.after = after
         /\ t.call = o.call /\ t.by = o.by /\ t.adds = o.adds /\ t.new = o.new /\ t.use = o.use
BY DEF CallOn, Moved

\* A step of a group.
CanMove(o, pc, rows, toLock, after) ==
  /\ o.pc \in Grouping /\ pc \in (Grouping \ {"checkFunds"}) \union {"commit"}
  /\ rows \in [Users -> Account] /\ toLock \in SUBSET (Users \union Remits)
  /\ DOMAIN after \in SUBSET Remits /\ after \in [DOMAIN after -> {"PARTIAL", "COMPLETED"}]
  /\ pc = "lockAccounts" => toLock \subseteq Senders(o) \union Receivers(o)
  /\ pc \in {"apply", "commit"} => toLock = {}
  /\ pc = "lockSources" => toLock \subseteq DOMAIN after

LEMMA GroupStep ==
  ASSUME ConstantsAssumption, IInv, NEW p \in Procs, NEW pc, NEW rows, NEW toLock, NEW after,
         CanMove(tx[p], pc, rows, toLock, after), NEW t, t = Moved(tx[p], pc, rows, toLock, after)
  PROVE  /\ IsCall(t) /\ t.pc = pc /\ t.rows = rows /\ t.toLock = toLock /\ t.after = after
         /\ t.call = "group" /\ t.by = tx[p].by /\ t.adds = tx[p].adds /\ t.new = tx[p].new
         /\ Inserts(t) /\ Inserts(tx[p]) /\ t.pc \notin Unlocked
         /\ ~UsageLocked(t) /\ ~UsageLocked(tx[p])
         /\ Senders(t) = Senders(tx[p]) /\ Receivers(t) = Receivers(tx[p])
         /\ CallKnown(t) /\ RowKnown(t) /\ FundsKnown(t) /\ UsageKnown(t) /\ KeyKnown(t)
<1>1. /\ tx[p].pc \in Grouping /\ pc \in (Grouping \ {"checkFunds"}) \union {"commit"}
      /\ rows \in [Users -> Account] /\ toLock \in SUBSET (Users \union Remits)
      /\ DOMAIN after \in SUBSET Remits /\ after \in [DOMAIN after -> {"PARTIAL", "COMPLETED"}]
      /\ pc = "lockAccounts" => toLock \subseteq Senders(tx[p]) \union Receivers(tx[p])
      /\ pc \in {"apply", "commit"} => toLock = {}
      /\ pc = "lockSources" => toLock \subseteq DOMAIN after
  BY DEF CanMove
<1>2. tx[p].pc # "idle" /\ tx[p].pc # "enqueue" /\ pc \in Pcs
  BY <1>1 DEF Grouping, Pcs, InTransaction
<1>3. IsCall(tx[p]) /\ CallKnown(tx[p]) /\ RowKnown(tx[p]) /\ tx[p].call = "group"
  BY <1>1, <1>2, RunningKnown DEF CallKnown
<1>4. /\ t \in CallOn(DOMAIN tx[p].new, DOMAIN after) /\ t.pc = pc /\ t.rows = rows /\ t.toLock = toLock /\ t.after = after
      /\ t.call = "group" /\ t.by = tx[p].by /\ t.adds = tx[p].adds /\ t.new = tx[p].new
  <2>1. tx[p] \in CallOn(DOMAIN tx[p].new, DOMAIN tx[p].after)
    BY <1>3, CallFields
  <2> QED BY <1>1, <1>2, <1>3, <2>1, MovedFields
<1>5. IsCall(t)
  BY <1>1, <1>3, <1>4, CallOnIsCall, CallFields
<1>6. Senders(t) = Senders(tx[p]) /\ Receivers(t) = Receivers(tx[p])
  BY <1>4 DEF Senders, Receivers
<1>7. /\ Inserts(t) /\ Inserts(tx[p]) /\ t.pc \notin Unlocked /\ t.pc \notin Approving /\ ~Decides(t)
      /\ t.pc # "lockRemit"
  BY <1>1, <1>2, <1>3, <1>4 DEF Inserts, Unlocked, Approving, Decides, Deciding, Commits, Grouping, Decisions
<1>8. ~UsageLocked(t) /\ ~UsageLocked(tx[p])
  BY <1>1, <1>2, <1>3, <1>4 DEF UsageLocked, Commits, Grouping, Decisions
<1>9. CallKnown(t)
  BY <1>1, <1>2, <1>3, <1>4, <1>5, <1>6 DEF CallKnown, Creating, Deciding, Approving, Grouping, Commits
<1>10. RowKnown(t)
  BY <1>3, <1>4, <1>7 DEF RowKnown
<1>11. FundsKnown(t) /\ UsageKnown(t) /\ KeyKnown(t)
  BY <1>4, <1>7, <1>8, NothingDue
<1> QED BY <1>4, <1>5, <1>6, <1>7, <1>8, <1>9, <1>10, <1>11

\* The parties of a group are the sender and the receivers of its legs.
LEMMA PartiesKnown ==
  ASSUME IInv, NEW p \in Procs, tx[p].pc \in Grouping
  PROVE  /\ Parties(p) = Senders(tx[p]) \union Receivers(tx[p]) /\ Parties(p) \in SUBSET Users
         /\ Senders(tx[p]) = {tx[p].by}
<1>1. tx[p].pc # "idle" /\ tx[p].pc # "enqueue"
  BY DEF Grouping
<1>2. IsCall(tx[p]) /\ CallKnown(tx[p]) /\ RowKnown(tx[p]) /\ tx[p].call = "group" /\ DOMAIN tx[p].new # {}
  BY <1>1, RunningKnown DEF CallKnown
<1>3. Senders(tx[p]) = {tx[p].by}
  <2>1. \A r \in DOMAIN tx[p].new : tx[p].new[r].from = tx[p].by
    BY <1>1, <1>2 DEF RowKnown, Inserts
  <2> QED BY <1>2, <2>1 DEF Senders
<1>4. tx[p].by \in Users /\ \A r \in DOMAIN tx[p].new : tx[p].new[r].to \in Users
  BY <1>2, CallFields DEF Row
<1> QED BY <1>3, <1>4 DEF Parties, Receivers

LEMMA CheckFundsKeeps ==
  ASSUME ConstantsAssumption, IInv, NEW p \in Procs, CheckFunds(p)
  PROVE  IInv'
<1> DEFINE t == [tx[p] EXCEPT !.pc = "lockAccounts", !.toLock = Parties(p)]
<1>1. tx[p].pc = "checkFunds" /\ tx[p].pc \in Grouping /\ held[p] = {} /\ tx[p].pc # "idle"
  BY DEF CheckFunds, At, Grouping, IInv, LocksExclusive, Unlocked
<1>2. IsCall(tx[p]) /\ AddsKnown(tx[p]) /\ tx[p].call = "group"
  BY <1>1, RunningKnown DEF CallKnown
<1>3. End(p) \/ Step(p, t)
  BY DEF CheckFunds
<1>4. /\ Parties(p) = Senders(tx[p]) \union Receivers(tx[p]) /\ Parties(p) \in SUBSET (Users \union Remits)
  BY <1>1, PartiesKnown
<1>5. t = Moved(tx[p], "lockAccounts", tx[p].rows, Parties(p), tx[p].after)
  BY <1>2, CallFields DEF CallOn, Moved
<1> HIDE DEF t
<1>6. /\ IsCall(t) /\ t.pc = "lockAccounts" /\ t.toLock = Parties(p) /\ t.after = tx[p].after
      /\ t.call = "group" /\ t.adds = tx[p].adds /\ t.new = tx[p].new
      /\ Inserts(t) /\ Inserts(tx[p]) /\ t.pc \notin Unlocked /\ ~UsageLocked(t)
      /\ Senders(t) = Senders(tx[p]) /\ Receivers(t) = Receivers(tx[p])
      /\ CallKnown(t) /\ RowKnown(t) /\ FundsKnown(t) /\ UsageKnown(t) /\ KeyKnown(t)
  <2>1. /\ "lockAccounts" \in (Grouping \ {"checkFunds"}) \union {"commit"}
        /\ tx[p].rows \in [Users -> Account] /\ DOMAIN tx[p].after \in SUBSET Remits
        /\ tx[p].after \in [DOMAIN tx[p].after -> {"PARTIAL", "COMPLETED"}]
    BY <1>2, CallFields DEF Grouping
  <2>2. CanMove(tx[p], "lockAccounts", tx[p].rows, Parties(p), tx[p].after)
    BY <1>1, <1>4, <2>1 DEF CanMove
  <2> QED BY <1>5, <2>2, GroupStep
<1>7. ~HasRead(t) /\ ~HasRead(tx[p]) /\ ~HasApplied(t) /\ LockedAccounts(t) = {}
  BY <1>1, <1>4, <1>6 DEF HasRead, HasApplied, Commits, LockedAccounts, Approving
<1>8. AddsKnown(t)
  BY <1>2, <1>6, <1>7 DEF AddsKnown
<1>9. LocksKnown(t, held[p])
  BY <1>1, <1>6, <1>7 DEF LocksKnown, OwnLocks, Decisions
<1>10. GroupKnown(t)
  BY <1>7 DEF GroupKnown
<1>11. Known(t, held[p])
  BY <1>6, <1>8, <1>9, <1>10 DEF Known
<1> QED BY <1>3, <1>6, <1>11, EndKeeps, StepKeeps

LEMMA LockAccountsKeeps ==
  ASSUME ConstantsAssumption, IInv, NEW p \in Procs, LockAccounts(p)
  PROVE  IInv'
<1>1. tx[p].pc = "lockAccounts" /\ tx[p].pc \in Grouping /\ tx[p].pc # "idle" /\ tx[p].pc \notin Unlocked
  BY DEF LockAccounts, At, Grouping, Unlocked
<1>2. /\ IsCall(tx[p]) /\ CallKnown(tx[p]) /\ AddsKnown(tx[p]) /\ tx[p].call = "group" /\ LocksKnown(tx[p], held[p])
      /\ GroupKnown(tx[p]) /\ account \in [Users -> Account]
  BY <1>1, RunningKnown DEF CallKnown
<1>3. /\ tx[p].toLock \subseteq Senders(tx[p]) \union Receivers(tx[p])
      /\ Senders(tx[p]) \union Receivers(tx[p]) \subseteq Users
  BY <1>1, <1>2, PartiesKnown DEF CallKnown
<1>4. PICK u \in tx[p].toLock : LockStep(p, AccountLock(u), [tx[p] EXCEPT !.rows[u] = account[u], !.toLock = @ \ {u},
                                         !.pc = IF tx[p].toLock = {u} THEN "apply" ELSE "lockAccounts"])
  BY DEF LockAccounts, NextAccounts
<1> DEFINE pc == IF tx[p].toLock = {u} THEN "apply" ELSE "lockAccounts"
           rows == [tx[p].rows EXCEPT ![u] = account[u]]
           toLock == tx[p].toLock \ {u}
           l == AccountLock(u)
           t == [tx[p] EXCEPT !.rows[u] = account[u], !.toLock = @ \ {u},
                              !.pc = IF tx[p].toLock = {u} THEN "apply" ELSE "lockAccounts"]
<1>5. LockStep(p, l, t) /\ u \in Users
  BY <1>3, <1>4
<1>6. t = Moved(tx[p], pc, rows, toLock, tx[p].after)
  BY <1>2, CallFields DEF CallOn, Moved
<1>7. /\ pc \in {"apply", "lockAccounts"} /\ (pc = "apply" <=> tx[p].toLock = {u})
      /\ rows \in [Users -> Account] /\ rows[u] = account[u] /\ \A v \in Users \ {u} : rows[v] = tx[p].rows[v]
      /\ toLock = tx[p].toLock \ {u} /\ toLock \in SUBSET (Users \union Remits) /\ (pc = "apply" => toLock = {})
  BY <1>2, <1>3, <1>5, CallFields
<1> HIDE DEF t, pc, rows, toLock
<1>8. /\ IsCall(t) /\ t.pc = pc /\ t.rows = rows /\ t.toLock = toLock /\ t.after = tx[p].after
      /\ t.call = "group" /\ t.adds = tx[p].adds /\ t.new = tx[p].new
      /\ Inserts(t) /\ Inserts(tx[p]) /\ t.pc \notin Unlocked /\ ~UsageLocked(t) /\ ~UsageLocked(tx[p])
      /\ Senders(t) = Senders(tx[p]) /\ Receivers(t) = Receivers(tx[p])
      /\ CallKnown(t) /\ RowKnown(t) /\ FundsKnown(t) /\ UsageKnown(t) /\ KeyKnown(t)
  <2>1. /\ pc \in (Grouping \ {"checkFunds"}) \union {"commit"}
        /\ DOMAIN tx[p].after \in SUBSET Remits
        /\ tx[p].after \in [DOMAIN tx[p].after -> {"PARTIAL", "COMPLETED"}]
    BY <1>2, <1>7, CallFields DEF Grouping
  <2>2. /\ pc = "lockAccounts" => toLock \subseteq Senders(tx[p]) \union Receivers(tx[p])
        /\ pc \in {"apply", "commit"} => toLock = {}
        /\ pc # "lockSources"
    BY <1>3, <1>7
  <2>3. CanMove(tx[p], pc, rows, toLock, tx[p].after)
    BY <1>1, <1>7, <2>1, <2>2 DEF CanMove
  <2> QED BY <1>6, <2>3, GroupStep
<1>9. ~HasRead(t) /\ ~HasRead(tx[p]) /\ ~HasApplied(t)
  BY <1>1, <1>7, <1>8 DEF HasRead, HasApplied, Commits
<1>10. /\ LockedAccounts(tx[p]) = (Senders(tx[p]) \union Receivers(tx[p])) \ tx[p].toLock
       /\ LockedAccounts(t) = LockedAccounts(tx[p]) \union {u}
  <2>1. LockedAccounts(tx[p]) = (Senders(tx[p]) \union Receivers(tx[p])) \ tx[p].toLock
    BY <1>1 DEF LockedAccounts, Approving, Commits, HasApplied, HasRead
  <2>2. CASE pc = "apply"
    <3>1. LockedAccounts(t) = Senders(tx[p]) \union Receivers(tx[p])
      BY <1>8, <2>2 DEF LockedAccounts, Approving, Commits, HasApplied, HasRead
    <3> QED BY <1>3, <1>7, <2>1, <2>2, <3>1
  <2>3. CASE pc = "lockAccounts"
    <3>1. LockedAccounts(t) = (Senders(tx[p]) \union Receivers(tx[p])) \ toLock
      BY <1>8, <2>3 DEF LockedAccounts, Approving, Commits, HasApplied, HasRead
    <3> QED BY <1>3, <1>7, <2>1, <2>3, <3>1
  <2> QED BY <1>7, <2>1, <2>2, <2>3
<1>11. AddsKnown(t)
  <2>1. t.pc # "enqueue" /\ tx[p].pc # "enqueue"
    BY <1>1, <1>7, <1>8
  <2> QED BY <1>2, <1>8, <1>9, <2>1 DEF AddsKnown
<1>12. LocksKnown(t, held[p] \union {l})
  <2>1. OwnLocks(t, held[p] \union {l})
    BY <1>8, <1>9 DEF OwnLocks, Decisions
  <2>2. \A x \in Users : /\ UsageLocked(t) /\ x \in Senders(t) <=> (UsageLocked(tx[p]) /\ x \in Senders(tx[p])) \/ l = UsageLock(x)
                         /\ x \in LockedAccounts(t) <=> x \in LockedAccounts(tx[p]) \/ l = AccountLock(x)
    BY <1>8, <1>10, LockKinds
  <2> HIDE DEF l
  <2> QED BY <1>1, <1>2, <2>1, <2>2, LocksGrow
<1>13. GroupKnown(t)
  <2>1. \A x \in LockedAccounts(tx[p]) : tx[p].rows[x] = account[x]
    BY <1>1, <1>2 DEF GroupKnown
  <2>2. \A x \in LockedAccounts(t) : t.rows[x] = account[x]
    BY <1>3, <1>7, <1>8, <1>10, <2>1
  <2> QED BY <1>9, <2>2 DEF GroupKnown
<1>14. Known(t, held[p] \union {l})
  BY <1>8, <1>11, <1>12, <1>13 DEF Known
<1>15. l \in Locks
  BY <1>5, LockTypes
<1> QED BY <1>5, <1>8, <1>14, <1>15, LockStepKeeps

\* What the legs bring: their total to lose for the sender, and nothing to
\* lose for a receiver.
LEMMA LegsSum ==
  ASSUME ConstantsAssumption, IInv, NEW p \in Procs, tx[p].pc \in Grouping, NEW u \in Users
  PROVE  /\ LegsGain(tx[p].new, u) \in Int
         /\ u = tx[p].by => LegsGain(tx[p].new, u) = -LegTotal(p)
         /\ u # tx[p].by =>
              /\ LegsGain(tx[p].new, u)
                   = SumFunction([r \in DOMAIN tx[p].new |-> IF tx[p].new[r].to = u THEN tx[p].new[r].amount ELSE 0])
              /\ LegsGain(tx[p].new, u) >= 0
<1> DEFINE S == DOMAIN tx[p].new
           row(r) == tx[p].new[r]
           g == [r \in S |-> Gain(row(r), u)]
           a == [r \in S |-> row(r).amount]
           b == [r \in S |-> IF row(r).to = u THEN row(r).amount ELSE 0]
<1>1. tx[p].pc # "idle" /\ tx[p].pc # "enqueue"
  BY DEF Grouping
<1>2. IsCall(tx[p]) /\ CallKnown(tx[p]) /\ RowKnown(tx[p]) /\ tx[p].call = "group" /\ S # {} /\ S \subseteq Remits
  BY <1>1, RunningKnown, CallFields DEF CallKnown
<1>3. IsFiniteSet(S)
  BY <1>2, FS_Subset DEF ConstantsAssumption, RemitsAssumption
<1>4. \A r \in S : row(r).amount \in Nat /\ row(r).from = tx[p].by /\ row(r).to # tx[p].by
  <2>1. \A r \in S : row(r).amount \in Amounts /\ row(r).from = tx[p].by /\ row(r).to # tx[p].by
    BY <1>1, <1>2 DEF RowKnown, Inserts
  <2> QED BY <2>1, AmountTypes
<1>5. a \in [S -> Nat] /\ b \in [S -> Nat] /\ a \in [S -> Int]
  BY <1>4
<1>6. \A r \in S : g[r] = IF u = tx[p].by THEN -a[r] ELSE b[r]
  BY <1>4 DEF Gain
<1>7. g \in [S -> Int]
  <2>1. \A r \in S : g[r] \in Int
    <3> HIDE DEF a, b
    <3>1. \A r \in S : a[r] \in Nat /\ b[r] \in Nat
      BY <1>5
    <3> HIDE DEF g
    <3> QED BY <1>6, <3>1
  <2> QED BY <2>1
<1>8. LegsGain(tx[p].new, u) = SumFunction(g) /\ LegTotal(p) = SumFunction(a)
  BY DEF LegsGain, LegTotal
<1>9. SumFunction(g) \in Int
  BY <1>3, <1>7, SumInt
<1>10. CASE u = tx[p].by
  <2>1. \A r \in S : g[r] = -a[r]
    BY <1>6, <1>10
  <2> HIDE DEF a, g
  <2>2. SumFunction(g) = -SumFunction(a)
    BY <1>3, <1>5, <1>7, <2>1, SumOpposite
  <2> QED BY <1>8, <1>9, <1>10, <2>2
<1>11. CASE u # tx[p].by
  <2>1. g = b
    BY <1>6, <1>7, <1>11
  <2>2. PICK r \in S : TRUE
    BY <1>2
  <2>3. b[r] <= SumFunction(b) /\ b[r] \in Nat
    <3> HIDE DEF b, S
    <3> QED BY <1>3, <1>5, SumAtLeast
  <2> QED BY <1>8, <1>9, <1>11, <2>1, <2>3
<1> QED BY <1>8, <1>9, <1>10, <1>11

LEMMA NothingAllocated ==
  ASSUME ConstantsAssumption, NEW row \in Row, NEW r
  PROVE  Allocated({}, r) = 0 /\ Allocated({}, r) <= row.amount
<1> DEFINE S == {k \in {} : k.leg = r}
           f == [l \in S |-> l.amount]
<1>1. S = {} /\ IsFiniteSet({})
  BY FS_EmptySet
<1>2. f \in [{} -> {0}]
  BY <1>1
<1>3. SumFunction(f) = 0
  BY <1>1, <1>2, SumZero
<1> QED BY <1>3, RowTypes DEF Allocated

LEMMA ApplyLegsKeeps ==
  ASSUME ConstantsAssumption, IInv, NEW p \in Procs, ApplyLegs(p)
  PROVE  IInv'
<1> DEFINE got(u) == SumFunction([r \in DOMAIN tx[p].new |-> IF tx[p].new[r].to = u THEN tx[p].new[r].amount ELSE 0])
           pc == IF tx[p].adds = {} THEN "commit" ELSE "readSources"
           rows == [u \in Users |-> Apply(tx[p].rows[u], IF u = tx[p].by THEN -LegTotal(p) ELSE got(u))]
           t == [tx[p] EXCEPT !.pc = pc, !.rows = rows]
<1>1. tx[p].pc = "apply" /\ tx[p].pc \in Grouping /\ tx[p].pc # "idle" /\ tx[p].pc \notin Unlocked
  BY DEF ApplyLegs, At, Grouping, Unlocked
<1>2. /\ IsCall(tx[p]) /\ CallKnown(tx[p]) /\ AddsKnown(tx[p]) /\ tx[p].call = "group" /\ LocksKnown(tx[p], held[p])
      /\ GroupKnown(tx[p]) /\ RowKnown(tx[p]) /\ account \in [Users -> Account] /\ tx[p].toLock = {}
      /\ tx[p].rows \in [Users -> Account] /\ tx[p].by \in Users
  BY <1>1, RunningKnown, CallFields DEF CallKnown
<1>3. End(p) \/ (CanApply(tx[p].rows[tx[p].by], -LegTotal(p)) /\ Step(p, t))
  BY DEF ApplyLegs
<1>4. /\ Senders(tx[p]) \union Receivers(tx[p]) \subseteq Users /\ tx[p].by \in Senders(tx[p])
      /\ Senders(tx[p]) = {tx[p].by}
  BY <1>1, PartiesKnown
<1>5. \A u \in Users : /\ LegsGain(tx[p].new, u) \in Int
                       /\ rows[u] = Apply(tx[p].rows[u], LegsGain(tx[p].new, u))
                       /\ u # tx[p].by => LegsGain(tx[p].new, u) >= 0
                       /\ u = tx[p].by => LegsGain(tx[p].new, u) = -LegTotal(p)
  BY <1>1, LegsSum
<1>6. rows \in [Users -> Account]
  <2>1. \A u \in Users : Apply(tx[p].rows[u], LegsGain(tx[p].new, u)) \in Account
    BY <1>2, <1>5, LedgerTypes
  <2> QED BY <1>5, <2>1
<1>7. t = Moved(tx[p], pc, rows, {}, tx[p].after)
  <2> HIDE DEF rows, pc
  <2> QED BY <1>2, CallFields DEF CallOn, Moved
<1>8. pc \in {"commit", "readSources"} /\ (pc = "commit" => tx[p].adds = {})
  OBVIOUS
<1> HIDE DEF t, rows, pc
<1>9. /\ IsCall(t) /\ t.pc = pc /\ t.rows = rows /\ t.toLock = {} /\ t.after = tx[p].after
      /\ t.call = "group" /\ t.adds = tx[p].adds /\ t.new = tx[p].new
      /\ Inserts(t) /\ Inserts(tx[p]) /\ t.pc \notin Unlocked /\ ~UsageLocked(t) /\ ~UsageLocked(tx[p])
      /\ Senders(t) = Senders(tx[p]) /\ Receivers(t) = Receivers(tx[p])
      /\ CallKnown(t) /\ RowKnown(t) /\ FundsKnown(t) /\ UsageKnown(t) /\ KeyKnown(t)
  <2>1. /\ pc \in (Grouping \ {"checkFunds"}) \union {"commit"}
        /\ DOMAIN tx[p].after \in SUBSET Remits /\ {} \in SUBSET (Users \union Remits)
        /\ tx[p].after \in [DOMAIN tx[p].after -> {"PARTIAL", "COMPLETED"}]
        /\ pc # "lockAccounts" /\ pc # "lockSources"
    BY <1>2, <1>8, CallFields DEF Grouping
  <2>2. CanMove(tx[p], pc, rows, {}, tx[p].after)
    BY <1>1, <1>6, <2>1 DEF CanMove
  <2> QED BY <1>7, <2>2, GroupStep
<1>10. /\ LockedAccounts(t) = LockedAccounts(tx[p]) /\ LockedAccounts(t) \subseteq Users
       /\ HasRead(t) => t.adds = {}
  BY <1>1, <1>4, <1>8, <1>9 DEF LockedAccounts, Approving, Commits, HasApplied, HasRead
<1>11. AddsKnown(t)
  <2>1. /\ \A l \in t.adds : l.leg \in DOMAIN t.new /\ remit[l.source].status # "none"
        /\ DOMAIN t.after \subseteq {l.source : l \in t.adds}
    BY <1>2, <1>9 DEF AddsKnown
  <2>2. t.adds = {} => \A r \in DOMAIN t.new : Allocated(t.adds, r) <= t.new[r].amount
    BY <1>2, <1>9, NothingAllocated, CallFields
  <2>3. t.adds = {} => DOMAIN t.after = {l.source : l \in t.adds}
    BY <2>1
  <2>4. t.pc # "enqueue"
    BY <1>8, <1>9
  <2> QED BY <1>9, <1>10, <2>1, <2>2, <2>3, <2>4 DEF AddsKnown
<1>12. LocksKnown(t, held[p])
  <2>1. OwnLocks(t, held[p])
    <3>1. HasRead(t) => DOMAIN t.after = {}
      BY <1>10, <1>11 DEF AddsKnown
    <3> QED BY <1>9, <3>1 DEF OwnLocks, Decisions
  <2> QED BY <1>1, <1>2, <1>9, <1>10, <2>1 DEF LocksKnown
<1>13. CanApply(tx[p].rows[tx[p].by], -LegTotal(p)) => GroupKnown(t)
  <2>1. \A u \in LockedAccounts(tx[p]) : tx[p].rows[u] = account[u]
    BY <1>1, <1>2 DEF GroupKnown
  <2>2. t.pc \notin {"lockAccounts", "apply"}
    BY <1>8, <1>9
  <2>3. \A u \in LockedAccounts(t) : t.rows[u] = Apply(account[u], LegsGain(t.new, u))
    BY <1>5, <1>9, <1>10, <2>1
  <2>4. tx[p].by \in LockedAccounts(tx[p])
    BY <1>1, <1>4 DEF LockedAccounts, Approving, Commits, HasApplied, HasRead
  <2>5. CanApply(tx[p].rows[tx[p].by], -LegTotal(p)) =>
          \A u \in LockedAccounts(t) : CanApply(account[u], LegsGain(t.new, u)) \/ LegsGain(t.new, u) >= 0
    BY <1>5, <1>9, <1>10, <2>1, <2>4
  <2> QED BY <2>2, <2>3, <2>5 DEF GroupKnown
<1>14. CanApply(tx[p].rows[tx[p].by], -LegTotal(p)) => Known(t, held[p])
  BY <1>9, <1>11, <1>12, <1>13 DEF Known
<1> QED BY <1>3, <1>9, <1>14, EndKeeps, StepKeeps

LEMMA ReadSourcesKeeps ==
  ASSUME ConstantsAssumption, IInv, NEW p \in Procs, ReadSources(p)
  PROVE  IInv'
<1> DEFINE after == [r \in Sources(p) |-> SettledStatus(p, r)]
           t == [tx[p] EXCEPT !.pc = "lockSources", !.toLock = Sources(p), !.after = after]
<1>1. tx[p].pc = "readSources" /\ tx[p].pc \in Grouping /\ tx[p].pc # "idle" /\ tx[p].pc \notin Unlocked
  BY DEF ReadSources, At, Grouping, Unlocked
<1>2. /\ IsCall(tx[p]) /\ CallKnown(tx[p]) /\ AddsKnown(tx[p]) /\ tx[p].call = "group" /\ LocksKnown(tx[p], held[p])
      /\ GroupKnown(tx[p])
  BY <1>1, RunningKnown, CallFields DEF CallKnown
<1>3. End(p) \/ (LegCovers(p) /\ Step(p, t))
  BY DEF ReadSources
<1>4. /\ Sources(p) \in SUBSET Remits /\ Sources(p) \in SUBSET (Users \union Remits)
      /\ after \in [Sources(p) -> {"PARTIAL", "COMPLETED"}]
  <2>1. Sources(p) \in SUBSET Remits
    BY <1>2, CallFields DEF Sources, Link
  <2> QED BY <2>1 DEF SettledStatus
<1>5. t = Moved(tx[p], "lockSources", tx[p].rows, Sources(p), after)
  <2> HIDE DEF after
  <2> QED BY <1>2, CallFields DEF CallOn, Moved
<1> HIDE DEF t, after
<1>6. /\ IsCall(t) /\ t.pc = "lockSources" /\ t.rows = tx[p].rows /\ t.toLock = Sources(p) /\ DOMAIN t.after = Sources(p)
      /\ t.call = "group" /\ t.adds = tx[p].adds /\ t.new = tx[p].new
      /\ Inserts(t) /\ Inserts(tx[p]) /\ t.pc \notin Unlocked /\ ~UsageLocked(t) /\ ~UsageLocked(tx[p])
      /\ Senders(t) = Senders(tx[p]) /\ Receivers(t) = Receivers(tx[p])
      /\ CallKnown(t) /\ RowKnown(t) /\ FundsKnown(t) /\ UsageKnown(t) /\ KeyKnown(t)
  <2>1. "lockSources" \in (Grouping \ {"checkFunds"}) \union {"commit"} /\ tx[p].rows \in [Users -> Account]
    BY <1>2, CallFields DEF Grouping
  <2>2. DOMAIN after = Sources(p)
    BY <1>4
  <2>3. CanMove(tx[p], "lockSources", tx[p].rows, Sources(p), after)
    BY <1>1, <1>4, <2>1, <2>2 DEF CanMove
  <2> QED BY <1>5, <2>2, <2>3, GroupStep
<1>7. LockedAccounts(t) = LockedAccounts(tx[p]) /\ HasApplied(tx[p])
  BY <1>1, <1>6 DEF LockedAccounts, Approving, Commits, HasApplied, HasRead
<1>8. LegCovers(p) => AddsKnown(t)
  BY <1>2, <1>6 DEF AddsKnown, LegCovers, Sources
<1>9. LocksKnown(t, held[p])
  <2>1. OwnLocks(t, held[p])
    BY <1>6 DEF OwnLocks, Decisions
  <2> QED BY <1>1, <1>2, <1>6, <1>7, <2>1 DEF LocksKnown
<1>10. GroupKnown(t)
  BY <1>2, <1>6, <1>7 DEF GroupKnown
<1>11. LegCovers(p) => Known(t, held[p])
  BY <1>6, <1>8, <1>9, <1>10 DEF Known
<1> QED BY <1>3, <1>6, <1>11, EndKeeps, StepKeeps

LEMMA LockSourcesKeeps ==
  ASSUME ConstantsAssumption, IInv, NEW p \in Procs, LockSources(p)
  PROVE  IInv'
<1>1. tx[p].pc = "lockSources" /\ tx[p].pc \in Grouping /\ tx[p].pc # "idle" /\ tx[p].pc \notin Unlocked
  BY DEF LockSources, At, Grouping, Unlocked
<1>2. /\ IsCall(tx[p]) /\ CallKnown(tx[p]) /\ AddsKnown(tx[p]) /\ tx[p].call = "group" /\ LocksKnown(tx[p], held[p])
      /\ GroupKnown(tx[p]) /\ tx[p].toLock \subseteq DOMAIN tx[p].after /\ DOMAIN tx[p].after \in SUBSET Remits
  BY <1>1, RunningKnown, CallFields DEF CallKnown
<1>3. PICK r \in tx[p].toLock : LockStep(p, RemitLock(r), [tx[p] EXCEPT !.toLock = @ \ {r},
                                                   !.pc = IF tx[p].toLock = {r} THEN "commit" ELSE "lockSources"])
  BY DEF LockSources
<1> DEFINE pc == IF tx[p].toLock = {r} THEN "commit" ELSE "lockSources"
           toLock == tx[p].toLock \ {r}
           l == RemitLock(r)
           t == [tx[p] EXCEPT !.toLock = @ \ {r}, !.pc = IF tx[p].toLock = {r} THEN "commit" ELSE "lockSources"]
<1>4. LockStep(p, l, t) /\ r \in Remits
  BY <1>2, <1>3
<1>5. t = Moved(tx[p], pc, tx[p].rows, toLock, tx[p].after)
  BY <1>2, CallFields DEF CallOn, Moved
<1>6. /\ pc \in {"commit", "lockSources"} /\ toLock = tx[p].toLock \ {r} /\ toLock \in SUBSET (Users \union Remits)
      /\ (pc = "commit" => toLock = {}) /\ toLock \subseteq DOMAIN tx[p].after
  BY <1>2
<1> HIDE DEF t, pc, toLock
<1>7. /\ IsCall(t) /\ t.pc = pc /\ t.rows = tx[p].rows /\ t.toLock = toLock /\ t.after = tx[p].after
      /\ t.call = "group" /\ t.adds = tx[p].adds /\ t.new = tx[p].new
      /\ Inserts(t) /\ Inserts(tx[p]) /\ t.pc \notin Unlocked /\ ~UsageLocked(t) /\ ~UsageLocked(tx[p])
      /\ Senders(t) = Senders(tx[p]) /\ Receivers(t) = Receivers(tx[p])
      /\ CallKnown(t) /\ RowKnown(t) /\ FundsKnown(t) /\ UsageKnown(t) /\ KeyKnown(t)
  <2>1. /\ pc \in (Grouping \ {"checkFunds"}) \union {"commit"} /\ tx[p].rows \in [Users -> Account]
        /\ tx[p].after \in [DOMAIN tx[p].after -> {"PARTIAL", "COMPLETED"}]
        /\ pc # "lockAccounts" /\ pc # "apply"
    BY <1>2, <1>6, CallFields DEF Grouping
  <2>2. CanMove(tx[p], pc, tx[p].rows, toLock, tx[p].after)
    BY <1>1, <1>2, <1>6, <2>1 DEF CanMove
  <2> QED BY <1>5, <2>2, GroupStep
<1>8. LockedAccounts(t) = LockedAccounts(tx[p]) /\ HasRead(t) /\ HasRead(tx[p]) /\ HasApplied(t) /\ HasApplied(tx[p])
  BY <1>1, <1>6, <1>7 DEF LockedAccounts, Approving, Commits, HasApplied, HasRead
<1>9. AddsKnown(t)
  <2>1. t.pc # "enqueue" /\ tx[p].pc # "enqueue"
    BY <1>1, <1>6, <1>7
  <2> QED BY <1>2, <1>7, <1>8, <2>1 DEF AddsKnown
<1>10. LocksKnown(t, held[p] \union {l})
  <2>1. OwnLocks(t, held[p] \union {l})
    <3>1. \A s \in DOMAIN t.after \ t.toLock : RemitLock(s) \in held[p] \union {l}
      <4>1. OwnLocks(tx[p], held[p])
        BY <1>1, <1>2 DEF LocksKnown
      <4>2. \A s \in DOMAIN tx[p].after \ tx[p].toLock : RemitLock(s) \in held[p]
        BY <1>8, <4>1 DEF OwnLocks
      <4> QED BY <1>6, <1>7, <4>2
    <3> QED BY <1>7, <3>1 DEF OwnLocks, Decisions
  <2>2. \A x \in Users : /\ UsageLocked(t) /\ x \in Senders(t) <=> (UsageLocked(tx[p]) /\ x \in Senders(tx[p])) \/ l = UsageLock(x)
                         /\ x \in LockedAccounts(t) <=> x \in LockedAccounts(tx[p]) \/ l = AccountLock(x)
    BY <1>7, <1>8, LockKinds
  <2> HIDE DEF l
  <2> QED BY <1>1, <1>2, <2>1, <2>2, LocksGrow
<1>11. GroupKnown(t)
  <2>1. t.pc \notin {"lockAccounts", "apply"}
    BY <1>6, <1>7
  <2> QED BY <1>2, <1>7, <1>8, <2>1 DEF GroupKnown
<1>12. Known(t, held[p] \union {l})
  BY <1>7, <1>9, <1>10, <1>11 DEF Known
<1>13. l \in Locks
  BY <1>4, LockTypes
<1> QED BY <1>4, <1>7, <1>12, <1>13, LockStepKeeps

----------------------------------------------------------------------------
(* Commit *)

SameRemit(a, b) == a.from = b.from /\ a.to = b.to /\ a.amount = b.amount /\ a.key = b.key

\* What a call that commits knows.
LEMMA CommitKnown ==
  ASSUME ConstantsAssumption, IInv, NEW p \in Procs, Commit(p)
  PROVE  /\ tx[p].pc = "commit" /\ IsCall(tx[p]) /\ CallKnown(tx[p]) /\ AddsKnown(tx[p]) /\ RowKnown(tx[p])
         /\ LocksKnown(tx[p], held[p]) /\ OwnLocks(tx[p], held[p]) /\ FundsKnown(tx[p]) /\ GroupKnown(tx[p])
         /\ UsageKnown(tx[p]) /\ KeyKnown(tx[p])
         /\ tx[p].call \in {"create", "group"} \/ tx[p].call \in Decisions
         /\ Inserts(tx[p]) <=> tx[p].call \in {"create", "group"}
         /\ Decides(tx[p]) <=> tx[p].call \in Decisions
         /\ HasRead(tx[p]) <=> tx[p].call = "group"
         /\ tx[p].call # "group" => tx[p].adds = {} /\ DOMAIN tx[p].after = {}
<1>1. tx[p].pc = "commit" /\ tx[p].pc # "idle" /\ tx[p].pc \notin Unlocked
  BY DEF Commit, At, Unlocked
<1>2. /\ IsCall(tx[p]) /\ CallKnown(tx[p]) /\ AddsKnown(tx[p]) /\ RowKnown(tx[p])
      /\ LocksKnown(tx[p], held[p]) /\ FundsKnown(tx[p]) /\ GroupKnown(tx[p])
      /\ UsageKnown(tx[p]) /\ KeyKnown(tx[p])
  BY <1>1, RunningKnown
<1>3. OwnLocks(tx[p], held[p])
  BY <1>1, <1>2 DEF LocksKnown
<1>4. tx[p].call \in {"create", "group"} \/ tx[p].call \in Decisions
  BY <1>2, CallFields DEF Calls, Decisions
<1>5. /\ Inserts(tx[p]) <=> tx[p].call \in {"create", "group"}
      /\ Decides(tx[p]) <=> tx[p].call \in Decisions
      /\ HasRead(tx[p]) <=> tx[p].call = "group"
  BY <1>1 DEF Inserts, Decides, Deciding, Approving, HasRead, Commits
<1>6. tx[p].call # "group" => tx[p].adds = {} /\ DOMAIN tx[p].after = {}
  BY <1>2 DEF AddsKnown
<1> QED BY <1>1, <1>2, <1>3, <1>4, <1>5, <1>6

\* The rows a commit leaves.
LEMMA CommitRow ==
  ASSUME ConstantsAssumption, IInv, NEW p \in Procs, Commit(p), NEW r \in Remits
  PROVE  /\ remit'[r] \in Row
         /\ r \in DOMAIN tx[p].new =>
              /\ r \notin DOMAIN tx[p].after
              /\ SameRemit(remit'[r], tx[p].new[r]) /\ remit'[r].status = StatusAfter(p, r)
         /\ r \in DOMAIN tx[p].after =>
              /\ remit[r].status # "none" /\ RemitLock(r) \in held[p] /\ \E l \in tx[p].adds : l.source = r
              /\ SameRemit(remit'[r], remit[r]) /\ remit'[r].status = tx[p].after[r]
              /\ remit'[r].status \in {"PARTIAL", "COMPLETED"}
         /\ r \notin DOMAIN tx[p].new \union DOMAIN tx[p].after => remit'[r] = remit[r]
<1> DEFINE new == tx[p].new
           after == tx[p].after
<1>1. remit \in [Remits -> Row] /\ remit[r] \in Row
  BY DEF IInv, TypeOK
<1>2. new \in [DOMAIN new -> Row] /\ after \in [DOMAIN after -> {"PARTIAL", "COMPLETED"}]
  BY CommitKnown, CallFields
<1>3. remit'[r] = CASE r \in DOMAIN new -> [new[r] EXCEPT !.status = StatusAfter(p, r)]
                    [] r \in DOMAIN after -> [remit[r] EXCEPT !.status = after[r]]
                    [] OTHER -> remit[r]
  BY DEF Commit
<1>4. r \in DOMAIN after => /\ remit[r].status # "none" /\ r \notin DOMAIN new /\ RemitLock(r) \in held[p]
                            /\ \E l \in tx[p].adds : l.source = r
  <2>1. SUFFICES ASSUME r \in DOMAIN after
                 PROVE  /\ remit[r].status # "none" /\ r \notin DOMAIN new /\ RemitLock(r) \in held[p]
                        /\ \E l \in tx[p].adds : l.source = r
    OBVIOUS
  <2>2. tx[p].call = "group" /\ tx[p].toLock = {}
    BY <2>1, CommitKnown DEF CallKnown, Commits
  <2>3. PICK l \in tx[p].adds : l.source = r
    BY <2>1, CommitKnown DEF AddsKnown
  <2>4. remit[r].status # "none"
    BY <2>3, CommitKnown DEF AddsKnown
  <2>5. \A s \in DOMAIN new : remit[s].status = "none"
    BY <2>2, CommitKnown DEF RowKnown
  <2>6. RemitLock(r) \in held[p]
    BY <2>1, <2>2, CommitKnown DEF OwnLocks
  <2> QED BY <2>3, <2>4, <2>5, <2>6
<1>5. r \in DOMAIN new => StatusAfter(p, r) \in RemittanceStatus
  <2>1. r \in DOMAIN new => new[r].status \in RemittanceStatus
    BY <1>2, RowTypes
  <2> QED BY <2>1 DEF StatusAfter, RemittanceStatus
<1> HIDE DEF new, after
<1>6. CASE r \in DOMAIN new
  <2>1. remit'[r] = [new[r] EXCEPT !.status = StatusAfter(p, r)] /\ new[r] \in Row /\ r \notin DOMAIN after
    BY <1>2, <1>3, <1>4, <1>6
  <2> QED BY <1>5, <1>6, <2>1, RowTypes DEF SameRemit, new, after
<1>7. CASE r \in DOMAIN after
  <2>1. remit'[r] = [remit[r] EXCEPT !.status = after[r]] /\ after[r] \in RemittanceStatus
    BY <1>2, <1>3, <1>4, <1>7 DEF RemittanceStatus
  <2>2. after[r] \in {"PARTIAL", "COMPLETED"}
    BY <1>2, <1>7
  <2> QED BY <1>1, <1>4, <1>7, <2>1, <2>2, RowTypes DEF SameRemit, new, after
<1>8. CASE r \notin DOMAIN new /\ r \notin DOMAIN after
  BY <1>1, <1>3, <1>8 DEF new, after
<1> QED BY <1>6, <1>7, <1>8

\* A row that is there stays, and keeps what it says but for its status.
LEMMA CommitKeepsRow ==
  ASSUME ConstantsAssumption, IInv, NEW p \in Procs, Commit(p), NEW r \in Remits, remit[r].status # "none"
  PROVE  /\ remit'[r].status # "none" /\ SameRemit(remit'[r], remit[r])
         /\ r \in DOMAIN tx[p].new => tx[p].call \in Decisions /\ RemitLock(r) \in held[p] /\ tx[p].new[r] = remit[r]
<1>1. r \in DOMAIN tx[p].new => tx[p].call \in Decisions /\ RemitLock(r) \in held[p] /\ tx[p].new[r] = remit[r]
  BY CommitKnown DEF RowKnown, OwnLocks
<1>2. CASE r \in DOMAIN tx[p].new
  <2>1. StatusAfter(p, r) # "none"
    BY <1>1, <1>2 DEF StatusAfter, Decisions
  <2> QED BY <1>1, <1>2, <2>1, CommitRow
<1>3. CASE r \notin DOMAIN tx[p].new
  BY <1>1, <1>3, CommitRow DEF SameRemit
<1> QED BY <1>1, <1>2, <1>3

\* The rows of accounts and usages that another call has locked stay.
LEMMA CommitKeepsLocked ==
  ASSUME ConstantsAssumption, IInv, NEW p \in Procs, Commit(p), NEW u \in Users
  PROVE  /\ AccountLock(u) \notin held[p] => account'[u] = account[u]
         /\ AccountLock(u) \in held[p] => account'[u] = tx[p].rows[u]
         /\ UsageLock(u) \notin held[p] => usage'[u] = usage[u]
         /\ UsageLock(u) \in held[p] => usage'[u] = tx[p].use
BY DEF Commit

LEMMA CommitTypes ==
  ASSUME ConstantsAssumption, IInv, NEW p \in Procs, Commit(p)
  PROVE  /\ remit' \in [Remits -> Row]
         /\ hold' \in [Remits -> HoldStatus] /\ limitHold' \in [Remits -> HoldStatus]
         /\ account' \in [Users -> Account] /\ usage' \in [Users -> Usage]
         /\ paid' \subseteq Remits /\ links' \subseteq Link /\ queued' \subseteq Remits
<1>1. /\ IsCall(tx[p]) /\ DOMAIN tx[p].new \subseteq Remits /\ tx[p].adds \subseteq Link
      /\ tx[p].rows \in [Users -> Account] /\ tx[p].use \in Usage
  BY CommitKnown, CallFields
<1>2. remit' \in [Remits -> Row]
  <2>1. \A r \in Remits : remit'[r] \in Row
    BY CommitRow
  <2>2. remit' = [r \in Remits |-> remit'[r]]
    BY DEF Commit
  <2> QED BY <2>1, <2>2
<1>3. hold' \in [Remits -> HoldStatus] /\ limitHold' \in [Remits -> HoldStatus]
  <2>1. hold \in [Remits -> HoldStatus] /\ limitHold \in [Remits -> HoldStatus]
    BY DEF IInv, TypeOK
  <2>2. \A h \in HoldStatus : \A c, S : HoldAfter(h, c, S) \in HoldStatus
    BY DEF HoldAfter, HoldStatus
  <2>3. /\ hold' = [r \in Remits |-> IF r \in DOMAIN tx[p].new THEN HoldAfter(hold[r], tx[p].call, {"RESERVED"}) ELSE hold[r]]
        /\ limitHold' = [r \in Remits |-> IF r \in DOMAIN tx[p].new
             THEN HoldAfter(limitHold[r], tx[p].call, IF tx[p].call = "approve" THEN LimitConsumable ELSE LimitReleasable)
             ELSE limitHold[r]]
    BY DEF Commit
  <2> QED BY <2>1, <2>2, <2>3
<1>4. account' \in [Users -> Account] /\ usage' \in [Users -> Usage]
  BY <1>1 DEF Commit, IInv, TypeOK
<1>5. paid' \subseteq Remits /\ links' \subseteq Link /\ queued' \subseteq Remits
  BY <1>1 DEF Commit, IInv, TypeOK
<1> QED BY <1>2, <1>3, <1>4, <1>5

\* What another call knows does not depend on the rows that p commits.
LEMMA KnownStays ==
  ASSUME ConstantsAssumption, IInv, NEW p \in Procs, Commit(p), NEW u, IsCall(u), NEW L, Known(u, L),
         L \intersect held[p] = {},
         Inserts(u) /\ Inserts(tx[p]) => DOMAIN u.new \intersect DOMAIN tx[p].new = {}
  PROVE  Known(u, L)'
<1>1. /\ CallKnown(u) /\ AddsKnown(u) /\ RowKnown(u) /\ LocksKnown(u, L) /\ FundsKnown(u) /\ GroupKnown(u)
      /\ UsageKnown(u) /\ KeyKnown(u)
  BY DEF Known
<1>2. CallKnown(u)' /\ LocksKnown(u, L)'
  BY <1>1 DEF CallKnown, Senders, Receivers, LocksKnown
<1>3. /\ u.new \in [DOMAIN u.new -> Row] /\ DOMAIN u.new \subseteq Remits /\ u.adds \subseteq Link
      /\ \A r \in DOMAIN u.new : u.new[r].from \in Users /\ u.new[r].to \in Users
  <2>1. u.new \in [DOMAIN u.new -> Row] /\ DOMAIN u.new \subseteq Remits /\ u.adds \subseteq Link
    BY CallFields
  <2> QED BY <2>1, RowTypes
<1>4. Senders(u) \subseteq Users /\ Receivers(u) \subseteq Users
  BY <1>3 DEF Senders, Receivers
<1>5. AddsKnown(u)'
  <2>1. \A l \in u.adds : l.source \in Remits /\ remit[l.source].status # "none"
    BY <1>1, <1>3 DEF AddsKnown, Link
  <2>2. \A l \in u.adds : remit'[l.source].status # "none"
    BY <2>1, CommitKeepsRow
  <2> QED BY <1>1, <2>2 DEF AddsKnown, Allocated
<1>6. ASSUME NEW r \in DOMAIN u.new, Inserts(u), remit[r].status = "none" PROVE remit'[r] = remit[r]
  <2>1. r \notin DOMAIN tx[p].after
    BY <1>3, <1>6, CommitRow
  <2>2. r \notin DOMAIN tx[p].new
    <3>1. CASE Inserts(tx[p])
      BY <1>6, <3>1
    <3>2. CASE ~Inserts(tx[p])
      <4>1. Decides(tx[p]) /\ RowKnown(tx[p])
        BY <3>2, CommitKnown
      <4> QED BY <1>6, <4>1 DEF RowKnown
    <3> QED BY <3>1, <3>2
  <2> QED BY <1>3, <2>1, <2>2, CommitRow
<1>7. ASSUME NEW r \in DOMAIN u.new, Decides(u), remit[r].status = "PENDING" PROVE remit'[r] = remit[r]
  <2>1. RemitLock(r) \in L
    <3>1. u.pc \notin Unlocked /\ u.call \in Decisions
      BY <1>1, <1>7 DEF CallKnown, Decides, Deciding, Approving, Commits, Unlocked
    <3> QED BY <1>1, <3>1 DEF LocksKnown, OwnLocks
  <2>2. RemitLock(r) \notin held[p]
    BY <2>1
  <2>3. r \notin DOMAIN tx[p].new /\ r \notin DOMAIN tx[p].after
    BY <1>3, <1>7, <2>2, CommitRow, CommitKeepsRow
  <2> QED BY <1>3, <2>3, CommitRow
<1>8. RowKnown(u)'
  <2>1. ASSUME NEW r \in DOMAIN u.new, u.pc = "lockRemit" PROVE remit'[r].status # "none"
    BY <1>1, <1>3, <2>1, CommitKeepsRow DEF RowKnown
  <2>2. ASSUME NEW r \in DOMAIN u.new, Inserts(u) PROVE remit'[r].status = "none"
    BY <1>1, <1>6, <2>2 DEF RowKnown
  <2>3. ASSUME NEW r \in DOMAIN u.new, Decides(u) PROVE remit'[r].status = "PENDING" /\ u.new[r] = remit'[r]
    BY <1>1, <1>7, <2>3 DEF RowKnown
  <2> QED BY <1>1, <2>1, <2>2, <2>3 DEF RowKnown, Inserts, Decides, Commits
<1>9. ASSUME NEW x \in Users, x \in LockedAccounts(u), u.pc \notin Unlocked PROVE account'[x] = account[x]
  <2>1. AccountLock(x) \in L
    BY <1>1, <1>9 DEF LocksKnown
  <2> QED BY <2>1, CommitKeepsLocked
<1>10. FundsKnown(u)'
  <2>1. ASSUME NEW r \in DOMAIN u.new, u.pc \in Approving \/ Commits(u, {"create"} \union Decisions)
        PROVE  account'[u.new[r].from] = account[u.new[r].from]
    <3>1. u.new[r].from \in LockedAccounts(u) /\ u.pc \notin Unlocked
      BY <2>1 DEF LockedAccounts, Commits, HasApplied, HasRead, Approving, Decisions, Senders, Unlocked
    <3> QED BY <1>3, <1>9, <3>1
  <2>2. ASSUME NEW r \in DOMAIN u.new, u.pc = "consumeLimit" \/ Commits(u, {"approve"})
        PROVE  account'[u.new[r].to] = account[u.new[r].to]
    <3>1. u.new[r].to \in LockedAccounts(u) /\ u.pc \notin Unlocked
      BY <2>2 DEF LockedAccounts, Commits, HasApplied, HasRead, Approving, Receivers, Unlocked
    <3> QED BY <1>3, <1>9, <3>1
  <2> HIDE DEF Commit
  <2> QED BY <1>1, <2>1, <2>2 DEF FundsKnown, Commits, Decisions
<1>11. GroupKnown(u)'
  <2>1. ASSUME u.pc \in {"lockAccounts", "apply"} \/ HasApplied(u), NEW x \in LockedAccounts(u)
        PROVE  account'[x] = account[x]
    <3>1. u.pc \notin Unlocked
      BY <2>1 DEF Unlocked, HasApplied, HasRead, Commits
    <3>2. LockedAccounts(u) \subseteq Users
      BY <1>4 DEF LockedAccounts
    <3> QED BY <1>9, <2>1, <3>1, <3>2
  <2> QED BY <1>1, <2>1 DEF GroupKnown, HasApplied, HasRead, Commits, LockedAccounts, Senders, Receivers
<1>12. UsageKnown(u)'
  <2>1. ASSUME NEW r \in DOMAIN u.new, UsageLocked(u) PROVE usage'[u.new[r].from] = usage[u.new[r].from]
    <3>1. u.pc \notin Unlocked /\ u.new[r].from \in Senders(u)
      BY <2>1 DEF Unlocked, UsageLocked, Commits, Senders
    <3>2. UsageLock(u.new[r].from) \in L
      BY <1>1, <1>3, <2>1, <3>1 DEF LocksKnown
    <3> QED BY <1>3, <3>2, CommitKeepsLocked
  <2> QED BY <1>1, <2>1 DEF UsageKnown, UsageLocked, Commits
<1>13. u.pc # "idle"
  BY StepKinds
<1>14. KeyKnown(u)'
  <2>1. SUFFICES ASSUME u.call = "create", u.pc # "insert", NEW r \in DOMAIN u.new,
                        UsedKey(u.new[r].from, u.new[r].key)'
                 PROVE  FALSE
    BY DEF KeyKnown
  <2> DEFINE v == u.new[r].from
             k == u.new[r].key
  <2>2. k # NoKey
    BY <2>1 DEF UsedKey
  <2>3. PICK s \in Remits : remit'[s].key = k /\ remit'[s].from = v
    BY <2>1 DEF UsedKey
  <2>4. ~UsedKey(v, k)
    BY <1>1, <2>1 DEF KeyKnown
  <2>5. ~(remit[s].key = k /\ remit[s].from = v)
    BY <2>2, <2>4 DEF UsedKey
  <2>6. s \in DOMAIN tx[p].new /\ tx[p].new[s].key = k /\ tx[p].new[s].from = v
    BY <2>3, <2>5, CommitRow DEF SameRemit
  <2>7. tx[p].call = "create"
    <3>1. tx[p].call \notin Decisions
      <4>1. ASSUME tx[p].call \in Decisions PROVE tx[p].new[s] = remit[s]
        BY <2>6, <4>1, CommitKnown DEF RowKnown
      <4> QED BY <2>5, <2>6, <4>1
    <3>2. tx[p].call # "group"
      BY <2>2, <2>6, CommitKnown DEF RowKnown
    <3> QED BY <3>1, <3>2, CommitKnown
  <2>8. KeyLock(v, k) \in held[p]
    BY <2>2, <2>6, <2>7, CommitKnown DEF OwnLocks
  <2>9. KeyLock(v, k) \in L
    <3>1. u.pc \notin Unlocked
      BY <1>1, <1>13, <2>1 DEF CallKnown, Unlocked, Deciding, Grouping, Decisions
    <3> QED BY <1>1, <2>1, <2>2, <3>1 DEF LocksKnown, OwnLocks
  <2> QED BY <2>8, <2>9
<1> QED BY <1>2, <1>5, <1>8, <1>10, <1>11, <1>12, <1>14 DEF Known

\* The outbox tail of a group.
LEMMA TailKnown ==
  ASSUME ConstantsAssumption, IInv, NEW p \in Procs, Commit(p)
  PROVE  \E t : /\ tx' = [tx EXCEPT ![p] = t] /\ held' = [held EXCEPT ![p] = {}]
                /\ ~Inserts(t)
                /\ \/ t = Idle
                   \/ IsCall(t) /\ t.pc = "enqueue" /\ Known(t, {})
<1> DEFINE begun == Begun("enqueue", "group", tx[p].by, <<>>, {})
           tail == [begun EXCEPT !.toLock = DOMAIN tx[p].new]
<1>1. /\ tx[p].by \in Users /\ DOMAIN tx[p].new \in SUBSET Remits
  BY CommitKnown, CallFields
<1>2. Leave(p, IF tx[p].call = "group" THEN tail ELSE Idle)
  BY DEF Commit
<1>3. CASE tx[p].call # "group"
  BY <1>2, <1>3 DEF Leave, Inserts, Idle
<1>4. CASE tx[p].call = "group"
  <2>1. /\ begun \in CallOn({}, {})
    <3>1. "enqueue" \in Pcs /\ "group" \in Calls /\ {} \in SUBSET Remits /\ <<>> \in [{} -> Row] /\ {} \in SUBSET Link
      BY EmptyFunction DEF Pcs, Calls
    <3> QED BY <1>1, <3>1, BegunType
  <2>2. begun.pc = "enqueue" /\ begun.call = "group" /\ begun.new = <<>> /\ begun.adds = {} /\ begun.after = <<>>
    BY DEF Begun
  <2> HIDE DEF begun
  <2>3. /\ tail \in CallOn({}, {}) /\ tail.pc = "enqueue" /\ tail.call = "group" /\ tail.new = <<>> /\ tail.adds = {}
        /\ tail.after = <<>> /\ tail.toLock = DOMAIN tx[p].new
    BY <1>1, <2>1, <2>2 DEF CallOn
  <2> HIDE DEF tail
  <2>4. IsCall(tail) /\ DOMAIN tail.new = {} /\ DOMAIN tail.after = {}
    BY <2>3, CallOnIsCall, EmptyFunction
  <2>5. CallKnown(tail)
    BY <1>1, <2>3, <2>4 DEF CallKnown, Creating, Deciding, Approving, Grouping, Commits
  <2>6. AddsKnown(tail)
    BY <2>3, <2>4, NoAdds DEF HasRead, Commits
  <2>7. RowKnown(tail)
    BY <2>4 DEF RowKnown
  <2>8. tail.pc \in Unlocked /\ tail.pc \notin Approving \union {"commit"} /\ tail.pc \notin Grouping \union {"commit"}
    BY <2>3 DEF Unlocked, Approving, Grouping
  <2>9. Known(tail, {})
    BY <2>3, <2>5, <2>6, <2>7, <2>8, NothingDue DEF Known
  <2>10. ~Inserts(tail)
    BY <2>3 DEF Inserts
  <2> QED BY <1>2, <1>4, <2>3, <2>4, <2>9, <2>10 DEF Leave
<1> QED BY <1>3, <1>4

\* The reservations and entries of the rows of a commit.
LEMMA CommitStory ==
  ASSUME ConstantsAssumption, IInv, NEW p \in Procs, Commit(p), NEW r \in Remits
  PROVE  /\ r \notin DOMAIN tx[p].new => hold'[r] = hold[r] /\ limitHold'[r] = limitHold[r] /\ (r \in paid' <=> r \in paid)
         /\ r \in DOMAIN tx[p].new =>
              /\ tx[p].call = "create" =>
                   remit'[r].status = "PENDING" /\ hold'[r] = "RESERVED" /\ limitHold'[r] = "RESERVED" /\ r \notin paid'
              /\ tx[p].call = "group" =>
                   remit'[r].status = "COMPLETED" /\ hold'[r] = "none" /\ limitHold'[r] = "none" /\ r \in paid'
              /\ tx[p].call = "approve" =>
                   remit'[r].status = "COMPLETED" /\ hold'[r] = "CONSUMED" /\ limitHold'[r] = "CONSUMED" /\ r \in paid'
              /\ tx[p].call \in {"reject", "cancel"} =>
                   remit'[r].status = "CANCELLED" /\ hold'[r] = "RELEASED" /\ limitHold'[r] = "RELEASED" /\ r \notin paid'
<1>1. /\ hold'[r] = IF r \in DOMAIN tx[p].new THEN HoldAfter(hold[r], tx[p].call, {"RESERVED"}) ELSE hold[r]
      /\ limitHold'[r] = IF r \in DOMAIN tx[p].new
           THEN HoldAfter(limitHold[r], tx[p].call, IF tx[p].call = "approve" THEN LimitConsumable ELSE LimitReleasable)
           ELSE limitHold[r]
      /\ paid' = IF tx[p].call \in {"approve", "group"} THEN paid \union DOMAIN tx[p].new ELSE paid
  BY DEF Commit
<1>2. r \notin DOMAIN tx[p].new => hold'[r] = hold[r] /\ limitHold'[r] = limitHold[r] /\ (r \in paid' <=> r \in paid)
  BY <1>1
<1>3. ASSUME r \in DOMAIN tx[p].new, tx[p].call \in {"create", "group"}
      PROVE  hold[r] = "none" /\ limitHold[r] = "none" /\ r \notin paid
  <2>1. remit[r].status = "none"
    BY <1>3, CommitKnown DEF RowKnown
  <2> QED BY <2>1 DEF IInv, RowsKnown
<1>4. ASSUME r \in DOMAIN tx[p].new, tx[p].call \in Decisions
      PROVE  hold[r] = "RESERVED" /\ limitHold[r] = "RESERVED" /\ r \notin paid
  <2>1. remit[r].status = "PENDING"
    BY <1>4, CommitKnown DEF RowKnown
  <2> QED BY <2>1 DEF IInv, RowsKnown
<1>5. ASSUME r \in DOMAIN tx[p].new
      PROVE  /\ remit'[r].status = StatusAfter(p, r)
             /\ tx[p].call = "create" => tx[p].new[r].status = "PENDING"
             /\ tx[p].call = "group" => tx[p].new[r].status = "COMPLETED"
  BY <1>5, CommitRow, CommitKnown DEF RowKnown
<1>6. CASE r \notin DOMAIN tx[p].new
  BY <1>2, <1>6
<1>7. CASE r \in DOMAIN tx[p].new /\ tx[p].call = "create"
  BY <1>1, <1>3, <1>5, <1>7 DEF HoldAfter, StatusAfter
<1>8. CASE r \in DOMAIN tx[p].new /\ tx[p].call = "group"
  BY <1>1, <1>3, <1>5, <1>8 DEF HoldAfter, StatusAfter
<1>9. CASE r \in DOMAIN tx[p].new /\ tx[p].call = "approve"
  BY <1>1, <1>4, <1>5, <1>9 DEF HoldAfter, StatusAfter, Decisions, LimitConsumable
<1>10. CASE r \in DOMAIN tx[p].new /\ tx[p].call \in {"reject", "cancel"}
  BY <1>1, <1>4, <1>5, <1>10 DEF HoldAfter, StatusAfter, Decisions, LimitReleasable
<1> QED BY <1>6, <1>7, <1>8, <1>9, <1>10, CommitKnown DEF Decisions

LEMMA CommitRowsKnown ==
  ASSUME ConstantsAssumption, IInv, NEW p \in Procs, Commit(p)
  PROVE  RowsKnown'
<1>1. SUFFICES ASSUME NEW r \in Remits
      PROVE  LET story == <<hold'[r], limitHold'[r], r \in paid'>>
                 s == remit'[r].status
             IN
             /\ s # "none" => remit'[r].amount \in Amounts /\ remit'[r].from # remit'[r].to
             /\ s = "none" => story = <<"none", "none", FALSE>>
             /\ s = "PENDING" => story = <<"RESERVED", "RESERVED", FALSE>>
             /\ s = "CANCELLED" => story = <<"RELEASED", "RELEASED", FALSE>>
             /\ s \in {"PARTIAL", "COMPLETED"} =>
                  story \in {<<"RESERVED", "RESERVED", FALSE>>, <<"RELEASED", "RELEASED", FALSE>>,
                             <<"CONSUMED", "CONSUMED", TRUE>>, <<"none", "none", TRUE>>}
             /\ Unsettled(r)' => s # "PARTIAL" /\ (s = "COMPLETED" => r \in paid')
  BY DEF RowsKnown
<1>2. /\ remit[r].status # "none" => remit[r].amount \in Amounts /\ remit[r].from # remit[r].to
      /\ remit[r].status = "none" => <<hold[r], limitHold[r], r \in paid>> = <<"none", "none", FALSE>>
      /\ remit[r].status = "PENDING" => <<hold[r], limitHold[r], r \in paid>> = <<"RESERVED", "RESERVED", FALSE>>
      /\ remit[r].status = "CANCELLED" => <<hold[r], limitHold[r], r \in paid>> = <<"RELEASED", "RELEASED", FALSE>>
      /\ remit[r].status \in {"PARTIAL", "COMPLETED"} =>
           <<hold[r], limitHold[r], r \in paid>> \in
             {<<"RESERVED", "RESERVED", FALSE>>, <<"RELEASED", "RELEASED", FALSE>>,
              <<"CONSUMED", "CONSUMED", TRUE>>, <<"none", "none", TRUE>>}
      /\ Unsettled(r) => remit[r].status # "PARTIAL" /\ (remit[r].status = "COMPLETED" => r \in paid)
  BY DEF IInv, RowsKnown
<1>3. links' = links \union tx[p].adds
  BY DEF Commit
<1>4. Unsettled(r)' => Unsettled(r) /\ r \notin DOMAIN tx[p].after
  <2>1. r \in DOMAIN tx[p].after => \E l \in tx[p].adds : l.source = r
    BY CommitRow
  <2> QED BY <1>3, <2>1 DEF Unsettled
<1>5. CASE r \in DOMAIN tx[p].new
  <2>1. remit'[r].amount \in Amounts /\ remit'[r].from # remit'[r].to
    BY <1>5, CommitRow, CommitKnown DEF RowKnown, SameRemit
  <2>2. CASE tx[p].call = "create"
    <3>1. (r \in paid') = FALSE
      BY <1>5, <2>2, CommitStory
    <3> QED BY <1>5, <2>1, <2>2, <3>1, CommitStory
  <2>3. CASE tx[p].call = "group"
    BY <1>5, <2>1, <2>3, CommitStory
  <2>4. CASE tx[p].call = "approve"
    BY <1>5, <2>1, <2>4, CommitStory
  <2>5. CASE tx[p].call \in {"reject", "cancel"}
    <3>1. (r \in paid') = FALSE
      BY <1>5, <2>5, CommitStory
    <3> QED BY <1>5, <2>1, <2>5, <3>1, CommitStory
  <2> QED BY <2>2, <2>3, <2>4, <2>5, CommitKnown DEF Decisions
<1>6. CASE r \notin DOMAIN tx[p].new
  <2>1. hold'[r] = hold[r] /\ limitHold'[r] = limitHold[r] /\ (r \in paid') = (r \in paid)
    BY <1>6, CommitStory
  <2>2. CASE r \in DOMAIN tx[p].after
    <3>1. /\ remit[r].status # "none" /\ SameRemit(remit'[r], remit[r])
          /\ remit'[r].status \in {"PARTIAL", "COMPLETED"}
      BY <2>2, CommitRow
    <3>2. remit'[r].amount \in Amounts /\ remit'[r].from # remit'[r].to
      BY <1>2, <3>1 DEF SameRemit
    <3>3. remit[r].status \in {"PENDING", "CANCELLED", "PARTIAL", "COMPLETED"}
      BY <3>1 DEF IInv, TypeOK, Row, RemittanceStatus
    <3>4. <<hold'[r], limitHold'[r], r \in paid'>> = <<hold[r], limitHold[r], r \in paid>>
      BY <2>1
    <3>5. <<hold[r], limitHold[r], r \in paid>> \in
             {<<"RESERVED", "RESERVED", FALSE>>, <<"RELEASED", "RELEASED", FALSE>>,
              <<"CONSUMED", "CONSUMED", TRUE>>, <<"none", "none", TRUE>>}
      BY <1>2, <3>3
    <3> QED BY <1>4, <2>2, <3>1, <3>2, <3>4, <3>5
  <2>3. CASE r \notin DOMAIN tx[p].after
    <3>1. remit'[r] = remit[r]
      BY <1>6, <2>3, CommitRow
    <3>2. <<hold'[r], limitHold'[r], r \in paid'>> = <<hold[r], limitHold[r], r \in paid>>
      BY <2>1
    <3>3. Unsettled(r)' => remit'[r].status # "PARTIAL" /\ (remit'[r].status = "COMPLETED" => r \in paid')
      BY <1>2, <1>4, <2>1, <3>1
    <3> QED BY <1>2, <3>1, <3>2, <3>3
  <2> QED BY <2>2, <2>3
<1> QED BY <1>5, <1>6

LEMMA CommitLinks ==
  ASSUME ConstantsAssumption, IInv, NEW p \in Procs, Commit(p)
  PROVE  LinksKnown' /\ LegsCoverLinks'
<1>1. links' = links \union tx[p].adds /\ paid \subseteq paid'
  BY DEF Commit
<1>2. \A l \in links \union tx[p].adds : l.source \in Remits /\ l.leg \in Remits
  BY CommitKnown, CallFields DEF IInv, TypeOK, Link
<1>3. LinksKnown'
  <2>1. ASSUME NEW l \in links PROVE l.leg \in paid' /\ remit'[l.source].status # "none"
    BY <1>1, <1>2, CommitKeepsRow DEF IInv, LinksKnown
  <2>2. ASSUME NEW l \in tx[p].adds PROVE l.leg \in paid' /\ remit'[l.source].status # "none"
    <3>1. l.leg \in DOMAIN tx[p].new /\ remit[l.source].status # "none" /\ tx[p].call = "group"
      BY CommitKnown DEF AddsKnown
    <3>2. remit'[l.source].status # "none"
      BY <1>2, <3>1, CommitKeepsRow
    <3>3. l.leg \in paid'
      BY <1>2, <3>1, CommitStory
    <3> QED BY <3>2, <3>3
  <2> QED BY <1>1, <2>1, <2>2 DEF LinksKnown
<1>4. ASSUME NEW r \in Remits, Allocated(links', r) > 0
      PROVE  r \in paid' /\ Allocated(links', r) <= remit'[r].amount
  <2>1. CASE r \in DOMAIN tx[p].new /\ tx[p].call = "group"
    <3>1. r \in paid' /\ remit'[r].amount = tx[p].new[r].amount
      BY <2>1, CommitStory, CommitRow DEF SameRemit
    <3>2. r \notin paid
      <4>1. remit[r].status = "none"
        BY <2>1, CommitKnown DEF RowKnown
      <4> QED BY <4>1 DEF IInv, RowsKnown
    <3>3. {k \in links' : k.leg = r} = {k \in tx[p].adds : k.leg = r}
      BY <1>1, <3>2 DEF IInv, LinksKnown
    <3>4. Allocated(links', r) = Allocated(tx[p].adds, r)
      BY <3>3 DEF Allocated
    <3>5. Allocated(tx[p].adds, r) <= tx[p].new[r].amount
      BY <2>1, CommitKnown DEF AddsKnown
    <3> QED BY <3>1, <3>4, <3>5
  <2>2. CASE ~(r \in DOMAIN tx[p].new /\ tx[p].call = "group")
    <3>1. \A k \in tx[p].adds : k.leg # r
      BY <2>2, CommitKnown DEF AddsKnown
    <3>2. {k \in links' : k.leg = r} = {k \in links : k.leg = r}
      BY <1>1, <3>1
    <3>3. Allocated(links', r) = Allocated(links, r)
      BY <3>2 DEF Allocated
    <3>4. r \in paid /\ Allocated(links, r) <= remit[r].amount
      BY <1>4, <3>3 DEF IInv, LegsCoverLinks
    <3>5. remit[r].status # "none"
      BY <3>4 DEF IInv, RowsKnown
    <3>6. remit'[r].amount = remit[r].amount
      BY <3>5, CommitKeepsRow DEF SameRemit
    <3> QED BY <1>1, <3>3, <3>4, <3>6
  <2> QED BY <2>1, <2>2
<1> QED BY <1>3, <1>4 DEF LegsCoverLinks

\* What the accounts become.
LEMMA CommitAccount ==
  ASSUME ConstantsAssumption, IInv, NEW p \in Procs, Commit(p), NEW u \in Users, u \in LockedAccounts(tx[p])
  PROVE  /\ account'[u] = tx[p].rows[u] /\ AccountLock(u) \in held[p]
<1>1. AccountLock(u) \in held[p]
  BY CommitKnown DEF LocksKnown, Unlocked
<1> QED BY <1>1, CommitKeepsLocked

LEMMA CommitNoOverdraft ==
  ASSUME ConstantsAssumption, IInv, NEW p \in Procs, Commit(p)
  PROVE  NoOverdraft'
<1>1. SUFFICES ASSUME NEW u \in Users PROVE UsableCapacity(account'[u]) >= 0
  BY DEF NoOverdraft, UsableCapacity
<1>2. UsableCapacity(account[u]) >= 0 /\ account[u] \in Account
  BY DEF IInv, NoOverdraft, TypeOK
<1>3. CASE AccountLock(u) \notin held[p]
  BY <1>2, <1>3, CommitKeepsLocked
<1>4. CASE AccountLock(u) \in held[p]
  <2>1. u \in LockedAccounts(tx[p]) /\ account'[u] = tx[p].rows[u]
    BY <1>4, CommitKnown, CommitKeepsLocked DEF LocksKnown, Unlocked
  <2>2. \A r \in DOMAIN tx[p].new : tx[p].new[r].amount \in Nat
    BY CommitKnown, AmountTypes DEF RowKnown
  <2>3. tx[p].pc = "commit"
    BY CommitKnown
  <2>4. CASE tx[p].call = "group"
    <3>1. /\ tx[p].rows[u] = Apply(account[u], LegsGain(tx[p].new, u))
          /\ CanApply(account[u], LegsGain(tx[p].new, u)) \/ LegsGain(tx[p].new, u) >= 0
      BY <2>1, <2>3, <2>4, CommitKnown DEF GroupKnown, HasApplied
    <3>2. LegsGain(tx[p].new, u) \in Int
      <4> DEFINE S == DOMAIN tx[p].new
                 g == [r \in S |-> Gain(tx[p].new[r], u)]
      <4>1. \A r \in S : Gain(tx[p].new[r], u) \in Int
        BY <2>2 DEF Gain
      <4>2. g \in [S -> Int] /\ IsFiniteSet(S)
        BY <4>1, CommitKnown, CallFields, FS_Subset DEF ConstantsAssumption, RemitsAssumption
      <4> QED BY <4>2, SumInt DEF LegsGain
    <3> QED BY <1>2, <2>1, <3>1, <3>2, LedgerFacts
  <2>5. CASE tx[p].call = "create"
    <3>1. PICK r \in DOMAIN tx[p].new : tx[p].new[r].from = u
      BY <2>1, <2>3, <2>5 DEF LockedAccounts, Commits, Approving, HasApplied, HasRead, Senders
    <3>2. CanReserve(account[u], tx[p].new[r].amount) /\ tx[p].rows[u] = Reserve(account[u], tx[p].new[r].amount)
      BY <2>3, <2>5, <3>1, CommitKnown DEF FundsKnown, Commits
    <3> QED BY <1>2, <2>1, <2>2, <3>2, LedgerFacts
  <2>6. CASE tx[p].call \in {"reject", "cancel"}
    <3>1. PICK r \in DOMAIN tx[p].new : tx[p].new[r].from = u
      BY <2>1, <2>3, <2>6 DEF LockedAccounts, Commits, Approving, HasApplied, HasRead, Senders
    <3>2. tx[p].rows[u] = Unblock(account[u], tx[p].new[r].amount)
      BY <2>3, <2>6, <3>1, CommitKnown DEF FundsKnown, Commits
    <3> QED BY <1>2, <2>1, <2>2, <3>2, LedgerFacts
  <2>7. CASE tx[p].call = "approve"
    <3>1. LockedAccounts(tx[p]) = Senders(tx[p]) \union Receivers(tx[p])
      BY <2>3, <2>7 DEF LockedAccounts, Commits, Approving, HasApplied, HasRead
    <3>2. CASE u \in Senders(tx[p])
      <4>1. PICK r \in DOMAIN tx[p].new : tx[p].new[r].from = u
        BY <3>2 DEF Senders
      <4>2. tx[p].rows[u] = Apply(Unblock(account[u], tx[p].new[r].amount), -tx[p].new[r].amount)
        BY <2>3, <2>7, <4>1, CommitKnown DEF FundsKnown, Commits
      <4> QED BY <1>2, <2>1, <2>2, <4>2, PaidFacts
    <3>3. CASE u \in Receivers(tx[p])
      <4>1. PICK r \in DOMAIN tx[p].new : tx[p].new[r].to = u
        BY <3>3 DEF Receivers
      <4>2. tx[p].rows[u] = Apply(account[u], tx[p].new[r].amount)
        BY <2>3, <2>7, <4>1, CommitKnown DEF FundsKnown, Commits
      <4> QED BY <1>2, <2>1, <2>2, <4>2, LedgerFacts
    <3> QED BY <2>1, <3>1, <3>2, <3>3
  <2> QED BY <2>4, <2>5, <2>6, <2>7, CommitKnown DEF Decisions
<1> QED BY <1>3, <1>4

LEMMA CommitOneRemittance ==
  ASSUME ConstantsAssumption, IInv, NEW p \in Procs, Commit(p)
  PROVE  OneRemittancePerKey'
<1>1. SUFFICES ASSUME NEW r \in Remits, NEW s \in Remits, r # s, remit'[r].key = remit'[s].key, remit'[r].from = remit'[s].from,
                      remit'[r].key # NoKey
               PROVE  FALSE
  BY DEF OneRemittancePerKey
<1> DEFINE Same(x) == remit'[x].key = remit[x].key /\ remit'[x].from = remit[x].from
<1>2. ASSUME NEW x \in Remits, ~Same(x), remit'[x].key # NoKey
      PROVE  /\ DOMAIN tx[p].new = {x} /\ tx[p].call = "create"
             /\ remit'[x].key = tx[p].new[x].key /\ remit'[x].from = tx[p].new[x].from
  <2>1. x \in DOMAIN tx[p].new /\ remit'[x].key = tx[p].new[x].key /\ remit'[x].from = tx[p].new[x].from
    BY <1>2, CommitRow DEF SameRemit
  <2>2. tx[p].call \notin Decisions
    <3>1. ASSUME tx[p].call \in Decisions PROVE tx[p].new[x] = remit[x]
      BY <2>1, <3>1, CommitKnown DEF RowKnown
    <3> QED BY <1>2, <2>1, <3>1
  <2>3. tx[p].call # "group"
    BY <1>2, <2>1, CommitKnown DEF RowKnown
  <2>4. tx[p].call = "create"
    BY <2>2, <2>3, CommitKnown
  <2>5. DOMAIN tx[p].new = {x}
    BY <2>1, <2>4, CommitKnown DEF CallKnown
  <2> QED BY <2>1, <2>4, <2>5
<1>3. ASSUME NEW x \in Remits, NEW y \in Remits, x # y, ~Same(x), remit'[x].key # NoKey, remit'[x].key = remit'[y].key,
             remit'[x].from = remit'[y].from
      PROVE  FALSE
  <2>1. /\ DOMAIN tx[p].new = {x} /\ tx[p].call = "create"
        /\ remit'[x].key = tx[p].new[x].key /\ remit'[x].from = tx[p].new[x].from
    BY <1>2, <1>3
  <2>2. Same(y)
    BY <1>2, <1>3, <2>1
  <2>3. UsedKey(tx[p].new[x].from, tx[p].new[x].key)
    BY <1>3, <2>1, <2>2 DEF UsedKey
  <2>4. ~UsedKey(tx[p].new[x].from, tx[p].new[x].key)
    BY <2>1, CommitKnown DEF KeyKnown
  <2> QED BY <2>3, <2>4
<1>4. CASE Same(r) /\ Same(s)
  BY <1>1, <1>4 DEF IInv, OneRemittancePerKey
<1> HIDE DEF Same
<1> QED BY <1>1, <1>3, <1>4

LEMMA CommitKeeps ==
  ASSUME ConstantsAssumption, IInv, NEW p \in Procs, Commit(p)
  PROVE  IInv'
<1>1. PICK t : /\ tx' = [tx EXCEPT ![p] = t] /\ held' = [held EXCEPT ![p] = {}]
               /\ ~Inserts(t)
               /\ \/ t = Idle
                  \/ IsCall(t) /\ t.pc = "enqueue" /\ Known(t, {})
  BY TailKnown
<1>2. \A q \in Procs : /\ tx'[q] = IF q = p THEN t ELSE tx[q]
                       /\ held'[q] = IF q = p THEN {} ELSE held[q]
  BY <1>1 DEF IInv, TypeOK
<1>3. TypeOK'
  <2>1. held' \in [Procs -> SUBSET Locks] /\ DOMAIN tx' = Procs
    BY <1>1 DEF IInv, TypeOK
  <2>2. \A q \in Procs : tx'[q] = Idle \/ IsCall(tx'[q])
    BY <1>1, <1>2 DEF IInv, TypeOK
  <2> QED BY <2>1, <2>2, CommitTypes DEF TypeOK, IsCall
<1>4. LocksExclusive'
  <2>1. \A q, o \in Procs : q # o => held'[q] \intersect held'[o] = {}
    BY <1>2 DEF IInv, LocksExclusive
  <2>2. \A q \in Procs : tx'[q].pc \in Unlocked => held'[q] = {}
    BY <1>2 DEF IInv, LocksExclusive
  <2> QED BY <2>1, <2>2 DEF LocksExclusive
<1>5. OneInserter'
  <2>1. ASSUME NEW q \in Procs, NEW o \in Procs, q # o, Inserts(tx'[q]), Inserts(tx'[o])
        PROVE  DOMAIN tx'[q].new \intersect DOMAIN tx'[o].new = {}
    <3>1. q # p /\ o # p
      BY <1>1, <1>2, <2>1
    <3> QED BY <1>2, <2>1, <3>1 DEF IInv, OneInserter
  <2> QED BY <2>1 DEF OneInserter, Inserts
<1>6. ASSUME NEW u, NEW L, IsCall(u), Known(u, L), L \intersect held[p] = {},
             Inserts(u) /\ Inserts(tx[p]) => DOMAIN u.new \intersect DOMAIN tx[p].new = {}
      PROVE  Known(u, L)'
  BY <1>6, KnownStays
<1>7. ASSUME NEW q \in Procs, tx'[q].pc # "idle" PROVE Known(tx[q], held[q])'
  <2>1. CASE q = p
    <3>1. IsCall(t) /\ Known(t, {})
      BY <1>1, <1>2, <1>7, <2>1 DEF Idle
    <3> QED BY <1>1, <1>2, <1>6, <2>1, <3>1
  <2>2. CASE q # p
    <3>1. IsCall(tx[q]) /\ Known(tx[q], held[q])
      BY <1>2, <1>7, <2>2 DEF IInv, TypeOK, Idle
    <3>2. held[q] \intersect held[p] = {}
      BY <2>2 DEF IInv, LocksExclusive
    <3>3. Inserts(tx[q]) /\ Inserts(tx[p]) => DOMAIN tx[q].new \intersect DOMAIN tx[p].new = {}
      BY <2>2 DEF IInv, OneInserter
    <3> QED BY <1>2, <1>6, <2>2, <3>1, <3>2, <3>3
  <2> QED BY <2>1, <2>2
<1> QED BY <1>3, <1>4, <1>5, <1>7, CommitRowsKnown, CommitLinks, CommitNoOverdraft, CommitOneRemittance DEF IInv

LEMMA EnqueueKeeps ==
  ASSUME ConstantsAssumption, IInv, NEW p \in Procs, Enqueue(p)
  PROVE  IInv'
<1>1. tx[p].pc = "enqueue" /\ tx[p].pc # "idle" /\ tx[p].pc \in Unlocked /\ held[p] = {}
  BY DEF Enqueue, At, IInv, LocksExclusive, Unlocked
<1>2. /\ IsCall(tx[p]) /\ CallKnown(tx[p]) /\ AddsKnown(tx[p])
  BY <1>1, RunningKnown
<1>3. PICK r \in tx[p].toLock :
        /\ queued' = queued \union {r}
        /\ IF tx[p].toLock = {r} THEN Finish(p) ELSE Go(p, [tx[p] EXCEPT !.toLock = @ \ {r}])
        /\ UNCHANGED <<remit, hold, limitHold, account, usage, paid, links>>
  BY DEF Enqueue
<1> DEFINE t == [tx[p] EXCEPT !.toLock = @ \ {r}]
<1>4. r \in Remits
  BY <1>1, <1>2 DEF CallKnown
<1>5. queued' \in SUBSET Remits
  BY <1>3, <1>4 DEF IInv, TypeOK
<1>6. /\ t \in CallOn(DOMAIN tx[p].new, DOMAIN tx[p].after) /\ t.pc = "enqueue" /\ t.call = tx[p].call
      /\ t.new = tx[p].new /\ t.adds = tx[p].adds /\ t.after = tx[p].after /\ t.toLock = tx[p].toLock \ {r}
  BY <1>1, <1>2, CallFields DEF CallOn
<1> HIDE DEF t
<1>7. IsCall(t)
  BY <1>2, <1>6, CallOnIsCall, CallFields
<1>8. t.pc \in Unlocked /\ ~Inserts(t) /\ t.pc \notin Approving \union {"commit"} /\ t.pc \notin Grouping \union {"commit"} /\ ~HasRead(t)
  BY <1>6 DEF Unlocked, Inserts, Approving, Grouping, HasRead, Commits
<1>9. DOMAIN t.new = {} /\ t.toLock \subseteq Remits /\ t.call = "group" /\ t.adds = {} /\ DOMAIN t.after = {}
  <2>1. DOMAIN tx[p].new = {} /\ tx[p].toLock \subseteq Remits /\ tx[p].call = "group" /\ tx[p].adds = {}
    BY <1>1, <1>2 DEF CallKnown, AddsKnown
  <2>2. DOMAIN tx[p].after = {}
    BY <1>2, <2>1 DEF AddsKnown
  <2> QED BY <1>6, <2>1, <2>2
<1>10. Known(t, {})
  <2>1. CallKnown(t)
    BY <1>6, <1>9 DEF CallKnown, Creating, Deciding, Approving, Grouping, Commits
  <2>2. AddsKnown(t)
    BY <1>8, <1>9, NoAdds
  <2>3. RowKnown(t)
    BY <1>9 DEF RowKnown
  <2> QED BY <1>8, <1>9, <2>1, <2>2, <2>3, NothingDue DEF Known
<1>11. CASE tx[p].toLock = {r}
  <2>1. tx' = [tx EXCEPT ![p] = Idle] /\ held' = [held EXCEPT ![p] = {}] /\ Idle.pc = "idle" /\ ~Inserts(Idle)
    BY <1>3, <1>11 DEF Finish, Leave, Idle, Inserts
  <2>2. UNCHANGED <<remit, hold, limitHold, account, usage, paid, links>> /\ {} \in SUBSET Locks
        /\ \A q \in Procs \ {p} : {} \intersect held[q] = {}
    BY <1>3
  <2> QED BY <1>5, <2>1, <2>2, LocalStep
<1>12. CASE tx[p].toLock # {r}
  <2>1. tx' = [tx EXCEPT ![p] = t] /\ held' = [held EXCEPT ![p] = {}]
    BY <1>1, <1>3, <1>12 DEF Go, t, IInv, TypeOK
  <2>2. UNCHANGED <<remit, hold, limitHold, account, usage, paid, links>> /\ {} \in SUBSET Locks
        /\ \A q \in Procs \ {p} : {} \intersect held[q] = {}
    BY <1>3
  <2> QED BY <1>5, <1>7, <1>8, <1>10, <2>1, <2>2, LocalStep
<1> QED BY <1>11, <1>12

----------------------------------------------------------------------------
(* The invariant of the specification *)

LEMMA InitKnown ==
  ASSUME ConstantsAssumption, Init
  PROVE  IInv
<1>1. /\ remit = [r \in Remits |-> NoRow] /\ hold = [r \in Remits |-> "none"] /\ limitHold = [r \in Remits |-> "none"]
      /\ account = Untouched /\ usage = [u \in Users |-> NoUsage] /\ paid = {} /\ links = {} /\ queued = {}
      /\ held = [p \in Procs |-> {}] /\ tx = [p \in Procs |-> Idle]
  BY DEF Init
<1>2. NoRow \in Row /\ NoRow.status = "none" /\ NoRow.key = NoKey
  BY UntouchedType DEF NoRow, Row, RemittanceStatus
<1>3. TypeOK
  BY <1>1, <1>2, UntouchedType DEF TypeOK, HoldStatus
<1>4. \A p \in Procs : tx[p].pc = "idle" /\ held[p] = {}
  BY <1>1 DEF Idle
<1>5. LocksExclusive /\ OneInserter /\ \A p \in Procs : tx[p].pc # "idle" => Known(tx[p], held[p])
  BY <1>4 DEF LocksExclusive, OneInserter, Inserts
<1>6. RowsKnown
  <2>1. ASSUME NEW r \in Remits
        PROVE  /\ remit[r].status = "none" /\ <<hold[r], limitHold[r], r \in paid>> = <<"none", "none", FALSE>>
    <3>1. (r \in paid) = FALSE
      BY <1>1
    <3> QED BY <1>1, <1>2, <3>1
  <2> QED BY <2>1 DEF RowsKnown
<1>7. LinksKnown
  BY <1>1 DEF LinksKnown
<1>8. LegsCoverLinks
  <2>1. \A r \in Remits : Allocated(links, r) = 0
    BY <1>1, <1>2, NothingAllocated
  <2> QED BY <2>1 DEF LegsCoverLinks
<1>9. NoOverdraft
  <2>1. \A u \in Users : account[u].balance = Opening /\ account[u].blocked = 0
    BY <1>1 DEF Untouched
  <2>2. Opening \in Nat /\ Opening >= MinBalance /\ MinBalance \in Int
    BY MinBalanceAssumption DEF ConstantsAssumption, OpeningAssumption
  <2> QED BY <2>1, <2>2 DEF NoOverdraft, UsableCapacity
<1>10. OneRemittancePerKey
  BY <1>1, <1>2 DEF OneRemittancePerKey
<1> QED BY <1>3, <1>5, <1>6, <1>7, <1>8, <1>9, <1>10 DEF IInv

LEMMA CallKeeps ==
  ASSUME ConstantsAssumption, IInv, NEW p \in Procs, Call(p)
  PROVE  IInv'
<1>1. ASSUME NEW r \in Remits, NEW w \in Routes, NEW n \in Amounts, NEW k \in Keys \union {NoKey},
             BeginCreate(p, r, w[1], w[2], n, k)
      PROVE  IInv'
  <2>1. w[1] \in Users /\ w[2] \in Users
    BY DEF ConstantsAssumption, RoutesAssumption, Users
  <2> QED BY <1>1, <2>1, BeginCreateKeeps
<1>2. ASSUME NEW r \in Remits, NEW c \in {"approve", "reject"}, Begin(p, r, c, remit[r].to)
      PROVE  IInv'
  <2>1. remit[r].to \in Users /\ c \in Decisions
    BY DEF IInv, TypeOK, Row, Decisions
  <2> QED BY <1>2, <2>1, BeginKeeps
<1>3. ASSUME NEW r \in Remits, NEW u \in Users, Begin(p, r, "cancel", u)
      PROVE  IInv'
  <2>1. "cancel" \in Decisions
    BY DEF Decisions
  <2> QED BY <1>3, <2>1, BeginKeeps
<1>4. ASSUME NEW S \in SUBSET Fresh, NEW u \in Users, S # {}, NEW legs \in LegChoices(S, u),
             NEW adds \in SUBSET LinksOf(legs), BeginGroup(p, u, legs, adds)
      PROVE  IInv'
  BY <1>4, BeginGroupKeeps
<1> QED BY <1>1, <1>2, <1>3, <1>4 DEF Call

LEMMA NextKeeps ==
  ASSUME ConstantsAssumption, IInv, [Next]_vars
  PROVE  IInv'
<1>1. CASE UNCHANGED vars
  <2>1. IInv' <=> IInv
    <3>1. \A t, L : Known(t, L)' <=> Known(t, L)
      BY <1>1, SameKnown DEF vars
    <3>2. \A p \in Procs : tx'[p].pc # "idle" => Known(tx[p], held[p])'
      BY <1>1, <3>1 DEF vars, IInv
    <3>3. TypeOK' /\ LocksExclusive' /\ OneInserter' /\ RowsKnown' /\ LinksKnown'
      BY <1>1 DEF vars, IInv, TypeOK, IsCall, LocksExclusive, OneInserter, Inserts, RowsKnown, LinksKnown, Unsettled
    <3>4. LegsCoverLinks' /\ NoOverdraft' /\ OneRemittancePerKey'
      BY <1>1 DEF vars, IInv, LegsCoverLinks, Allocated, NoOverdraft, OneRemittancePerKey
    <3> QED BY <3>2, <3>3, <3>4 DEF IInv
  <2> QED BY <2>1
<1>2. ASSUME NEW p \in Procs, Call(p) PROVE IInv'
  BY <1>2, CallKeeps
<1>3. ASSUME NEW p \in Procs, Proceed(p) PROVE IInv'
  BY <1>3, InsertRemittanceKeeps, ReserveLimitKeeps, ReserveFundsKeeps, LockRemittanceKeeps, ReleaseLimitKeeps, UnblockFundsKeeps,
     ReceiveKeeps, ConsumeLimitKeeps, CheckFundsKeeps, LockAccountsKeeps, ApplyLegsKeeps, ReadSourcesKeeps, LockSourcesKeeps,
     CommitKeeps, EnqueueKeeps DEF Proceed
<1>4. ASSUME NEW p \in Procs, Abort(p) \/ CrashInTail(p) PROVE IInv'
  BY <1>4, EndKeeps DEF Abort, CrashInTail
<1> QED BY <1>1, <1>2, <1>3, <1>4 DEF Next

\* The inductive invariant holds for any users, remittances, keys, amounts,
\* parts of settlements, policy and minimum balance.
THEOREM Invariant == ConstantsAssumption => (Spec => []IInv)
<1> SUFFICES ASSUME ConstantsAssumption PROVE Spec => []IInv
  OBVIOUS
<1>1. Init => IInv
  BY InitKnown
<1>2. IInv /\ [Next]_vars => IInv'
  BY NextKeeps
<1> QED BY <1>1, <1>2, PTL DEF Spec

\* A group spends nothing that a pending remittance has reserved, though it
\* checks the capacity before it locks the account (NoOverdraft).
THEOREM NoOverdraftSafe == ConstantsAssumption => (Spec => []NoOverdraft)
<1> SUFFICES ASSUME ConstantsAssumption PROVE Spec => []NoOverdraft
  OBVIOUS
<1>1. IInv => NoOverdraft
  BY DEF IInv
<1>2. Spec => []IInv
  BY Invariant
<1> QED BY <1>1, <1>2, PTL

\* Calls of one sender with one idempotency key leave one remittance, however
\* they overlap (OneRemittancePerKey).
THEOREM OneRemittanceSafe == ConstantsAssumption => (Spec => []OneRemittancePerKey)
<1> SUFFICES ASSUME ConstantsAssumption PROVE Spec => []OneRemittancePerKey
  OBVIOUS
<1>1. IInv => OneRemittancePerKey
  BY DEF IInv
<1>2. Spec => []IInv
  BY Invariant
<1> QED BY <1>1, <1>2, PTL

\* A leg never settles more than the money it moved, whatever groups overlap and
\* whichever accounts they share (LegsCoverLinks).
THEOREM LegsCoverSafe == ConstantsAssumption => (Spec => []LegsCoverLinks)
<1> SUFFICES ASSUME ConstantsAssumption PROVE Spec => []LegsCoverLinks
  OBVIOUS
<1>1. IInv => LegsCoverLinks
  BY DEF IInv
<1>2. Spec => []IInv
  BY Invariant
<1> QED BY <1>1, <1>2, PTL

----------------------------------------------------------------------------
(* Decisions, without settlements *)

\* Without settlements, a remittance, its reservations and its entries tell one
\* story, whatever approve, reject and cancelByUser overlap (StatusMatchesHolds).
THEOREM StatusSafe == ConstantsAssumption /\ Parts = {} => (Spec => []StatusMatchesHolds)
<1> SUFFICES ASSUME ConstantsAssumption, Parts = {} PROVE Spec => []StatusMatchesHolds
  OBVIOUS
<1>1. IInv => StatusMatchesHolds
  <2> SUFFICES ASSUME IInv, NEW r \in Remits
               PROVE  LET story == <<hold[r], limitHold[r], r \in paid>> IN
                      CASE remit[r].status = "none" -> story = <<"none", "none", FALSE>>
                        [] remit[r].status = "PENDING" -> story = <<"RESERVED", "RESERVED", FALSE>>
                        [] remit[r].status = "COMPLETED" -> story \in {<<"CONSUMED", "CONSUMED", TRUE>>, <<"none", "none", TRUE>>}
                        [] remit[r].status = "CANCELLED" -> story = <<"RELEASED", "RELEASED", FALSE>>
                        [] OTHER -> FALSE
    BY DEF StatusMatchesHolds
  <2>1. Unsettled(r)
    BY DEF IInv, TypeOK, Link, Unsettled
  <2>2. remit[r].status \in RemittanceStatus
    BY DEF IInv, TypeOK, Row
  <2>3. /\ remit[r].status # "PARTIAL" /\ (remit[r].status = "COMPLETED" => r \in paid)
        /\ remit[r].status = "none" => <<hold[r], limitHold[r], r \in paid>> = <<"none", "none", FALSE>>
        /\ remit[r].status = "PENDING" => <<hold[r], limitHold[r], r \in paid>> = <<"RESERVED", "RESERVED", FALSE>>
        /\ remit[r].status = "CANCELLED" => <<hold[r], limitHold[r], r \in paid>> = <<"RELEASED", "RELEASED", FALSE>>
        /\ remit[r].status = "COMPLETED" =>
             <<hold[r], limitHold[r], r \in paid>> \in
               {<<"RESERVED", "RESERVED", FALSE>>, <<"RELEASED", "RELEASED", FALSE>>,
                <<"CONSUMED", "CONSUMED", TRUE>>, <<"none", "none", TRUE>>}
    BY <2>1 DEF IInv, RowsKnown
  <2>4. remit[r].status = "COMPLETED" =>
          <<hold[r], limitHold[r], r \in paid>> \in {<<"CONSUMED", "CONSUMED", TRUE>>, <<"none", "none", TRUE>>}
    BY <2>3
  <2> QED BY <2>2, <2>3, <2>4 DEF RemittanceStatus
<1>2. Spec => []IInv
  BY Invariant
<1> QED BY <1>1, <1>2, PTL

\* The rows of the tables change with a commit alone.
LEMMA OnlyCommits ==
  ASSUME NEW p \in Procs, Call(p) \/ Proceed(p) \/ Abort(p) \/ CrashInTail(p), ~Commit(p)
  PROVE  UNCHANGED <<remit, hold, limitHold, account, usage, paid, links>>
<1>1. CASE Call(p)
  BY <1>1 DEF Call, BeginCreate, Begin, BeginGroup, Step, data
<1>2. CASE Enqueue(p)
  BY <1>2 DEF Enqueue
<1>3. CASE InsertRemittance(p) \/ ReserveLimit(p) \/ ReserveFunds(p) \/ LockRemittance(p) \/ ReleaseLimit(p)
  BY <1>3 DEF InsertRemittance, ReserveLimit, ReserveFunds, LockRemittance, ReleaseLimit, End, Step, LockStep, data
<1>4. CASE UnblockFunds(p) \/ Receive(p) \/ ConsumeLimit(p)
  BY <1>4 DEF UnblockFunds, Receive, ConsumeLimit, End, LockStep, data
<1>5. CASE CheckFunds(p) \/ LockAccounts(p) \/ ApplyLegs(p) \/ ReadSources(p) \/ LockSources(p)
  BY <1>5 DEF CheckFunds, LockAccounts, ApplyLegs, ReadSources, LockSources, End, Step, LockStep, data
<1>6. CASE Abort(p) \/ CrashInTail(p)
  BY <1>6 DEF Abort, CrashInTail, End, data
<1> QED BY <1>1, <1>2, <1>3, <1>4, <1>5, <1>6 DEF Proceed

\* Without settlements a decision is final, also for the calls that were running
\* when it was made (KeepsDecisions).
THEOREM DecisionsStay == ConstantsAssumption /\ Parts = {} => (Spec => [][KeepsDecisions]_vars)
<1> SUFFICES ASSUME ConstantsAssumption, Parts = {} PROVE Spec => [][KeepsDecisions]_vars
  OBVIOUS
<1>1. IInv /\ [Next]_vars => [KeepsDecisions]_vars
  <2> SUFFICES ASSUME IInv, NEW p \in Procs, Call(p) \/ Proceed(p) \/ Abort(p) \/ CrashInTail(p),
                      NEW r \in Remits, remit[r].status \in {"COMPLETED", "CANCELLED"}
               PROVE  remit'[r] = remit[r]
    BY DEF Next, KeepsDecisions
  <2>1. CASE ~Commit(p)
    BY <2>1, OnlyCommits
  <2>2. CASE Commit(p)
    <3>1. r \notin DOMAIN tx[p].new
      <4>1. Inserts(tx[p]) \/ Decides(tx[p])
        BY <2>2, CommitKnown
      <4> QED BY <2>2, <4>1, CommitKnown DEF RowKnown
    <3>2. r \notin DOMAIN tx[p].after
      <4>1. tx[p].adds = {}
        BY <2>2, CommitKnown, CallFields DEF Link
      <4> QED BY <2>2, <4>1, CommitRow
    <3> QED BY <2>2, <3>1, <3>2, CommitRow
  <2> QED BY <2>1, <2>2
<1>2. Spec => []IInv
  BY Invariant
<1> QED BY <1>1, <1>2, PTL DEF Spec

----------------------------------------------------------------------------
(* Accounts and usage follow the remittances *)

PaidTo(u) == [r \in Remits |-> IF r \in paid THEN Gain(remit[r], u) ELSE 0]
BlockedBy(u) == [r \in Remits |-> Blocks(r, u)]
CountedFor(u, st) == [r \in Remits |-> Counts(r, u, st)]
AmountIf(row, u) == IF row.from = u THEN row.amount ELSE 0

LEMMA SumOne ==
  ASSUME NEW x, NEW f \in [{x} -> Int]
  PROVE  SumFunction(f) = f[x]
<1> DEFINE z == [y \in {x} |-> 0]
<1>1. z \in [{x} -> {0}]
  OBVIOUS
<1>2. z \in [{x} -> Int] /\ z[x] = 0 /\ x \in {x} /\ \A y \in {x} \ {x} : f[y] = z[y]
  OBVIOUS
<1>3. IsFiniteSet({x})
  BY FS_Singleton
<1> HIDE DEF z
<1>4. SumFunction(f) = SumFunction(z) + f[x] - z[x]
  BY <1>2, <1>3, SumChange
<1>5. SumFunction(z) = 0
  BY <1>1, <1>3, SumZero
<1>6. f[x] \in Int
  OBVIOUS
<1> QED BY <1>2, <1>4, <1>5, <1>6

LEMMA TermTypes ==
  ASSUME ConstantsAssumption, NEW row \in Row, NEW u
  PROVE  Gain(row, u) \in Int /\ AmountIf(row, u) \in Int
<1>1. row.amount \in Nat
  BY RowTypes
<1> QED BY <1>1 DEF Gain, AmountIf

LEMMA TermsAre ==
  ASSUME ConstantsAssumption, IInv, NEW u, NEW st
  PROVE  /\ PaidTo(u) \in [Remits -> Int] /\ BlockedBy(u) \in [Remits -> Int] /\ CountedFor(u, st) \in [Remits -> Int]
         /\ \A r \in Remits : /\ PaidTo(u)[r] = IF r \in paid THEN Gain(remit[r], u) ELSE 0
                              /\ BlockedBy(u)[r] = IF hold[r] = "RESERVED" THEN AmountIf(remit[r], u) ELSE 0
                              /\ CountedFor(u, st)[r] = IF limitHold[r] = st THEN AmountIf(remit[r], u) ELSE 0
<1>1. \A r \in Remits : remit[r] \in Row
  BY DEF IInv, TypeOK
<1>2. \A r \in Remits : Gain(remit[r], u) \in Int /\ AmountIf(remit[r], u) \in Int
  BY <1>1, TermTypes
<1>3. \A r \in Remits : /\ Blocks(r, u) = IF hold[r] = "RESERVED" THEN AmountIf(remit[r], u) ELSE 0
                        /\ Counts(r, u, st) = IF limitHold[r] = st THEN AmountIf(remit[r], u) ELSE 0
  BY DEF Blocks, Counts, AmountIf
<1> QED BY <1>2, <1>3 DEF PaidTo, BlockedBy, CountedFor

LEMMA NewTermsAre ==
  ASSUME ConstantsAssumption, IInv, NEW p \in Procs, Commit(p), NEW u, NEW st
  PROVE  /\ PaidTo(u)' \in [Remits -> Int] /\ BlockedBy(u)' \in [Remits -> Int] /\ CountedFor(u, st)' \in [Remits -> Int]
         /\ \A r \in Remits : /\ PaidTo(u)'[r] = IF r \in paid' THEN Gain(remit'[r], u) ELSE 0
                              /\ BlockedBy(u)'[r] = IF hold'[r] = "RESERVED" THEN AmountIf(remit'[r], u) ELSE 0
                              /\ CountedFor(u, st)'[r] = IF limitHold'[r] = st THEN AmountIf(remit'[r], u) ELSE 0
<1>1. \A r \in Remits : remit'[r] \in Row
  BY CommitTypes
<1>2. \A r \in Remits : Gain(remit'[r], u) \in Int /\ AmountIf(remit'[r], u) \in Int
  BY <1>1, TermTypes
<1>3. \A r \in Remits : /\ Blocks(r, u)' = IF hold'[r] = "RESERVED" THEN AmountIf(remit'[r], u) ELSE 0
                        /\ Counts(r, u, st)' = IF limitHold'[r] = st THEN AmountIf(remit'[r], u) ELSE 0
  BY DEF Blocks, Counts, AmountIf
<1> QED BY <1>2, <1>3 DEF PaidTo, BlockedBy, CountedFor, Gain

\* The terms of one row before and after a commit.
LEMMA TermsOf ==
  ASSUME ConstantsAssumption, IInv, NEW p \in Procs, Commit(p), NEW u, NEW r \in Remits
  PROVE  /\ PaidTo(u)[r] = IF r \in paid THEN Gain(remit[r], u) ELSE 0
         /\ PaidTo(u)'[r] = IF r \in paid' THEN Gain(remit'[r], u) ELSE 0
         /\ BlockedBy(u)[r] = IF hold[r] = "RESERVED" THEN AmountIf(remit[r], u) ELSE 0
         /\ BlockedBy(u)'[r] = IF hold'[r] = "RESERVED" THEN AmountIf(remit'[r], u) ELSE 0
         /\ CountedFor(u, "RESERVED")[r] = IF limitHold[r] = "RESERVED" THEN AmountIf(remit[r], u) ELSE 0
         /\ CountedFor(u, "RESERVED")'[r] = IF limitHold'[r] = "RESERVED" THEN AmountIf(remit'[r], u) ELSE 0
         /\ CountedFor(u, "CONSUMED")[r] = IF limitHold[r] = "CONSUMED" THEN AmountIf(remit[r], u) ELSE 0
         /\ CountedFor(u, "CONSUMED")'[r] = IF limitHold'[r] = "CONSUMED" THEN AmountIf(remit'[r], u) ELSE 0
<1>1. /\ PaidTo(u)[r] = IF r \in paid THEN Gain(remit[r], u) ELSE 0
      /\ BlockedBy(u)[r] = IF hold[r] = "RESERVED" THEN AmountIf(remit[r], u) ELSE 0
  BY TermsAre
<1>2. /\ PaidTo(u)'[r] = IF r \in paid' THEN Gain(remit'[r], u) ELSE 0
      /\ BlockedBy(u)'[r] = IF hold'[r] = "RESERVED" THEN AmountIf(remit'[r], u) ELSE 0
  BY NewTermsAre
<1>3. CountedFor(u, "RESERVED")[r] = IF limitHold[r] = "RESERVED" THEN AmountIf(remit[r], u) ELSE 0
  BY TermsAre
<1>4. CountedFor(u, "CONSUMED")[r] = IF limitHold[r] = "CONSUMED" THEN AmountIf(remit[r], u) ELSE 0
  BY TermsAre
<1>5. CountedFor(u, "RESERVED")'[r] = IF limitHold'[r] = "RESERVED" THEN AmountIf(remit'[r], u) ELSE 0
  BY NewTermsAre
<1>6. CountedFor(u, "CONSUMED")'[r] = IF limitHold'[r] = "CONSUMED" THEN AmountIf(remit'[r], u) ELSE 0
  BY NewTermsAre
<1> QED BY <1>1, <1>2, <1>3, <1>4, <1>5, <1>6

\* Those of the rows that p does not insert or decide stay.
LEMMA OtherTerms ==
  ASSUME ConstantsAssumption, IInv, NEW p \in Procs, Commit(p), NEW u, NEW r \in Remits, r \notin DOMAIN tx[p].new
  PROVE  /\ PaidTo(u)'[r] = PaidTo(u)[r] /\ BlockedBy(u)'[r] = BlockedBy(u)[r]
         /\ CountedFor(u, "RESERVED")'[r] = CountedFor(u, "RESERVED")[r]
         /\ CountedFor(u, "CONSUMED")'[r] = CountedFor(u, "CONSUMED")[r]
<1>1. hold'[r] = hold[r] /\ limitHold'[r] = limitHold[r] /\ (r \in paid' <=> r \in paid)
  BY CommitStory
<1>2. SameRemit(remit'[r], remit[r])
  BY CommitRow DEF SameRemit
<1>3. Gain(remit'[r], u) = Gain(remit[r], u) /\ AmountIf(remit'[r], u) = AmountIf(remit[r], u)
  BY <1>2 DEF SameRemit, Gain, AmountIf
<1> QED BY <1>1, <1>3, TermsOf

\* Those of the rows it does.
LEMMA OwnTerms ==
  ASSUME ConstantsAssumption, IInv, NEW p \in Procs, Commit(p), NEW u, NEW r \in DOMAIN tx[p].new
  PROVE  LET n == AmountIf(tx[p].new[r], u) IN
         /\ PaidTo(u)[r] = 0
         /\ PaidTo(u)'[r] = IF tx[p].call \in {"approve", "group"} THEN Gain(tx[p].new[r], u) ELSE 0
         /\ tx[p].call = "group" => BlockedBy(u)'[r] = 0 /\ BlockedBy(u)[r] = 0
         /\ tx[p].call = "create" => BlockedBy(u)'[r] = n /\ BlockedBy(u)[r] = 0
         /\ tx[p].call \in Decisions => BlockedBy(u)'[r] = 0 /\ BlockedBy(u)[r] = n
         /\ tx[p].call = "group" => CountedFor(u, "RESERVED")'[r] = 0 /\ CountedFor(u, "RESERVED")[r] = 0
         /\ tx[p].call = "create" => CountedFor(u, "RESERVED")'[r] = n /\ CountedFor(u, "RESERVED")[r] = 0
         /\ tx[p].call \in Decisions => CountedFor(u, "RESERVED")'[r] = 0 /\ CountedFor(u, "RESERVED")[r] = n
         /\ CountedFor(u, "CONSUMED")[r] = 0
         /\ CountedFor(u, "CONSUMED")'[r] = IF tx[p].call = "approve" THEN n ELSE 0
<1>1. r \in Remits
  BY CommitKnown, CallFields
<1>2. SameRemit(remit'[r], tx[p].new[r])
  BY <1>1, CommitRow
<1>3. /\ Gain(remit'[r], u) = Gain(tx[p].new[r], u)
      /\ AmountIf(remit'[r], u) = AmountIf(tx[p].new[r], u)
  BY <1>2 DEF SameRemit, Gain, AmountIf
<1>t. /\ PaidTo(u)[r] = IF r \in paid THEN Gain(remit[r], u) ELSE 0
      /\ PaidTo(u)'[r] = IF r \in paid' THEN Gain(tx[p].new[r], u) ELSE 0
      /\ BlockedBy(u)[r] = IF hold[r] = "RESERVED" THEN AmountIf(remit[r], u) ELSE 0
      /\ BlockedBy(u)'[r] = IF hold'[r] = "RESERVED" THEN AmountIf(tx[p].new[r], u) ELSE 0
      /\ CountedFor(u, "RESERVED")[r] = IF limitHold[r] = "RESERVED" THEN AmountIf(remit[r], u) ELSE 0
      /\ CountedFor(u, "RESERVED")'[r] = IF limitHold'[r] = "RESERVED" THEN AmountIf(tx[p].new[r], u) ELSE 0
      /\ CountedFor(u, "CONSUMED")[r] = IF limitHold[r] = "CONSUMED" THEN AmountIf(remit[r], u) ELSE 0
      /\ CountedFor(u, "CONSUMED")'[r] = IF limitHold'[r] = "CONSUMED" THEN AmountIf(tx[p].new[r], u) ELSE 0
  BY <1>1, <1>3, TermsOf
<1>4. CASE tx[p].call \in {"create", "group"}
  <2>1. remit[r].status = "none"
    BY <1>4, CommitKnown DEF RowKnown
  <2>2. hold[r] = "none" /\ limitHold[r] = "none" /\ r \notin paid
    BY <1>1, <2>1 DEF IInv, RowsKnown
  <2>3. CASE tx[p].call = "create"
    <3>1. hold'[r] = "RESERVED" /\ limitHold'[r] = "RESERVED" /\ r \notin paid'
      BY <1>1, <2>3, CommitStory
    <3> QED BY <1>t, <2>2, <2>3, <3>1 DEF Decisions
  <2>4. CASE tx[p].call = "group"
    <3>1. hold'[r] = "none" /\ limitHold'[r] = "none" /\ r \in paid'
      BY <1>1, <2>4, CommitStory
    <3> QED BY <1>t, <2>2, <2>4, <3>1 DEF Decisions
  <2> QED BY <1>4, <2>3, <2>4
<1>5. CASE tx[p].call \in Decisions
  <2>1. remit[r].status = "PENDING" /\ remit[r] = tx[p].new[r]
    BY <1>5, CommitKnown DEF RowKnown
  <2>2. hold[r] = "RESERVED" /\ limitHold[r] = "RESERVED" /\ r \notin paid
    BY <1>1, <2>1 DEF IInv, RowsKnown
  <2>3. CASE tx[p].call = "approve"
    <3>1. hold'[r] = "CONSUMED" /\ limitHold'[r] = "CONSUMED" /\ r \in paid'
      BY <1>1, <2>3, CommitStory
    <3> QED BY <1>t, <2>1, <2>2, <2>3, <3>1
  <2>4. CASE tx[p].call \in {"reject", "cancel"}
    <3>1. hold'[r] = "RELEASED" /\ limitHold'[r] = "RELEASED" /\ r \notin paid'
      BY <1>1, <2>4, CommitStory
    <3> QED BY <1>t, <2>1, <2>2, <2>4, <3>1
  <2> QED BY <1>5, <2>3, <2>4 DEF Decisions
<1> QED BY <1>4, <1>5, CommitKnown

\* The one row of createForUser, approve, reject and cancelByUser.
LEMMA SingleCommit ==
  ASSUME ConstantsAssumption, IInv, NEW p \in Procs, Commit(p), tx[p].call # "group"
  PROVE  \E r \in Remits : /\ DOMAIN tx[p].new = {r} /\ tx[p].new[r] \in Row
                           /\ tx[p].new[r].from # tx[p].new[r].to /\ tx[p].new[r].amount \in Nat
                           /\ tx[p].new[r].from \in Users /\ tx[p].new[r].to \in Users
<1>1. PICK r \in Remits : DOMAIN tx[p].new = {r}
  BY CommitKnown DEF CallKnown
<1>2. tx[p].new[r] \in Row
  BY <1>1, CommitKnown, CallFields
<1>3. tx[p].new[r].from # tx[p].new[r].to
  BY <1>1, CommitKnown DEF RowKnown
<1> QED BY <1>1, <1>2, <1>3, RowTypes

\* What the legs of a commit bring.
LEMMA LegsGainIs ==
  ASSUME ConstantsAssumption, IInv, NEW p \in Procs, Commit(p), NEW u
  PROVE  /\ IsFiniteSet(DOMAIN tx[p].new) /\ DOMAIN tx[p].new \subseteq Remits
         /\ [r \in DOMAIN tx[p].new |-> Gain(tx[p].new[r], u)] \in [DOMAIN tx[p].new -> Int]
         /\ LegsGain(tx[p].new, u) \in Int
         /\ u \notin Senders(tx[p]) \union Receivers(tx[p]) => LegsGain(tx[p].new, u) = 0
         /\ \A r : DOMAIN tx[p].new = {r} => LegsGain(tx[p].new, u) = Gain(tx[p].new[r], u)
<1> DEFINE S == DOMAIN tx[p].new
           g == [r \in S |-> Gain(tx[p].new[r], u)]
<1>1. IsFiniteSet(S) /\ S \subseteq Remits
  BY CommitKnown, CallFields, FS_Subset DEF ConstantsAssumption, RemitsAssumption
<1>2. g \in [S -> Int]
  <2>1. \A r \in S : tx[p].new[r] \in Row
    BY CommitKnown, CallFields
  <2> QED BY <2>1, TermTypes
<1>3. LegsGain(tx[p].new, u) = SumFunction(g)
  BY DEF LegsGain
<1>4. SumFunction(g) \in Int
  BY <1>1, <1>2, SumInt
<1>5. ASSUME u \notin Senders(tx[p]) \union Receivers(tx[p]) PROVE SumFunction(g) = 0
  <2>1. g \in [S -> {0}]
    BY <1>5 DEF Senders, Receivers, Gain
  <2> QED BY <1>1, <2>1, SumZero
<1>6. ASSUME NEW r, S = {r} PROVE SumFunction(g) = Gain(tx[p].new[r], u)
  <2>1. g \in [{r} -> Int] /\ g[r] = Gain(tx[p].new[r], u)
    BY <1>2, <1>6
  <2> QED BY <2>1, SumOne
<1> QED BY <1>1, <1>2, <1>3, <1>4, <1>5, <1>6

\* What a commit pays.
LEMMA PaidChange ==
  ASSUME ConstantsAssumption, IInv, NEW p \in Procs, Commit(p), NEW u \in Users
  PROVE  SumFunction(PaidTo(u)') = SumFunction(PaidTo(u))
           + (IF tx[p].call \in {"approve", "group"} THEN LegsGain(tx[p].new, u) ELSE 0)
<1> DEFINE T == DOMAIN tx[p].new
           f == PaidTo(u)
           h == PaidTo(u)'
           g == [r \in T |-> Gain(tx[p].new[r], u)]
           at == [r \in T |-> r]
<1>1. f \in [Remits -> Int] /\ h \in [Remits -> Int] /\ IsFiniteSet(Remits)
  BY TermsAre, NewTermsAre DEF ConstantsAssumption, RemitsAssumption
<1>2. IsFiniteSet(T) /\ T \subseteq Remits /\ g \in [T -> Int] /\ LegsGain(tx[p].new, u) = SumFunction(g)
  BY LegsGainIs DEF LegsGain
<1>3. \A r \in Remits \ T : h[r] = f[r]
  BY OtherTerms
<1>4. \A r \in T : f[r] = 0 /\ h[r] = IF tx[p].call \in {"approve", "group"} THEN g[r] ELSE 0
  BY OwnTerms
<1>5. at \in [T -> Remits] /\ \A r \in T : at[r] = r
  BY <1>2
<1>6. SumFunction(f) \in Int
  BY <1>1, SumInt
<1>7. CASE tx[p].call \in {"approve", "group"}
  <2> HIDE DEF f, h, g, at, T
  <2>1. \A r \in T : f[r] = 0 /\ h[r] = g[r] /\ g[r] \in Int
    BY <1>2, <1>4, <1>7
  <2>2. /\ \A r, s \in T : at[r] = at[s] => r = s
        /\ \A r \in T : h[at[r]] = f[at[r]] + g[r]
        /\ \A s \in Remits : (\A r \in T : at[r] # s) => h[s] = f[s]
    BY <1>3, <1>5, <2>1
  <2>3. at \in [T -> Remits] /\ g \in [T -> Int] /\ IsFiniteSet(T)
    BY <1>2, <1>5
  <2>4. SumFunction(h) = SumFunction(f) + SumFunction(g)
    BY <1>1, <2>2, <2>3, SumSpread
  <2> QED BY <1>2, <1>7, <2>4 DEF f, h
<1>8. CASE tx[p].call \notin {"approve", "group"}
  <2>1. \A r \in Remits : h[r] = f[r]
    BY <1>3, <1>4, <1>8
  <2> HIDE DEF f, h
  <2>2. h = f
    BY <1>1, <2>1
  <2> QED BY <1>6, <1>8, <2>2 DEF f, h
<1> QED BY <1>7, <1>8

\* What a commit blocks and frees.
LEMMA BlockedChange ==
  ASSUME ConstantsAssumption, IInv, NEW p \in Procs, Commit(p), NEW u \in Users
  PROVE  /\ tx[p].call = "group" => SumFunction(BlockedBy(u)') = SumFunction(BlockedBy(u))
         /\ \A r : DOMAIN tx[p].new = {r} /\ tx[p].call # "group" =>
              SumFunction(BlockedBy(u)') = SumFunction(BlockedBy(u))
                + (IF tx[p].call = "create" THEN AmountIf(tx[p].new[r], u) ELSE -AmountIf(tx[p].new[r], u))
<1> DEFINE T == DOMAIN tx[p].new
           f == BlockedBy(u)
           h == BlockedBy(u)'
<1>1. f \in [Remits -> Int] /\ h \in [Remits -> Int] /\ IsFiniteSet(Remits) /\ T \subseteq Remits
  BY TermsAre, NewTermsAre, LegsGainIs DEF ConstantsAssumption, RemitsAssumption
<1>2. \A r \in Remits \ T : h[r] = f[r]
  BY OtherTerms
<1>3. \A r \in T : /\ tx[p].call = "group" => h[r] = 0 /\ f[r] = 0
                   /\ tx[p].call = "create" => h[r] = AmountIf(tx[p].new[r], u) /\ f[r] = 0
                   /\ tx[p].call \in Decisions => h[r] = 0 /\ f[r] = AmountIf(tx[p].new[r], u)
  BY OwnTerms
<1>4. SumFunction(f) \in Int
  BY <1>1, SumInt
<1>5. tx[p].call # "group" => tx[p].call = "create" \/ (tx[p].call # "create" /\ tx[p].call \in Decisions)
  BY CommitKnown DEF Decisions
<1> HIDE DEF f, h
<1>6. ASSUME tx[p].call = "group" PROVE SumFunction(h) = SumFunction(f)
  <2>1. \A r \in Remits : h[r] = f[r]
    BY <1>2, <1>3, <1>6
  <2> QED BY <1>1, <2>1
<1>7. ASSUME NEW r, T = {r}, tx[p].call # "group"
      PROVE  SumFunction(h) = SumFunction(f)
                + (IF tx[p].call = "create" THEN AmountIf(tx[p].new[r], u) ELSE -AmountIf(tx[p].new[r], u))
  <2>1. r \in Remits /\ r \in T /\ \A s \in Remits \ {r} : h[s] = f[s]
    BY <1>1, <1>2, <1>7
  <2>2. SumFunction(h) = SumFunction(f) + h[r] - f[r]
    BY <1>1, <2>1, SumChange
  <2>3. h[r] \in Int /\ f[r] \in Int
    BY <1>1, <2>1
  <2> HIDE DEF T
  <2>4. CASE tx[p].call = "create"
    BY <1>3, <1>4, <2>1, <2>2, <2>3, <2>4
  <2>5. CASE tx[p].call # "create" /\ tx[p].call \in Decisions
    BY <1>3, <1>4, <2>1, <2>2, <2>3, <2>5
  <2> QED BY <1>5, <1>7, <2>4, <2>5
<1> QED BY <1>6, <1>7 DEF f, h

\* What a commit adds to the usage of u and takes from it.
LEMMA UsageTerms ==
  ASSUME ConstantsAssumption, IInv, NEW p \in Procs, Commit(p), NEW u \in Users
  PROVE  /\ tx[p].call = "group" =>
              /\ SumFunction(CountedFor(u, "RESERVED")') = SumFunction(CountedFor(u, "RESERVED"))
              /\ SumFunction(CountedFor(u, "CONSUMED")') = SumFunction(CountedFor(u, "CONSUMED"))
         /\ \A r : DOMAIN tx[p].new = {r} /\ tx[p].call # "group" =>
              /\ SumFunction(CountedFor(u, "RESERVED")') = SumFunction(CountedFor(u, "RESERVED"))
                   + (IF tx[p].call = "create" THEN AmountIf(tx[p].new[r], u) ELSE -AmountIf(tx[p].new[r], u))
              /\ SumFunction(CountedFor(u, "CONSUMED")') = SumFunction(CountedFor(u, "CONSUMED"))
                   + (IF tx[p].call = "approve" THEN AmountIf(tx[p].new[r], u) ELSE 0)
<1> DEFINE T == DOMAIN tx[p].new
           f == CountedFor(u, "RESERVED")
           h == CountedFor(u, "RESERVED")'
           g == CountedFor(u, "CONSUMED")
           k == CountedFor(u, "CONSUMED")'
<1>1. f \in [Remits -> Int] /\ h \in [Remits -> Int] /\ g \in [Remits -> Int] /\ k \in [Remits -> Int]
  <2>1. f \in [Remits -> Int] /\ g \in [Remits -> Int]
    BY TermsAre
  <2>2. h \in [Remits -> Int]
    BY NewTermsAre
  <2>3. k \in [Remits -> Int]
    BY NewTermsAre
  <2> QED BY <2>1, <2>2, <2>3
<1>2. IsFiniteSet(Remits) /\ T \subseteq Remits
  BY LegsGainIs DEF ConstantsAssumption, RemitsAssumption
<1>3. \A r \in Remits \ T : h[r] = f[r] /\ k[r] = g[r]
  BY OtherTerms
<1>4. \A r \in T : /\ tx[p].call = "group" => h[r] = 0 /\ f[r] = 0
                   /\ tx[p].call = "create" => h[r] = AmountIf(tx[p].new[r], u) /\ f[r] = 0
                   /\ tx[p].call \in Decisions => h[r] = 0 /\ f[r] = AmountIf(tx[p].new[r], u)
                   /\ g[r] = 0 /\ k[r] = IF tx[p].call = "approve" THEN AmountIf(tx[p].new[r], u) ELSE 0
  BY OwnTerms
<1>5. SumFunction(f) \in Int /\ SumFunction(g) \in Int
  BY <1>1, <1>2, SumInt
<1>6. tx[p].call # "group" => tx[p].call = "create" \/ (tx[p].call # "create" /\ tx[p].call \in Decisions)
  BY CommitKnown DEF Decisions
<1> HIDE DEF f, h, g, k
<1>7. ASSUME tx[p].call = "group" PROVE SumFunction(h) = SumFunction(f) /\ SumFunction(k) = SumFunction(g)
  <2>1. \A r \in Remits : h[r] = f[r] /\ k[r] = g[r]
    BY <1>3, <1>4, <1>7
  <2>2. h = f
    BY <1>1, <2>1
  <2>3. k = g
    BY <1>1, <2>1
  <2> QED BY <2>2, <2>3
<1>8. ASSUME NEW r, T = {r}, tx[p].call # "group"
      PROVE  /\ SumFunction(h) = SumFunction(f)
                  + (IF tx[p].call = "create" THEN AmountIf(tx[p].new[r], u) ELSE -AmountIf(tx[p].new[r], u))
             /\ SumFunction(k) = SumFunction(g) + (IF tx[p].call = "approve" THEN AmountIf(tx[p].new[r], u) ELSE 0)
  <2>1. r \in Remits /\ r \in T /\ (\A s \in Remits \ {r} : h[s] = f[s]) /\ (\A s \in Remits \ {r} : k[s] = g[s])
    BY <1>2, <1>3, <1>8
  <2>2. SumFunction(h) = SumFunction(f) + h[r] - f[r]
    BY <1>1, <1>2, <2>1, SumChange
  <2>3. SumFunction(k) = SumFunction(g) + k[r] - g[r]
    BY <1>1, <1>2, <2>1, SumChange
  <2>4. h[r] \in Int /\ f[r] \in Int /\ k[r] \in Int
    BY <1>1, <2>1
  <2> HIDE DEF T
  <2>5. SumFunction(k) = SumFunction(g) + (IF tx[p].call = "approve" THEN AmountIf(tx[p].new[r], u) ELSE 0)
    <3>1. g[r] = 0 /\ k[r] = IF tx[p].call = "approve" THEN AmountIf(tx[p].new[r], u) ELSE 0
      BY <1>4, <2>1
    <3> QED BY <1>5, <2>3, <2>4, <3>1
  <2>6. CASE tx[p].call = "create"
    BY <1>4, <1>5, <2>1, <2>2, <2>4, <2>5, <2>6
  <2>7. CASE tx[p].call # "create" /\ tx[p].call \in Decisions
    BY <1>4, <1>5, <2>1, <2>2, <2>4, <2>5, <2>7
  <2> QED BY <1>6, <1>8, <2>6, <2>7
<1> QED BY <1>7, <1>8 DEF f, h, g, k

\* The account row that a commit leaves, for one remittance and for a group.
LEMMA SingleAccount ==
  ASSUME ConstantsAssumption, IInv, NEW p \in Procs, Commit(p), NEW u \in Users, tx[p].call # "group",
         NEW r \in Remits, DOMAIN tx[p].new = {r}
  PROVE  /\ account'[u].balance = account[u].balance + (IF tx[p].call = "approve" THEN Gain(tx[p].new[r], u) ELSE 0)
         /\ account'[u].blocked = account[u].blocked
              + (IF tx[p].call = "create" THEN AmountIf(tx[p].new[r], u) ELSE -AmountIf(tx[p].new[r], u))
<1>1. /\ tx[p].new[r] \in Row /\ tx[p].new[r].from # tx[p].new[r].to /\ tx[p].new[r].amount \in Nat
      /\ tx[p].new[r].from \in Users /\ tx[p].new[r].to \in Users
  BY SingleCommit
<1> DEFINE n == tx[p].new[r].amount
           from == tx[p].new[r].from
           to == tx[p].new[r].to
<1>2. account[u] \in Account /\ account[u].balance \in Int /\ account[u].blocked \in Int
  BY DEF IInv, TypeOK, Account
<1>3. Senders(tx[p]) = {from} /\ Receivers(tx[p]) = {to}
  BY SingleSets
<1>4. tx[p].pc = "commit" /\ r \in DOMAIN tx[p].new
  BY CommitKnown
<1>5. /\ Gain(tx[p].new[r], u) = IF to = u THEN n ELSE IF from = u THEN -n ELSE 0
      /\ AmountIf(tx[p].new[r], u) = IF from = u THEN n ELSE 0
      /\ from # to /\ n \in Nat /\ n \in Int
  BY <1>1 DEF Gain, AmountIf
<1>6. /\ u \notin LockedAccounts(tx[p]) => account'[u] = account[u]
      /\ u \in LockedAccounts(tx[p]) => account'[u] = tx[p].rows[u]
  <2>1. AccountLock(u) \in held[p] <=> u \in LockedAccounts(tx[p])
    BY CommitKnown DEF LocksKnown, Unlocked
  <2> QED BY <2>1, CommitKeepsLocked
<1>7. CASE tx[p].call = "create"
  <2>1. LockedAccounts(tx[p]) = {from}
    BY <1>3, <1>4, <1>7 DEF LockedAccounts, Commits, Approving, HasApplied, HasRead
  <2>2. from = u => tx[p].rows[u] = Reserve(account[u], n)
    BY <1>4, <1>7, CommitKnown DEF FundsKnown, Commits
  <2>3. from = u => account'[u].balance = account[u].balance /\ account'[u].blocked = account[u].blocked + n
    BY <1>2, <1>5, <1>6, <2>1, <2>2, LedgerFacts
  <2>4. from # u => account'[u] = account[u]
    BY <1>6, <2>1
  <2> HIDE DEF n, from, to
  <2> QED BY <1>2, <1>5, <1>7, <2>3, <2>4
<1>8. CASE tx[p].call \in {"reject", "cancel"}
  <2>1. LockedAccounts(tx[p]) = {from}
    BY <1>3, <1>4, <1>8 DEF LockedAccounts, Commits, Approving, HasApplied, HasRead
  <2>2. from = u => tx[p].rows[u] = Unblock(account[u], n)
    BY <1>4, <1>8, CommitKnown DEF FundsKnown, Commits
  <2>3. from = u => account'[u].balance = account[u].balance /\ account'[u].blocked = account[u].blocked - n
    <3>1. from = u => account'[u] = Unblock(account[u], n)
      BY <1>6, <2>1, <2>2
    <3>2. Unblock(account[u], n).balance = account[u].balance /\ Unblock(account[u], n).blocked = account[u].blocked - n
      BY <1>2, <1>5, LedgerFacts
    <3> QED BY <3>1, <3>2
  <2>4. from # u => account'[u] = account[u]
    BY <1>6, <2>1
  <2> HIDE DEF n, from, to
  <2> QED BY <1>2, <1>5, <1>8, <2>3, <2>4
<1>9. CASE tx[p].call = "approve"
  <2>1. LockedAccounts(tx[p]) = {from, to}
    <3>1. LockedAccounts(tx[p]) = Senders(tx[p]) \union Receivers(tx[p])
      BY <1>4, <1>9 DEF LockedAccounts, Commits, Approving, HasApplied, HasRead
    <3> QED BY <1>3, <3>1
  <2>2. /\ from = u => tx[p].rows[u] = Apply(Unblock(account[u], n), -n)
        /\ to = u => tx[p].rows[u] = Apply(account[u], n)
    BY <1>4, <1>9, CommitKnown DEF FundsKnown, Commits
  <2>3. from = u => account'[u].balance = account[u].balance - n /\ account'[u].blocked = account[u].blocked - n
    BY <1>2, <1>5, <1>6, <2>1, <2>2, PaidFacts
  <2>4. to = u => account'[u].balance = account[u].balance + n /\ account'[u].blocked = account[u].blocked
    <3>1. to = u => account'[u] = Apply(account[u], n)
      BY <1>6, <2>1, <2>2
    <3>2. Apply(account[u], n).balance = account[u].balance + n /\ Apply(account[u], n).blocked = account[u].blocked
      BY <1>2, <1>5, LedgerFacts
    <3> QED BY <3>1, <3>2
  <2>5. from # u /\ to # u => account'[u] = account[u]
    BY <1>6, <2>1
  <2> HIDE DEF n, from, to
  <2>6. CASE from = u
    BY <1>2, <1>5, <1>9, <2>3, <2>6
  <2>7. CASE to = u
    BY <1>2, <1>5, <1>9, <2>4, <2>7
  <2>8. CASE from # u /\ to # u
    BY <1>2, <1>5, <1>9, <2>5, <2>8
  <2> QED BY <2>6, <2>7, <2>8
<1> QED BY <1>7, <1>8, <1>9, CommitKnown DEF Decisions

LEMMA GroupAccount ==
  ASSUME ConstantsAssumption, IInv, NEW p \in Procs, Commit(p), NEW u \in Users, tx[p].call = "group"
  PROVE  /\ account'[u].balance = account[u].balance + LegsGain(tx[p].new, u)
         /\ account'[u].blocked = account[u].blocked
<1>1. account[u] \in Account /\ account[u].balance \in Int /\ account[u].blocked \in Int
  BY DEF IInv, TypeOK, Account
<1>2. tx[p].pc = "commit"
  BY CommitKnown
<1>3. LockedAccounts(tx[p]) = Senders(tx[p]) \union Receivers(tx[p])
  BY <1>2 DEF LockedAccounts, Commits, Approving, HasApplied, HasRead
<1>4. AccountLock(u) \in held[p] <=> u \in LockedAccounts(tx[p])
  BY CommitKnown DEF LocksKnown, Unlocked
<1>5. LegsGain(tx[p].new, u) \in Int /\ (u \notin Senders(tx[p]) \union Receivers(tx[p]) => LegsGain(tx[p].new, u) = 0)
  BY LegsGainIs
<1>6. CASE u \in LockedAccounts(tx[p])
  <2>1. tx[p].rows[u] = Apply(account[u], LegsGain(tx[p].new, u))
    BY <1>2, <1>6, CommitKnown DEF GroupKnown, HasApplied, HasRead, Commits
  <2>2. account'[u] = tx[p].rows[u]
    BY <1>4, <1>6, CommitKeepsLocked
  <2> QED BY <1>1, <1>5, <2>1, <2>2, LedgerFacts
<1>7. CASE u \notin LockedAccounts(tx[p])
  <2>1. account'[u] = account[u]
    BY <1>4, <1>7, CommitKeepsLocked
  <2> QED BY <1>1, <1>3, <1>5, <1>7, <2>1
<1> QED BY <1>6, <1>7

\* The usage row that a commit leaves.
LEMMA SingleUsage ==
  ASSUME ConstantsAssumption, IInv, NEW p \in Procs, Commit(p), NEW u \in Users, tx[p].call # "group",
         NEW r \in Remits, DOMAIN tx[p].new = {r}
  PROVE  /\ usage'[u].reserved = usage[u].reserved
              + (IF tx[p].call = "create" THEN AmountIf(tx[p].new[r], u) ELSE -AmountIf(tx[p].new[r], u))
         /\ usage'[u].used = usage[u].used + (IF tx[p].call = "approve" THEN AmountIf(tx[p].new[r], u) ELSE 0)
<1>1. tx[p].new[r].amount \in Nat /\ tx[p].new[r].from \in Users
  BY SingleCommit
<1> DEFINE n == tx[p].new[r].amount
           from == tx[p].new[r].from
<1>2. usage[u] \in Usage /\ usage[u].used \in Int /\ usage[u].reserved \in Int
  BY DEF IInv, TypeOK, Usage
<1>3. Senders(tx[p]) = {from}
  BY SingleSets
<1>4. tx[p].pc = "commit" /\ r \in DOMAIN tx[p].new /\ UsageLocked(tx[p])
  BY CommitKnown DEF UsageLocked, Commits, Decisions
<1>5. AmountIf(tx[p].new[r], u) = (IF from = u THEN n ELSE 0) /\ n \in Int
  BY <1>1 DEF AmountIf
<1>6. /\ from # u => usage'[u] = usage[u]
      /\ from = u => usage'[u] = tx[p].use
  <2>1. UsageLock(u) \in held[p] <=> u \in Senders(tx[p])
    BY <1>4, CommitKnown DEF LocksKnown, Unlocked
  <2> QED BY <1>3, <2>1, CommitKeepsLocked
<1>7. from = u => tx[p].use = CASE tx[p].call = "create" -> ReserveUsage(usage[u], n)
                                [] tx[p].call = "approve" -> ConsumeUsage(usage[u], n)
                                [] OTHER -> ReleaseUsage(usage[u], n)
  BY <1>4, CommitKnown DEF UsageKnown
<1>8. /\ ReserveUsage(usage[u], n) = [used |-> usage[u].used, reserved |-> usage[u].reserved + n]
      /\ ConsumeUsage(usage[u], n) = [used |-> usage[u].used + n, reserved |-> usage[u].reserved - n]
      /\ ReleaseUsage(usage[u], n) = [used |-> usage[u].used, reserved |-> usage[u].reserved - n]
  BY <1>2, <1>5, UsageFacts
<1> HIDE DEF n, from
<1>9. CASE from # u
  BY <1>2, <1>5, <1>6, <1>9
<1>10. CASE from = u
  <2>1. usage'[u] = tx[p].use
    BY <1>6, <1>10
  <2>2. CASE tx[p].call = "create"
    BY <1>2, <1>5, <1>7, <1>8, <1>10, <2>1, <2>2
  <2>3. CASE tx[p].call = "approve"
    BY <1>2, <1>5, <1>7, <1>8, <1>10, <2>1, <2>3
  <2>4. CASE tx[p].call \notin {"create", "approve"}
    BY <1>2, <1>5, <1>7, <1>8, <1>10, <2>1, <2>4
  <2> QED BY <2>2, <2>3, <2>4
<1> QED BY <1>9, <1>10

LEMMA GroupUsage ==
  ASSUME ConstantsAssumption, IInv, NEW p \in Procs, Commit(p), NEW u \in Users, tx[p].call = "group"
  PROVE  usage'[u] = usage[u]
<1>1. ~UsageLocked(tx[p])
  BY CommitKnown DEF UsageLocked, Commits, Decisions
<1>2. UsageLock(u) \notin held[p]
  BY <1>1, CommitKnown DEF LocksKnown, Unlocked
<1> QED BY <1>2, CommitKeepsLocked


AccountMatches(u) ==
  /\ account[u].balance = Opening + SumFunction(PaidTo(u))
  /\ account[u].blocked = SumFunction(BlockedBy(u))

UsageMatches(u) ==
  /\ usage[u].reserved = SumFunction(CountedFor(u, "RESERVED"))
  /\ usage[u].used = SumFunction(CountedFor(u, "CONSUMED"))

BooksMatch == \A u \in Users : AccountMatches(u) /\ UsageMatches(u)

LEMMA BooksAre == BooksMatch => AccountsMatchRemittances /\ UsageMatchesRemittances
BY DEF BooksMatch, AccountMatches, UsageMatches, AccountsMatchRemittances, UsageMatchesRemittances,
       PaidTo, BlockedBy, CountedFor

LEMMA CommitBooks ==
  ASSUME ConstantsAssumption, IInv, BooksMatch, NEW p \in Procs, Commit(p), NEW u \in Users
  PROVE  AccountMatches(u)' /\ UsageMatches(u)'
<1>1. /\ account[u].balance \in Int /\ account[u].blocked \in Int /\ usage[u].used \in Int /\ usage[u].reserved \in Int
      /\ Opening \in Int
  BY DEF IInv, TypeOK, Account, Usage, ConstantsAssumption, OpeningAssumption
<1>2. /\ account[u].balance = Opening + SumFunction(PaidTo(u)) /\ account[u].blocked = SumFunction(BlockedBy(u))
      /\ usage[u].reserved = SumFunction(CountedFor(u, "RESERVED")) /\ usage[u].used = SumFunction(CountedFor(u, "CONSUMED"))
  BY DEF BooksMatch, AccountMatches, UsageMatches
<1>3. SumFunction(PaidTo(u)) \in Int
  <2>1. PaidTo(u) \in [Remits -> Int] /\ IsFiniteSet(Remits)
    BY TermsAre DEF ConstantsAssumption, RemitsAssumption
  <2> QED BY <2>1, SumInt
<1>4. CASE tx[p].call = "group"
  <2>1. LegsGain(tx[p].new, u) \in Int
    BY LegsGainIs
  <2>2. SumFunction(PaidTo(u)') = SumFunction(PaidTo(u)) + LegsGain(tx[p].new, u)
    BY <1>4, PaidChange
  <2>3. /\ account'[u].balance = account[u].balance + LegsGain(tx[p].new, u) /\ account'[u].blocked = account[u].blocked
        /\ usage'[u] = usage[u]
    BY <1>4, GroupAccount, GroupUsage
  <2>4. SumFunction(BlockedBy(u)') = SumFunction(BlockedBy(u))
    BY <1>4, BlockedChange
  <2>5. /\ SumFunction(CountedFor(u, "RESERVED")') = SumFunction(CountedFor(u, "RESERVED"))
        /\ SumFunction(CountedFor(u, "CONSUMED")') = SumFunction(CountedFor(u, "CONSUMED"))
    BY <1>4, UsageTerms
  <2>6. account'[u].balance = Opening + SumFunction(PaidTo(u)')
    BY <1>1, <1>2, <1>3, <2>1, <2>2, <2>3
  <2>7. account'[u].blocked = SumFunction(BlockedBy(u)')
    BY <1>2, <2>3, <2>4
  <2>8. /\ usage'[u].reserved = SumFunction(CountedFor(u, "RESERVED")')
        /\ usage'[u].used = SumFunction(CountedFor(u, "CONSUMED")')
    BY <1>2, <2>3, <2>5
  <2> QED BY <2>6, <2>7, <2>8 DEF AccountMatches, UsageMatches
<1>5. CASE tx[p].call # "group"
  <2>1. PICK r \in Remits : DOMAIN tx[p].new = {r} /\ tx[p].new[r] \in Row
    BY <1>5, SingleCommit
  <2>2. LegsGain(tx[p].new, u) \in Int /\ LegsGain(tx[p].new, u) = Gain(tx[p].new[r], u)
    BY <2>1, LegsGainIs
  <2>3. SumFunction(PaidTo(u)') = SumFunction(PaidTo(u)) + (IF tx[p].call = "approve" THEN Gain(tx[p].new[r], u) ELSE 0)
    <3>1. SumFunction(PaidTo(u)') = SumFunction(PaidTo(u))
            + (IF tx[p].call \in {"approve", "group"} THEN LegsGain(tx[p].new, u) ELSE 0)
      BY PaidChange
    <3> QED BY <1>5, <2>2, <3>1
  <2>4. /\ account'[u].balance = account[u].balance + (IF tx[p].call = "approve" THEN Gain(tx[p].new[r], u) ELSE 0)
        /\ account'[u].blocked = account[u].blocked
             + (IF tx[p].call = "create" THEN AmountIf(tx[p].new[r], u) ELSE -AmountIf(tx[p].new[r], u))
    BY <1>5, <2>1, SingleAccount
  <2>5. /\ usage'[u].reserved = usage[u].reserved
             + (IF tx[p].call = "create" THEN AmountIf(tx[p].new[r], u) ELSE -AmountIf(tx[p].new[r], u))
        /\ usage'[u].used = usage[u].used + (IF tx[p].call = "approve" THEN AmountIf(tx[p].new[r], u) ELSE 0)
    BY <1>5, <2>1, SingleUsage
  <2>6. SumFunction(BlockedBy(u)') = SumFunction(BlockedBy(u))
          + (IF tx[p].call = "create" THEN AmountIf(tx[p].new[r], u) ELSE -AmountIf(tx[p].new[r], u))
    BY <1>5, <2>1, BlockedChange
  <2>7. /\ SumFunction(CountedFor(u, "RESERVED")') = SumFunction(CountedFor(u, "RESERVED"))
             + (IF tx[p].call = "create" THEN AmountIf(tx[p].new[r], u) ELSE -AmountIf(tx[p].new[r], u))
        /\ SumFunction(CountedFor(u, "CONSUMED")') = SumFunction(CountedFor(u, "CONSUMED"))
             + (IF tx[p].call = "approve" THEN AmountIf(tx[p].new[r], u) ELSE 0)
    BY <1>5, <2>1, UsageTerms
  <2>8. account'[u].balance = Opening + SumFunction(PaidTo(u)')
    <3>1. (IF tx[p].call = "approve" THEN Gain(tx[p].new[r], u) ELSE 0) \in Int
      BY <2>2
    <3> QED BY <1>1, <1>2, <1>3, <2>3, <2>4, <3>1
  <2>9. account'[u].blocked = SumFunction(BlockedBy(u)')
    BY <1>2, <2>4, <2>6
  <2>10. /\ usage'[u].reserved = SumFunction(CountedFor(u, "RESERVED")')
         /\ usage'[u].used = SumFunction(CountedFor(u, "CONSUMED")')
    BY <1>2, <2>5, <2>7
  <2> QED BY <2>8, <2>9, <2>10 DEF AccountMatches, UsageMatches
<1> QED BY <1>4, <1>5

LEMMA InitBooks ==
  ASSUME ConstantsAssumption, Init
  PROVE  BooksMatch
<1>1. /\ \A r \in Remits : hold[r] = "none" /\ limitHold[r] = "none"
      /\ account = Untouched /\ usage = [u \in Users |-> NoUsage] /\ paid = {}
  BY DEF Init
<1>2. SUFFICES ASSUME NEW u \in Users PROVE AccountMatches(u) /\ UsageMatches(u)
  BY DEF BooksMatch
<1>3. IsFiniteSet(Remits)
  BY DEF ConstantsAssumption, RemitsAssumption
<1>4. PaidTo(u) \in [Remits -> {0}] /\ BlockedBy(u) \in [Remits -> {0}]
  BY <1>1 DEF PaidTo, BlockedBy, Blocks
<1>5. CountedFor(u, "RESERVED") \in [Remits -> {0}] /\ CountedFor(u, "CONSUMED") \in [Remits -> {0}]
  BY <1>1 DEF CountedFor, Counts
<1>6. /\ SumFunction(PaidTo(u)) = 0 /\ SumFunction(BlockedBy(u)) = 0
      /\ SumFunction(CountedFor(u, "RESERVED")) = 0 /\ SumFunction(CountedFor(u, "CONSUMED")) = 0
  BY <1>3, <1>4, <1>5, SumZero
<1>7. account[u] = [balance |-> Opening, blocked |-> 0] /\ usage[u] = NoUsage /\ Opening \in Int
  BY <1>1 DEF Untouched, ConstantsAssumption, OpeningAssumption
<1> QED BY <1>6, <1>7 DEF AccountMatches, UsageMatches, NoUsage

LEMMA NextBooks ==
  ASSUME ConstantsAssumption, IInv, BooksMatch, [Next]_vars
  PROVE  BooksMatch'
<1>1. CASE \E p \in Procs : Commit(p)
  BY <1>1, CommitBooks DEF BooksMatch
<1>2. CASE ~\E p \in Procs : Commit(p)
  <2>1. UNCHANGED <<remit, hold, limitHold, account, usage, paid, links>>
    BY <1>2, OnlyCommits DEF Next, vars
  <2> QED BY <2>1 DEF BooksMatch, AccountMatches, UsageMatches, PaidTo, BlockedBy, CountedFor, Blocks, Counts
<1> QED BY <1>1, <1>2

LEMMA BooksInvariant == ConstantsAssumption => (Spec => []BooksMatch)
<1> SUFFICES ASSUME ConstantsAssumption PROVE Spec => []BooksMatch
  OBVIOUS
<1>1. Init => BooksMatch
  BY InitBooks
<1>2. IInv /\ BooksMatch /\ [Next]_vars => BooksMatch'
  BY NextBooks
<1>3. Spec => []IInv
  BY Invariant
<1> QED BY <1>1, <1>2, <1>3, PTL DEF Spec

\* Every account row is what the paid remittances and the open reservations
\* leave: approve and groups in both directions lose no update, and money only
\* moves (AccountsMatchRemittances).
THEOREM AccountsSafe == ConstantsAssumption => (Spec => []AccountsMatchRemittances)
<1> SUFFICES ASSUME ConstantsAssumption PROVE Spec => []AccountsMatchRemittances
  OBVIOUS
<1>1. BooksMatch => AccountsMatchRemittances
  BY BooksAre
<1>2. Spec => []BooksMatch
  BY BooksInvariant
<1> QED BY <1>1, <1>2, PTL

\* The usage of a sender counts its pending and its approved remittances, and
\* none twice (UsageMatchesRemittances).
THEOREM UsageSafe == ConstantsAssumption => (Spec => []UsageMatchesRemittances)
<1> SUFFICES ASSUME ConstantsAssumption PROVE Spec => []UsageMatchesRemittances
  OBVIOUS
<1>1. BooksMatch => UsageMatchesRemittances
  BY BooksAre
<1>2. Spec => []BooksMatch
  BY BooksInvariant
<1> QED BY <1>1, <1>2, PTL

----------------------------------------------------------------------------
(* Settlements among groups that share an account *)

\* Nothing is settled of a remittance without links.
LEMMA NothingSettled ==
  ASSUME NEW L, NEW r, \A l \in L : l.source # r
  PROVE  Settled(L, r) = 0
<1> DEFINE S == {k \in L : k.source = r}
           f == [l \in S |-> l.amount]
<1>1. S = {} /\ IsFiniteSet({})
  BY FS_EmptySet
<1>2. f \in [{} -> {0}]
  BY <1>1
<1>3. SumFunction(f) = 0
  BY <1>1, <1>2, SumZero
<1> QED BY <1>3 DEF Settled

\* What a step that changes no row does to SharedInv.
LEMMA SharedStep ==
  ASSUME IInv, SharedInv, NEW p \in Procs, NEW t, UNCHANGED <<remit, links>>, tx' = [tx EXCEPT ![p] = t],
         t.pc # "idle" => SettlesKnown(t)
  PROVE  SharedInv'
<1>1. \A q \in Procs : tx'[q] = IF q = p THEN t ELSE tx[q]
  BY DEF IInv, TypeOK
<1>2. ASSUME NEW u PROVE SettlesKnown(u)' <=> SettlesKnown(u)
  BY DEF SettlesKnown, HasRead, Commits, Settled
<1>3. ASSUME NEW q \in Procs, tx'[q].pc # "idle" PROVE SettlesKnown(tx[q])'
  <2>1. CASE q = p
    BY <1>1, <1>2, <1>3, <2>1
  <2>2. CASE q # p
    BY <1>1, <1>2, <1>3, <2>2 DEF SharedInv
  <2> QED BY <2>1, <2>2
<1>4. SettledWithinAmount' /\ StatusKnown'
  BY DEF SharedInv, SettledWithinAmount, StatusKnown, Settled, Unsettled
<1> QED BY <1>3, <1>4 DEF SharedInv

\* A group that goes on without reading its sources, or after it, still knows
\* what it knew.
LEMMA SettlesOn ==
  ASSUME NEW o, NEW t, SettlesKnown(o), t.call = o.call, t.new = o.new, t.adds = o.adds, t.after = o.after,
         HasRead(t) => HasRead(o) \/ DOMAIN t.after = {}
  PROVE  SettlesKnown(t)
BY DEF SettlesKnown

\* A step of p that leaves its local state as t, or ends it.
Moves(p, t) == End(p) \/ Step(p, t) \/ \E l : LockStep(p, l, t)

LEMMA SharedMoves ==
  ASSUME IInv, SharedInv, NEW p \in Procs, tx[p].call # "group", NEW t, t.call = tx[p].call, Moves(p, t)
  PROVE  SharedInv'
<1>1. UNCHANGED <<remit, links>> /\ (tx' = [tx EXCEPT ![p] = Idle] \/ tx' = [tx EXCEPT ![p] = t])
  BY DEF Moves, End, Finish, Leave, Step, Go, LockStep, Lock, data
<1>2. Idle.pc = "idle" /\ SettlesKnown(t)
  BY DEF Idle, SettlesKnown
<1> QED BY <1>1, <1>2, SharedStep

\* Calls of createForUser, approve, reject and cancelByUser.
LEMMA SharedSingle ==
  ASSUME ConstantsAssumption, IInv, SharedInv, NEW p \in Procs,
         \/ InsertRemittance(p) \/ ReserveLimit(p) \/ ReserveFunds(p)
         \/ LockRemittance(p) \/ ReleaseLimit(p) \/ UnblockFunds(p) \/ Receive(p) \/ ConsumeLimit(p)
  PROVE  SharedInv'
<1>1. tx[p].pc \in {"insert"} \union Creating \union Deciding /\ tx[p].pc # "idle"
  BY DEF InsertRemittance, ReserveLimit, ReserveFunds, LockRemittance, ReleaseLimit, UnblockFunds, Receive, ConsumeLimit,
         At, Creating, Deciding, Approving
<1>2. tx[p].call # "group" /\ IsCall(tx[p])
  BY <1>1, RunningKnown DEF CallKnown, Creating, Decisions
<1>3. tx[p] \in CallOn(DOMAIN tx[p].new, DOMAIN tx[p].after)
  BY <1>2, CallFields
<1>4. SUFFICES \E t : t.call = tx[p].call /\ Moves(p, t)
  BY <1>2, SharedMoves
<1>5. CASE InsertRemittance(p)
  <2> DEFINE t == [tx[p] EXCEPT !.pc = "reserveLimit"]
  <2>1. t.call = tx[p].call
    BY <1>3 DEF CallOn
  <2>2. Moves(p, t)
    BY <1>5 DEF InsertRemittance, Moves
  <2> QED BY <2>1, <2>2
<1>6. CASE ReserveLimit(p)
  <2> DEFINE t == [tx[p] EXCEPT !.pc = "reserve", !.use = ReserveUsage(usage[This(p).from], This(p).amount)]
  <2>1. t.call = tx[p].call
    BY <1>3 DEF CallOn
  <2>2. Moves(p, t)
    BY <1>6 DEF ReserveLimit, Moves
  <2> QED BY <2>1, <2>2
<1>7. CASE ReserveFunds(p)
  <2> DEFINE u == This(p).from
             t == [tx[p] EXCEPT !.pc = "commit", !.rows[u] = Reserve(account[u], This(p).amount)]
  <2>1. t.call = tx[p].call
    BY <1>3 DEF CallOn
  <2>2. Moves(p, t)
    BY <1>7 DEF ReserveFunds, Moves
  <2> QED BY <2>1, <2>2
<1>8. CASE LockRemittance(p)
  <2> DEFINE r == Id(p)
             t == [tx[p] EXCEPT !.pc = IF tx[p].call = "approve" THEN "unblock" ELSE "releaseLimit", !.new[r] = remit[r]]
  <2>1. t.call = tx[p].call
    BY <1>3 DEF CallOn
  <2>2. Moves(p, t)
    BY <1>8 DEF LockRemittance, Moves
  <2> QED BY <2>1, <2>2
<1>9. CASE ReleaseLimit(p)
  <2>1. PICK use : LockStep(p, UsageLock(This(p).from), [tx[p] EXCEPT !.pc = "unblock", !.use = use])
    BY <1>9 DEF ReleaseLimit
  <2>2. [tx[p] EXCEPT !.pc = "unblock", !.use = use].call = tx[p].call
    BY <1>3 DEF CallOn
  <2> QED BY <2>1, <2>2 DEF Moves
<1>10. CASE UnblockFunds(p)
  <2> DEFINE u == This(p).from
  <2>1. End(p) \/ \E pc, row : LockStep(p, AccountLock(u), [tx[p] EXCEPT !.pc = pc, !.rows[u] = row])
    BY <1>10 DEF UnblockFunds
  <2>2. \A pc, row : [tx[p] EXCEPT !.pc = pc, !.rows[u] = row].call = tx[p].call
    BY <1>3 DEF CallOn
  <2> QED BY <2>1, <2>2 DEF Moves
<1>11. CASE Receive(p)
  <2> DEFINE v == This(p).to
             t == [tx[p] EXCEPT !.pc = "consumeLimit", !.rows[v] = Apply(account[v], This(p).amount)]
  <2>1. t.call = tx[p].call
    BY <1>3 DEF CallOn
  <2>2. Moves(p, t)
    BY <1>11 DEF Receive, Moves
  <2> QED BY <2>1, <2>2
<1>12. CASE ConsumeLimit(p)
  <2>1. PICK use : LockStep(p, UsageLock(This(p).from), [tx[p] EXCEPT !.pc = "commit", !.use = use])
    BY <1>12 DEF ConsumeLimit
  <2>2. [tx[p] EXCEPT !.pc = "commit", !.use = use].call = tx[p].call
    BY <1>3 DEF CallOn
  <2> QED BY <2>1, <2>2 DEF Moves
<1> QED BY <1>5, <1>6, <1>7, <1>8, <1>9, <1>10, <1>11, <1>12

LEMMA SharedEnd ==
  ASSUME IInv, SharedInv, NEW p \in Procs, End(p)
  PROVE  SharedInv'
<1>1. tx' = [tx EXCEPT ![p] = Idle] /\ UNCHANGED <<remit, links>> /\ Idle.pc = "idle"
  BY DEF End, Finish, Leave, Idle, data
<1> QED BY <1>1, SharedStep

LEMMA SharedCall ==
  ASSUME ConstantsAssumption, IInv, SharedInv, NEW p \in Procs, Call(p)
  PROVE  SharedInv'
<1>1. ASSUME NEW r \in Remits, NEW w \in Routes, NEW n \in Amounts, NEW k \in Keys \union {NoKey},
             BeginCreate(p, r, w[1], w[2], n, k)
      PROVE  SharedInv'
  <2>1. PICK t : Step(p, t) /\ t.call = "create"
    BY <1>1 DEF BeginCreate, Begun
  <2>2. tx' = [tx EXCEPT ![p] = t] /\ UNCHANGED <<remit, links>> /\ SettlesKnown(t)
    BY <2>1 DEF Step, Go, data, SettlesKnown
  <2> QED BY <2>2, SharedStep
<1>2. ASSUME NEW r \in Remits, NEW c \in Decisions, NEW u, Begin(p, r, c, u)
      PROVE  SharedInv'
  <2>1. PICK t : Step(p, t) /\ t.call = c
    BY <1>2 DEF Begin, Begun
  <2>2. tx' = [tx EXCEPT ![p] = t] /\ UNCHANGED <<remit, links>> /\ SettlesKnown(t)
    BY <2>1 DEF Step, Go, data, SettlesKnown, Decisions
  <2> QED BY <2>2, SharedStep
<1>3. ASSUME NEW S \in SUBSET Fresh, NEW u \in Users, NEW legs \in LegChoices(S, u),
             NEW adds, BeginGroup(p, u, legs, adds)
      PROVE  SharedInv'
  <2>1. PICK t : Step(p, t) /\ t.pc = "checkFunds" /\ t.new = legs
    BY <1>3 DEF BeginGroup, Begun
  <2>2. DOMAIN legs = S
    BY <1>3 DEF LegChoices
  <2>3. ASSUME NEW r \in S PROVE <<legs[r].from, legs[r].to>> \in Routes
    <3> DEFINE V == {v \in Users : <<u, v>> \in Routes}
    <3>1. legs[r] \in {LegOf(u, v, n) : v \in V, n \in Amounts} /\ \A v \in V : <<u, v>> \in Routes
      BY DEF LegChoices
    <3> HIDE DEF V
    <3>2. PICK v \in V, n \in Amounts : legs[r] = LegOf(u, v, n)
      BY <3>1
    <3> QED BY <3>1, <3>2 DEF LegOf
  <2>4. SettlesKnown(t)
    BY <2>1, <2>2, <2>3 DEF SettlesKnown, HasRead, Commits
  <2>5. tx' = [tx EXCEPT ![p] = t] /\ UNCHANGED <<remit, links>>
    BY <2>1 DEF Step, Go, data
  <2> QED BY <2>4, <2>5, SharedStep
<1> QED BY <1>1, <1>2, <1>3 DEF Call, Decisions

\* The steps of a group before it reads its sources, and the locks it takes after.
LEMMA SharedGroup ==
  ASSUME ConstantsAssumption, IInv, SharedInv, NEW p \in Procs,
         CheckFunds(p) \/ LockAccounts(p) \/ ApplyLegs(p) \/ LockSources(p)
  PROVE  SharedInv'
<1>1. tx[p].pc \in Grouping /\ tx[p].pc # "idle" /\ tx[p].pc # "readSources" /\ tx[p].pc # "enqueue"
  BY DEF CheckFunds, LockAccounts, ApplyLegs, LockSources, At, Grouping
<1>2. IsCall(tx[p]) /\ AddsKnown(tx[p]) /\ SettlesKnown(tx[p])
  BY <1>1, RunningKnown DEF SharedInv
<1>3. tx[p] \in CallOn(DOMAIN tx[p].new, DOMAIN tx[p].after)
  BY <1>2, CallFields
<1>4. ASSUME NEW pc, NEW rows, NEW toLock, NEW t, t = [tx[p] EXCEPT !.pc = pc, !.rows = rows, !.toLock = toLock],
             Step(p, t) \/ (\E l : LockStep(p, l, t)),
             pc \in {"lockAccounts", "apply", "readSources"} \/ tx[p].pc = "lockSources" \/ tx[p].adds = {}
      PROVE  SharedInv'
  <2>1. /\ t.pc = pc /\ t.call = tx[p].call /\ t.new = tx[p].new /\ t.adds = tx[p].adds /\ t.after = tx[p].after
    BY <1>3, <1>4 DEF CallOn
  <2>2. HasRead(t) => HasRead(tx[p]) \/ DOMAIN t.after = {}
    <3>1. pc \in {"lockAccounts", "apply", "readSources"} => ~HasRead(t)
      BY <2>1 DEF HasRead, Commits
    <3>2. tx[p].pc = "lockSources" => HasRead(tx[p])
      BY DEF HasRead
    <3>3. tx[p].adds = {} => DOMAIN t.after = {}
      BY <1>2, <2>1 DEF AddsKnown
    <3> QED BY <1>4, <3>1, <3>2, <3>3
  <2>3. SettlesKnown(t)
    BY <1>2, <2>1, <2>2, SettlesOn
  <2>4. tx' = [tx EXCEPT ![p] = t] /\ UNCHANGED <<remit, links>>
    BY <1>4 DEF Step, Go, LockStep, Lock, data
  <2> QED BY <2>3, <2>4, SharedStep
<1>5. CASE CheckFunds(p)
  <2> DEFINE t == [tx[p] EXCEPT !.pc = "lockAccounts", !.toLock = Parties(p)]
  <2>1. End(p) \/ Step(p, t)
    BY <1>5 DEF CheckFunds
  <2>2. t = [tx[p] EXCEPT !.pc = "lockAccounts", !.rows = tx[p].rows, !.toLock = Parties(p)]
    BY <1>3 DEF CallOn
  <2> HIDE DEF t
  <2> QED BY <1>4, <2>1, <2>2, SharedEnd
<1>6. CASE LockAccounts(p)
  <2>1. PICK u : LockStep(p, AccountLock(u), [tx[p] EXCEPT !.rows[u] = account[u], !.toLock = @ \ {u},
                                                           !.pc = IF tx[p].toLock = {u} THEN "apply" ELSE "lockAccounts"])
    BY <1>6 DEF LockAccounts
  <2> DEFINE pc == IF tx[p].toLock = {u} THEN "apply" ELSE "lockAccounts"
             rows == [tx[p].rows EXCEPT ![u] = account[u]]
             t == [tx[p] EXCEPT !.rows[u] = account[u], !.toLock = @ \ {u},
                                !.pc = IF tx[p].toLock = {u} THEN "apply" ELSE "lockAccounts"]
  <2>2. t = [tx[p] EXCEPT !.pc = pc, !.rows = rows, !.toLock = tx[p].toLock \ {u}] /\ pc \in {"lockAccounts", "apply"}
    BY <1>3 DEF CallOn
  <2>3. \E l : LockStep(p, l, t)
    BY <2>1
  <2> HIDE DEF t, pc, rows
  <2> QED BY <1>4, <2>2, <2>3
<1>7. CASE ApplyLegs(p)
  <2>1. End(p) \/ \E rows : Step(p, [tx[p] EXCEPT !.pc = IF tx[p].adds = {} THEN "commit" ELSE "readSources", !.rows = rows])
    BY <1>7 DEF ApplyLegs
  <2>2. ASSUME NEW rows, Step(p, [tx[p] EXCEPT !.pc = IF tx[p].adds = {} THEN "commit" ELSE "readSources", !.rows = rows])
        PROVE  SharedInv'
    <3> DEFINE pc == IF tx[p].adds = {} THEN "commit" ELSE "readSources"
               t == [tx[p] EXCEPT !.pc = pc, !.rows = rows]
    <3>1. t = [tx[p] EXCEPT !.pc = pc, !.rows = rows, !.toLock = tx[p].toLock]
      <4> HIDE DEF pc
      <4> QED BY <1>3 DEF CallOn
    <3>2. pc \in {"lockAccounts", "apply", "readSources"} \/ tx[p].adds = {}
      OBVIOUS
    <3>3. Step(p, t)
      BY <2>2
    <3> HIDE DEF t, pc
    <3> QED BY <1>4, <3>1, <3>2, <3>3
  <2> QED BY <2>1, <2>2, SharedEnd
<1>8. CASE LockSources(p)
  <2>1. tx[p].pc = "lockSources"
    BY <1>8 DEF LockSources, At
  <2>2. PICK r : LockStep(p, RemitLock(r), [tx[p] EXCEPT !.toLock = @ \ {r}, !.pc = IF tx[p].toLock = {r} THEN "commit" ELSE "lockSources"])
    BY <1>8 DEF LockSources
  <2> DEFINE pc == IF tx[p].toLock = {r} THEN "commit" ELSE "lockSources"
             t == [tx[p] EXCEPT !.toLock = @ \ {r}, !.pc = IF tx[p].toLock = {r} THEN "commit" ELSE "lockSources"]
  <2>3. t = [tx[p] EXCEPT !.pc = pc, !.rows = tx[p].rows, !.toLock = tx[p].toLock \ {r}]
    BY <1>3 DEF CallOn
  <2>4. \E l : LockStep(p, l, t)
    BY <2>2
  <2> HIDE DEF t, pc
  <2> QED BY <1>4, <2>1, <2>3, <2>4
<1> QED BY <1>5, <1>6, <1>7, <1>8

\* What a group has read of its sources fits, and the status it gives them
\* follows from the links.
LEMMA SharedRead ==
  ASSUME ConstantsAssumption, IInv, SharedInv, NEW p \in Procs, ReadSources(p)
  PROVE  SharedInv'
<1> DEFINE after == [r \in Sources(p) |-> SettledStatus(p, r)]
           t == [tx[p] EXCEPT !.pc = "lockSources", !.toLock = Sources(p), !.after = after]
<1>1. tx[p].pc = "readSources" /\ tx[p].pc # "idle"
  BY DEF ReadSources, At
<1>2. IsCall(tx[p]) /\ SettlesKnown(tx[p]) /\ tx[p] \in CallOn(DOMAIN tx[p].new, DOMAIN tx[p].after)
  BY <1>1, RunningKnown, CallFields DEF SharedInv
<1>3. End(p) \/ (Step(p, t) /\ \A r \in Sources(p) : Fits(p, r))
  BY DEF ReadSources
<1>4. DOMAIN after = Sources(p) /\ \A r \in Sources(p) : after[r] = SettledStatus(p, r)
  OBVIOUS
<1> HIDE DEF after
<1>5. t.call = tx[p].call /\ t.new = tx[p].new /\ t.adds = tx[p].adds /\ t.after = after
  BY <1>2 DEF CallOn
<1> HIDE DEF t
<1>6. (\A r \in Sources(p) : Fits(p, r)) => SettlesKnown(t)
  BY <1>2, <1>4, <1>5 DEF SettlesKnown, Fits, SettledStatus
<1>7. Step(p, t) => tx' = [tx EXCEPT ![p] = t] /\ UNCHANGED <<remit, links>>
  BY DEF Step, Go, data
<1> QED BY <1>3, <1>6, <1>7, SharedStep, SharedEnd

\* The outbox tail of a group settles nothing.
LEMMA SharedEnqueue ==
  ASSUME ConstantsAssumption, IInv, SharedInv, NEW p \in Procs, Enqueue(p)
  PROVE  SharedInv'
<1>1. tx[p].pc = "enqueue" /\ tx[p].pc # "idle"
  BY DEF Enqueue, At
<1>2. IsCall(tx[p]) /\ SettlesKnown(tx[p]) /\ tx[p] \in CallOn(DOMAIN tx[p].new, DOMAIN tx[p].after)
  BY <1>1, RunningKnown, CallFields DEF SharedInv
<1>3. PICK r : /\ IF tx[p].toLock = {r} THEN Finish(p) ELSE Go(p, [tx[p] EXCEPT !.toLock = @ \ {r}])
               /\ UNCHANGED <<remit, links>>
  BY DEF Enqueue
<1> DEFINE t == [tx[p] EXCEPT !.toLock = @ \ {r}]
<1>4. t.pc = "enqueue" /\ t.call = tx[p].call /\ t.new = tx[p].new /\ t.adds = tx[p].adds /\ t.after = tx[p].after
  BY <1>1, <1>2 DEF CallOn
<1>5. UNCHANGED <<remit, links>> /\ (tx' = [tx EXCEPT ![p] = Idle] \/ tx' = [tx EXCEPT ![p] = t])
  BY <1>3 DEF Finish, Leave, Go
<1> HIDE DEF t
<1>6. SettlesKnown(t)
  BY <1>2, <1>4, SettlesOn DEF HasRead, Commits
<1>7. Idle.pc = "idle"
  BY DEF Idle
<1> QED BY <1>5, <1>6, <1>7, SharedStep

\* Two groups have not both read their sources: each would hold the lock of the
\* account they share.
LEMMA GroupsExclude ==
  ASSUME ConstantsAssumption, SharedAssumption, IInv, SharedInv, NEW p \in Procs, NEW q \in Procs, p # q,
         HasRead(tx[p]), HasRead(tx[q])
  PROVE  FALSE
<1>1. ASSUME NEW o \in Procs, HasRead(tx[o])
      PROVE  \E w \in Routes : /\ w[1] # w[2] /\ w[1] \in Users /\ w[2] \in Users
                               /\ AccountLock(w[1]) \in held[o] /\ AccountLock(w[2]) \in held[o]
  <2>1. tx[o].pc \notin {"idle", "enqueue"} /\ tx[o].pc \notin Unlocked
    BY <1>1 DEF HasRead, Commits, Unlocked
  <2>2. /\ IsCall(tx[o]) /\ CallKnown(tx[o]) /\ RowKnown(tx[o]) /\ LocksKnown(tx[o], held[o]) /\ SettlesKnown(tx[o])
    BY <2>1, RunningKnown DEF SharedInv
  <2>3. tx[o].call = "group" /\ DOMAIN tx[o].new # {}
    BY <1>1, <2>1, <2>2 DEF CallKnown, HasRead, Commits, Grouping
  <2>4. PICK r \in DOMAIN tx[o].new : TRUE
    BY <2>3
  <2> DEFINE u == tx[o].new[r].from
             v == tx[o].new[r].to
  <2>5. <<u, v>> \in Routes /\ u # v
    BY <2>2, <2>3, <2>4 DEF SettlesKnown, RowKnown
  <2>6. u \in Users /\ v \in Users
    BY <2>5 DEF ConstantsAssumption, RoutesAssumption, Users
  <2>7. u \in LockedAccounts(tx[o]) /\ v \in LockedAccounts(tx[o])
    <3>1. u \in Senders(tx[o]) /\ v \in Receivers(tx[o])
      BY <2>4 DEF Senders, Receivers
    <3>2. LockedAccounts(tx[o]) = Senders(tx[o]) \union Receivers(tx[o])
      BY <1>1, <2>3 DEF LockedAccounts, HasApplied, HasRead, Commits, Approving
    <3> QED BY <3>1, <3>2
  <2>8. AccountLock(u) \in held[o] /\ AccountLock(v) \in held[o]
    BY <2>1, <2>2, <2>6, <2>7 DEF LocksKnown
  <2>9. <<u, v>>[1] = u /\ <<u, v>>[2] = v
    OBVIOUS
  <2> HIDE DEF u, v
  <2> QED BY <2>5, <2>6, <2>8, <2>9
<1>2. PICK v \in Routes : /\ v[1] # v[2] /\ v[1] \in Users /\ v[2] \in Users
                          /\ AccountLock(v[1]) \in held[p] /\ AccountLock(v[2]) \in held[p]
  BY <1>1
<1>3. PICK w \in Routes : /\ w[1] # w[2] /\ w[1] \in Users /\ w[2] \in Users
                          /\ AccountLock(w[1]) \in held[q] /\ AccountLock(w[2]) \in held[q]
  BY <1>1
<1>4. PICK x \in {v[1], v[2]} : x \in {w[1], w[2]}
  BY <1>2, <1>3 DEF SharedAssumption
<1>5. AccountLock(x) \in held[p] /\ AccountLock(x) \in held[q]
  BY <1>2, <1>3, <1>4
<1> QED BY <1>5 DEF IInv, LocksExclusive

\* What another group has read of its sources stays when p commits.
LEMMA SettlesStay ==
  ASSUME ConstantsAssumption, SharedAssumption, IInv, SharedInv, NEW p \in Procs, Commit(p), NEW q \in Procs, q # p,
         tx[q].pc # "idle", NEW u, u = tx[q]
  PROVE  SettlesKnown(u)'
<1>1. IsCall(u) /\ AddsKnown(u) /\ SettlesKnown(u)
  BY RunningKnown DEF SharedInv
<1>2. ASSUME u.call = "group", HasRead(u), NEW r \in DOMAIN u.after
      PROVE  remit'[r].amount = remit[r].amount /\ links' = links
  <2>1. r \in Remits /\ remit[r].status # "none"
    BY <1>1, <1>2, CallFields DEF AddsKnown
  <2>2. tx[p].call # "group"
    <3>1. tx[p].call = "group" => HasRead(tx[p])
      BY CommitKnown
    <3> QED BY <1>2, <3>1, GroupsExclude
  <2>3. links' = links
    BY <2>2, CommitKnown DEF Commit
  <2> QED BY <2>1, <2>3, CommitKeepsRow DEF SameRemit
<1>3. ASSUME u.call = "group", NEW r \in DOMAIN u.new PROVE <<u.new[r].from, u.new[r].to>> \in Routes
  BY <1>1, <1>3 DEF SettlesKnown
<1>4. ASSUME u.call = "group", HasRead(u), NEW r \in DOMAIN u.after
      PROVE  /\ Settled(links' \union u.adds, r) <= remit'[r].amount
             /\ u.after[r] = IF Settled(links' \union u.adds, r) = remit'[r].amount THEN "COMPLETED" ELSE "PARTIAL"
  BY <1>1, <1>2, <1>4 DEF SettlesKnown
<1> QED BY <1>3, <1>4 DEF SettlesKnown, HasRead, Commits, Settled

\* What a commit settles.
LEMMA CommitSettles ==
  ASSUME ConstantsAssumption, IInv, SharedInv, NEW p \in Procs, Commit(p), NEW r \in Remits
  PROVE  /\ r \notin DOMAIN tx[p].after =>
              Settled(links', r) = Settled(links, r) /\ (Unsettled(r)' <=> Unsettled(r))
         /\ r \in DOMAIN tx[p].after =>
              /\ Settled(links', r) <= remit'[r].amount
              /\ remit'[r].status = IF Settled(links', r) = remit'[r].amount THEN "COMPLETED" ELSE "PARTIAL"
<1>1. links' = links \union tx[p].adds
  BY DEF Commit
<1>2. DOMAIN tx[p].after = {l.source : l \in tx[p].adds}
  BY CommitKnown DEF AddsKnown
<1>3. CASE r \notin DOMAIN tx[p].after
  <2>1. \A l \in tx[p].adds : l.source # r
    BY <1>2, <1>3
  <2>2. {k \in links' : k.source = r} = {k \in links : k.source = r}
    BY <1>1, <2>1
  <2>3. Settled(links', r) = Settled(links, r)
    BY <2>2 DEF Settled
  <2>4. Unsettled(r)' <=> Unsettled(r)
    BY <1>1, <2>1 DEF Unsettled
  <2> QED BY <1>3, <2>3, <2>4
<1>4. CASE r \in DOMAIN tx[p].after
  <2>1. tx[p].call = "group" /\ HasRead(tx[p]) /\ tx[p].pc # "idle"
    BY <1>4, CommitKnown
  <2>2. SettlesKnown(tx[p])
    BY <2>1 DEF SharedInv
  <2>3. /\ Settled(links', r) <= remit[r].amount
        /\ tx[p].after[r] = IF Settled(links', r) = remit[r].amount THEN "COMPLETED" ELSE "PARTIAL"
    BY <1>1, <1>4, <2>1, <2>2 DEF SettlesKnown
  <2>4. remit'[r].amount = remit[r].amount /\ remit'[r].status = tx[p].after[r]
    BY <1>4, CommitRow DEF SameRemit
  <2> QED BY <1>4, <2>3, <2>4
<1> QED BY <1>3, <1>4

\* A remittance without a row has no links.
LEMMA NoneSettled ==
  ASSUME IInv, NEW r, Unsettled(r) \/ remit[r].status = "none"
  PROVE  Settled(links, r) = 0
<1>1. \A l \in links : l.source # r
  BY DEF IInv, LinksKnown, Unsettled
<1> QED BY <1>1, NothingSettled

LEMMA SharedCommit ==
  ASSUME ConstantsAssumption, SharedAssumption, IInv, SharedInv, NEW p \in Procs, Commit(p)
  PROVE  SharedInv'
<1>1. SettledWithinAmount'
  <2>1. ASSUME NEW r \in Remits, r \notin DOMAIN tx[p].after PROVE Settled(links, r) <= remit'[r].amount
    <3>1. CASE remit[r].status = "none"
      <4>1. remit'[r].amount \in Nat
        BY CommitTypes, RowTypes
      <4> QED BY <3>1, <4>1, NoneSettled
    <3>2. CASE remit[r].status # "none"
      BY <3>2, CommitKeepsRow DEF SameRemit, SharedInv, SettledWithinAmount
    <3> QED BY <3>1, <3>2
  <2>2. \A r \in Remits : Settled(links', r) <= remit'[r].amount
    BY <2>1, CommitSettles
  <2> QED BY <2>2 DEF SettledWithinAmount, Settled
<1>2. StatusKnown'
  <2>1. ASSUME NEW r \in Remits, r \notin DOMAIN tx[p].after, ~Unsettled(r)'
        PROVE  remit'[r].status = IF Settled(links', r) = remit'[r].amount THEN "COMPLETED" ELSE "PARTIAL"
    <3>1. ~Unsettled(r) /\ Settled(links', r) = Settled(links, r)
      BY <2>1, CommitSettles
    <3>2. remit[r].status = IF Settled(links, r) = remit[r].amount THEN "COMPLETED" ELSE "PARTIAL"
      BY <3>1 DEF SharedInv, StatusKnown
    <3>3. r \notin DOMAIN tx[p].new
      <4>1. remit[r].status # "none" /\ remit[r].status # "PENDING"
        BY <3>2
      <4>2. r \in DOMAIN tx[p].new => Decides(tx[p])
        BY <4>1, CommitKeepsRow, CommitKnown
      <4> QED BY <4>1, <4>2, CommitKnown DEF RowKnown
    <3>4. remit'[r] = remit[r]
      BY <2>1, <3>3, CommitRow
    <3> QED BY <3>1, <3>2, <3>4
  <2>2. \A r \in Remits : ~Unsettled(r)' =>
          remit'[r].status = IF Settled(links', r) = remit'[r].amount THEN "COMPLETED" ELSE "PARTIAL"
    BY <2>1, CommitSettles
  <2> QED BY <2>2 DEF StatusKnown, Settled, Unsettled
<1>3. PICK t : /\ tx' = [tx EXCEPT ![p] = t]
               /\ t.pc = "idle" \/ (t.pc = "enqueue" /\ IsCall(t) /\ CallKnown(t) /\ AddsKnown(t))
  BY TailKnown DEF Known, Idle
<1>4. \A q \in Procs : tx'[q] = IF q = p THEN t ELSE tx[q]
  BY <1>3 DEF IInv, TypeOK
<1>5. ASSUME NEW q \in Procs, tx'[q].pc # "idle" PROVE SettlesKnown(tx[q])'
  <2>1. CASE q = p
    <3>1. t.pc = "enqueue" /\ DOMAIN t.new = {} /\ ~HasRead(t) /\ tx'[q] = t
      BY <1>3, <1>4, <1>5, <2>1 DEF CallKnown, HasRead, Commits
    <3>2. SettlesKnown(t)'
      BY <3>1 DEF SettlesKnown, HasRead, Commits
    <3> QED BY <3>1, <3>2
  <2>2. CASE q # p
    <3>1. tx'[q] = tx[q] /\ tx[q].pc # "idle"
      BY <1>4, <1>5, <2>2
    <3>2. \A u : u = tx[q] => SettlesKnown(u)'
      BY <2>2, <3>1, SettlesStay
    <3> QED BY <3>1, <3>2
  <2> QED BY <2>1, <2>2
<1> QED BY <1>1, <1>2, <1>5 DEF SharedInv

LEMMA SharedInit ==
  ASSUME ConstantsAssumption, Init
  PROVE  SharedInv
<1>1. links = {} /\ \A p \in Procs : tx[p].pc = "idle"
  BY DEF Init, Idle
<1>2. \A r \in Remits : Settled(links, r) = 0 /\ Unsettled(r)
  BY <1>1, NothingSettled DEF Unsettled
<1>3. \A r \in Remits : remit[r].amount = 0
  BY DEF Init, NoRow
<1> QED BY <1>1, <1>2, <1>3 DEF SharedInv, SettledWithinAmount, StatusKnown

LEMMA SharedNext ==
  ASSUME ConstantsAssumption, SharedAssumption, IInv, SharedInv, [Next]_vars
  PROVE  SharedInv'
<1>1. CASE UNCHANGED vars
  <2>1. remit' = remit /\ links' = links /\ tx' = tx
    BY <1>1 DEF vars
  <2>2. ASSUME NEW u PROVE SettlesKnown(u)' <=> SettlesKnown(u)
    BY <2>1 DEF SettlesKnown, HasRead, Commits, Settled
  <2>3. \A p \in Procs : tx'[p].pc # "idle" => SettlesKnown(tx[p])'
    BY <2>1, <2>2 DEF SharedInv
  <2>4. SettledWithinAmount' /\ StatusKnown'
    BY <2>1 DEF SharedInv, SettledWithinAmount, StatusKnown, Settled, Unsettled
  <2> QED BY <2>3, <2>4 DEF SharedInv
<1>2. ASSUME NEW p \in Procs, Call(p) PROVE SharedInv'
  BY <1>2, SharedCall
<1>3. ASSUME NEW p \in Procs, Proceed(p) PROVE SharedInv'
  BY <1>3, SharedSingle, SharedGroup, SharedRead, SharedEnqueue, SharedCommit DEF Proceed
<1>4. ASSUME NEW p \in Procs, Abort(p) \/ CrashInTail(p) PROVE SharedInv'
  BY <1>4, SharedEnd DEF Abort, CrashInTail
<1> QED BY <1>1, <1>2, <1>3, <1>4 DEF Next

LEMMA SharedInvariant == ConstantsAssumption /\ SharedAssumption => (Spec => []SharedInv)
<1> SUFFICES ASSUME ConstantsAssumption, SharedAssumption PROVE Spec => []SharedInv
  OBVIOUS
<1>1. Init => SharedInv
  BY SharedInit
<1>2. IInv /\ SharedInv /\ [Next]_vars => SharedInv'
  BY SharedNext
<1>3. Spec => []IInv
  BY Invariant
<1> QED BY <1>1, <1>2, <1>3, PTL DEF Spec

\* Among groups whose legs share an account, no remittance is settled beyond its
\* amount, though no group locks a source before it reads it
\* (SettledWithinAmount).
THEOREM SettledSafe == ConstantsAssumption /\ SharedAssumption => (Spec => []SettledWithinAmount)
<1> SUFFICES ASSUME ConstantsAssumption, SharedAssumption PROVE Spec => []SettledWithinAmount
  OBVIOUS
<1>1. SharedInv => SettledWithinAmount
  BY DEF SharedInv
<1>2. Spec => []SharedInv
  BY SharedInvariant
<1> QED BY <1>1, <1>2, PTL

\* Among such groups, a settled remittance is COMPLETED once its links add up to
\* its amount and PARTIAL before, whatever decisions of it are under way
\* (StatusFollowsLinks).
THEOREM StatusFollowsSafe == ConstantsAssumption /\ SharedAssumption => (Spec => []StatusFollowsLinks)
<1> SUFFICES ASSUME ConstantsAssumption, SharedAssumption PROVE Spec => []StatusFollowsLinks
  OBVIOUS
<1>1. IInv /\ SharedInv => StatusFollowsLinks
  BY NoneSettled DEF SharedInv, StatusKnown, StatusFollowsLinks
<1>2. Spec => []IInv
  BY Invariant
<1>3. Spec => []SharedInv
  BY SharedInvariant
<1> QED BY <1>1, <1>2, <1>3, PTL

\* What is settled of a remittance is a number.
LEMMA SettledTypes ==
  ASSUME ConstantsAssumption, PartsAssumption, IInv, NEW r
  PROVE  Settled(links, r) \in Int
<1> DEFINE F == (Remits \X Remits) \X Parts
           f == [l \in Link |-> <<<<l.leg, l.source>>, l.amount>>]
           S == {k \in links : k.source = r}
           g == [l \in S |-> l.amount]
<1>1. IsFiniteSet(F)
  <2>1. IsFiniteSet(Remits) /\ IsFiniteSet(Parts)
    BY DEF ConstantsAssumption, RemitsAssumption, PartsAssumption
  <2>2. IsFiniteSet(Remits \X Remits)
    BY <2>1, FS_Product
  <2> QED BY <2>1, <2>2, FS_Product
<1>2. f \in Injection(Link, F)
  <2>1. \A l \in Link : f[l] \in F
    BY DEF Link
  <2>2. \A k, l \in Link : f[k] = f[l] => k = l
    BY DEF Link
  <2> QED BY <2>1, <2>2 DEF Injection, IsInjective
<1>3. IsFiniteSet(Link)
  <2> HIDE DEF f, F
  <2> QED BY <1>1, <1>2, FS_Injection
<1>4. S \subseteq Link
  BY DEF IInv, TypeOK
<1>5. IsFiniteSet(S)
  <2> HIDE DEF S
  <2> QED BY <1>3, <1>4, FS_Subset
<1>6. g \in [S -> Int]
  <2>1. \A l \in Link : l.amount \in Parts
    BY DEF Link
  <2>2. Parts \subseteq Int
    BY DEF ConstantsAssumption, AmountsAssumption
  <2> HIDE DEF S
  <2> QED BY <1>4, <2>1, <2>2
<1>7. SumFunction(g) \in Int
  <2> HIDE DEF S, g
  <2> QED BY <1>5, <1>6, SumInt
<1> QED BY <1>7 DEF Settled

\* Among such groups, an open remittance is in the list of its sender and of its
\* receiver, which drops those that are settled in full (OpenIsListed).
THEOREM OpenListedSafe ==
  ConstantsAssumption /\ SharedAssumption /\ PartsAssumption => (Spec => []OpenIsListed)
<1> SUFFICES ASSUME ConstantsAssumption, SharedAssumption, PartsAssumption PROVE Spec => []OpenIsListed
  OBVIOUS
<1>1. IInv /\ SharedInv => OpenIsListed
  <2> SUFFICES ASSUME IInv, SharedInv, NEW r \in Remits, remit[r].status \in {"PENDING", "PARTIAL"}
               PROVE  remit[r].amount - Settled(links, r) > 0
    BY DEF OpenIsListed, OpenObligations
  <2>1. remit[r].amount \in Nat /\ remit[r].amount # 0
    <3>1. remit[r].amount \in Amounts
      BY DEF IInv, RowsKnown
    <3> QED BY <3>1, AmountTypes
  <2>2. Settled(links, r) \in Int /\ Settled(links, r) <= remit[r].amount
    BY SettledTypes DEF SharedInv, SettledWithinAmount
  <2>3. CASE Unsettled(r)
    BY <2>1, <2>3, NoneSettled
  <2>4. CASE ~Unsettled(r)
    <3>1. Settled(links, r) # remit[r].amount
      BY <2>4 DEF SharedInv, StatusKnown
    <3> QED BY <2>1, <2>2, <3>1
  <2> QED BY <2>3, <2>4
<1>2. Spec => []IInv
  BY Invariant
<1>3. Spec => []SharedInv
  BY SharedInvariant
<1> QED BY <1>1, <1>2, <1>3, PTL
=============================================================================
