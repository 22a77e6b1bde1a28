---------------------------- MODULE PolicyRules ----------------------------
(***************************************************************************)
(* The rows that PolicyResolution reads and the admins who write them:     *)
(* policy rules (one by one, in bulk, and as cells of a user's product     *)
(* grid), customer groups with their members, and KYC levels.  None of     *)
(* these handlers locks what it has read before it writes.                 *)
(*                                                                         *)
(* A bulk call has one item and a grid call one cell: their transactions   *)
(* write nothing before the last statement.  The Tahesab documents that    *)
(* moveUsers queues are those of TahesabOutbox.                            *)
(***************************************************************************)
EXTENDS PolicyResolution, TLC

CONSTANTS
  Procs,      \* concurrent calls
  Ops,        \* the operations admins use in this run
  Users, Groups, Ids,
  Keys,       \* (action, metric, period) of rules
  Product,    \* the product of the grid
  Instrument, Type,   \* its base instrument and the type of that
  Forms,      \* bodies of create and of bulk items
  Patches,    \* bodies of PATCH: records with some fields of a form
  Values,     \* limits typed into the grid
  KycBodies,  \* what an admin may write into a UserKyc row: [status, level]
  DefaultPriority,
  MaxTime     \* bound: the last instant at which rows are written

FormsAssumption == \A f \in Forms : f.limit > 0 /\ f.key \in Keys

CONSTANTS FirstGroup  \* the group that some users are in at the start

VARIABLES
  rule,    \* PolicyRule rows
  audit,   \* the afterJson of the last PolicyAuditLog row of each rule
  user,    \* [group, status, level]: User.customerGroupId and the UserKyc row
  group,   \* [state, default, settings]: CustomerGroup rows, and whether they have settings
  clock,   \* the time that updatedAt and createdAt are taken from
  call     \* each call: its step, arguments and what it has read

vars == <<rule, audit, user, group, clock, call>>

Idle == [pc |-> "idle"]
At(p, pc) == call[p].pc = pc
Go(p, c) == call' = [call EXCEPT ![p] = c]

NoRule == [scope |-> "none"]
Rows == {i \in Ids : rule[i] # NoRule}
Rules == {rule[i] : i \in Rows}
Live == {g \in Groups : group[g].state = "live"}

\* Mutant: what the body says is stored as it is.
NormalizeNothing(f) == [product |-> f.product, instrument |-> f.instrument, type |-> f.type]

NormalizeSelector(f) ==
  [product |-> f.product,
   instrument |-> IF f.product # None THEN None ELSE f.instrument,
   type |-> IF f.product # None \/ f.instrument # None THEN None ELSE f.type]

ValidScope(f) ==
  /\ f.scope = "USER" => f.user # None
  /\ f.scope = "GROUP" => f.group # None
  /\ f.scope = "GLOBAL" => f.user = None /\ f.group = None

\* The columns written from a body f.
Columns(f) ==
  LET s == NormalizeSelector(f)
  IN  [scope |-> f.scope, key |-> f.key, limit |-> f.limit, kyc |-> f.kyc,
       user |-> IF f.scope = "USER" THEN f.user ELSE None,
       group |-> IF f.scope = "GROUP" THEN f.group ELSE None,
       product |-> s.product, instrument |-> s.instrument, type |-> s.type,
       enabled |-> f.enabled, priority |-> f.priority]

\* The foreign key on scopeGroupId.
RefersToRows(columns) == columns.group \in Live \union {None}

\* Mutant: the two columns are mixed up.
StampedSwapped(columns, created) == [updated |-> created, created |-> clock] @@ columns

Stamped(columns, created) == [updated |-> clock, created |-> created] @@ columns

\* A cuid() that no row and no call names.
Fresh == {i \in Ids \ Rows : \A p \in Procs : call[p] = Idle \/ call[p].id # i}

TypeOK ==
  /\ \A i \in Rows : /\ rule[i].scope \in {"USER", "GROUP", "GLOBAL"} /\ rule[i].kyc \in KycLevels
                     /\ rule[i].user \in Users \union {None} /\ rule[i].group \in Groups \union {None}
                     /\ rule[i].created \in 0 .. clock /\ rule[i].updated \in rule[i].created .. clock
                     /\ rule[i].limit > 0 /\ rule[i].key \in Keys
  /\ user \in [Users -> [group : Groups \union {None}, status : {"NONE", "PENDING", "VERIFIED", "REJECTED"}, level : KycLevels]]
  /\ group \in [Groups -> [state : {"unborn", "live", "gone"}, default : BOOLEAN, settings : BOOLEAN]]
  /\ clock \in 0 .. MaxTime

Init ==
  /\ rule = [i \in Ids |-> NoRule]
  /\ audit = rule
  /\ user \in [Users -> [group : {FirstGroup, None}, status : {"NONE"}, level : {0}]]
  /\ group = [g \in Groups |-> [state |-> IF g = FirstGroup THEN "live" ELSE "unborn", default |-> FALSE, settings |-> FALSE]]
  /\ clock = 0
  /\ call = [p \in Procs |-> Idle]

Tick ==
  /\ clock < MaxTime
  /\ clock' = clock + 1
  /\ UNCHANGED <<rule, audit, user, group, call>>

Write(i, row) == rule' = [rule EXCEPT ![i] = row] /\ UNCHANGED <<user, group, clock>>
\* Mutant: the audit row is forgotten.
LogNothing(i, row) == UNCHANGED audit

Log(i, row) == audit' = [audit EXCEPT ![i] = row]
Ends(p) == Go(p, Idle) /\ UNCHANGED <<rule, audit, user, group, clock>>

-----------------------------------------------------------------------------
(* One rule at a time: the row is written, then the audit row.             *)

Create(p, f) ==
  /\ "create" \in Ops /\ At(p, "idle") /\ ValidScope(f) /\ RefersToRows(Columns(f))
  /\ \E i \in Fresh : LET row == Stamped(Columns(f), clock)
                      IN  Write(i, row) /\ Go(p, [pc |-> "audit", id |-> i, row |-> row])
  /\ UNCHANGED audit

Audit(p) ==
  /\ At(p, "audit")
  /\ Log(call[p].id, call[p].row)
  /\ Go(p, Idle)
  /\ UNCHANGED <<rule, user, group, clock>>

ReadForPatch(p, i, dto) ==
  /\ "patch" \in Ops /\ At(p, "idle") /\ i \in Rows
  /\ ValidScope(dto @@ rule[i])
  /\ Go(p, [pc |-> "patch", id |-> i, dto |-> dto, read |-> rule[i]])
  /\ UNCHANGED <<rule, audit, user, group, clock>>

\* Mutant: fields that the body leaves out get their defaults back.
MergedWithDefaults(dto, read) == dto @@ [enabled |-> TRUE, priority |-> DefaultPriority] @@ read

Merged(dto, read) == dto @@ read

\* Mutant: only the columns that differ from the row as it was read.
DataOfDifferences(columns, read, row) ==
  [x \in DOMAIN columns |-> IF columns[x] = read[x] THEN row[x] ELSE columns[x]]

\* What the update writes over a row: every column.
Data(columns, read, row) == columns

\* Fails when the row, or the group it names, has been deleted since.
Patch(p) ==
  /\ At(p, "patch")
  /\ LET i == call[p].id
         columns == Columns(Merged(call[p].dto, call[p].read))
         row == Stamped(Data(columns, call[p].read, rule[i]), rule[i].created)
     IN  IF i \in Rows /\ RefersToRows(columns)
         THEN /\ Write(i, row)
              /\ Go(p, [pc |-> "audit", id |-> i, row |-> row])
              /\ UNCHANGED audit
         ELSE Ends(p)

Delete(p, i) ==
  /\ "delete" \in Ops /\ At(p, "idle") /\ i \in Rows
  /\ Write(i, NoRule)
  /\ Go(p, [pc |-> "audit", id |-> i, row |-> NoRule])
  /\ UNCHANGED audit

-----------------------------------------------------------------------------
(* Find, then update or create: one item of a bulk call, one cell of a grid.*)

SameSelector(r, s) ==
  CASE s.product # None -> r.product = s.product
    [] s.instrument # None -> r.instrument = s.instrument
    [] s.type # None -> r.type = s.type
    [] OTHER -> r.product = None /\ r.instrument = None /\ r.type = None

\* findFirst of a bulk item: no order, so any of them.
UpsertTargets(f) ==
  {i \in Rows : LET r == rule[i]  c == Columns(f)
                IN  r.scope = c.scope /\ r.user = c.user /\ r.group = c.group /\ r.key = c.key /\ SameSelector(r, c)}

\* The USER rules of u for the product.
CellRules(u, key) ==
  {i \in Rows : rule[i].scope = "USER" /\ rule[i].user = u /\ rule[i].product = Product /\ rule[i].key = key}

CellForm(u, key, v) ==
  [scope |-> "USER", user |-> u, group |-> None, key |-> key, limit |-> v, kyc |-> 0,
   product |-> Product, instrument |-> None, type |-> None, enabled |-> TRUE, priority |-> DefaultPriority]

\* Mutant: a new rule is created whatever is there.
FoundNever(targets) == {None}

Found(targets) == IF targets = {} THEN {None} ELSE targets

FindForUpsert(p, f) ==
  /\ "upsert" \in Ops /\ At(p, "idle") /\ ValidScope(f)
  /\ \E i \in Found(UpsertTargets(f)) : Go(p, [pc |-> "upsert", id |-> i, form |-> f])
  /\ UNCHANGED <<rule, audit, user, group, clock>>

FindForSet(p, u, key, v) ==
  /\ "set" \in Ops /\ At(p, "idle")
  /\ \E i \in Found(CellRules(u, key)) : Go(p, [pc |-> "set", id |-> i, form |-> CellForm(u, key, v)])
  /\ UNCHANGED <<rule, audit, user, group, clock>>

\* A bulk item rewrites what it names and keeps the scope of the row found.
Rewritten(r, f) ==
  LET s == NormalizeSelector(f)
  IN  [r EXCEPT !.limit = f.limit, !.kyc = f.kyc, !.enabled = f.enabled, !.priority = f.priority,
                !.product = s.product, !.instrument = s.instrument, !.type = s.type, !.updated = clock]

InsertFound(p) ==
  /\ call[p].pc \in {"upsert", "set"} /\ call[p].id = None
  /\ LET columns == Columns(call[p].form)
     IN  IF ~RefersToRows(columns) THEN Ends(p)
         ELSE \E i \in Fresh : LET row == Stamped(columns, clock)
                               IN  /\ Write(i, row) /\ Go(p, Idle)
                                   /\ IF call[p].pc = "upsert" THEN Log(i, row) ELSE UNCHANGED audit

UpdateFound(p) ==
  /\ call[p].pc \in {"upsert", "set"} /\ call[p].id # None
  /\ LET i == call[p].id
         row == IF call[p].pc = "upsert" THEN Rewritten(rule[i], call[p].form)
                ELSE [rule[i] EXCEPT !.limit = call[p].form.limit, !.updated = clock]
     IN  IF i \notin Rows THEN Ends(p)
         ELSE /\ Write(i, row) /\ Go(p, Idle)
              /\ IF call[p].pc = "upsert" THEN Log(i, row) ELSE UNCHANGED audit

\* Mutant: CLEAR deletes the first rule it finds.
ClearedFirst(targets) == IF targets = {} THEN {} ELSE {CHOOSE i \in targets : TRUE}

Cleared(targets) == targets

Clear(p, u, key) ==
  /\ "clear" \in Ops /\ At(p, "idle") /\ CellRules(u, key) # {}
  /\ LET gone == Cleared(CellRules(u, key))
     IN  rule' = [i \in Ids |-> IF i \in gone THEN NoRule ELSE rule[i]]
  /\ UNCHANGED <<audit, user, group, clock, call>>

-----------------------------------------------------------------------------
(* Customer groups, their members, KYC.                                    *)

PutKyc(u, status, level) ==
  /\ "kyc" \in Ops
  /\ user' = [user EXCEPT ![u].status = status, ![u].level = level]
  /\ UNCHANGED <<rule, audit, group, clock, call>>

\* Mutant: the other groups keep their flag.
ResetNothing(default) == {}

ResetByDefault(default) == IF default THEN Live ELSE {}

\* create and update of a group; a default one first takes the flag off all
\* the groups that its updateMany sees when it starts.
BeginGroup(p, g, default) ==
  /\ "group" \in Ops /\ At(p, "idle") /\ group[g].state # "gone"
  /\ Go(p, [pc |-> "group", id |-> None, g |-> g, new |-> group[g].state = "unborn",
            default |-> default, reset |-> ResetByDefault(default)])
  /\ UNCHANGED <<rule, audit, user, group, clock>>

\* updateMany holds the rows it has reset until its commit, so that of two
\* calls that see a common group the second waits; it does not see a group
\* inserted in between.
WriteGroup(p) ==
  /\ At(p, "group")
  /\ LET g == call[p].g
     IN  IF group[g].state = IF call[p].new THEN "unborn" ELSE "live"
         THEN /\ group' = [h \in Groups |->
                   CASE h = g -> [group[h] EXCEPT !.state = "live", !.default = call[p].default]
                     [] h \in call[p].reset -> [group[h] EXCEPT !.default = FALSE]
                     [] OTHER -> group[h]]
              /\ Go(p, Idle)
              /\ UNCHANGED <<rule, audit, user, clock>>
         ELSE Ends(p)

PutSettings(g) ==
  /\ "settings" \in Ops /\ g \in Live
  /\ group' = [group EXCEPT ![g].settings = TRUE]
  /\ UNCHANGED <<rule, audit, user, clock, call>>

Members(g) == {u \in Users : user[u].group = g}

FindGroup(p, g) ==
  /\ "remove" \in Ops /\ At(p, "idle") /\ g \in Live /\ ~group[g].default
  /\ Go(p, [pc |-> "count", id |-> None, g |-> g])
  /\ UNCHANGED <<rule, audit, user, group, clock>>

\* Mutant: the members are not counted.
CountNothing(g) == TRUE

HasNoUsers(g) == Members(g) = {}

CountUsers(p) ==
  /\ At(p, "count")
  /\ Go(p, IF HasNoUsers(call[p].g) THEN [call[p] EXCEPT !.pc = "remove"] ELSE Idle)
  /\ UNCHANGED <<rule, audit, user, group, clock>>

\* ON DELETE SET NULL for members and rules, RESTRICT for settings.
RemoveGroup(p) ==
  /\ At(p, "remove")
  /\ LET g == call[p].g
     IN  IF g \in Live /\ ~group[g].settings
         THEN /\ group' = [group EXCEPT ![g] = [state |-> "gone", default |-> FALSE, settings |-> FALSE]]
              /\ user' = [u \in Users |-> IF u \in Members(g) THEN [user[u] EXCEPT !.group = None] ELSE user[u]]
              /\ rule' = [i \in Ids |-> IF i \in Rows /\ rule[i].group = g THEN [rule[i] EXCEPT !.group = None] ELSE rule[i]]
              /\ Go(p, Idle)
              /\ UNCHANGED <<audit, clock>>
         ELSE Ends(p)

FindMembers(p, from, to) ==
  /\ "move" \in Ops /\ At(p, "idle") /\ to \in Live /\ from # to
  /\ Go(p, [pc |-> "move", id |-> None, from |-> from, to |-> to, users |-> Members(from)])
  /\ UNCHANGED <<rule, audit, user, group, clock>>

MoveUsers(p) ==
  /\ At(p, "move")
  /\ LET moved == call[p].users \intersect Members(call[p].from)
     IN  IF moved # {} /\ call[p].to \in Live
         THEN /\ user' = [u \in Users |-> IF u \in moved THEN [user[u] EXCEPT !.group = call[p].to] ELSE user[u]]
              /\ Go(p, Idle)
              /\ UNCHANGED <<rule, audit, group, clock>>
         ELSE Ends(p)

-----------------------------------------------------------------------------
Next ==
  \/ Tick
  \/ \E p \in Procs :
       \/ \E f \in Forms : Create(p, f) \/ FindForUpsert(p, f)
       \/ \E i \in Ids : Delete(p, i) \/ \E dto \in Patches : ReadForPatch(p, i, dto)
       \/ Audit(p) \/ Patch(p) \/ InsertFound(p) \/ UpdateFound(p)
       \/ \E u \in Users, key \in Keys : Clear(p, u, key) \/ \E v \in Values : FindForSet(p, u, key, v)
       \/ \E g \in Groups : FindGroup(p, g) \/ (\E d \in BOOLEAN : BeginGroup(p, g, d)) \/ \E h \in Groups : FindMembers(p, h, g)
       \/ WriteGroup(p) \/ CountUsers(p) \/ RemoveGroup(p) \/ MoveUsers(p)
  \/ \E u \in Users, k \in KycBodies : PutKyc(u, k.status, k.level)
  \/ \E g \in Groups : PutSettings(g)

Spec == Init /\ [][Next]_vars

-----------------------------------------------------------------------------
(* Requests: none names a product alone, buildFromMarketProduct adds the   *)
(* rest.                                                                   *)

Request(u, product, instrument, type) ==
  [user |-> u, group |-> user[u].group, kyc |-> EffectiveKyc(user[u]), level |-> user[u].level,
   product |-> product, instrument |-> instrument, type |-> type]

PlainRequest(u) == Request(u, None, None, None)

Requests ==
  UNION {{PlainRequest(u), Request(u, None, Instrument, Type), Request(u, Product, Instrument, Type)} : u \in Users}

Asked == Requests \X Keys

\* Whatever admins write, a rule has at most one selector and names whom its
\* scope says, and nobody else (GROUP rules of a deleted group name nobody).
\* The order of rules in compareRules and the queries of bulk and grid calls
\* rest on it.
RowsAreWellFormed ==
  \A r \in Rules :
    /\ Cardinality({x \in {"product", "instrument", "type"} : r[x] # None}) <= 1
    /\ (r.user # None) <=> (r.scope = "USER")
    /\ r.group # None => r.scope = "GROUP"

\* A rule whose group is gone applies to nobody: not to users without a group
\* either, though null = null in matchesScope.
OrphansNeverApply ==
  \A x \in Asked : \A r \in Resolved(Rules, x[1], x[2]) : r.scope = "GROUP" => r.group # None

\* The comparator orders as the policy document says: first the narrowest
\* scope, among those the most specific selector, then priority, then the
\* latest change.
SelectionIsStagewise ==
  \A x \in Asked :
    LET all == Eligible(LoadRulesForContext(Rules, x[1]), x[1], x[2])
        OfScope(s) == {r \in all : r.scope = s}
        scoped == CHOOSE S \in {OfScope("USER"), OfScope("GROUP"), OfScope("GLOBAL")} :
                    /\ S # {} \/ all = {}
                    /\ S = OfScope("GROUP") => S = {} \/ OfScope("USER") = {}
                    /\ S = OfScope("GLOBAL") => S = {} \/ OfScope("USER") \union OfScope("GROUP") = {}
        specific == {r \in scoped : \A s \in scoped : SelectorRank(r) <= SelectorRank(s)}
        urgent == {r \in specific : \A s \in specific : r.priority <= s.priority}
        newest == {r \in urgent : \A s \in urgent : r.updated >= s.updated}
    IN  Resolved(Rules, x[1], x[2]) = {r \in newest : \A s \in newest : r.created >= s.created}

\* When reserve refuses with KYC_REQUIRED, the level it names lets the user
\* through the check and no lower level does.
RequiredLevelIsLeast ==
  \A x \in Asked :
    KycRefuses(Rules, x[1], x[2]) =>
      LET needed == KycRequiredLevel(LoadRulesForContext(Rules, x[1]), x[1], x[2])
      IN  \A k \in KycLevels : KycRefuses(Rules, [x[1] EXCEPT !.kyc = k], x[2]) <=> k < needed

\* What getCapabilities allows, reserve does not refuse for KYC: it reads all
\* keys of an operation and takes the highest level.
CapabilitiesAreSafe ==
  \A u \in Users :
    KycCapable(Rules, PlainRequest(u), Keys) => \A key \in Keys : ~KycRefuses(Rules, PlainRequest(u), key)

\* The older resolver (which knows no product rules) differs by the KYC status
\* and no more than that: where the newer one finds a limit it finds one that
\* is not larger, where it misses a level the newer one refuses, and where
\* the newer one refuses and it does not, the user has a level that is not
\* VERIFIED.
LegacyDiffersByStatus ==
  \A x \in Asked :
    LET rules == {r \in Rules : r.product = None}
        old == LegacyLimit(rules, x[1], x[2])
        missed == LegacyRequiredLevel(rules, x[1], x[2])
    IN  /\ \A l \in LimitsOf(rules, x[1], x[2]) : old # None /\ old <= l
        /\ old = None /\ missed # None => KycRefuses(rules, x[1], x[2])
        /\ old # None /\ KycRefuses(rules, x[1], x[2]) =>
             user[x[1].user].status # "VERIFIED" /\ user[x[1].user].level > 0

\* The grid resolves with the level of the UserKyc row whatever its status is.
GridRequest(u) == [Request(u, Product, Instrument, Type) EXCEPT !.kyc = user[u].level]

\* What the grid shows for the product.
CellLimits(u, key) == LimitsOf(Rules, GridRequest(u), key)

\* SET writes the limit of one rule of the cell, any that findFirst returns,
\* and nothing else of it.  The grid then shows the value, and trades are
\* held to it, unless that rule is disabled, asks for a level that the user
\* does not have, or is outranked by the priority of a duplicate that a bulk
\* call, a PATCH or an overlapping SET has left: then SET changes nothing.
\* Among duplicates of equal priority the one written last counts.  (Two
\* written at the same instant are ordered by their creation.)
SetTakesEffect ==
  \A p \in Procs :
    At(p, "set") /\ call'[p] = Idle =>
      \A f \in {call[p].form}, i \in {j \in Ids : rule'[j] # rule[j]} :
        \A c \in {GridRequest(f.user), Request(f.user, Product, Instrument, Type)} :
          LET AppliesTo(r) == r.enabled /\ r.kyc <= c.kyc
              rivals == {r \in {rule[j] : j \in CellRules(f.user, f.key) \ {i}} : AppliesTo(r)}
              limits == LimitsOf(Rules, c, f.key)
          IN  IF AppliesTo(rule'[i]) /\ \A r \in rivals : rule'[i].priority <= r.priority
              THEN f.limit \in limits' \/ \E r \in rivals : r.priority = rule'[i].priority /\ r.updated = clock
              ELSE limits' = limits

\* After CLEAR no rule of the user for the product is left, not even one of
\* the duplicates that concurrent SETs make.
ClearIsComplete ==
  \A u \in Users, key \in Keys :
       Cardinality(Rows') < Cardinality(Rows) /\ CellRules(u, key)' # CellRules(u, key) => CellRules(u, key)' = {}

\* With calls one after another, bulk and grid calls never leave two rules
\* for the same scope, selector and key.
NoDuplicateRules ==
  \A i, j \in Rows : i # j => \E x \in {"scope", "user", "group", "product", "instrument", "type", "key"} : rule[i][x] # rule[j][x]

\* With calls one after another, PATCH changes only what its body names,
\* though it writes every column from the row it read.
PatchKeepsOtherFields ==
  \A p \in Procs :
       At(p, "patch") /\ call'[p].pc = "audit" =>
         \A x \in {"limit", "kyc", "enabled", "priority"} \ DOMAIN call[p].dto :
           rule'[call[p].id][x] = rule[call[p].id][x]

\* With calls one after another and no crash, the last audit row of a rule
\* shows the rule as it is, but for a group deleted since.
AuditFollowsRules ==
  (\A p \in Procs : At(p, "idle")) =>
    \A i \in Ids : audit[i] = rule[i] \/ (i \in Rows /\ audit[i] # NoRule /\ [audit[i] EXCEPT !.group = None] = rule[i])

\* updateMany takes the flag from every other group.
OneDefaultGroup == \A g, h \in Live : group[g].default /\ group[h].default => g = h

\* "Group has users; move them first": deleting a group takes no user's group
\* away.
UsersKeepTheirGroup == \A u \in Users : user[u].group # None => user'[u].group # None
=============================================================================
