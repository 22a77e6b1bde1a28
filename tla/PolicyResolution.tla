-------------------------- MODULE PolicyResolution --------------------------
(***************************************************************************)
(* Which policy rule limits a request: PolicyResolutionService, the older  *)
(* PolicyResolverService that the package still exports, and what their    *)
(* callers make of the answer.  Pure operators over a set of PolicyRule    *)
(* rows and a request                                                      *)
(*   [user, group, product, instrument, type, kyc, level]                  *)
(* where None stands for null; level is that of the user's UserKyc row,    *)
(* kyc what getUserContext makes of it.  The action, metric and period of  *)
(* a rule are one value, key.  KYC levels are 0 (NONE), 1 (BASIC) and 2    *)
(* (FULL).                                                                 *)
(***************************************************************************)
EXTENDS Integers, FiniteSets

CONSTANT None

KycLevels == 0 .. 2

ScopeRank(r) == CASE r.scope = "USER" -> 0 [] r.scope = "GROUP" -> 1 [] OTHER -> 2

SelectorRank(r) ==
  CASE r.product # None -> 0
    [] r.instrument # None -> 1
    [] r.type # None -> 2
    [] OTHER -> 3

MatchesScope(r, c) ==
  CASE r.scope = "USER" -> r.user = c.user
    [] r.scope = "GROUP" -> r.group = c.group
    [] OTHER -> TRUE

MatchesSelector(r, c) ==
  CASE r.product # None -> c.product = r.product
    [] r.instrument # None -> c.instrument = r.instrument
    [] r.type # None -> c.type = r.type
    [] OTHER -> TRUE

\* Mutant: rules apply whatever the user's level.
HasAnyKyc(level, required) == TRUE

HasRequiredKyc(level, required) == level >= required

\* Mutant: among equals the rule written first wins, as in the older resolver.
OrderOldest(r) == <<ScopeRank(r), SelectorRank(r), r.priority, r.updated, r.created>>
\* Mutant: a rule's own priority comes before how specific it is.
OrderByPriority(r) == <<ScopeRank(r), r.priority, SelectorRank(r), -r.updated, -r.created>>

\* compareRules(a, b) < 0: lower ranks first, then what was written last.
Order(r) == <<ScopeRank(r), SelectorRank(r), r.priority, -r.updated, -r.created>>

Precedes(a, b) ==
  \E i \in 1 .. 5 : Order(a)[i] < Order(b)[i] /\ \A j \in 1 .. i - 1 : Order(a)[j] = Order(b)[j]

\* Mutant: the rows of no group are loaded for users without a group.
LoadRulesForAnyGroup(rules, c) ==
  {r \in rules : /\ r.enabled
                 /\ \/ r.scope = "USER" /\ r.user = c.user
                    \/ r.scope = "GROUP" /\ r.group = c.group
                    \/ r.scope = "GLOBAL"}

LoadRulesForContext(rules, c) ==
  {r \in rules : /\ r.enabled
                 /\ \/ r.scope = "USER" /\ r.user = c.user
                    \/ r.scope = "GROUP" /\ c.group # None /\ r.group = c.group
                    \/ r.scope = "GLOBAL"}

Candidates(rules, c, key) ==
  {r \in rules : MatchesScope(r, c) /\ r.enabled /\ r.key = key /\ MatchesSelector(r, c)}

Eligible(rules, c, key) == {r \in Candidates(rules, c, key) : HasRequiredKyc(c.kyc, r.kyc)}

Blocked(rules, c, key) == Candidates(rules, c, key) \ Eligible(rules, c, key)

\* The rules that may come first after the sort: several only when all that
\* compareRules looks at is equal.
Selected(rules, c, key) ==
  LET matching == Eligible(rules, c, key)
  IN  {r \in matching : \A s \in matching : ~Precedes(s, r)}

\* Mutant: the level that satisfies every blocked rule.
HighestBlocked(rules, c, key) ==
  LET levels == {r.kyc : r \in Blocked(rules, c, key)}
  IN  IF levels = {} THEN None ELSE CHOOSE k \in levels : \A l \in levels : l <= k

KycRequiredLevel(rules, c, key) ==
  LET levels == {r.kyc : r \in Blocked(rules, c, key)}
  IN  IF levels = {} THEN None ELSE CHOOSE k \in levels : \A l \in levels : k <= l

\* resolve: the selected rules among the rows loaded for the request.
Resolved(rules, c, key) == Selected(LoadRulesForContext(rules, c), c, key)

\* What LimitsService.reserve does when nothing is used yet: throw
\* KYC_REQUIRED, hold to a limit, or let everything through.
KycRefuses(rules, c, key) ==
  Resolved(rules, c, key) = {} /\ KycRequiredLevel(LoadRulesForContext(rules, c), c, key) # None

LimitsOf(rules, c, key) == {r.limit : r \in Resolved(rules, c, key)}

\* The level that counts of a UserKyc row [status, level].
EffectiveKyc(k) == IF k.status = "VERIFIED" THEN k.level ELSE 0

\* FoundationContextService.getCapabilities: a request that names no product
\* must not be blocked by KYC on either of its two keys.
\* Mutant: the lower of the levels of two keys is enough.
KycCapableOnOneKey(rules, c, keys) ==
  \E key \in keys :
    LET needed == KycRequiredLevel(LoadRulesForContext(rules, c), c, key)
    IN  needed = None \/ needed <= c.kyc

KycCapable(rules, c, keys) ==
  \A key \in keys :
    LET needed == KycRequiredLevel(LoadRulesForContext(rules, c), c, key)
    IN  needed = None \/ needed <= c.kyc

\* PolicyResolverService: all eligible rules count and the least limit holds.
\* It knows no products, and the rows of no group match users without one.
LegacyLoaded(rules, c) == {r \in rules : r.enabled /\ MatchesScope(r, c)}

LegacyRules(rules, c, key) ==
  {r \in LegacyLoaded(rules, c) : r.key = key /\ MatchesSelector([r EXCEPT !.product = None], c)}

\* Mutant: the level is not compared.
LegacyEligibleAny(rules, c, key) == LegacyRules(rules, c, key)

\* It takes the level of the UserKyc row whatever its status is.
LegacyEligible(rules, c, key) == {r \in LegacyRules(rules, c, key) : r.kyc <= c.level}

LegacyRequiredLevel(rules, c, key) ==
  LET levels == {r.kyc : r \in LegacyRules(rules, c, key) \ LegacyEligible(rules, c, key)}
  IN  IF levels = {} THEN None ELSE CHOOSE k \in levels : \A l \in levels : k <= l

LegacyLimit(rules, c, key) ==
  LET limits == {r.limit : r \in LegacyEligible(rules, c, key)}
  IN  IF limits = {} THEN None ELSE CHOOSE l \in limits : \A m \in limits : l <= m
=============================================================================
