------------------------------- MODULE PriceBoard -------------------------------
(***************************************************************************)
(* The tables from which the price board is computed: market products,     *)
(* price providers, the mappings that say which providers a product asks   *)
(* and in what order, and the price overrides of the admins; and           *)
(* QuoteResolverService, which turns the rows of one product into a quote. *)
(*                                                                         *)
(* RedisService.isEnabled returns false at this commit, so the ingestion   *)
(* worker never reaches the resolver; test/market.spec.ts calls it on rows *)
(* as ResolveOf does here.                                                 *)
(***************************************************************************)
EXTENDS Naturals, FiniteSets, Sequences, SequencesExt

CONSTANTS
  Procs,        \* the admin calls that run at the same time
  Products, Providers, Admins, None,
  Registered,   \* the providers that the registry knows
  Reply,        \* of each provider: what fetchOne may do
  MappingIds,   \* ProductProviderMapping rows
  Priorities,
  MaxOverrides, \* bound: AdminPriceOverride rows, numbered as they are created
  Lists         \* the bodies of the calls of replaceMappings

Answers == {"none", "throws", "negative", "stale", "fresh"}
Modes == {"ABSOLUTE", "DELTA_BPS", "DELTA_AMOUNT"}
Items == [provider : Providers, priority : Priorities, enabled : BOOLEAN]

BoardAssumption ==
  /\ Registered \subseteq Providers /\ Priorities \subseteq Nat /\ MaxOverrides \in Nat
  /\ \A v \in Providers : Reply[v] \in SUBSET Answers \ {{}}
  /\ Lists \subseteq SUBSET Items

VARIABLES
  product,   \* MarketProduct rows: isActive
  provider,  \* PriceProvider rows: isEnabled
  mapping,   \* ProductProviderMapping rows
  override,  \* AdminPriceOverride rows
  call,      \* the admin calls
  listed,    \* of each product: the rows that replaceMappings has left, until another call edits them
  resolved   \* the quote that was just resolved, with what it was resolved from

vars == <<product, provider, mapping, override, call, listed, resolved>>

Overrides == 1 .. MaxOverrides
Absent == [product |-> None]
Idle == [pc |-> "idle"]
Mapping == [product : Products, provider : Providers, priority : Priorities, enabled : BOOLEAN]
Override == [product : Products, mode : Modes, active : BOOLEAN, revokedBy : Admins \union {None}, over : BOOLEAN]

Mappings(p) == {m \in MappingIds : mapping[m].product = p}
Active(p) == {o \in Overrides : override[o].product = p /\ override[o].active}
Item(m) == [provider |-> mapping[m].provider, priority |-> mapping[m].priority, enabled |-> mapping[m].enabled]

TypeOK ==
  /\ product \in [Products -> BOOLEAN]
  /\ provider \in [Providers -> BOOLEAN]
  /\ mapping \in [MappingIds -> Mapping \union {Absent}]
  /\ override \in [Overrides -> Override \union {Absent}]
  /\ \A c \in Procs : call[c] = Idle \/ call[c].pc \in {"insert", "replace"}
  /\ \A p \in Products : listed[p] = None \/ listed[p] \in SUBSET Items

Init ==
  /\ product \in [Products -> BOOLEAN]
  /\ provider = [v \in Providers |-> TRUE]
  /\ mapping = [m \in MappingIds |-> Absent]
  /\ override = [o \in Overrides |-> Absent]
  /\ call = [c \in Procs |-> Idle]
  /\ listed = [p \in Products |-> None]
  /\ resolved = None

Returned(c) == call' = [call EXCEPT ![c] = Idle]
Goes(c, t) == call' = [call EXCEPT ![c] = t]

(***************************************************************************)
(* MarketProductsService and PriceProvidersService: one statement a call.  *)
(* The DTO of a PATCH is a PartialType of the one that creates, and takes  *)
(* its initialisers along: isActive of a product, and isEnabled of a       *)
(* provider or of a mapping, are written although the body does not name   *)
(* them.                                                                   *)
(***************************************************************************)
PatchProduct(c, p) ==
  /\ call[c] = Idle
  /\ \E body \in BOOLEAN \union {None} : product' = [product EXCEPT ![p] = IF body = None THEN TRUE ELSE body]
  /\ resolved' = None /\ UNCHANGED <<provider, mapping, override, call, listed>>

SetProductActive(c, p) ==
  /\ call[c] = Idle
  /\ \E on \in BOOLEAN : product' = [product EXCEPT ![p] = on]
  /\ resolved' = None /\ UNCHANGED <<provider, mapping, override, call, listed>>

SetProviderEnabled(c, v) ==
  /\ call[c] = Idle
  /\ \E on \in BOOLEAN : provider' = [provider EXCEPT ![v] = on]
  /\ resolved' = None /\ UNCHANGED <<product, mapping, override, call, listed>>

(***************************************************************************)
(* ProductProviderMappingsService.                                         *)
(***************************************************************************)
\* @@unique([productId, providerId])
CollidesNever(p, v, others) == FALSE
Collides(p, v, others) == \E m \in others : mapping[m].product = p /\ mapping[m].provider = v

\* A row gets an id that no row has and no call in progress knows.
Unused == {m \in MappingIds : mapping[m] = Absent /\ \A c \in Procs : call[c].pc = "replace" => m \notin call[c].old}

NewMapping(p, i) == [product |-> p, provider |-> i.provider, priority |-> i.priority, enabled |-> i.enabled]

CreateMapping(c, p) ==
  /\ call[c] = Idle
  /\ Unused # {}
  /\ \E i \in Items :
       /\ ~ Collides(p, i.provider, MappingIds)
       /\ mapping' = [mapping EXCEPT ![CHOOSE m \in Unused : TRUE] = NewMapping(p, i)]
  /\ listed' = [listed EXCEPT ![p] = None]
  /\ resolved' = None /\ UNCHANGED <<product, provider, override, call>>

\* A PATCH, which need not name all three.
PatchMapping(c, m) ==
  /\ call[c] = Idle
  /\ mapping[m] # Absent
  /\ \E p \in Products, v \in Providers, n \in Priorities, on \in BOOLEAN :
       /\ ~ Collides(p, v, MappingIds \ {m})
       /\ mapping' = [mapping EXCEPT ![m] = [product |-> p, provider |-> v, priority |-> n, enabled |-> on]]
       /\ listed' = [listed EXCEPT ![p] = None, ![mapping[m].product] = None]
  /\ resolved' = None /\ UNCHANGED <<product, provider, override, call>>

SetMappingEnabled(c, m) ==
  /\ call[c] = Idle
  /\ mapping[m] # Absent
  /\ \E on \in BOOLEAN : mapping' = [mapping EXCEPT ![m].enabled = on]
  /\ listed' = [listed EXCEPT ![mapping[m].product] = None]
  /\ resolved' = None /\ UNCHANGED <<product, provider, override, call>>

ConflictingProviders(list) == \E i, j \in list : i # j /\ i.provider = j.provider
Conflicting(list) ==
  \E i, j \in list : i # j /\ (i.provider = j.provider \/ i.priority = j.priority)

\* deleteMany finds its rows when it starts, and waits for those that another call writes.
BeginReplace(c, p, list) ==
  /\ call[c] = Idle /\ ~ Conflicting(list)
  /\ Goes(c, [pc |-> "replace", product |-> p, list |-> list, old |-> Mappings(p)])
  /\ resolved' = None /\ UNCHANGED <<product, provider, mapping, override, listed>>

DroppedIfEnabled(c) == {m \in call[c].old : mapping[m].product = call[c].product /\ mapping[m].enabled}
Dropped(c) == {m \in call[c].old : mapping[m].product = call[c].product}

\* One transaction: deleteMany, then createMany, which a duplicate provider rolls back.
Replace(c) ==
  /\ call[c].pc = "replace"
  /\ LET p == call[c].product
         list == call[c].list
         kept == MappingIds \ Dropped(c)
         Placed == CHOOSE at \in [list -> Unused] : IsInjective(at)
     IN \/ /\ \E i \in list : Collides(p, i.provider, kept)
           /\ UNCHANGED <<mapping, listed>>
        \/ /\ ~ \E i \in list : Collides(p, i.provider, kept)
           /\ Cardinality(list) <= Cardinality(Unused)
           /\ mapping' = [m \in MappingIds |->
                CASE \E i \in list : Placed[i] = m -> NewMapping(p, CHOOSE i \in list : Placed[i] = m)
                  [] m \in Dropped(c) -> Absent
                  [] OTHER -> mapping[m]]
           /\ listed' = [listed EXCEPT ![p] = list]
  /\ Returned(c)
  /\ resolved' = None /\ UNCHANGED <<product, provider, override>>

(***************************************************************************)
(* PriceOverridesService.  A body carries the two numbers of its mode, or  *)
(* not, and an expiry that has passed, is within seven days, or is not.    *)
(***************************************************************************)
Bodies == [product : Products, mode : Modes, complete : BOOLEAN, expires : {"past", "week", "later"}, replaceExisting : BOOLEAN]
Valid(dto) == dto.complete /\ dto.expires = "week"

\* The bound on the rows.
RoomForOverride == Cardinality({o \in Overrides : override[o] # Absent}) + Cardinality({c \in Procs : call[c].pc = "insert"}) < MaxOverrides

\* updateMany finds its rows, or findFirst looks for one.
BeginOverride(c, dto) ==
  /\ call[c] = Idle /\ Valid(dto) /\ RoomForOverride
  /\ dto.replaceExisting \/ Active(dto.product) = {}
  /\ Goes(c, [pc |-> "insert", dto |-> dto, old |-> IF dto.replaceExisting THEN Active(dto.product) ELSE {}])
  /\ resolved' = None /\ UNCHANGED <<product, provider, mapping, override, listed>>

RevokedNever(row, by) == row
Revoked(row, by) == [row EXCEPT !.active = FALSE, !.revokedBy = by]

\* updateMany skips the rows that another call has made inactive meanwhile.
Insert(c, by) ==
  /\ call[c].pc = "insert"
  /\ \E o \in Overrides :
       /\ \A n \in Overrides : n < o <=> override[n] # Absent
       /\ override' = [n \in Overrides |->
            CASE n = o -> [product |-> call[c].dto.product, mode |-> call[c].dto.mode, active |-> TRUE, revokedBy |-> None, over |-> FALSE]
              [] n \in call[c].old /\ override[n].active -> Revoked(override[n], by)
              [] OTHER -> override[n]]
  /\ Returned(c)
  /\ resolved' = None /\ UNCHANGED <<product, provider, mapping, listed>>

Revoke(c, o, by) ==
  /\ call[c] = Idle
  /\ override[o] # Absent
  /\ override' = [override EXCEPT ![o] = Revoked(@, by)]
  /\ resolved' = None /\ UNCHANGED <<product, provider, mapping, call, listed>>

\* The clock passes expiresAt.
Expire(o) ==
  /\ override[o] # Absent /\ ~ override[o].over
  /\ override' = [override EXCEPT ![o].over = TRUE]
  /\ resolved' = None /\ UNCHANGED <<product, provider, mapping, call, listed>>

(***************************************************************************)
(* QuoteResolverService.resolve, over the rows that handleTick reads.      *)
(***************************************************************************)
ByPriority(ms) == {s \in SetToSeqs(ms) : \A i, j \in DOMAIN s : i < j => mapping[s[i]].priority <= mapping[s[j]].priority}
Asked(p) == {m \in Mappings(p) : mapping[m].enabled}

\* The newest of the overrides that are in force; without one, none.
InForce(p) == {o \in Active(p) : ~ override[o].over}
OverrideOf(p) == IF InForce(p) = {} THEN None ELSE CHOOSE o \in InForce(p) : \A n \in InForce(p) : n <= o

validateProviderQuote(answer) == answer \in {"stale", "fresh"}

\* The loop goes on past a provider that is missing, throws or gives no valid quote.
ChosenFirst(list, answer) ==
  IF list # <<>> /\ mapping[list[1]].provider \in Registered /\ validateProviderQuote(answer[mapping[list[1]].provider])
    THEN mapping[list[1]].provider ELSE None
Chosen(list, answer) ==
  LET Good(i) == mapping[list[i]].provider \in Registered /\ validateProviderQuote(answer[mapping[list[i]].provider])
      good == {i \in DOMAIN list : Good(i)}
  IN  IF good = {} THEN None ELSE mapping[list[CHOOSE i \in good : \A j \in good : i <= j]].provider

\* applyOverride returns null whatever the override; so does resolve once a provider was chosen.
Quote(o, chosen) == IF chosen = None THEN [status |-> "NO_PRICE", source |-> None] ELSE None

Resolve(p) ==
  /\ product[p]
  /\ \E answer \in {f \in [Providers -> Answers] : \A v \in Providers : f[v] \in Reply[v]},
        list \in ByPriority(Asked(p)) :
       resolved' = [product |-> p, override |-> OverrideOf(p), mode |-> IF OverrideOf(p) = None THEN None ELSE override[OverrideOf(p)].mode,
                    asked |-> {Item(m) : m \in Asked(p)}, answer |-> answer,
                    chosen |-> Chosen(list, answer), quote |-> Quote(OverrideOf(p), Chosen(list, answer))]
  /\ UNCHANGED <<product, provider, mapping, override, call, listed>>

Next ==
  \/ \E c \in Procs, p \in Products : PatchProduct(c, p) \/ SetProductActive(c, p) \/ CreateMapping(c, p)
  \/ \E c \in Procs, v \in Providers : SetProviderEnabled(c, v)
  \/ \E c \in Procs, m \in MappingIds : PatchMapping(c, m) \/ SetMappingEnabled(c, m)
  \/ \E c \in Procs, p \in Products, list \in Lists : BeginReplace(c, p, list)
  \/ \E c \in Procs, dto \in Bodies : BeginOverride(c, dto)
  \/ \E c \in Procs : Replace(c)
  \/ \E c \in Procs, by \in Admins : Insert(c, by)
  \/ \E c \in Procs, o \in Overrides, by \in Admins : Revoke(c, o, by)
  \/ \E o \in Overrides : Expire(o)
  \/ \E p \in Products : Resolve(p)

Spec == Init /\ [][Next]_vars

(***************************************************************************)
(* Properties.                                                             *)
(***************************************************************************)
\* A product has one mapping of a provider at most, also when lists that were
\* replaced at the same time end up mixed (replaceMappings, create, update).
OneMappingPerProvider ==
  \A m, n \in MappingIds : m # n /\ mapping[m] # Absent /\ mapping[n] # Absent =>
    <<mapping[m].product, mapping[m].provider>> # <<mapping[n].product, mapping[n].provider>>

\* While nothing else edits the mappings of a product they are the list of
\* the last replaceMappings: nothing of an earlier list is left.
ListsAreWhole == \A p \in Products : listed[p] # None => {Item(m) : m \in Mappings(p)} = listed[p]

\* So no two providers of such a product share a priority, and the order in
\* which they are asked is the admin's (ProviderMappingConflictException).
ListsAreOrdered ==
  \A p \in Products : listed[p] # None =>
    \A m, n \in Mappings(p) : m # n => mapping[m].priority # mapping[n].priority

\* The provider that is chosen answered, is known, is enabled for the product,
\* and every one before it failed; none is chosen only if all failed (resolve).
ChosenIsFirstValid ==
  resolved # None =>
    LET Good(i) == i.enabled /\ i.provider \in Registered /\ resolved.answer[i.provider] \in {"stale", "fresh"}
    IN  IF resolved.chosen = None THEN \A i \in resolved.asked : ~ Good(i)
        ELSE \E i \in resolved.asked :
               /\ i.provider = resolved.chosen /\ Good(i)
               /\ \A j \in resolved.asked : j.priority < i.priority => ~ Good(j)

\* A product has at most one active override (create: 'Active override exists').
OneActiveOverride == \A p \in Products : Cardinality(Active(p)) <= 1
=============================================================================
