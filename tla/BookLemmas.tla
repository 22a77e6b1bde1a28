----------------------------- MODULE BookLemmas -----------------------------
(***************************************************************************)
(* What the proofs about balances, totals and limits need of the books:    *)
(* what SumFunction of the community module Functions computes on a finite *)
(* domain, and what the arithmetic of Ledger and Limits does to an account *)
(* row and to a usage row.                                                 *)
(*                                                                         *)
(* SumFunction unfolds to a recursive function on SUBSET DOMAIN f, that    *)
(* is, to CHOOSE g : Sums(g, DOMAIN f, f).  SumsExist shows that there is  *)
(* such a g.  Induction is stated with sets of subsets and of numbers      *)
(* instead of predicates, from the well-foundedness theorems of the        *)
(* library.                                                                *)
(***************************************************************************)
EXTENDS Ledger, Limits, FiniteSetTheorems, TLAPS

----------------------------------------------------------------------------
(* Induction *)

\* Induction over the subsets of a finite set: what holds of T as soon as it
\* holds of T without any one of its elements holds of every subset.
LEMMA SubsetInduction ==
  ASSUME NEW S, IsFiniteSet(S), NEW Good,
         \A T \in SUBSET S : (\A x \in T : T \ {x} \in Good) => T \in Good
  PROVE  SUBSET S \subseteq Good
<1> DEFINE R == StrictSubsetOrdering(S)
           Bad == {T \in SUBSET S : T \notin Good}
<1>1. IsWellFoundedOn(R, SUBSET S)
  BY FS_StrictSubsetOrderingWellFounded, FS_FiniteSubsetsOfFinite
<1>2. SUFFICES ASSUME Bad # {} PROVE FALSE
  OBVIOUS
<1>3. PICK T \in Bad : \A U \in Bad : <<U, T>> \notin R
  <2>1. Bad \subseteq SUBSET S
    OBVIOUS
  <2> HIDE DEF Bad, R
  <2> QED BY <1>1, <1>2, <2>1, WFMin
<1>4. ASSUME NEW x \in T PROVE T \ {x} \in Good
  <2>1. <<T \ {x}, T>> \in R
    BY DEF StrictSubsetOrdering
  <2> QED BY <1>3, <2>1
<1> QED BY <1>3, <1>4

\* A non-empty set of numbers has a least element.
LEMMA LeastNumber ==
  ASSUME NEW N \in SUBSET Nat, N # {}
  PROVE  \E n \in N : \A m \in N : ~(m < n)
<1>1. PICK n \in N : \A m \in N : <<m, n>> \notin OpToRel(<, Nat)
  BY NatLessThanWellFounded, WFMin
<1>2. ASSUME NEW m \in N PROVE ~(m < n)
  BY <1>1 DEF OpToRel
<1> QED BY <1>2

----------------------------------------------------------------------------
(* The recursion that SumFunction unfolds to *)

Pick(T) == CHOOSE x \in T : TRUE

Rule(g, f, T) == IF T = {} THEN 0 ELSE f[Pick(T)] + g[T \ {Pick(T)}]

Sums(g, S, f) == g = [T \in SUBSET S |-> Rule(g, f, T)]

\* The recursion has a solution: one for the subsets of at most n elements
\* extends to those of n + 1.
LEMMA SumsExist ==
  ASSUME NEW S, IsFiniteSet(S), NEW f
  PROVE  \E g : Sums(g, S, f)
<1> DEFINE Upto(n) == {T \in SUBSET S : Cardinality(T) <= n}
           Has(g, n) == g = [T \in Upto(n) |-> Rule(g, f, T)]
           Bad == {n \in Nat : ~\E g : Has(g, n)}
<1>1. \A T \in SUBSET S : Cardinality(T) \in Nat /\ IsFiniteSet(T)
  BY FS_Subset, FS_CardinalityType
<1>2. \E g : Has(g, 0)
  <2>1. Upto(0) = {{}}
    BY <1>1, FS_EmptySet
  <2>2. Has([T \in Upto(0) |-> 0], 0)
    BY <2>1 DEF Rule
  <2> QED BY <2>2
<1>3. ASSUME NEW n \in Nat, NEW g, Has(g, n)
      PROVE  Has([T \in Upto(n+1) |-> Rule(g, f, T)], n+1)
  <2> DEFINE h == [T \in Upto(n+1) |-> Rule(g, f, T)]
  <2>1. ASSUME NEW T \in Upto(n+1), T # {}
        PROVE  T \ {Pick(T)} \in Upto(n)
    <3>1. Cardinality(T \ {Pick(T)}) = Cardinality(T) - 1
      BY <1>1, <2>1, FS_RemoveElement DEF Pick
    <3> QED BY <1>1, <3>1
  <2>2. ASSUME NEW U \in Upto(n) PROVE h[U] = g[U]
    <3>1. U \in Upto(n+1)
      BY <1>1
    <3> QED BY <1>3, <3>1
  <2>3. ASSUME NEW T \in Upto(n+1) PROVE h[T] = Rule(h, f, T)
    BY <2>1, <2>2 DEF Rule
  <2> QED BY <2>3
<1>4. Bad = {}
  <2>1. SUFFICES ASSUME Bad # {} PROVE FALSE
    OBVIOUS
  <2>2. PICK n \in Bad : \A m \in Bad : ~(m < n)
    <3>1. Bad \subseteq Nat
      OBVIOUS
    <3> HIDE DEF Bad
    <3> QED BY <2>1, <3>1, LeastNumber
  <2> HIDE DEF Has
  <2>3. n # 0 /\ n - 1 \in Nat
    BY <1>2
  <2>4. PICK g : Has(g, n - 1)
    BY <2>2, <2>3
  <2>5. \E h : Has(h, (n - 1) + 1)
    BY <1>3, <2>3, <2>4
  <2> QED BY <2>2, <2>5
<1>5. PICK g : Has(g, Cardinality(S))
  BY <1>1, <1>4
<1>6. Upto(Cardinality(S)) = SUBSET S
  BY <1>1, FS_Subset
<1> QED BY <1>5, <1>6 DEF Sums

\* One step of the recursion, on a subset T.
StepOf(g, f, T) ==
  /\ T = {} => g[T] = 0
  /\ T # {} => Pick(T) \in T /\ g[T] = f[Pick(T)] + g[T \ {Pick(T)}]

\* SumFunction(f) is what the steps leave for the whole domain.
LEMMA SumIs ==
  ASSUME NEW f, IsFiniteSet(DOMAIN f)
  PROVE  \E g : SumFunction(f) = g[DOMAIN f] /\ \A T \in SUBSET DOMAIN f : StepOf(g, f, T)
<1> DEFINE g == CHOOSE g : Sums(g, DOMAIN f, f)
<1>1. Sums(g, DOMAIN f, f)
  BY SumsExist
<1>2. SumFunction(f) = g[DOMAIN f]
  BY DEF SumFunction, SumFunctionOnSet, FoldFunctionOnSet, MapThenFoldSet, Sums, Rule, Pick
<1> HIDE DEF g
<1>3. \A T \in SUBSET DOMAIN f : StepOf(g, f, T)
  BY <1>1 DEF Sums, Rule, Pick, StepOf
<1> QED BY <1>2, <1>3

----------------------------------------------------------------------------
(* What a sum of integers is worth *)

\* A sum of integers is an integer.
LEMMA SumInt ==
  ASSUME NEW S, IsFiniteSet(S), NEW f \in [S -> Int]
  PROVE  SumFunction(f) \in Int
<1>1. PICK g : SumFunction(f) = g[S] /\ \A T \in SUBSET S : StepOf(g, f, T)
  BY SumIs
<1> DEFINE Good == {T \in SUBSET S : g[T] \in Int}
<1>2. ASSUME NEW T \in SUBSET S, \A x \in T : T \ {x} \in Good
      PROVE  T \in Good
  <2>1. StepOf(g, f, T)
    BY <1>1
  <2>2. CASE T = {}
    BY <2>1, <2>2 DEF StepOf
  <2>3. CASE T # {}
    <3>1. Pick(T) \in T /\ T \ {Pick(T)} \in Good /\ g[T] = f[Pick(T)] + g[T \ {Pick(T)}]
      BY <1>2, <2>1, <2>3 DEF StepOf
    <3> QED BY <3>1
  <2> QED BY <2>2, <2>3
<1> HIDE DEF Good
<1>3. SUBSET S \subseteq Good
  BY <1>2, SubsetInduction
<1> QED BY <1>1, <1>3 DEF Good

\* A sum of zeros is zero.
LEMMA SumZero ==
  ASSUME NEW S, IsFiniteSet(S), NEW f \in [S -> {0}]
  PROVE  SumFunction(f) = 0
<1>1. PICK g : SumFunction(f) = g[S] /\ \A T \in SUBSET S : StepOf(g, f, T)
  BY SumIs
<1> DEFINE Good == {T \in SUBSET S : g[T] = 0}
<1>2. ASSUME NEW T \in SUBSET S, \A x \in T : T \ {x} \in Good
      PROVE  T \in Good
  <2>1. StepOf(g, f, T)
    BY <1>1
  <2>2. CASE T = {}
    BY <2>1, <2>2 DEF StepOf
  <2>3. CASE T # {}
    <3>1. Pick(T) \in T /\ T \ {Pick(T)} \in Good /\ g[T] = f[Pick(T)] + g[T \ {Pick(T)}]
      BY <1>2, <2>1, <2>3 DEF StepOf
    <3> QED BY <3>1
  <2> QED BY <2>2, <2>3
<1> HIDE DEF Good
<1>3. SUBSET S \subseteq Good
  BY <1>2, SubsetInduction
<1> QED BY <1>1, <1>3 DEF Good

\* No term is more than a sum of natural numbers.
LEMMA SumAtLeast ==
  ASSUME NEW S, IsFiniteSet(S), NEW f \in [S -> Nat], NEW x \in S
  PROVE  f[x] <= SumFunction(f)
<1>1. PICK g : SumFunction(f) = g[S] /\ \A T \in SUBSET S : StepOf(g, f, T)
  BY SumIs
<1> DEFINE Good == {T \in SUBSET S : g[T] \in Nat /\ (x \in T => f[x] <= g[T])}
<1>2. ASSUME NEW T \in SUBSET S, \A y \in T : T \ {y} \in Good
      PROVE  T \in Good
  <2>1. StepOf(g, f, T)
    BY <1>1
  <2>2. CASE T = {}
    BY <2>1, <2>2 DEF StepOf
  <2>3. CASE T # {}
    <3>1. Pick(T) \in T /\ T \ {Pick(T)} \in Good /\ g[T] = f[Pick(T)] + g[T \ {Pick(T)}]
      BY <1>2, <2>1, <2>3 DEF StepOf
    <3> QED BY <3>1
  <2> QED BY <2>2, <2>3
<1> HIDE DEF Good
<1>3. SUBSET S \subseteq Good
  BY <1>2, SubsetInduction
<1> QED BY <1>1, <1>3 DEF Good

\* Changing one term changes the sum by as much.
LEMMA SumChange ==
  ASSUME NEW S, IsFiniteSet(S), NEW f \in [S -> Int], NEW h \in [S -> Int], NEW x \in S,
         \A y \in S \ {x} : h[y] = f[y]
  PROVE  SumFunction(h) = SumFunction(f) + h[x] - f[x]
<1>1. PICK g : SumFunction(f) = g[S] /\ \A T \in SUBSET S : StepOf(g, f, T)
  BY SumIs
<1>2. PICK k : SumFunction(h) = k[S] /\ \A T \in SUBSET S : StepOf(k, h, T)
  BY SumIs
<1> DEFINE Good == {T \in SUBSET S : g[T] \in Int /\ k[T] = g[T] + (IF x \in T THEN h[x] - f[x] ELSE 0)}
<1>3. ASSUME NEW T \in SUBSET S, \A y \in T : T \ {y} \in Good
      PROVE  T \in Good
  <2>1. StepOf(g, f, T) /\ StepOf(k, h, T)
    BY <1>1, <1>2
  <2>2. CASE T = {}
    BY <2>1, <2>2 DEF StepOf
  <2>3. CASE T # {}
    <3> DEFINE y == Pick(T)
    <3>1. y \in T /\ g[T] = f[y] + g[T \ {y}] /\ k[T] = h[y] + k[T \ {y}]
      BY <2>1, <2>3 DEF StepOf
    <3>2. T \ {y} \in Good
      BY <1>3, <3>1
    <3> HIDE DEF y
    <3> QED BY <3>1, <3>2
  <2> QED BY <2>2, <2>3
<1> HIDE DEF Good
<1>4. SUBSET S \subseteq Good
  BY <1>3, SubsetInduction
<1> QED BY <1>1, <1>2, <1>4 DEF Good

\* Spreading the terms of g over some of the terms of f, each over one, adds the
\* sum of g to that of f.
LEMMA SumSpread ==
  ASSUME NEW S, IsFiniteSet(S), NEW f \in [S -> Int], NEW h \in [S -> Int],
         NEW T, IsFiniteSet(T), NEW g \in [T -> Int], NEW at \in [T -> S],
         \A t, u \in T : at[t] = at[u] => t = u,
         \A t \in T : h[at[t]] = f[at[t]] + g[t],
         \A s \in S : (\A t \in T : at[t] # s) => h[s] = f[s]
  PROVE  SumFunction(g) \in Int /\ SumFunction(h) = SumFunction(f) + SumFunction(g)
<1>1. PICK G : SumFunction(g) = G[T] /\ \A U \in SUBSET T : StepOf(G, g, U)
  BY SumIs
<1> DEFINE F(U) == [s \in S |-> IF \E t \in U : at[t] = s THEN h[s] ELSE f[s]]
           Good == {U \in SUBSET T : G[U] \in Int /\ SumFunction(F(U)) = SumFunction(f) + G[U]}
<1>2. SumFunction(f) \in Int
  BY SumInt
<1>3. F({}) = f
  OBVIOUS
<1>4. F(T) = h
  OBVIOUS
<1>5. ASSUME NEW U \in SUBSET T, \A t \in U : U \ {t} \in Good
      PROVE  U \in Good
  <2>1. StepOf(G, g, U)
    BY <1>1
  <2>2. CASE U = {}
    BY <1>2, <1>3, <2>1, <2>2 DEF StepOf
  <2>3. CASE U # {}
    <3> DEFINE u == Pick(U)
               V == U \ {u}
    <3>1. u \in U /\ u \in T /\ V \in Good /\ G[U] = g[u] + G[V]
      BY <1>5, <2>1, <2>3 DEF StepOf
    <3> HIDE DEF u
    <3>2. F(U) \in [S -> Int] /\ F(V) \in [S -> Int] /\ at[u] \in S
      BY <3>1
    <3>3. \A s \in S \ {at[u]} : F(U)[s] = F(V)[s]
      BY <3>1
    <3>4. F(U)[at[u]] = f[at[u]] + g[u] /\ F(V)[at[u]] = f[at[u]]
      BY <3>1, <3>2
    <3>5. SumFunction(F(U)) = SumFunction(F(V)) + F(U)[at[u]] - F(V)[at[u]]
      <4> HIDE DEF F, V
      <4> QED BY <3>2, <3>3, SumChange
    <3>6. G[V] \in Int /\ SumFunction(F(V)) = SumFunction(f) + G[V]
      BY <3>1
    <3>7. f[at[u]] \in Int /\ g[u] \in Int
      BY <3>1, <3>2
    <3> HIDE DEF F, V
    <3> QED BY <1>2, <3>1, <3>4, <3>5, <3>6, <3>7
  <2> QED BY <2>2, <2>3
<1> HIDE DEF Good, F
<1>6. SUBSET T \subseteq Good
  BY <1>5, SubsetInduction
<1>7. T \in Good
  BY <1>6
<1> QED BY <1>1, <1>4, <1>7 DEF Good

\* Adding the terms one by one adds the sums.
LEMMA SumPlus ==
  ASSUME NEW S, IsFiniteSet(S), NEW f \in [S -> Int], NEW g \in [S -> Int], NEW h \in [S -> Int],
         \A s \in S : h[s] = f[s] + g[s]
  PROVE  SumFunction(h) = SumFunction(f) + SumFunction(g)
<1> DEFINE at == [s \in S |-> s]
<1>1. at \in [S -> S] /\ \A s \in S : at[s] = s
  OBVIOUS
<1> HIDE DEF at
<1>2. /\ \A r, s \in S : at[r] = at[s] => r = s
      /\ \A r \in S : h[at[r]] = f[at[r]] + g[r]
      /\ \A s \in S : (\A r \in S : at[r] # s) => h[s] = f[s]
  BY <1>1
<1>3. at \in [S -> S]
  BY <1>1
<1> QED BY <1>2, <1>3, SumSpread

\* The sum of the opposites is the opposite of the sum.
LEMMA SumOpposite ==
  ASSUME NEW S, IsFiniteSet(S), NEW f \in [S -> Int], NEW g \in [S -> Int], \A s \in S : g[s] = -f[s]
  PROVE  SumFunction(g) = -SumFunction(f)
<1> DEFINE z == [s \in S |-> 0]
<1>1. z \in [S -> {0}] /\ \A s \in S : z[s] = 0
  OBVIOUS
<1> HIDE DEF z
<1>2. \A s \in S : z[s] = f[s] + g[s]
  BY <1>1
<1>3. z \in [S -> Int]
  BY <1>1
<1>4. SumFunction(z) = SumFunction(f) + SumFunction(g)
  BY <1>2, <1>3, SumPlus
<1>5. SumFunction(z) = 0 /\ SumFunction(f) \in Int /\ SumFunction(g) \in Int
  BY <1>1, SumZero, SumInt
<1> QED BY <1>4, <1>5

----------------------------------------------------------------------------
(* Account and usage rows *)

\* The operators of AccountsService return account rows.
LEMMA LedgerTypes ==
  ASSUME NEW a \in Account, NEW amount \in Int
  PROVE  Reserve(a, amount) \in Account /\ Unblock(a, amount) \in Account /\ Apply(a, amount) \in Account
BY DEF Account, Reserve, Unblock, Apply

\* reserveFunds and releaseFunds move between usable and blocked,
\* applyTransaction changes the balance alone.
LEMMA LedgerFacts ==
  ASSUME NEW a \in Account, NEW amount \in Int
  PROVE  /\ a.balance \in Int /\ a.blocked \in Int /\ UsableCapacity(a) \in Int
         /\ Reserve(a, amount).balance = a.balance /\ Reserve(a, amount).blocked = a.blocked + amount
         /\ UsableCapacity(Reserve(a, amount)) = UsableCapacity(a) - amount
         /\ Unblock(a, amount).balance = a.balance /\ Unblock(a, amount).blocked = a.blocked - amount
         /\ UsableCapacity(Unblock(a, amount)) = UsableCapacity(a) + amount
         /\ Apply(a, amount).balance = a.balance + amount /\ Apply(a, amount).blocked = a.blocked
         /\ UsableCapacity(Apply(a, amount)) = UsableCapacity(a) + amount
         /\ CanReserve(a, amount) <=> UsableCapacity(a) >= amount
         /\ CanUnblock(a, amount) <=> a.blocked >= amount
         /\ CanApply(a, amount) <=> UsableCapacity(a) + amount >= 0
<1>1. a.balance \in Int /\ a.blocked \in Int /\ MinBalance \in Int
  BY MinBalanceAssumption DEF Account
<1>2. Reserve(a, amount).balance = a.balance /\ Reserve(a, amount).blocked = a.blocked + amount
  BY DEF Account, Reserve
<1>3. Unblock(a, amount).balance = a.balance /\ Unblock(a, amount).blocked = a.blocked - amount
  BY DEF Account, Unblock
<1>4. Apply(a, amount).balance = a.balance + amount /\ Apply(a, amount).blocked = a.blocked
  BY DEF Account, Apply
<1>5. /\ CanReserve(a, amount) <=> UsableCapacity(a) >= amount
      /\ CanUnblock(a, amount) <=> a.blocked >= amount
      /\ CanApply(a, amount) <=> UsableCapacity(a) + amount >= 0
  BY <1>1 DEF CanReserve, CanUnblock, CanApply, UsableCapacity
<1> QED BY <1>1, <1>2, <1>3, <1>4, <1>5 DEF UsableCapacity

\* consumeFunds followed by applyTransaction: what was blocked leaves, and what
\* is usable stays as it was.
LEMMA PaidFacts ==
  ASSUME NEW a \in Account, NEW amount \in Nat
  PROVE  /\ Apply(Unblock(a, amount), -amount) \in Account
         /\ Apply(Unblock(a, amount), -amount).balance = a.balance - amount
         /\ Apply(Unblock(a, amount), -amount).blocked = a.blocked - amount
         /\ UsableCapacity(Apply(Unblock(a, amount), -amount)) = UsableCapacity(a)
<1>1. Unblock(a, amount) \in Account /\ amount \in Int /\ -amount \in Int
  BY LedgerTypes
<1>2. /\ Apply(Unblock(a, amount), -amount).balance = Unblock(a, amount).balance + (-amount)
      /\ Apply(Unblock(a, amount), -amount).blocked = Unblock(a, amount).blocked
      /\ UsableCapacity(Apply(Unblock(a, amount), -amount)) = UsableCapacity(Unblock(a, amount)) + (-amount)
      /\ Apply(Unblock(a, amount), -amount) \in Account
  BY <1>1, LedgerTypes, LedgerFacts
<1>3. /\ Unblock(a, amount).balance = a.balance /\ Unblock(a, amount).blocked = a.blocked - amount
      /\ UsableCapacity(Unblock(a, amount)) = UsableCapacity(a) + amount
      /\ a.balance \in Int /\ a.blocked \in Int /\ UsableCapacity(a) \in Int
  BY <1>1, LedgerFacts
<1> QED BY <1>2, <1>3

\* What the operators of LimitsService do to a usage row.
LEMMA UsageFacts ==
  ASSUME NEW u \in Usage, NEW amount \in Int
  PROVE  /\ u.used \in Int /\ u.reserved \in Int /\ u = [used |-> u.used, reserved |-> u.reserved]
         /\ ReserveUsage(u, amount) = [used |-> u.used, reserved |-> u.reserved + amount]
         /\ ConsumeUsage(u, amount) = [used |-> u.used + amount, reserved |-> u.reserved - amount]
         /\ ReleaseUsage(u, amount) = [used |-> u.used, reserved |-> u.reserved - amount]
<1>1. u.used \in Int /\ u.reserved \in Int /\ u = [used |-> u.used, reserved |-> u.reserved]
  BY DEF Usage
<1>2. ReserveUsage(u, amount) = [used |-> u.used, reserved |-> u.reserved + amount]
  BY <1>1 DEF ReserveUsage
<1>3. ReleaseUsage(u, amount) = [used |-> u.used, reserved |-> u.reserved - amount]
  BY <1>1 DEF ReleaseUsage
<1>4. ConsumeUsage(u, amount) = [used |-> u.used + amount, reserved |-> u.reserved - amount]
  <2>1. ConsumeUsage(u, amount) = [[u EXCEPT !.reserved = @ - amount] EXCEPT !.used = @ + amount]
    BY DEF ConsumeUsage
  <2> QED BY <1>1, <2>1
<1> QED BY <1>1, <1>2, <1>3, <1>4

\* They return usage rows.
LEMMA UsageTypes ==
  ASSUME NEW u \in Usage, NEW amount \in Int
  PROVE  /\ ReserveUsage(u, amount) \in Usage /\ ConsumeUsage(u, amount) \in Usage
         /\ ReleaseUsage(u, amount) \in Usage
<1>1. /\ u.used \in Int /\ u.reserved \in Int
      /\ ReserveUsage(u, amount) = [used |-> u.used, reserved |-> u.reserved + amount]
      /\ ConsumeUsage(u, amount) = [used |-> u.used + amount, reserved |-> u.reserved - amount]
      /\ ReleaseUsage(u, amount) = [used |-> u.used, reserved |-> u.reserved - amount]
  BY UsageFacts
<1> QED BY <1>1 DEF Usage

\* Reserving within the policy keeps the limit, consuming and releasing what is
\* reserved cannot break it.
LEMMA PolicyFacts ==
  ASSUME NEW u \in Usage, NEW amount \in Nat, NEW limit \in Int
  PROVE  /\ Projected(u, amount) <= limit
              => ReserveUsage(u, amount).used + ReserveUsage(u, amount).reserved <= limit
         /\ u.used + u.reserved <= limit
              => /\ ConsumeUsage(u, amount).used + ConsumeUsage(u, amount).reserved <= limit
                 /\ ReleaseUsage(u, amount).used + ReleaseUsage(u, amount).reserved <= limit
<1>1. /\ u.used \in Int /\ u.reserved \in Int
      /\ ReserveUsage(u, amount).used = u.used /\ ReserveUsage(u, amount).reserved = u.reserved + amount
      /\ ConsumeUsage(u, amount).used = u.used + amount /\ ConsumeUsage(u, amount).reserved = u.reserved - amount
      /\ ReleaseUsage(u, amount).used = u.used /\ ReleaseUsage(u, amount).reserved = u.reserved - amount
  BY UsageFacts
<1> QED BY <1>1 DEF Projected
=============================================================================
