----------------------------- MODULE MCRequests -----------------------------
(***************************************************************************)
(* Trades and Remittances.  A behaviour plays one of six scenes:           *)
(*   trades      two calls at a time on two spot trades                    *)
(*   forward     settlements, a spot trade and a gold lot                  *)
(*   serial      one call at a time on three trades, up to the limit       *)
(*   plain       two calls at a time, groups of two legs, no settlements   *)
(*   shared      two calls at a time, settlements between two users        *)
(*   legs        one call at a time, groups of two legs with settlements   *)
(* and, for SettledWithinAmount alone,                                     *)
(*   apart       settlements by two pairs of users who share no account    *)
(* The scenes of Trades differ in the calls that are made, those of        *)
(* Remittances are instances with constants of their own.                  *)
(***************************************************************************)
EXTENDS TradesInvariant, TLC

CONSTANTS
  Clerk,                  \* who calls one at a time
  Remits,                 \* ids of remittances and of spot trades
  f                       \* a forward trade

VARIABLES hold2, limitHold2, account2, usage2, held2, tx2, remit, paid, links, queued,   \* Remittances
          scene

remittanceVars == <<hold2, limitHold2, account2, usage2, held2, tx2, remit, paid, links, queued>>
allVars == <<vars, remittanceVars, scene>>

Symmetry == Permutations(Procs) \union Permutations(Remits)
UpTo(n) == [value |-> n, kycRequired |-> FALSE]

----------------------------------------------------------------------------
(* Trades: constants, and the calls of each scene *)

MCTrades == Remits \union {f}
MCForward == {f}
MCPolicy == [BUY |-> UpTo(3), SELL |-> UpTo(1)]
MCSettlements == {-3, 0, 3}
MCOpening ==
  LET row(n) == [balance |-> n, blocked |-> 0] IN
  [clientIRR |-> row(3), houseIRR |-> row(2), clientGold |-> row(1), houseGold |-> row(2)]

Running == {p \in Procs : tx[p].pc # "idle"}
OnTrades(n) == Cardinality({t \in Spot : trade[t].status # "none"} \union ({tx[p].t : p \in Running} \ {f})) <= n

TradesCall(t) == t.t # f /\ t.call \notin {"settle", "lot"} /\ t.row.quantity <= 1
ForwardCall(t) ==
  /\ t.call = "lot" => t.t = f
  /\ t.row.side = "BUY" /\ t.row.quantity <= 1 /\ t.row.key = NoKey
SerialCall(t) == t.t # f /\ t.row.side = "BUY" /\ t.row.key = NoKey

----------------------------------------------------------------------------
Between == {1, 2} \X {1, 2}

Plain == INSTANCE RemittancesInvariant WITH
  UserCount <- 2, Routes <- Between, Amounts <- {1}, Parts <- {}, MaxLegs <- 2,
  Opening <- 1, Policy <- UpTo(2),
  hold <- hold2, limitHold <- limitHold2, account <- account2, usage <- usage2, held <- held2, tx <- tx2

Shared == INSTANCE RemittancesInvariant WITH
  UserCount <- 2, Routes <- Between, Keys <- {}, Amounts <- {2}, Parts <- {1}, MaxLegs <- 1,
  Opening <- 2, Policy <- UpTo(2),
  hold <- hold2, limitHold <- limitHold2, account <- account2, usage <- usage2, held <- held2, tx <- tx2

Legs == INSTANCE RemittancesInvariant WITH
  Procs <- Clerk, UserCount <- 2, Routes <- Between, Keys <- {}, Amounts <- {1, 2}, Parts <- {1, 2}, MaxLegs <- 2,
  Opening <- 2, Policy <- UpTo(2),
  hold <- hold2, limitHold <- limitHold2, account <- account2, usage <- usage2, held <- held2, tx <- tx2

Apart == INSTANCE Remittances WITH
  UserCount <- 4, Routes <- {<<1, 2>>, <<3, 4>>}, Keys <- {}, Amounts <- {1}, Parts <- {1}, MaxLegs <- 1,
  Opening <- 1, Policy <- UpTo(3),
  hold <- hold2, limitHold <- limitHold2, account <- account2, usage <- usage2, held <- held2, tx <- tx2

ASSUME Shared!PartsAssumption /\ Shared!SharedAssumption /\ Legs!PartsAssumption /\ Legs!SharedAssumption
ASSUME Plain!ConstantsAssumption /\ Shared!ConstantsAssumption /\ Legs!ConstantsAssumption /\ Apart!RoutesAssumption

----------------------------------------------------------------------------
Unused == "unused"

NoRemittances ==
  /\ remit = Unused /\ paid = Unused /\ links = Unused /\ queued = Unused
  /\ hold2 = Unused /\ limitHold2 = Unused /\ account2 = Unused /\ usage2 = Unused /\ held2 = Unused /\ tx2 = Unused

\* In the scenes of Remittances the trades stay as they begin.
MCInit ==
  /\ Init
  /\ \/ scene \in {"trades", "forward", "serial"} /\ NoRemittances
     \/ scene = "plain" /\ Plain!Init
     \/ scene = "shared" /\ Shared!Init
     \/ scene = "legs" /\ Legs!Init

MCNext ==
  /\ UNCHANGED scene
  /\ \/ /\ scene \in {"trades", "forward", "serial"}
        /\ Next /\ UNCHANGED remittanceVars
        /\ CASE scene = "trades" -> OnTrades(2)' /\ \A p \in Running' : TradesCall(tx'[p])
             [] scene = "forward" -> OnTrades(1)' /\ \A p \in Running' : ForwardCall(tx'[p])
             [] scene = "serial" -> Cardinality(Running') <= 1 /\ \A p \in Running' : SerialCall(tx'[p])
     \/ /\ UNCHANGED vars
        /\ \/ scene = "plain" /\ Plain!Next
           \/ scene = "shared" /\ Shared!Next
           \/ scene = "legs" /\ Legs!Next

MCSpec == MCInit /\ [][MCNext]_allVars

\* One scene alone.
ForwardSpec == (scene = "forward" /\ MCInit) /\ [][MCNext]_allVars
ApartSpec ==
  /\ scene = "apart" /\ Apart!Init /\ Init
  /\ [][Apart!Next /\ UNCHANGED <<vars, scene>>]_allVars

----------------------------------------------------------------------------
\* What a call on a trade or a remittance knows and will commit agrees with the
\* rows, whether it has locked them (approve, reject, cancel, the accounts of a
\* group) or only read them (reverse, settle, the sources of a group).
CallsKnowTheirRows ==
  CASE scene = "plain" -> Plain!IInv
    [] scene = "shared" -> Shared!IInv /\ Shared!SharedInv
    [] scene = "legs" -> Legs!IInv /\ Legs!SharedInv
    [] OTHER -> IInv

\* A request, its reservations and its documents tell one story, an
\* idempotency key leaves one request, nobody pays what he does not have, and
\* the client stays within maxOpenTrades if calls do not overlap
\* (TradeAccessGuard).  Client and house entries of a forward trade cancel out.
\* While groups share an account, a remittance is settled within its amount,
\* closed when its links add up to it and listed as open before; a leg never
\* settles more than the money it moved; accounts and usage follow.
RequestsAreWhole ==
  CASE scene = "trades" -> OneTradePerKey /\ NoOverdraft
    [] scene = "forward" -> SettlementsBalance /\ NoOverdraft
    [] scene = "serial" -> OpenWithinMax
    [] scene = "plain" -> /\ Plain!StatusMatchesHolds /\ Plain!OneRemittancePerKey
                          /\ Plain!AccountsMatchRemittances /\ Plain!UsageMatchesRemittances /\ Plain!NoOverdraft
    [] scene = "shared" -> /\ Shared!SettledWithinAmount /\ Shared!StatusFollowsLinks /\ Shared!OpenIsListed
                           /\ Shared!AccountsMatchRemittances /\ Shared!NoOverdraft
    [] scene = "legs" -> /\ Legs!SettledWithinAmount /\ Legs!LegsCoverLinks
                         /\ Legs!AccountsMatchRemittances /\ Legs!NoOverdraft

\* A decided remittance without settlements stays as it is, also for calls that
\* were running.
RemittancesStay == [][scene = "plain" => Plain!KeepsDecisions]_allVars

\* "Settlement amount exceeds remaining balance of remittance": a remittance is
\* settled within its amount.
SettledWithinAmount == scene = "apart" => Apart!SettledWithinAmount
=============================================================================
