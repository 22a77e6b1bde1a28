CONSTANTS
  Procs = {p1, p2}
  Trades <- MCTrades
  Forward <- MCForward
  Keys = {k}
  NoKey = NoKey
  Sides = {"BUY", "SELL"}
  Quantities = {1, 2}
  Price = 1
  Settlements <- MCSettlements
  Opening <- MCOpening
  Policy <- MCPolicy
  MaxOpen = 3
  MaxLots = 1
  MinBalance = 0
  NoLimit = NoLimit
  Clerk = {p}
  f = f
  Remits = {r1, r2, r3}
SPECIFICATION MCSpec
SYMMETRY Symmetry
INVARIANTS CallsKnowTheirRows StatusMatchesEntries AccountsMatchEntries UsageMatchesTrades RequestsAreWhole
PROPERTIES DecisionsAreFinal RemittancesStay
