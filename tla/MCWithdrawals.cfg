CONSTANTS
  Procs = {p1, p2}
  Requests = {w1, w2}
  Keys = {k}
  NoKey = NoKey
  NoLimit = NoLimit
  Amounts = {1, 2}
  InitialBalance = 4
  MinBalance = 1
  DailyLimit = 2
  MonthlyLimit = NoLimit
  Policy <- MCPolicy
  Days = 2
SPECIFICATION Spec
SYMMETRY Symmetry
INVARIANT IInv
INVARIANTS StatusMatchesHolds AccountMatchesLedger UsageMatchesReservations LimitsRespected
INVARIANTS NoOverdraft HeldIsPayable OneRequestPerKey VoucherFollowsDebit
PROPERTIES DecisionsAreFinal ImplementsHolds
