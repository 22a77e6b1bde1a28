CONSTANTS
  Procs = {p1, p2}
  Users = {u1, u2}
  House = house
  Movements = {m1, m2}
  Kinds = {"DEPOSIT", "WITHDRAWAL"}
  Keys = {k}
  NoKey = NoKey
  NoLimit = NoLimit
  Weights = {1}
  Ayars = {375, 750}
  MinBalance = 0
  Opening <- MCOpening
  Policy <- MCPolicy
SPECIFICATION Spec
SYMMETRY Symmetry
INVARIANTS IInv AccountsMatchMovements UsageMatchesMovements
PROPERTIES DecisionsAreFinal ImplementsHolds
