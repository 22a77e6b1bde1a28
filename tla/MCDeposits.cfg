CONSTANTS
  Procs = {p1, p2}
  Deposits = {d1, d2}
  Amounts <- MCAmounts
  Opening <- MCOpening
  MaxSpent = 1
  MinBalance = 0
SPECIFICATION Spec
SYMMETRY Symmetry
INVARIANTS IInv StatusMatchesEntries AccountMatchesLedger
PROPERTY RefusalsStay
