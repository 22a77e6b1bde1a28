CONSTANTS
  Procs = {p1, p2}
  Withdrawals = {w}
  WithdrawAmount <- MCWithdrawAmount
  Deposits = {d1, d2}
  DepositAmount <- MCDepositAmount
  Allocations = {a1, a2}
  Amounts = {1}
  Keys = {k}
  NoKey = NoKey
  NoLimit = NoLimit
  Mode = "BOTH"
  MaxItems = 2
  MaxFiles = 2
  MinBalance = 0
SPECIFICATION Spec
SYMMETRY Symmetry
INVARIANTS IInv MoneyIsConserved SettledWasConfirmed
PROPERTY EndsAreFinal
