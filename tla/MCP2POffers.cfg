CONSTANTS
  Procs = {p1, p2}
  Withdrawals = {w}
  WithdrawAmount <- MCLargeWithdrawal
  Deposits = {d}
  DepositAmount <- MCDepositAmount
  Allocations = {a1, a2, a3}
  Amounts = {1, 2}
  Keys = {}
  NoKey = NoKey
  NoLimit = NoLimit
  Mode = "BOTH"
  MaxItems = 2
  MaxFiles = 1
  MinBalance = 0
SPECIFICATION Spec
SYMMETRY Symmetry
INVARIANT OffersNotOversubscribed
