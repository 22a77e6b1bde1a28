CONSTANTS
  Procs = {p1, p2}
  Requests = {w1}
  Keys = {}
  NoKey = NoKey
  NoLimit = NoLimit
  Amounts = {1}
  InitialBalance = 4
  MinBalance = 1
  DailyLimit = 2
  MonthlyLimit = NoLimit
  Policy <- MCPolicy
  Days = 1
SPECIFICATION Spec
INVARIANT OneVoucherEach
