--------------------------- MODULE MCWithdrawals ---------------------------
EXTENDS WithdrawalsInvariant, TLC
CONSTANTS DailyLimit, MonthlyLimit
MCPolicy == [period \in Periods |->
               [value |-> IF period = "DAILY" THEN DailyLimit ELSE MonthlyLimit, kycRequired |-> FALSE]]
Symmetry == Permutations(Procs) \union Permutations(Requests)
=============================================================================
