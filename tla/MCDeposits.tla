----------------------------- MODULE MCDeposits -----------------------------
EXTENDS DepositsInvariant, TLC

MCAmounts == {1, 2}
MCOpening == [balance |-> 1, blocked |-> 1]
Symmetry == Permutations(Procs) \union Permutations(Deposits)
=============================================================================
