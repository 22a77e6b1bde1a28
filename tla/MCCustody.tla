------------------------------ MODULE MCCustody ------------------------------
EXTENDS CustodyInvariant, TLC

MCOpening == [o \in Owners |-> 100]
MCPolicy == [value |-> 200, kycRequired |-> FALSE]
Symmetry == Permutations(Procs) \union Permutations(Movements) \union Permutations(Users)
=============================================================================
