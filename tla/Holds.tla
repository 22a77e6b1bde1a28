------------------------------- MODULE Holds -------------------------------
(***************************************************************************)
(* What the reservation services promise together, without rows, locks or  *)
(* transactions: an amount that was available is put on hold once, and a   *)
(* hold ends once, either paid (the money leaves) or returned (it is       *)
(* available again).                                                       *)
(***************************************************************************)
EXTENDS Integers

CONSTANTS Ids, Amounts, Initial

VARIABLES
  phase,      \* each request: free, held, paid or returned
  amount,     \* the amount it holds or held
  available   \* what a new hold may take

Init ==
  /\ phase = [i \in Ids |-> "free"]
  /\ amount = [i \in Ids |-> 0]
  /\ available = Initial

Hold(i) ==
  \E a \in Amounts :
    /\ phase[i] = "free"
    /\ a <= available
    /\ phase' = [phase EXCEPT ![i] = "held"]
    /\ amount' = [amount EXCEPT ![i] = a]
    /\ available' = available - a

Pay(i) ==
  /\ phase[i] = "held"
  /\ phase' = [phase EXCEPT ![i] = "paid"]
  /\ UNCHANGED <<amount, available>>

Return(i) ==
  /\ phase[i] = "held"
  /\ phase' = [phase EXCEPT ![i] = "returned"]
  /\ available' = available + amount[i]
  /\ UNCHANGED amount

Next == \E i \in Ids : Hold(i) \/ Pay(i) \/ Return(i)

Spec == Init /\ [][Next]_<<phase, amount, available>>
=============================================================================
