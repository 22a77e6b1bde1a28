------------------------------ MODULE RowLocks ------------------------------
(***************************************************************************)
(* What the database gives to every service: transactions at READ          *)
(* COMMITTED that take row locks one by one and free them all at their     *)
(* end, and a detector that ends a circle of waiting transactions.  The    *)
(* modules that extend this one say what a step reads and writes.          *)
(***************************************************************************)
CONSTANT Procs   \* concurrent API calls

VARIABLES
  held,   \* the row locks each transaction holds
  tx      \* each call: its step, arguments, reads and uncommitted writes

Idle == [pc |-> "idle"]

At(p, pc) == tx[p].pc = pc

\* Mutants: one kind of row is read and written without its lock.
CanLockNoAccount(p, l) == l[1] = "account" \/ \A q \in Procs \ {p} : l \notin held[q]
CanLockNoUsage(p, l) == l[1] = "usage" \/ \A q \in Procs \ {p} : l \notin held[q]
CanLockNoKey(p, l) == l[1] = "key" \/ \A q \in Procs \ {p} : l \notin held[q]
CanLockNoRow(p, l) == l[1] = "row" \/ \A q \in Procs \ {p} : l \notin held[q]

CanLock(p, l) == \A q \in Procs \ {p} : l \notin held[q]

\* SELECT ... FOR UPDATE, UPDATE, or an insert under a unique index.
Lock(p, l, t) ==
  /\ CanLock(p, l)
  /\ held' = [held EXCEPT ![p] = @ \union {l}]
  /\ tx' = [tx EXCEPT ![p] = t]

\* A step without a lock.
Go(p, t) == tx' = [tx EXCEPT ![p] = t] /\ UNCHANGED held

\* COMMIT or ROLLBACK; the call goes on as t.
Leave(p, t) ==
  /\ held' = [held EXCEPT ![p] = {}]
  /\ tx' = [tx EXCEPT ![p] = t]

\* Mutant: an early return that keeps its locks.
FinishKeepingLocks(p) == Go(p, Idle)

Finish(p) == Leave(p, Idle)

\* p is one of a set of transactions that all wait for each other's locks;
\* Wanted(q) is the lock q waits for, if any.
Deadlocked(p, Wanted(_)) ==
  \E S \in SUBSET Procs :
    /\ p \in S
    /\ \A q \in S : Wanted(q) # {} /\ \A l \in Wanted(q) : \E r \in S \ {q} : l \in held[r]
=============================================================================
