--------------------------- MODULE TahesabOutbox ---------------------------
(***************************************************************************)
(* The outbox to Tahesab, the external accounting system: the rows that    *)
(* the services queue after their commits, the cron job that sends them,   *)
(* the admin's retry, and the customers that UsersService,                 *)
(* CustomerGroupsAdminController and the resync queue.                     *)
(*                                                                         *)
(* A batch reads its PENDING rows once, without claiming them, and then    *)
(* sends and records them one by one.  @Cron starts the next batch whether *)
(* or not the last one has ended, so batches overlap even in one process.  *)
(* No row is locked between a read and a write, so each database call is a *)
(* step.  The correlation ids of edits hold a time in milliseconds and are *)
(* taken to be unique.                                                     *)
(***************************************************************************)
EXTENDS Naturals, Sequences, FiniteSets
LOCAL INSTANCE SequencesExt

CONSTANTS
  Workers,    \* batches that may run at a time
  Callers,    \* API calls that may run at a time
  Users,      \* users that have a Tahesab customer code
  Groups,     \* customer groups
  FirstGroup, \* the group a new user is in
  Limit,      \* rows per batch (50)
  MaxName,    \* bound on the edits of a user
  MaxRows,    \* bound on the rows queued
  MaxFaults   \* bound on failed sends, crashes and retries

GroupsAssumption == FirstGroup \in Groups
LimitAssumption == Limit \in Nat \ {0}

Methods == {"DoNewMoshtari", "DoEditMoshtari", "RemittanceVoucher", "otherVoucher"}
OutboxStatus == {"PENDING", "SUCCESS", "FAILED"}

VARIABLES
  user,     \* User rows: name (how often it was edited) and group
  outbox,   \* TahesabOutbox rows in the order of createdAt
  customer, \* what Tahesab knows of each user
  sent,     \* how often Tahesab has received each row
  batch,    \* each worker: the rows it read and has not recorded, and its step
  call,     \* each API call: its step, the user row it queues, and how
  faults    \* failed sends, crashes and retries so far

vars == <<user, outbox, customer, sent, batch, call, faults>>

NoUser == [name |-> 0, group |-> "none"]
Person == [name : 0..MaxName, group : Groups] \union {NoUser}
Row == [method : Methods, u : Users, payload : Person, status : OutboxStatus]
Idle == [pc |-> "idle"]
Sleeping == [pc |-> "sleep", rows |-> <<>>]

TypeOK ==
  /\ user \in [Users -> Person]
  /\ outbox \in Seq(Row) /\ Len(outbox) <= MaxRows
  /\ customer \in [Users -> Person]
  /\ sent \in [1..MaxRows -> Nat]
  /\ batch \in [Workers -> [pc : {"sleep", "send", "succeed", "fail"}, rows : Seq(1..MaxRows)]]
  /\ call \in [Callers -> {Idle} \union [pc : {"read", "find", "enqueue"}, method : Methods, u : Users, as : Person]]
  /\ faults \in 0..MaxFaults

Init ==
  /\ user = [u \in Users |-> NoUser]
  /\ outbox = <<>>
  /\ customer = [u \in Users |-> NoUser]
  /\ sent = [r \in 1..MaxRows |-> 0]
  /\ batch = [w \in Workers |-> Sleeping]
  /\ call = [c \in Callers |-> Idle]
  /\ faults = 0

Room == Len(outbox) < MaxRows
Fault == faults < MaxFaults /\ faults' = faults + 1

----------------------------------------------------------------------------
(* Users: a committed write, then the tail that queues a customer document *)

Queue(c, pc, method, u, as) == call' = [call EXCEPT ![c] = [pc |-> pc, method |-> method, u |-> u, as |-> as]]

\* UsersService.create
CreateUser(c, u) ==
  /\ call[c] = Idle /\ user[u] = NoUser
  /\ user' = [user EXCEPT ![u] = [name |-> 0, group |-> FirstGroup]]
  /\ Queue(c, "read", "DoNewMoshtari", u, NoUser)
  /\ UNCHANGED <<outbox, customer, sent, batch, faults>>

\* UsersService.updateUser
UpdateUser(c, u) ==
  /\ call[c] = Idle /\ user[u] # NoUser /\ user[u].name < MaxName
  /\ user' = [user EXCEPT ![u].name = @ + 1]
  /\ Queue(c, "read", "DoEditMoshtari", u, NoUser)
  /\ UNCHANGED <<outbox, customer, sent, batch, faults>>

\* enqueueTahesabOnCreate and enqueueTahesabOnEdit read the user again.
ReadUser(c) ==
  /\ call[c].pc = "read"
  /\ Queue(c, "find", call[c].method, call[c].u, user[call[c].u])
  /\ UNCHANGED <<user, outbox, customer, sent, batch, faults>>

\* A row with the method and the correlation id is there.
Known(method, u) ==
  method = "DoNewMoshtari" /\ \E r \in 1..Len(outbox) : outbox[r].method = method /\ outbox[r].u = u

\* enqueueOnce
Find(c) ==
  /\ call[c].pc = "find"
  /\ call' = [call EXCEPT ![c] = IF Known(@.method, @.u) THEN Idle ELSE [@ EXCEPT !.pc = "enqueue"]]
  /\ UNCHANGED <<user, outbox, customer, sent, batch, faults>>

Enqueue(c) ==
  LET t == call[c] IN
  /\ t.pc = "enqueue"
  /\ Room
  /\ outbox' = Append(outbox, [method |-> t.method, u |-> t.u, payload |-> t.as, status |-> "PENDING"])
  /\ call' = [call EXCEPT ![c] = Idle]
  /\ UNCHANGED <<user, customer, sent, batch, faults>>

\* moveUsers with one user: the payload is the user as read before the
\* update, with the new group.
MoveUser(c, u, g) ==
  /\ call[c] = Idle /\ user[u] # NoUser /\ user[u].group # g
  /\ user' = [user EXCEPT ![u].group = g]
  /\ Queue(c, "enqueue", "DoEditMoshtari", u, [user[u] EXCEPT !.group = g])
  /\ UNCHANGED <<outbox, customer, sent, batch, faults>>

\* resyncUser and resyncGroupUsers, per user
Resync(c, u) ==
  /\ call[c] = Idle /\ user[u] # NoUser
  /\ Queue(c, "enqueue", "DoEditMoshtari", u, user[u])
  /\ UNCHANGED <<user, outbox, customer, sent, batch, faults>>

\* A voucher of a deposit, withdrawal, trade, remittance or custody movement.
EnqueueVoucher(method, u) ==
  /\ Room
  /\ outbox' = Append(outbox, [method |-> method, u |-> u, payload |-> NoUser, status |-> "PENDING"])
  /\ UNCHANGED <<user, customer, sent, batch, call, faults>>

\* The process stops between a commit and the rows it still had to queue.
CrashCall(c) ==
  /\ call[c] # Idle
  /\ Fault
  /\ call' = [call EXCEPT ![c] = Idle]
  /\ UNCHANGED <<user, outbox, customer, sent, batch>>

----------------------------------------------------------------------------
(* processBatch *)

\* Mutant: newest first.
PendingNewest == Reverse(SelectSeq([r \in 1..Len(outbox) |-> r], LAMBDA r : outbox[r].status = "PENDING"))

\* nextRetryAt of a PENDING row has always passed.
Pending == SelectSeq([r \in 1..Len(outbox) |-> r], LAMBDA r : outbox[r].status = "PENDING")

First(n, s) == SubSeq(s, 1, IF Len(s) < n THEN Len(s) ELSE n)

\* Mutant: take the oldest rows, then leave out those that are not PENDING.
PickWindow(w) ==
  LET window == SelectSeq(First(Limit, [r \in 1..Len(outbox) |-> r]), LAMBDA r : outbox[r].status = "PENDING") IN
  /\ batch[w] = Sleeping
  /\ window # <<>>
  /\ batch' = [batch EXCEPT ![w] = [pc |-> "send", rows |-> window]]
  /\ UNCHANGED <<user, outbox, customer, sent, call, faults>>

Pick(w) ==
  /\ batch[w] = Sleeping
  /\ Pending # <<>>
  /\ batch' = [batch EXCEPT ![w] = [pc |-> "send", rows |-> First(Limit, Pending)]]
  /\ UNCHANGED <<user, outbox, customer, sent, call, faults>>

\* dispatch knows two methods that are ever queued; a RemittanceVoucher comes
\* back to it as a cash or bank voucher, which it does not know.
Dispatched == {"DoNewMoshtari", "DoEditMoshtari"}

\* Tahesab receives the row.
Receive(r) ==
  /\ sent' = [sent EXCEPT ![r] = @ + 1]
  /\ customer' = [customer EXCEPT ![outbox[r].u] = outbox[r].payload]

\* dispatch returns, without a call when it does not know the method.
Send(w) ==
  LET r == Head(batch[w].rows) IN
  /\ batch[w].pc = "send"
  /\ batch' = [batch EXCEPT ![w].pc = "succeed"]
  /\ IF outbox[r].method \in Dispatched THEN Receive(r) ELSE UNCHANGED <<sent, customer>>
  /\ UNCHANGED <<user, outbox, call, faults>>

\* dispatch throws: the call was refused, or its answer lost.
SendFails(w) ==
  LET r == Head(batch[w].rows) IN
  /\ batch[w].pc = "send"
  /\ outbox[r].method \in Dispatched
  /\ Fault
  /\ batch' = [batch EXCEPT ![w].pc = "fail"]
  /\ Receive(r) \/ UNCHANGED <<sent, customer>>
  /\ UNCHANGED <<user, outbox, call>>

After(w) == IF Len(batch[w].rows) = 1 THEN Sleeping
                                      ELSE [pc |-> "send", rows |-> Tail(batch[w].rows)]

\* Mutant: the row is marked SUCCESS although dispatch threw.
RecordedSuccess(w) == "SUCCESS"

\* Mutant: the row keeps its status.
RecordedNothing(w) == "PENDING"

Recorded(w) == IF batch[w].pc = "succeed" THEN "SUCCESS" ELSE "FAILED"

\* The update of the row, by id, after the send or in the catch block.
\* No method that is sent returns a factor code, so no remittance changes.
Record(w) ==
  /\ batch[w].pc \in {"succeed", "fail"}
  /\ outbox' = [outbox EXCEPT ![Head(batch[w].rows)].status = Recorded(w)]
  /\ batch' = [batch EXCEPT ![w] = After(w)]
  /\ UNCHANGED <<user, customer, sent, call, faults>>

CrashWorker(w) ==
  /\ batch[w] # Sleeping
  /\ Fault
  /\ batch' = [batch EXCEPT ![w] = Sleeping]
  /\ UNCHANGED <<user, outbox, customer, sent, call>>

\* retryOutbox does not look at the status.
Retry(r) ==
  /\ r \in 1..Len(outbox)
  /\ Fault
  /\ outbox' = [outbox EXCEPT ![r].status = "PENDING"]
  /\ UNCHANGED <<user, customer, sent, batch, call>>

----------------------------------------------------------------------------
Worker(w) == Pick(w) \/ Send(w) \/ Record(w)
Caller(c) == ReadUser(c) \/ Find(c) \/ Enqueue(c)

Next ==
  \/ \E c \in Callers :
       \/ Caller(c) \/ CrashCall(c)
       \/ \E u \in Users : CreateUser(c, u) \/ UpdateUser(c, u) \/ Resync(c, u)
       \/ \E u \in Users, g \in Groups : MoveUser(c, u, g)
  \/ \E u \in Users, m \in {"RemittanceVoucher", "otherVoucher"} : EnqueueVoucher(m, u)
  \/ \E w \in Workers : Worker(w) \/ SendFails(w) \/ CrashWorker(w)
  \/ \E r \in 1..MaxRows : Retry(r)

Spec == Init /\ [][Next]_vars

----------------------------------------------------------------------------
(* Properties *)

\* A customer document that is marked SUCCESS has reached Tahesab, whatever
\* batches overlap, fail, crash or are retried.
SuccessWasSent ==
  \A r \in 1..Len(outbox) : outbox[r].status = "SUCCESS" /\ outbox[r].method \in Dispatched => sent[r] > 0

\* Each document is sent at most once by each batch that overlaps, and again
\* only after a failed send, a crash or a retry: a batch that has recorded a
\* row never meets it again.
SendsAreBounded == \A r \in 1..MaxRows : sent[r] <= Cardinality(Workers) * (1 + faults)

\* One caller, one batch at a time and no fault: when everything queued has
\* been sent, Tahesab knows every user as the User row has it; the last
\* edit, move or create is the last one sent.
Quiet ==
  /\ \A c \in Callers : call[c] = Idle
  /\ \A w \in Workers : batch[w] = Sleeping
  /\ \A r \in 1..Len(outbox) : outbox[r].status = "SUCCESS"

CustomersFollowUsers == Quiet => customer = user

\* Queued and not tried yet.
Waiting(r) == r <= Len(outbox) /\ outbox[r].status = "PENDING"
=============================================================================
