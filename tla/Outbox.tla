------------------------------- MODULE Outbox -------------------------------
(***************************************************************************)
(* The table mq_outbox and the dispatchers of all backend instances that   *)
(* drain it (mq/OutboxDispatcher.cc, mq/OutboxPolicy.hh), publishing       *)
(* through mq/MqProducer.cc.                                               *)
(*                                                                         *)
(* A dispatcher works in one database transaction per tick: it takes the   *)
(* advisory lock, selects a batch FOR UPDATE, publishes each row and       *)
(* UPDATEs it; the transaction's destructor commits.  Publishing is not    *)
(* part of the transaction: whatever ends it otherwise (a process crash,   *)
(* an SQL error, a failed COMMIT, a lost database connection) undoes the   *)
(* UPDATEs and keeps the copies the broker already holds.                  *)
(***************************************************************************)
EXTENDS Integers, FiniteSets

CONSTANTS
  Rows,              \* ids of mq_outbox rows, in the order of created_at
  Instances,         \* backend processes, one dispatcher each
  None,              \* the advisory lock is free
  kMaxRetry,         \* OutboxPolicy::kMaxRetry, 5 in the code
  kBatchSize,        \* LIMIT of the selection, 50 in the code
  ConfirmedPublish,  \* does BasicPublish return only after the broker has the message
  MaxFaults          \* bound: transactions that end without COMMIT

ASSUME ParametersAssumption ==
  /\ Rows \subseteq Nat
  /\ None \notin Instances
  /\ kMaxRetry \in Nat \ {0}
  /\ kBatchSize \in Nat \ {0}
  /\ ConfirmedPublish \in BOOLEAN
  /\ MaxFaults \in Nat

VARIABLES
  status,   \* status[r], the committed column; Absent before the INSERT commits
  retry,    \* retry[r], the committed retry_count
  copies,   \* copies[r] of the row's message the broker has accepted
  lock,     \* holder of pg_try_advisory_xact_lock
  phase,    \* phase[i]: "idle", "scan", or "orphan" (its transaction is gone)
  todo,     \* todo[i]: rows of the batch not yet published
  sent,     \* sent[i]: rows with an uncommitted UPDATE to status 1
  failed,   \* failed[i]: rows with an uncommitted UPDATE of a failure
  faults    \* transactions that ended without COMMIT so far

table == <<status, retry>>
vars == <<status, retry, copies, lock, phase, todo, sent, failed, faults>>

Absent == -1
Pending == 0
Sent == 1
Failed == 2
Dead == 3
-----------------------------------------------------------------------------
(* OutboxPolicy *)

\* Mutant: retry_count is compared before it is incremented.
nextStatusOnFailureMutant(before) == IF before >= kMaxRetry THEN Dead ELSE Failed

nextStatusOnFailure(before) == IF before + 1 >= kMaxRetry THEN Dead ELSE Failed

\* Mutant: WHERE status = 0, which forgets the failures.
EligibleMutant == {r \in Rows : status[r] = Pending}

\* WHERE status = 0 OR (status = 2 AND retry_count < kMaxRetry)
Eligible ==
  {r \in Rows : status[r] = Pending \/ (status[r] = Failed /\ retry[r] < kMaxRetry)}

\* ORDER BY created_at LIMIT kBatchSize
Batches ==
  {b \in SUBSET Eligible :
     /\ Cardinality(b) <= kBatchSize
     /\ b # Eligible => Cardinality(b) = kBatchSize
     /\ \A r \in b, q \in Eligible \ b : r < q}

\* The row of i's batch that is published next.
Current(i, r) == r \in todo[i] /\ \A q \in todo[i] : r <= q

\* The database side of i's transaction is over.
Release(i) ==
  /\ lock' = IF lock = i THEN None ELSE lock
  /\ sent' = [sent EXCEPT ![i] = {}]
  /\ failed' = [failed EXCEPT ![i] = {}]
-----------------------------------------------------------------------------
Init ==
  /\ status = [r \in Rows |-> Absent]
  /\ retry = [r \in Rows |-> 0]
  /\ copies = [r \in Rows |-> 0]
  /\ lock = None
  /\ phase = [i \in Instances |-> "idle"]
  /\ todo = [i \in Instances |-> {}]
  /\ sent = [i \in Instances |-> {}]
  /\ failed = [i \in Instances |-> {}]
  /\ faults = 0

\* A business transaction with kEnqueueSql in it commits.
Enqueue(r) ==
  /\ status[r] = Absent
  /\ status' = [status EXCEPT ![r] = Pending]
  /\ UNCHANGED <<retry, copies, lock, phase, todo, sent, failed, faults>>

\* Mutant: tick without the advisory lock.
TickMutant(i) ==
  /\ phase[i] = "idle"
  /\ lock' = i
  /\ phase' = [phase EXCEPT ![i] = "scan"]
  /\ \E b \in Batches : todo' = [todo EXCEPT ![i] = b]
  /\ UNCHANGED <<status, retry, copies, sent, failed, faults>>

\* tick up to the selection.  g_running keeps a second tick of the instance
\* out, the advisory lock every other instance's; where the lock is taken the
\* tick returns and changes nothing.
Tick(i) ==
  /\ phase[i] = "idle"
  /\ lock = None
  /\ lock' = i
  /\ phase' = [phase EXCEPT ![i] = "scan"]
  /\ \E b \in Batches : todo' = [todo EXCEPT ![i] = b]
  /\ UNCHANGED <<status, retry, copies, sent, failed, faults>>

\* Mutant: a publish whose result is not looked at: what came back is taken for success.
PublishOutcomesMutant == {<<TRUE, TRUE>>, <<FALSE, TRUE>>, <<TRUE, FALSE>>}

\* publishSync, as <<does the broker get a copy, does it return true>>.  A
\* connection that breaks before the broker's answer makes it return false
\* with the copy delivered.
PublishOutcomes ==
  {<<TRUE, TRUE>>, <<FALSE, FALSE>>, <<TRUE, FALSE>>}
    \cup (IF ConfirmedPublish THEN {} ELSE {<<FALSE, TRUE>>})

Publish(r, outcome) ==
  copies' = [copies EXCEPT ![r] = @ + IF outcome[1] THEN 1 ELSE 0]

\* One turn of tick's loop: publish, then the UPDATE inside the transaction.
PublishRow(i, r) ==
  /\ phase[i] = "scan"
  /\ Current(i, r)
  /\ \E outcome \in PublishOutcomes :
       /\ Publish(r, outcome)
       /\ sent' = [sent EXCEPT ![i] = IF outcome[2] THEN @ \cup {r} ELSE @]
       /\ failed' = [failed EXCEPT ![i] = IF outcome[2] THEN @ ELSE @ \cup {r}]
  /\ todo' = [todo EXCEPT ![i] = @ \ {r}]
  /\ UNCHANGED <<status, retry, lock, phase, faults>>

\* Mutant: a failure's UPDATE that forgets the increment of retry_count.
CommitMutant(i) ==
  /\ phase[i] = "scan"
  /\ todo[i] = {}
  /\ status' = [r \in Rows |-> IF r \in sent[i] THEN Sent
                               ELSE IF r \in failed[i] THEN nextStatusOnFailure(retry[r])
                               ELSE status[r]]
  /\ UNCHANGED retry
  /\ Release(i)
  /\ phase' = [phase EXCEPT ![i] = "idle"]
  /\ UNCHANGED <<copies, todo, faults>>

\* The destructor's COMMIT succeeds; the lock goes with the transaction.
Commit(i) ==
  /\ phase[i] = "scan"
  /\ todo[i] = {}
  /\ status' = [r \in Rows |-> IF r \in sent[i] THEN Sent
                               ELSE IF r \in failed[i] THEN nextStatusOnFailure(retry[r])
                               ELSE status[r]]
  /\ retry' = [r \in Rows |-> IF r \in failed[i] THEN retry[r] + 1 ELSE retry[r]]
  /\ Release(i)
  /\ phase' = [phase EXCEPT ![i] = "idle"]
  /\ UNCHANGED <<copies, todo, faults>>

\* The transaction is rolled back and the tick is over: the process crashed
\* and was restarted, a statement threw, or COMMIT failed.
Abort(i) ==
  /\ phase[i] = "scan"
  /\ faults < MaxFaults
  /\ faults' = faults + 1
  /\ Release(i)
  /\ phase' = [phase EXCEPT ![i] = "idle"]
  /\ todo' = [todo EXCEPT ![i] = {}]
  /\ UNCHANGED <<status, retry, copies>>

\* The server drops the connection while a publish is under way in its own
\* thread: rollback, and the lock is free, before the dispatcher notices.
LoseConnection(i) ==
  /\ phase[i] = "scan"
  /\ todo[i] # {}
  /\ faults < MaxFaults
  /\ faults' = faults + 1
  /\ Release(i)
  /\ phase' = [phase EXCEPT ![i] = "orphan"]
  /\ UNCHANGED <<status, retry, copies, todo>>

\* That publish ends; the UPDATE after it throws and the tick is over.
OrphanPublish(i, r) ==
  /\ phase[i] = "orphan"
  /\ Current(i, r)
  /\ \E outcome \in PublishOutcomes : Publish(r, outcome)
  /\ phase' = [phase EXCEPT ![i] = "idle"]
  /\ todo' = [todo EXCEPT ![i] = {}]
  /\ UNCHANGED <<status, retry, lock, sent, failed, faults>>

Next ==
  \/ \E r \in Rows : Enqueue(r)
  \/ \E i \in Instances :
       \/ Tick(i)
       \/ \E r \in Rows : PublishRow(i, r)
       \/ Commit(i)
       \/ Abort(i)
       \/ LoseConnection(i)
       \/ \E r \in Rows : OrphanPublish(i, r)

Spec == Init /\ [][Next]_vars

\* The timer of every instance fires every 2 s (runEvery), and a tick that is
\* under way is run to its end by its thread and its event loop.
Fairness ==
  /\ WF_vars(\E i \in Instances : Tick(i))
  /\ \A i \in Instances : /\ WF_vars(\E r \in Rows : PublishRow(i, r))
                          /\ WF_vars(\E r \in Rows : OrphanPublish(i, r))
                          /\ WF_vars(Commit(i))

FairSpec == Spec /\ Fairness
-----------------------------------------------------------------------------
(* Properties *)

\* Columns, lock and batches keep their types.
TypeOK ==
  /\ status \in [Rows -> {Absent, Pending, Sent, Failed, Dead}]
  /\ retry \in [Rows -> 0 .. kMaxRetry]
  /\ copies \in [Rows -> Nat]
  /\ lock \in Instances \cup {None}
  /\ phase \in [Instances -> {"idle", "scan", "orphan"}]
  /\ todo \in [Instances -> SUBSET Rows]
  /\ sent \in [Instances -> SUBSET Rows]
  /\ failed \in [Instances -> SUBSET Rows]
  /\ faults \in 0 .. MaxFaults

\* OutboxDispatcher.hh:6: at any time only one instance scans.  It holds for
\* the transactions that can still commit, so no row is updated twice.
OneScanner ==
  \A i, j \in Instances : phase[i] = "scan" /\ phase[j] = "scan" => i = j

\* At least once: a row whose status 1 is committed, or about to be, has
\* reached the broker, however many ticks failed or lost their transaction.
SentReachedBroker ==
  \A r \in Rows :
    status[r] = Sent \/ (\E i \in Instances : r \in sent[i]) => copies[r] > 0

\* A row is given up after exactly kMaxRetry failures that were committed, and
\* is retried until then: the WHERE clause of the selection and the policy of
\* the failure UPDATE agree at the boundary.
DeadExactlyAtLimit ==
  \A r \in Rows :
    /\ status[r] = Dead <=> retry[r] = kMaxRetry
    /\ status[r] = Failed => retry[r] > 0
    /\ status[r] \in {Pending, Failed} <=> r \in Eligible

\* Every copy beyond the first is owed to a failure that was recorded or to a
\* transaction that was lost; without either a message is delivered once.
DuplicatesAccounted ==
  \A r \in Rows :
    copies[r] <= retry[r] + faults
                 + (IF status[r] = Sent THEN 1 ELSE 0)
                 + (IF \E i \in Instances : r \in sent[i] \cup failed[i] THEN 1 ELSE 0)

\* Every row that was enqueued is eventually marked sent or given up, although
\* dispatchers crash, lose their connection, or fail to publish meanwhile.
Settled ==
  \A r \in Rows : status[r] = Pending ~> status[r] \in {Sent, Dead}

\* The outbox as its clients see it.
Promise ==
  INSTANCE Delivery WITH
    Messages <- Rows,
    fate <- [r \in Rows |-> IF status[r] = Absent THEN "none"
                            ELSE IF status[r] = Sent THEN "sent"
                            ELSE IF status[r] = Dead THEN "dead" ELSE "pending"]

\* The dispatchers implement the promise: at-least-once, final, explicit.
KeepsPromise == Promise!Spec
=============================================================================
